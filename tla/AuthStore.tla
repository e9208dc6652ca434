----------------------------- MODULE AuthStore -----------------------------
(***************************************************************************)
(* The AuthStore port of packages/auth and its adapters: the tables of the *)
(* SQL stores (auth-pg and auth-sqlite run the same statements) and the    *)
(* maps of the in-memory store.  An operator below is one atomic operation *)
(* of the port: it maps the store before it to the store after it.         *)
(*                                                                         *)
(* Rows are numbered in order of creation, which stands for their random   *)
(* ids and token hashes.  One tenant: every key starts with the tenant id. *)
(* Passwords are numbers (two equal numbers are the same password), TOTP   *)
(* secrets are numbers too.  A deleted or expired session keeps its number *)
(* with live = FALSE.                                                      *)
(***************************************************************************)
EXTENDS Integers, Sequences, FiniteSets

CONSTANTS Emails, Subjects, NoEmail

VARIABLES
    db,          \* the store
    calls,       \* slot -> the call of the service that runs in it
    scenario,    \* the operations of this behaviour and the store it starts from
    mailed,      \* ids of the e-mail tokens that reached a mailbox
    proven,      \* history: addresses whose owner proved control of them
    accepted,    \* history: single-use credentials accepted so far
    acceptances, \* history: how often one was accepted
    ended        \* history: sessions signed out or revoked

authVars == <<db, calls, scenario, mailed, proven, accepted, acceptances, ended>>

EmptyStore ==
    [users      |-> <<>>,   \* [email, verified, origin]
     passwords  |-> <<>>,   \* by user: current password, 0 when the account has none
     tokens     |-> <<>>,   \* e-mail tokens ever issued: [purpose, email, user, live]
     sessions   |-> <<>>,   \* [user, elevated, pending, live]
     states     |-> <<>>,   \* OAuth states: TRUE while unused
     identities |-> {},     \* <<subject, user>>
     challenges |-> <<>>,   \* passkey challenges: [purpose, user, live]
     passkeys   |-> {},     \* [id, user, counter]
     totp       |-> <<>>]   \* by user, see NoTotp

NoTotp == [secret |-> 0, sealed |-> TRUE, confirmed |-> FALSE, codes |-> {}, fails |-> 0,
           locked |-> FALSE, last |-> 0]

\* The rows of the tables
Addresses == Emails \cup {NoEmail}
Purposes == {"email-verification", "password-reset", "magic-link"}

User == [email : Addresses, verified : BOOLEAN, origin : {"password", "magic-link", "oauth"}]
OneTimeToken == [purpose : Purposes, email : Addresses, user : Nat, live : BOOLEAN]
Session == [user : Nat, elevated : BOOLEAN, pending : BOOLEAN, live : BOOLEAN]
Challenge == [purpose : {"registration", "authentication"}, user : Nat, live : BOOLEAN]
Passkey == [id : Nat, user : Nat, counter : Nat]
Totp == [secret : Nat, sealed : BOOLEAN, confirmed : BOOLEAN, codes : SUBSET (Nat \X Nat), fails : Nat,
         locked : BOOLEAN, last : Nat]

Store == [users : Seq(User), passwords : Seq(Nat), tokens : Seq(OneTimeToken), sessions : Seq(Session),
          states : Seq(BOOLEAN), identities : SUBSET (Subjects \X Nat), challenges : Seq(Challenge),
          passkeys : SUBSET Passkey, totp : Seq(Totp)]

UserByEmail(d, e) == {u \in DOMAIN d.users : d.users[u].email = e /\ e /= NoEmail}

-----------------------------------------------------------------------------
(* Users and passwords.  (tenant, email) is unique for users with an email *)

EmailIsFree(d, e) == UserByEmail(d, e) = {}

InsertUser(d, e, verified, origin, password) ==
    [d EXCEPT !.users = Append(@, [email |-> e, verified |-> verified, origin |-> origin]),
              !.passwords = Append(@, password), !.totp = Append(@, NoTotp)]

\* createPasswordUser: the user and the credential in one transaction
CreatePasswordUser(d, e, password) == InsertUser(d, e, FALSE, "password", password)

CreateMagicLinkUser(d, e) == InsertUser(d, e, TRUE, "magic-link", 0)

SetEmailVerified(d, u) == [d EXCEPT !.users[u].verified = TRUE]

RevokeUserSessions(d, u) ==
    [d EXCEPT !.sessions = [s \in DOMAIN @ |-> IF @[s].user = u THEN [@[s] EXCEPT !.live = FALSE] ELSE @[s]]]

\* replacePasswordAndRevokeSessions: both in one transaction
ReplacePassword(d, u, password) == [RevokeUserSessions(d, u) EXCEPT !.passwords[u] = password]

-----------------------------------------------------------------------------
(* E-mail tokens: one row per purpose and address, the newest wins         *)

PutOneTimeToken(d, purpose, e, u) ==
    [d EXCEPT !.tokens = Append([t \in DOMAIN @ |-> IF @[t].purpose = purpose /\ @[t].email = e
                                                     THEN [@[t] EXCEPT !.live = FALSE] ELSE @[t]],
                                [purpose |-> purpose, email |-> e, user |-> u, live |-> TRUE])]

\* consumeOneTimeToken: DELETE ... RETURNING, an expired one is deleted and not returned
ConsumeOneTimeToken(d, t) == [d EXCEPT !.tokens[t].live = FALSE]

-----------------------------------------------------------------------------
(* Sessions                                                                *)

InsertSession(d, u, pending) ==
    [d EXCEPT !.sessions = Append(@, [user |-> u, elevated |-> ~pending, pending |-> pending, live |-> TRUE])]

RevokeSession(d, s) == [d EXCEPT !.sessions[s].live = FALSE]

\* Mutant: the row is written whether or not it is there.
ElevateSessionUpsert(d, s) == [d EXCEPT !.sessions[s].elevated = TRUE, !.sessions[s].live = TRUE]

\* elevateSession: an UPDATE, which finds nothing once the session is gone
ElevateSession(d, s) == IF d.sessions[s].live THEN [d EXCEPT !.sessions[s].elevated = TRUE] ELSE d

-----------------------------------------------------------------------------
(* OAuth states and identities.  (tenant, provider, subject) is unique     *)

PutOAuthState(d) == [d EXCEPT !.states = Append(@, TRUE)]

ConsumeOAuthState(d, n) == [d EXCEPT !.states[n] = FALSE]

OwnersOf(d, subject) == {u \in DOMAIN d.users : <<subject, u>> \in d.identities}

\* createOAuthUser: user and identity in one transaction, so a conflict leaves neither
CreateOAuthUser(d, e, subject) ==
    [InsertUser(d, e, e /= NoEmail, "oauth", 0) EXCEPT !.identities = @ \cup {<<subject, Len(d.users) + 1>>}]

AddOAuthIdentity(d, u, subject) == [d EXCEPT !.identities = @ \cup {<<subject, u>>}]

RemoveOAuthIdentity(d, u) == [d EXCEPT !.identities = {i \in @ : i[2] /= u}]

-----------------------------------------------------------------------------
(* Passkeys                                                                *)

PutPasskeyChallenge(d, purpose, u) ==
    [d EXCEPT !.challenges = Append(@, [purpose |-> purpose, user |-> u, live |-> TRUE])]

ConsumePasskeyChallenge(d, c) == [d EXCEPT !.challenges[c].live = FALSE]

AddPasskey(d, id, u, counter) == [d EXCEPT !.passkeys = @ \cup {[id |-> id, user |-> u, counter |-> counter]}]

RemovePasskey(d, id, u) == [d EXCEPT !.passkeys = {k \in @ : ~(k.id = id /\ k.user = u)}]

\* updatePasskeyCounter: lands only on the counter the caller read
CounterMoves(d, id, expected) == \E k \in d.passkeys : k.id = id /\ k.counter = expected

UpdatePasskeyCounter(d, id, counter) ==
    [d EXCEPT !.passkeys = {IF k.id = id THEN [k EXCEPT !.counter = counter] ELSE k : k \in @}]

-----------------------------------------------------------------------------
(* Second factor: one row per user                                         *)

PutTotpSecret(d, u, secret) == [d EXCEPT !.totp[u] = [NoTotp EXCEPT !.secret = secret]]

\* confirmTotp: only while unconfirmed, whatever secret is on the row by now
ConfirmTotp(d, u, codes) ==
    IF d.totp[u].secret = 0 \/ d.totp[u].confirmed THEN d
    ELSE [d EXCEPT !.totp[u].confirmed = TRUE, !.totp[u].codes = codes,
                   !.totp[u].fails = 0, !.totp[u].locked = FALSE]

RemoveTotp(d, u) == [d EXCEPT !.totp[u] = NoTotp]

\* recordTotpFailure: increment and lock in one statement
RecordTotpFailure(d, u, threshold) ==
    IF d.totp[u].secret = 0 THEN d
    ELSE LET r == d.totp[u] IN
         [d EXCEPT !.totp[u].fails = IF r.fails < threshold THEN r.fails + 1 ELSE r.fails,
                   !.totp[u].locked = r.locked \/ r.fails + 1 >= threshold]

ResetTotpFailures(d, u) == [d EXCEPT !.totp[u].fails = 0, !.totp[u].locked = FALSE]

\* markTotpStepUsed: lands on a row whose last used step is older
StepIsNew(d, u, step) == d.totp[u].secret /= 0 /\ d.totp[u].last < step

MarkTotpStepUsed(d, u, step) == [d EXCEPT !.totp[u].last = step]

\* Mutant: the list is written back without comparing it.
CodesAreAsReadUnchecked(d, u, codes) == d.totp[u].secret /= 0

\* consumeRecoveryCode of the SQL stores: the UPDATE lands on the list as it was read
CodesAreAsRead(d, u, codes) == d.totp[u].secret /= 0 /\ d.totp[u].codes = codes

SetRecoveryCodes(d, u, codes) == [d EXCEPT !.totp[u].codes = codes]

\* replaceTotpSecret: unconditional, used to seal a secret stored in the clear
ReplaceTotpSecret(d, u, secret) ==
    IF d.totp[u].secret = 0 THEN d ELSE [d EXCEPT !.totp[u].secret = secret, !.totp[u].sealed = TRUE]
=============================================================================
