------------------------- MODULE AuthServiceProofs -------------------------
(***************************************************************************)
(* Proofs about AuthService.  For every set of addresses, subjects, slots, *)
(* passwords, steps and scenarios, and any number of concurrent calls:     *)
(*                                                                         *)
(*   AccountsHold      []AccountsAreSound                                  *)
(*   SignOutHolds      []SignOutIsFinal                                    *)
(*   IssuedOnce        no mailed token, OAuth state, passkey challenge or  *)
(*                     assertion is accepted a second time                 *)
(*   SessionsHold      []SessionsAreEarned        under EnrolmentsLast     *)
(*   CodesOnce         AcceptsOnce                under EnrolmentsLast     *)
(*                                                                         *)
(* The difficulty is what a call knows: it read the store some steps ago.  *)
(* CallOK says what is still true of it whatever other calls have done     *)
(* since (a consumed challenge stays consumed, the address of a user never *)
(* changes, a proven address stays proven), and KnowledgeLasts that a      *)
(* store that only grows keeps it.  With it, the inductive invariant Inv   *)
(* joins: the types of the tables (TypeOK); the rows that name users there *)
(* are, and the property of accounts (AccountsInv); what was accepted is   *)
(* not in the store any more, or not as it was (OnceInv); revoked sessions *)
(* (SignOutIsFinal); and the shape of enrolments (RowsInv).  The proof     *)
(* goes by what a step writes: each group of actions is reduced to one     *)
(* table (SessionsWritten, TokensWritten, UsersWritten, StatesWritten,     *)
(* IdentitiesStep, KeysStep, RowStep), for which the invariant is shown    *)
(* once.                                                                   *)
(*                                                                         *)
(* Codes of second factors need a hypothesis, EnrolmentsLast: storing a    *)
(* secret (putTotpSecret is an upsert) under a call that has matched a     *)
(* code of the one before would let it claim a step of the new row.        *)
(* FactorInv then ties what was accepted to the row (no step later than    *)
(* the last one used, no code that is still on the list) and CountInv      *)
(* counts accepted codes, calls that won with one, sessions they raised.   *)
(***************************************************************************)
EXTENDS AuthService, FiniteSetTheorems, SequenceTheorems, TLAPS

\* The steps of a call that acts on an account; among them, those of a call that
\* works on a code of an enrolment, and of one that checks or has checked it.
CodePcs == {"step", "match", "select", "swap", "reread", "failure", "seal", "clear", "elevate", "remove"}
EnrolmentPcs == {"confirm", "spendstep"} \cup CodePcs
AccountPcs == {"session", "insert", "user", "current", "replace", "verify", "link", "unlink", "addkey", "counter",
               "dropkey", "putsecret"} \cup EnrolmentPcs
RetryPcs == {"match", "select", "swap", "reread"}
ProfilePcs == {"identity", "target", "newuser", "link"}
LinkPcs == {"find", "create"}
Pcs == {"idle", "token", "send", "readkey"} \cup AccountPcs \cup ProfilePcs \cup LinkPcs

Call == [pc : Pcs, next : {"idle", "session", "elevate", "remove"}, user : Nat, email : Addresses \cup RecoveryCodes,
         purpose : Purposes \cup Subjects \cup {""}, sess : Nat, arg : Nat, set : SUBSET (Nat \X Nat), secret : Nat,
         sealed : BOOLEAN, tries : Int, flag : BOOLEAN]

\* A token names the account its address belongs to; only a magic link may name none.
ForAccount(d, purpose, email, user) ==
    /\ user = 0 => purpose = "magic-link"
    /\ user # 0 => user \in DOMAIN d.users /\ d.users[user].email = email

\* What a call knows is true of store d and of the addresses known to be proven, whatever happened since
\* it read it.
CallOK(d, known, c) ==
    /\ c.pc \in AccountPcs => c.user \in DOMAIN d.users
    /\ c.pc = "target" => c.user \in {0} \cup DOMAIN d.users
    /\ c.pc = "token" => c.email \in Addresses /\ c.purpose \in Purposes /\ ForAccount(d, c.purpose, c.email, c.user)
    /\ c.pc = "send" => c.arg \in DOMAIN d.tokens
    /\ c.pc \in LinkPcs => c.email \in Addresses \cap known
    /\ c.pc \in ProfilePcs => c.email \in Addresses \cap (known \cup {NoEmail}) /\ c.purpose \in Subjects
    /\ c.pc = "verify" => d.users[c.user].email \in known \cup {NoEmail}
    /\ c.pc \in LinkPcs \cup {"verify"} => c.next \in {"idle", "session"}
    /\ c.pc = "identity" => c.sess \in {0} \cup DOMAIN d.sessions
    /\ c.pc \in CodePcs => c.sess \in DOMAIN d.sessions
    /\ c.pc = "addkey" => c.arg \in DOMAIN d.challenges /\ ~d.challenges[c.arg].live
    /\ c.pc \in {"readkey", "counter"} => c.arg \in 0..Len(d.challenges) /\ c.secret \in Counters
    /\ c.pc = "counter" => c.tries \in Nat /\ (c.tries > 0 => c.secret > c.tries)
    /\ c.pc \in RetryPcs => c.email \in RecoveryCodes
    /\ c.pc \in EnrolmentPcs \cup {"putsecret"} => c.secret \in Secrets
    /\ c.pc \in {"step", "confirm", "spendstep"} => c.arg \in Steps

CallsInv == \A p \in Slots : CallOK(db, proven, calls[p])

\* Every user has a row of passwords and one of the second factor.
WholeStore(d) == d \in Store /\ Len(d.passwords) = Len(d.users) /\ Len(d.totp) = Len(d.users)

TypeOK ==
    /\ WholeStore(db)
    /\ Len(db.tokens) <= MaxTokens /\ Len(db.states) <= MaxStates /\ Len(db.challenges) <= MaxChallenges
    /\ calls \in [Slots -> Call]
    /\ mailed \subseteq DOMAIN db.tokens /\ ended \subseteq DOMAIN db.sessions
    /\ accepted \subseteq Credentials /\ acceptances \in Nat

\* Rows belong to users there are.
RowsAreOfUsers ==
    /\ \A s \in DOMAIN db.sessions : db.sessions[s].user \in DOMAIN db.users
    /\ \A t \in DOMAIN db.tokens : ForAccount(db, db.tokens[t].purpose, db.tokens[t].email, db.tokens[t].user)
    /\ \A k \in db.passkeys : k.user \in DOMAIN db.users
    /\ \A i \in db.identities : i[2] \in DOMAIN db.users

AccountsInv == RowsAreOfUsers /\ AccountsAreSound

\* The id of a passkey is that of the challenge it was registered with, which is used up.
KeyId(i) == i # 0 => i \in DOMAIN db.challenges /\ ~db.challenges[i].live

\* An accepted assertion is not ahead of the counter of its passkey, and a passkey about to be stored has an
\* id of its own.
KeysOnce ==
    /\ \A i, n : <<"assertion", i, n>> \in accepted =>
          KeyId(i) /\ \A k \in db.passkeys : k.id = i => n <= k.counter
    /\ \A k \in db.passkeys : KeyId(k.id) /\ \A l \in db.passkeys : k.id = l.id => k = l
    /\ \A p \in Slots : calls[p].pc = "addkey" =>
          /\ \A k \in db.passkeys : k.id # calls[p].arg
          /\ \A n : <<"assertion", calls[p].arg, n>> \notin accepted
          /\ \A q \in Slots \ {p} : calls[q].pc = "addkey" => calls[q].arg # calls[p].arg

\* What was accepted is not in the store any more, or not as it was.
OnceInv ==
    /\ \A t : <<"mail", t>> \in accepted => t \in DOMAIN db.tokens /\ ~db.tokens[t].live
    /\ \A n : <<"state", n>> \in accepted => n \in DOMAIN db.states /\ ~db.states[n]
    /\ \A c : <<"challenge", c>> \in accepted => c \in DOMAIN db.challenges /\ ~db.challenges[c].live
    /\ KeysOnce

ServiceInv == TypeOK /\ CallsInv /\ AccountsInv /\ OnceInv /\ SignOutIsFinal

\* A function on the positions of a sequence is a sequence of its length.
LEMMA SameLength ==
  ASSUME NEW S, NEW s \in Seq(S), NEW f \in [DOMAIN s -> S]
  PROVE  f \in Seq(S) /\ Len(f) = Len(s)
<1>1. Len(s) \in Nat /\ DOMAIN s = 1..Len(s)
  BY LenProperties
<1>2. f \in [1..Len(s) -> S]
  BY <1>1
<1>3. f \in Seq(S)
  BY <1>1, <1>2, SeqDef
<1> QED
  BY <1>1, <1>2, <1>3, LenProperties

\* What appending a row does to a table.
LEMMA Appended ==
  ASSUME NEW S, NEW s \in Seq(S), NEW x \in S
  PROVE  /\ Append(s, x) \in Seq(S) /\ Len(Append(s, x)) = Len(s) + 1 /\ Len(s) \in Nat
         /\ DOMAIN s = 1..Len(s) /\ DOMAIN Append(s, x) = 1..(Len(s) + 1)
         /\ \A i \in DOMAIN s : Append(s, x)[i] = s[i]
         /\ Append(s, x)[Len(s) + 1] = x
  OBVIOUS

\* The tables of a store, and their positions.
LEMMA StoreFields ==
  ASSUME NEW d, WholeStore(d)
  PROVE  /\ d.users \in Seq(User) /\ d.passwords \in Seq(Nat) /\ d.tokens \in Seq(OneTimeToken)
         /\ d.sessions \in Seq(Session) /\ d.states \in Seq(BOOLEAN) /\ d.identities \subseteq Subjects \X Nat
         /\ d.challenges \in Seq(Challenge) /\ d.passkeys \subseteq Passkey /\ d.totp \in Seq(Totp)
         /\ Len(d.passwords) = Len(d.users) /\ Len(d.totp) = Len(d.users) /\ Len(d.users) \in Nat
         /\ DOMAIN d.users = 1..Len(d.users) /\ DOMAIN d.totp = 1..Len(d.users)
         /\ DOMAIN d.passwords = 1..Len(d.users)
         /\ DOMAIN d.tokens = 1..Len(d.tokens) /\ Len(d.tokens) \in Nat
         /\ DOMAIN d.sessions = 1..Len(d.sessions) /\ Len(d.sessions) \in Nat
         /\ DOMAIN d.states = 1..Len(d.states) /\ Len(d.states) \in Nat
         /\ DOMAIN d.challenges = 1..Len(d.challenges) /\ Len(d.challenges) \in Nat
  BY DEF WholeStore, Store

\* A user was added, with a row of passwords and one of the second factor.
UserAdded(d, e, row) ==
    /\ WholeStore(e) /\ Len(e.users) = Len(d.users) + 1
    /\ \A u \in DOMAIN d.users : e.users[u] = d.users[u] /\ e.totp[u] = d.totp[u]
    /\ e.users[Len(d.users) + 1] = row /\ e.totp[Len(d.users) + 1] = NoTotp
    /\ e.tokens = d.tokens /\ e.sessions = d.sessions /\ e.states = d.states
    /\ e.identities = d.identities /\ e.challenges = d.challenges /\ e.passkeys = d.passkeys

\* insertUser adds one row to users, passwords and enrolments.
LEMMA NewUser ==
  ASSUME NEW d, WholeStore(d), NEW a \in Addresses, NEW verified \in BOOLEAN,
         NEW origin \in {"password", "magic-link", "oauth"}, NEW w \in Nat
  PROVE  UserAdded(d, InsertUser(d, a, verified, origin, w),
                   [email |-> a, verified |-> verified, origin |-> origin])
<1> DEFINE d2 == InsertUser(d, a, verified, origin, w)
           row == [email |-> a, verified |-> verified, origin |-> origin]
<1>1. NoTotp \in Totp /\ row \in User
  BY DEF NoTotp, Totp, User
<1>2. d2 = [d EXCEPT !.users = Append(d.users, row), !.passwords = Append(d.passwords, w),
                     !.totp = Append(d.totp, NoTotp)]
  BY DEF InsertUser
<1> HIDE DEF row, d2
<1>3. /\ d2.users = Append(d.users, row) /\ d2.passwords = Append(d.passwords, w) /\ d2.totp = Append(d.totp, NoTotp)
      /\ d2.tokens = d.tokens /\ d2.sessions = d.sessions /\ d2.states = d.states
      /\ d2.identities = d.identities /\ d2.challenges = d.challenges /\ d2.passkeys = d.passkeys
  BY <1>2 DEF WholeStore, Store
<1>4. /\ Append(d.users, row) \in Seq(User) /\ Append(d.passwords, w) \in Seq(Nat)
      /\ Append(d.totp, NoTotp) \in Seq(Totp)
  BY <1>1, StoreFields, Appended
<1>5. d2 \in Store
  BY <1>2, <1>4 DEF WholeStore, Store
<1>6. /\ Len(d2.users) = Len(d.users) + 1 /\ Len(d2.totp) = Len(d.users) + 1
      /\ Len(d2.passwords) = Len(d.users) + 1
  BY <1>1, <1>3, StoreFields, Appended
<1>7. /\ d2.users[Len(d.users) + 1] = row /\ d2.totp[Len(d.users) + 1] = NoTotp
      /\ \A u \in DOMAIN d.users : d2.users[u] = d.users[u] /\ d2.totp[u] = d.totp[u]
  <2>1. DOMAIN d.users = DOMAIN d.totp /\ Len(d.totp) = Len(d.users)
    BY StoreFields
  <2>2. /\ Append(d.users, row)[Len(d.users) + 1] = row
        /\ \A u \in DOMAIN d.users : Append(d.users, row)[u] = d.users[u]
    <3>1. d.users \in Seq(User) /\ row \in User
      BY <1>1, StoreFields
    <3> QED
      BY <3>1, Appended
  <2>3. /\ Append(d.totp, NoTotp)[Len(d.users) + 1] = NoTotp
        /\ \A u \in DOMAIN d.totp : Append(d.totp, NoTotp)[u] = d.totp[u]
    <3>1. d.totp \in Seq(Totp) /\ NoTotp \in Totp
      BY <1>1, StoreFields
    <3> QED
      BY <2>1, <3>1, Appended
  <2> QED
    BY <1>3, <2>1, <2>2, <2>3
<1>8. WholeStore(d2)
  BY <1>5, <1>6 DEF WholeStore
<1> QED
  BY <1>3, <1>6, <1>7, <1>8 DEF UserAdded, row, d2

\* setEmailVerified writes one row of users.
LEMMA UserUpdate ==
  ASSUME NEW d, WholeStore(d), NEW u \in DOMAIN d.users, NEW d2, d2 = SetEmailVerified(d, u)
  PROVE  /\ WholeStore(d2) /\ Len(d2.users) = Len(d.users)
         /\ d2.users[u] = [d.users[u] EXCEPT !.verified = TRUE]
         /\ \A v \in DOMAIN d.users \ {u} : d2.users[v] = d.users[v]
         /\ d2.tokens = d.tokens /\ d2.sessions = d.sessions /\ d2.states = d.states /\ d2.totp = d.totp
         /\ d2.identities = d.identities /\ d2.challenges = d.challenges /\ d2.passkeys = d.passkeys
<1> DEFINE row == [d.users[u] EXCEPT !.verified = TRUE]
<1>1. row \in User
  <2>1. d.users[u] \in User
    BY StoreFields
  <2> QED
    BY <2>1 DEF User
<1>2. d2 = [d EXCEPT !.users = [d.users EXCEPT ![u] = row]]
  BY DEF SetEmailVerified, WholeStore, Store
<1> HIDE DEF row
<1>3. [d.users EXCEPT ![u] = row] \in Seq(User) /\ Len([d.users EXCEPT ![u] = row]) = Len(d.users)
  BY <1>1, StoreFields
<1>4. /\ d2.users = [d.users EXCEPT ![u] = row] /\ d2.passwords = d.passwords
      /\ d2.tokens = d.tokens /\ d2.sessions = d.sessions /\ d2.states = d.states /\ d2.totp = d.totp
      /\ d2.identities = d.identities /\ d2.challenges = d.challenges /\ d2.passkeys = d.passkeys
  BY <1>2 DEF WholeStore, Store
<1>5. d2 \in Store
  BY <1>2, <1>3 DEF WholeStore, Store
<1>6. d2.users[u] = row /\ \A v \in DOMAIN d.users \ {u} : d2.users[v] = d.users[v]
  BY <1>4, StoreFields
<1> QED
  BY <1>3, <1>4, <1>5, <1>6 DEF WholeStore, row

\* One table is written, the others are as they were: tokens, sessions or states.
LEMMA TableWritten ==
  ASSUME NEW d, WholeStore(d)
  PROVE  /\ \A x \in Seq(OneTimeToken) : LET e == [d EXCEPT !.tokens = x] IN
              /\ WholeStore(e) /\ e.tokens = x /\ e.users = d.users /\ e.sessions = d.sessions /\ e.states = d.states
              /\ e.identities = d.identities /\ e.challenges = d.challenges /\ e.passkeys = d.passkeys
              /\ e.totp = d.totp /\ e.passwords = d.passwords
         /\ \A x \in Seq(Session) : LET e == [d EXCEPT !.sessions = x] IN
              /\ WholeStore(e) /\ e.sessions = x /\ e.users = d.users /\ e.tokens = d.tokens /\ e.states = d.states
              /\ e.identities = d.identities /\ e.challenges = d.challenges /\ e.passkeys = d.passkeys
              /\ e.totp = d.totp /\ e.passwords = d.passwords
         /\ \A x \in Seq(BOOLEAN) : LET e == [d EXCEPT !.states = x] IN
              /\ WholeStore(e) /\ e.states = x /\ e.users = d.users /\ e.tokens = d.tokens
              /\ e.sessions = d.sessions /\ e.identities = d.identities /\ e.challenges = d.challenges
              /\ e.passkeys = d.passkeys /\ e.totp = d.totp /\ e.passwords = d.passwords
  BY DEF WholeStore, Store

\* What a call knows stays true when tables only grow, addresses stay with their
\* users and challenges are not renewed.
Grows ==
    /\ DOMAIN db.users \subseteq DOMAIN db'.users
    /\ \A u \in DOMAIN db.users : db'.users[u].email = db.users[u].email
    /\ DOMAIN db.tokens \subseteq DOMAIN db'.tokens /\ DOMAIN db.sessions \subseteq DOMAIN db'.sessions
    /\ Len(db.challenges) <= Len(db'.challenges) /\ DOMAIN db.challenges \subseteq DOMAIN db'.challenges
    /\ \A c \in DOMAIN db.challenges : db'.challenges[c].live => db.challenges[c].live
    /\ proven \subseteq proven'

\* A call that does not move keeps what it knows.
LEMMA KnowledgeLasts ==
  ASSUME TypeOK, Grows, NEW c \in Call, CallOK(db, proven, c), WholeStore(db')
  PROVE  CallOK(db', proven', c)
<1>1. Len(db.challenges) \in Nat /\ Len(db'.challenges) \in Nat
  BY StoreFields DEF TypeOK
<1>2. c.pc = "verify" => c.pc \in AccountPcs
  BY DEF AccountPcs
<1> QED
  BY <1>1, <1>2 DEF Grows, CallOK, ForAccount

\* One call takes its next step.
LEMMA CallMoves ==
  ASSUME TypeOK, CallsInv, Grows, WholeStore(db'), NEW p \in Slots, NEW c \in Call, CallOK(db', proven', c),
         calls' = [calls EXCEPT ![p] = c]
  PROVE  CallsInv' /\ calls' \in [Slots -> Call]
<1>1. calls' \in [Slots -> Call]
  BY DEF TypeOK
<1>2. ASSUME NEW q \in Slots PROVE CallOK(db', proven', calls'[q])
  <2>1. CASE q = p
    BY <2>1 DEF TypeOK
  <2>2. CASE q # p
    <3>1. calls'[q] = calls[q] /\ calls[q] \in Call /\ CallOK(db, proven, calls[q])
      BY <2>2 DEF TypeOK, CallsInv
    <3> QED
      BY <3>1, KnowledgeLasts
  <2> QED
    BY <2>1, <2>2
<1> QED
  BY <1>1, <1>2 DEF CallsInv

\* The tables other than passwords and enrolments are as they were.
SameTables ==
    /\ db'.users = db.users /\ db'.tokens = db.tokens /\ db'.sessions = db.sessions /\ db'.states = db.states
    /\ db'.identities = db.identities /\ db'.challenges = db.challenges /\ db'.passkeys = db.passkeys

\* At most a code of a second factor is accepted.
CodesOnly ==
    \/ UNCHANGED <<accepted, acceptances>>
    \/ \E x \in TotpCodes \cup RecoveryCodes : Spend(x)

\* A code of a second factor is none of the other credentials.
LEMMA CodesAreOther ==
  ASSUME CodesOnly, accepted \subseteq Credentials, acceptances \in Nat
  PROVE  /\ accepted' \subseteq Credentials /\ acceptances' \in Nat
         /\ \A t : <<"mail", t>> \in accepted' => <<"mail", t>> \in accepted
         /\ \A n : <<"state", n>> \in accepted' => <<"state", n>> \in accepted
         /\ \A c : <<"challenge", c>> \in accepted' => <<"challenge", c>> \in accepted
         /\ \A i, n : <<"assertion", i, n>> \in accepted' => <<"assertion", i, n>> \in accepted
<1>1. CASE UNCHANGED <<accepted, acceptances>>
  BY <1>1
<1>2. CASE \E x \in TotpCodes \cup RecoveryCodes : Spend(x)
  <2>1. PICK x \in TotpCodes \cup RecoveryCodes : Spend(x)
    BY <1>2
  <2>2. x \in Credentials /\ accepted' = accepted \cup {x} /\ acceptances' = acceptances + 1
    BY <2>1 DEF Credentials, Spend
  <2>3. \/ \E a \in Secrets, n \in Steps : x = <<"totp", a, n>>
        \/ \E a \in Secrets, n \in {1, 2} : x = <<"recovery", a, n>>
    BY DEF TotpCodes, RecoveryCodes
  <2>4. /\ \A t : <<"mail", t>> # x /\ <<"state", t>> # x /\ <<"challenge", t>> # x
        /\ \A i, n : <<"assertion", i, n>> # x
    BY <2>3
  <2> QED
    BY <2>2, <2>4
<1> QED
  BY <1>1, <1>2 DEF CodesOnly

\* A step that writes passwords or enrolments at most keeps the invariant,
LEMMA QuietTables ==
  ASSUME ServiceInv, WholeStore(db'), SameTables, CodesOnly, UNCHANGED <<mailed, proven, ended>>,
         calls' \in [Slots -> Call], CallsInv',
         \A q \in Slots : calls'[q].pc = "addkey" => calls'[q] = calls[q]
  PROVE  ServiceInv'
<1> USE DEF SameTables
<1>1. TypeOK /\ OnceInv /\ AccountsInv /\ SignOutIsFinal
  BY DEF ServiceInv
<1>2. accepted \subseteq Credentials /\ acceptances \in Nat
  BY <1>1 DEF TypeOK
<1>3. TypeOK'
  BY <1>1, <1>2, CodesAreOther DEF TypeOK
<1>4. AccountsInv'
  BY <1>1 DEF AccountsInv, RowsAreOfUsers, ForAccount, AccountsAreSound, VerifiedByProof, AccountsAreWhole
<1>5. OnceInv'
  <2>1. /\ \A t : <<"mail", t>> \in accepted' => <<"mail", t>> \in accepted
        /\ \A n : <<"state", n>> \in accepted' => <<"state", n>> \in accepted
        /\ \A c : <<"challenge", c>> \in accepted' => <<"challenge", c>> \in accepted
        /\ \A i, n : <<"assertion", i, n>> \in accepted' => <<"assertion", i, n>> \in accepted
    BY <1>2, CodesAreOther
  <2>2. \A q \in Slots : calls'[q].pc = "addkey" => calls[q].pc = "addkey" /\ calls'[q].arg = calls[q].arg
    OBVIOUS
  <2> QED
    BY <1>1, <2>1, <2>2 DEF OnceInv, KeysOnce, KeyId
<1>6. SignOutIsFinal'
  BY <1>1 DEF SignOutIsFinal
<1> QED
  BY <1>3, <1>4, <1>5, <1>6 DEF ServiceInv

\* also when one call takes its next step in it.
LEMMA QuietCall ==
  ASSUME ServiceInv, WholeStore(db'), SameTables, CodesOnly, UNCHANGED <<mailed, proven, ended>>,
         NEW p \in Slots, NEW c \in Call, CallOK(db, proven, c), c.pc # "addkey", calls' = [calls EXCEPT ![p] = c]
  PROVE  ServiceInv'
<1>1. TypeOK /\ CallsInv /\ Grows /\ calls \in [Slots -> Call] /\ Len(db.challenges) \in Nat
  BY StoreFields DEF ServiceInv, TypeOK, SameTables, Grows
<1>2. CallOK(db', proven', c)
  BY DEF CallOK, SameTables, ForAccount
<1>3. CallsInv' /\ calls' \in [Slots -> Call]
  BY <1>1, <1>2, CallMoves
<1>4. \A q \in Slots : calls'[q].pc = "addkey" => calls'[q] = calls[q]
  BY <1>1
<1> QED
  BY <1>3, <1>4, QuietTables

\* A slot with no call in it.
LEMMA BlankCall == Blank \in Call /\ Blank.pc = "idle" /\ \A d, known : CallOK(d, known, Blank)
<1>1. Blank \in Call
  BY DEF Blank, Call, Pcs, Addresses
<1> QED
  BY <1>1 DEF Blank, CallOK, AccountPcs, EnrolmentPcs, CodePcs, LinkPcs, ProfilePcs, RetryPcs

\* A call that needs its user and nothing else.
LEMMA AccountCall ==
  ASSUME NEW d, NEW known, NEW c, c.user \in DOMAIN d.users,
         c.pc \in {"session", "insert", "user", "current", "replace", "unlink", "dropkey"}
  PROVE  CallOK(d, known, c) /\ c.pc \in Pcs \ {"addkey"}
  BY DEF CallOK, Pcs, AccountPcs, EnrolmentPcs, CodePcs, LinkPcs, ProfilePcs, RetryPcs

\* The store is read and one call moves on, or returns.
LEMMA CallReads ==
  ASSUME ServiceInv, UNCHANGED <<db, mailed, proven, accepted, acceptances, ended>>,
         NEW p \in Slots, NEW c \in Call, CallOK(db, proven, c), c.pc # "addkey", Put(p, c)
  PROVE  ServiceInv'
<1>1. WholeStore(db') /\ SameTables /\ CodesOnly
  BY DEF ServiceInv, TypeOK, SameTables, CodesOnly
<1> QED
  BY <1>1, QuietCall DEF Put

\* The same when the call returns,
LEMMA CallReturns ==
  ASSUME ServiceInv, UNCHANGED <<db, mailed, proven, accepted, acceptances, ended>>, NEW p \in Slots, Return(p)
  PROVE  ServiceInv'
<1>1. Blank.pc # "addkey"
  BY BlankCall
<1> QED
  BY <1>1, BlankCall, CallReads DEF Return

\* and when its next step is all that changes.
LEMMA CallGoes ==
  ASSUME ServiceInv, UNCHANGED <<db, mailed, proven, accepted, acceptances, ended>>, NEW p \in Slots,
         NEW pc \in Pcs \ {"addkey"}, CallOK(db, proven, [calls[p] EXCEPT !.pc = pc]), Goto(p, pc)
  PROVE  ServiceInv'
<1> DEFINE c == [calls[p] EXCEPT !.pc = pc]
<1>1. calls[p] \in Call
  BY DEF ServiceInv, TypeOK
<1>2. c \in Call /\ c.pc # "addkey"
  BY <1>1 DEF Call
<1>3. Put(p, c)
  BY <1>1 DEF Goto, Put, Call
<1> HIDE DEF c
<1>4. CallOK(db, proven, c)
  BY DEF c
<1> QED
  BY <1>2, <1>3, <1>4, CallReads

\* The steps of accounts that read the store and write none of it.
LEMMA AccountsRead ==
  ASSUME ServiceInv, NEW p \in Slots,
         \/ ReadEnrolled(p) \/ CheckVerified(p) \/ CheckCurrent(p) \/ MagicFind(p) \/ Fail(p)
         \/ \E e \in Emails : RequestMagicLink(p, e)
         \/ \E u \in DOMAIN db.users : \/ RequestEmailVerification(p, u) \/ RequestPasswordReset(p, u)
                                       \/ \E w \in Passwords : SignInPassword(p, u, w)
         \/ \E s \in DOMAIN db.sessions, v, w \in Passwords : ChangePassword(p, s, v, w)
  PROVE  ServiceInv'
<1> USE AuthAssumption DEF AuthAssumption
<1> DEFINE k == calls[p]
<1>1. k \in Call /\ CallOK(db, proven, k) /\ WholeStore(db)
  BY DEF ServiceInv, TypeOK, CallsInv
<1>2. RowsAreOfUsers
  BY DEF ServiceInv, AccountsInv
<1>3. CASE ReadEnrolled(p)
  <2> DEFINE c == [k EXCEPT !.pc = "insert", !.flag = db.totp[k.user].confirmed]
  <2>1. k.user \in DOMAIN db.users /\ db.totp[k.user].confirmed \in BOOLEAN
    <3>1. k.user \in DOMAIN db.users
      BY <1>1, <1>3 DEF ReadEnrolled, CallOK, AccountPcs
    <3>2. db.totp[k.user] \in Totp
      BY <1>1, <3>1, StoreFields
    <3> QED
      BY <3>1, <3>2 DEF Totp
  <2>2. c \in Call /\ c.pc = "insert" /\ c.user = k.user
    BY <1>1, <2>1 DEF Call, Pcs, AccountPcs
  <2>3. CallOK(db, proven, c)
    BY <2>1, <2>2, AccountCall
  <2> QED
    BY <1>3, <2>2, <2>3, CallReads DEF ReadEnrolled
<1>4. CASE CheckVerified(p)
  <2> DEFINE c == [k EXCEPT !.pc = "session"]
  <2>1. c.pc = "session" /\ c.user \in DOMAIN db.users
    BY <1>1, <1>4 DEF CheckVerified, CallOK, Call, AccountPcs
  <2>2. CallOK(db, proven, c) /\ "session" \in Pcs \ {"addkey"}
    BY <2>1, AccountCall
  <2> QED
    BY <1>4, <2>2, CallGoes, CallReturns DEF CheckVerified
<1>5. CASE CheckCurrent(p)
  <2> DEFINE c == [k EXCEPT !.pc = "replace"]
  <2>1. c.pc = "replace" /\ c.user \in DOMAIN db.users
    BY <1>1, <1>5 DEF CheckCurrent, CallOK, Call, AccountPcs
  <2>2. CallOK(db, proven, c) /\ "replace" \in Pcs \ {"addkey"}
    BY <2>1, AccountCall
  <2> QED
    BY <1>5, <2>2, CallGoes, CallReturns DEF CheckCurrent
<1>6. CASE MagicFind(p)
  <2> DEFINE found == UserByEmail(db, k.email)
  <2>1. k.pc = "find" /\ k.email \in Addresses \cap proven /\ k.next \in {"idle", "session"}
    BY <1>1, <1>6 DEF MagicFind, CallOK, LinkPcs
  <2>2. CASE Goto(p, "create")
    <3>1. CallOK(db, proven, [k EXCEPT !.pc = "create"])
      BY <1>1, <2>1 DEF CallOK, Call, AccountPcs, EnrolmentPcs, CodePcs, LinkPcs, ProfilePcs, RetryPcs
    <3>2. "create" \in Pcs \ {"addkey"}
      BY DEF Pcs, LinkPcs
    <3> QED
      BY <1>6, <2>2, <3>1, <3>2, CallGoes DEF MagicFind
  <2>3. ASSUME NEW u \in found,
               Put(p, [k EXCEPT !.user = u, !.pc = IF db.users[u].verified THEN "session" ELSE "verify"])
        PROVE  ServiceInv'
    <3> DEFINE pc == IF db.users[u].verified THEN "session" ELSE "verify"
               c == [k EXCEPT !.user = u, !.pc = pc]
    <3>0. pc \in {"session", "verify"}
      OBVIOUS
    <3> HIDE DEF pc
    <3>1. u \in DOMAIN db.users /\ db.users[u].email = k.email /\ u \in Nat
      BY <1>1, StoreFields DEF UserByEmail
    <3>2. c \in Call /\ c.pc \in {"session", "verify"} /\ c.user = u /\ c.next = k.next
      BY <1>1, <3>0, <3>1 DEF Call, Pcs, AccountPcs
    <3> HIDE DEF c
    <3>3. CallOK(db, proven, c)
      BY <2>1, <3>1, <3>2 DEF CallOK, AccountPcs, EnrolmentPcs, CodePcs, LinkPcs, ProfilePcs, RetryPcs
    <3>4. Put(p, c)
      BY <2>3 DEF c, pc
    <3> QED
      BY <1>6, <3>2, <3>3, <3>4, CallReads DEF MagicFind
  <2> QED
    BY <1>6, <2>2, <2>3 DEF MagicFind
<1>7. CASE Fail(p)
  BY <1>7, CallReturns DEF Fail
<1>8. ASSUME NEW purpose \in Purposes, NEW e \in Addresses, NEW u \in Nat, ForAccount(db, purpose, e, u),
             Issue(p, purpose, e, u), UNCHANGED <<db, mailed, proven, accepted, acceptances, ended>>
      PROVE  ServiceInv'
  <2> DEFINE c == [Blank EXCEPT !.pc = "token", !.purpose = purpose, !.email = e, !.user = u]
  <2>1. c \in Call /\ c.pc = "token" /\ c.purpose = purpose /\ c.email = e /\ c.user = u
    BY BlankCall DEF Call, Pcs
  <2>2. Put(p, c)
    BY <1>8 DEF Issue
  <2> HIDE DEF c
  <2>3. CallOK(db, proven, c)
    BY <1>8, <2>1 DEF CallOK, AccountPcs, EnrolmentPcs, CodePcs, LinkPcs, ProfilePcs, RetryPcs
  <2> QED
    BY <1>8, <2>1, <2>2, <2>3, CallReads
<1>9. ASSUME NEW e \in Emails, RequestMagicLink(p, e) PROVE ServiceInv'
  <2> DEFINE u == IF EmailIsFree(db, e) THEN 0 ELSE CHOOSE x \in UserByEmail(db, e) : TRUE
  <2>1. u \in Nat /\ ForAccount(db, "magic-link", e, u)
    <3>1. CASE EmailIsFree(db, e)
      BY <3>1 DEF ForAccount
    <3>2. CASE ~EmailIsFree(db, e)
      <4>1. u \in UserByEmail(db, e)
        BY <3>2 DEF EmailIsFree
      <4>2. u \in DOMAIN db.users /\ db.users[u].email = e
        BY <4>1 DEF UserByEmail
      <4> HIDE DEF u
      <4> QED
        BY <1>1, <4>2, StoreFields DEF ForAccount
    <3> QED
      BY <3>1, <3>2
  <2>2. "magic-link" \in Purposes /\ e \in Addresses
    BY DEF Purposes, Addresses
  <2>3. Issue(p, "magic-link", e, u)
    BY <1>9 DEF RequestMagicLink
  <2> HIDE DEF u
  <2> QED
    BY <1>8, <1>9, <2>1, <2>2, <2>3 DEF RequestMagicLink
<1>10. ASSUME NEW u \in DOMAIN db.users, RequestEmailVerification(p, u) \/ RequestPasswordReset(p, u)
       PROVE  ServiceInv'
  <2>1. u \in Nat \ {0} /\ db.users[u].email \in Addresses
    <3>1. u \in Nat \ {0} /\ db.users[u] \in User
      BY <1>1, StoreFields
    <3> QED
      BY <3>1 DEF User
  <2>2. "email-verification" \in Purposes /\ "password-reset" \in Purposes
        /\ \A purpose : ForAccount(db, purpose, db.users[u].email, u)
    BY <2>1 DEF Purposes, ForAccount
  <2> QED
    BY <1>8, <1>10, <2>1, <2>2 DEF RequestEmailVerification, RequestPasswordReset
<1>11. ASSUME NEW u \in DOMAIN db.users, NEW w \in Passwords, SignInPassword(p, u, w) PROVE ServiceInv'
  <2> DEFINE c == [Blank EXCEPT !.pc = "user", !.user = u]
  <2>0. u \in Nat
    BY <1>1, StoreFields
  <2>1. c \in Call /\ c.pc = "user" /\ c.user = u
    BY <2>0, BlankCall DEF Call, Pcs, AccountPcs
  <2> HIDE DEF c
  <2>2. CallOK(db, proven, c)
    BY <2>1, AccountCall
  <2> QED
    BY <1>11, <2>1, <2>2, CallReads DEF SignInPassword, c
<1>12. ASSUME NEW s \in DOMAIN db.sessions, NEW v \in Passwords, NEW w \in Passwords, ChangePassword(p, s, v, w)
       PROVE  ServiceInv'
  <2> DEFINE u == db.sessions[s].user
             c == [Blank EXCEPT !.pc = "current", !.user = u, !.sess = v, !.arg = w]
  <2>1. u \in DOMAIN db.users /\ u \in Nat
    BY <1>1, <1>2, StoreFields DEF RowsAreOfUsers
  <2>2. c \in Call /\ c.pc = "current" /\ c.user = u
    BY <2>1, BlankCall DEF Call, Pcs, AccountPcs
  <2>3. Put(p, c)
    BY <1>12 DEF ChangePassword
  <2> HIDE DEF c
  <2>4. CallOK(db, proven, c)
    BY <2>1, <2>2, AccountCall
  <2> QED
    BY <1>12, <2>2, <2>3, <2>4, CallReads DEF ChangePassword
<1> QED
  BY <1>3, <1>4, <1>5, <1>6, <1>7, <1>9, <1>10, <1>11, <1>12

\* Calls that add no passkey of their own keep the invariants about those that do.
Unenrolling == calls' \in [Slots -> Call] /\ CallsInv' /\ \A q \in Slots : calls'[q].pc = "addkey" => calls'[q] = calls[q]

\* One call moves on, to a step other than storing a passkey.
LEMMA CallUnenrolling ==
  ASSUME TypeOK, CallsInv, Grows, WholeStore(db'), NEW p \in Slots, NEW c \in Call, CallOK(db', proven', c),
         c.pc # "addkey", Put(p, c)
  PROVE  Unenrolling
<1>1. calls' = [calls EXCEPT ![p] = c] /\ calls \in [Slots -> Call]
  BY DEF Put, TypeOK
<1>2. CallsInv' /\ calls' \in [Slots -> Call]
  BY <1>1, CallMoves
<1>3. \A q \in Slots : calls'[q].pc = "addkey" => calls'[q] = calls[q]
  BY <1>1
<1> QED
  BY <1>2, <1>3 DEF Unenrolling

\* Sessions are opened, elevated or ended.
LEMMA SessionsWritten ==
  ASSUME ServiceInv, WholeStore(db'), Unenrolling, UNCHANGED <<mailed, proven, accepted, acceptances>>,
         db'.users = db.users, db'.tokens = db.tokens, db'.states = db.states, db'.identities = db.identities,
         db'.challenges = db.challenges, db'.passkeys = db.passkeys,
         \A s \in DOMAIN db'.sessions : db'.sessions[s].user \in DOMAIN db.users,
         ended' \subseteq DOMAIN db'.sessions, \A s \in ended' : ~db'.sessions[s].live
  PROVE  ServiceInv'
<1>1. TypeOK /\ OnceInv /\ AccountsInv
  BY DEF ServiceInv
<1>2. TypeOK'
  BY <1>1 DEF TypeOK, Unenrolling
<1>3. AccountsInv'
  BY <1>1 DEF AccountsInv, RowsAreOfUsers, ForAccount, AccountsAreSound, VerifiedByProof, AccountsAreWhole
<1>4. OnceInv'
  <2>1. \A q \in Slots : calls'[q].pc = "addkey" => calls[q].pc = "addkey" /\ calls'[q].arg = calls[q].arg
    BY DEF Unenrolling
  <2> QED
    BY <1>1, <2>1 DEF OnceInv, KeysOnce, KeyId
<1> QED
  BY <1>2, <1>3, <1>4 DEF ServiceInv, SignOutIsFinal, Unenrolling

\* E-mail tokens are issued, used or expire.
LEMMA TokensWritten ==
  ASSUME ServiceInv, WholeStore(db'), Unenrolling, UNCHANGED ended,
         db'.users = db.users, db'.sessions = db.sessions, db'.states = db.states,
         db'.identities = db.identities, db'.challenges = db.challenges, db'.passkeys = db.passkeys,
         DOMAIN db.tokens \subseteq DOMAIN db'.tokens, Len(db'.tokens) <= MaxTokens,
         \A t \in DOMAIN db.tokens : db'.tokens[t].live => db.tokens[t].live,
         \A t \in DOMAIN db'.tokens : ForAccount(db, db'.tokens[t].purpose, db'.tokens[t].email, db'.tokens[t].user),
         mailed' \subseteq DOMAIN db'.tokens, proven \subseteq proven',
         \/ UNCHANGED <<accepted, acceptances>>
         \/ \E t \in DOMAIN db.tokens : ~db'.tokens[t].live /\ Spend(<<"mail", t>>)
  PROVE  ServiceInv'
<1> USE AuthAssumption DEF AuthAssumption
<1>1. TypeOK /\ OnceInv /\ AccountsInv
  BY DEF ServiceInv
<1>2. accepted' \subseteq Credentials /\ acceptances' \in Nat
  <2>1. CASE UNCHANGED <<accepted, acceptances>>
    BY <1>1, <2>1 DEF TypeOK
  <2>2. ASSUME NEW t \in DOMAIN db.tokens, Spend(<<"mail", t>>)
        PROVE  accepted' \subseteq Credentials /\ acceptances' \in Nat
    <3>1. t \in 1..MaxTokens
      BY <1>1, StoreFields DEF TypeOK
    <3>2. <<"mail", t>> \in Credentials
      BY <3>1 DEF Credentials
    <3> QED
      BY <1>1, <2>2, <3>2 DEF TypeOK, Spend
  <2> QED
    BY <2>1, <2>2
<1>3. TypeOK'
  BY <1>1, <1>2 DEF TypeOK, Unenrolling
<1>4. AccountsInv'
  BY <1>1 DEF AccountsInv, RowsAreOfUsers, ForAccount, AccountsAreSound, VerifiedByProof, AccountsAreWhole
<1>5. OnceInv'
  <2>1. \A q \in Slots : calls'[q].pc = "addkey" => calls[q].pc = "addkey" /\ calls'[q].arg = calls[q].arg
    BY DEF Unenrolling
  <2>2. /\ \A n : <<"state", n>> \in accepted' => <<"state", n>> \in accepted
        /\ \A c : <<"challenge", c>> \in accepted' => <<"challenge", c>> \in accepted
        /\ \A i, n : <<"assertion", i, n>> \in accepted' => <<"assertion", i, n>> \in accepted
    BY DEF Spend
  <2>3. \A t : <<"mail", t>> \in accepted' => t \in DOMAIN db'.tokens /\ ~db'.tokens[t].live
    <3>1. \A t : <<"mail", t>> \in accepted => t \in DOMAIN db.tokens /\ ~db.tokens[t].live
      BY <1>1 DEF OnceInv
    <3>2. CASE UNCHANGED <<accepted, acceptances>>
      BY <3>1, <3>2
    <3>3. CASE \E t \in DOMAIN db.tokens : ~db'.tokens[t].live /\ Spend(<<"mail", t>>)
      BY <3>1, <3>3 DEF Spend
    <3> QED
      BY <3>2, <3>3
  <2> QED
    BY <1>1, <2>1, <2>2, <2>3 DEF OnceInv, KeysOnce, KeyId
<1> QED
  BY <1>3, <1>4, <1>5 DEF ServiceInv, SignOutIsFinal, Unenrolling

\* Users are created, with an identity or without, or their address is verified.
LEMMA UsersWritten ==
  ASSUME ServiceInv, WholeStore(db'), Unenrolling, UNCHANGED <<mailed, proven, accepted, acceptances, ended>>,
         db'.tokens = db.tokens, db'.sessions = db.sessions, db'.states = db.states,
         db'.challenges = db.challenges, db'.passkeys = db.passkeys,
         DOMAIN db.users \subseteq DOMAIN db'.users,
         \A u \in DOMAIN db.users : db'.users[u].email = db.users[u].email,
         \A i \in db'.identities : i[2] \in DOMAIN db'.users,
         AccountsAreSound'
  PROVE  ServiceInv'
<1>1. TypeOK /\ OnceInv /\ AccountsInv
  BY DEF ServiceInv
<1>2. TypeOK'
  BY <1>1 DEF TypeOK, Unenrolling
<1>3. AccountsInv'
  BY <1>1 DEF AccountsInv, RowsAreOfUsers, ForAccount
<1>4. OnceInv'
  <2>1. \A q \in Slots : calls'[q].pc = "addkey" => calls[q].pc = "addkey" /\ calls'[q].arg = calls[q].arg
    BY DEF Unenrolling
  <2> QED
    BY <1>1, <2>1 DEF OnceInv, KeysOnce, KeyId
<1> QED
  BY <1>2, <1>3, <1>4 DEF ServiceInv, SignOutIsFinal, Unenrolling

\* Only sessions (and passwords) differ, and no session of before lives again or changes hands.
SessionsOnly(d, e) ==
    /\ WholeStore(e) /\ e.users = d.users /\ e.tokens = d.tokens /\ e.states = d.states
    /\ e.identities = d.identities /\ e.challenges = d.challenges /\ e.passkeys = d.passkeys /\ e.totp = d.totp
    /\ DOMAIN d.sessions \subseteq DOMAIN e.sessions
    /\ \A s \in DOMAIN d.sessions : /\ e.sessions[s].user = d.sessions[s].user
                                    /\ e.sessions[s].pending = d.sessions[s].pending
                                    /\ e.sessions[s].live => d.sessions[s].live

\* createSession, revokeSession, elevateSession, revokeUserSessions and the
\* replacement of a password write sessions.
LEMMA SessionOpened ==
  ASSUME NEW d, WholeStore(d), NEW u \in Nat, NEW pending \in BOOLEAN, NEW e, e = InsertSession(d, u, pending)
  PROVE  /\ SessionsOnly(d, e) /\ DOMAIN e.sessions = 1..(Len(d.sessions) + 1)
         /\ \A s \in DOMAIN d.sessions : e.sessions[s] = d.sessions[s]
         /\ e.sessions[Len(d.sessions) + 1]
              = [user |-> u, elevated |-> ~pending, pending |-> pending, live |-> TRUE]
<1> DEFINE row == [user |-> u, elevated |-> ~pending, pending |-> pending, live |-> TRUE]
           x == Append(d.sessions, row)
<1>1. row \in Session /\ d.sessions \in Seq(Session)
  BY StoreFields DEF Session
<1>2. e = [d EXCEPT !.sessions = x]
  BY DEF InsertSession, WholeStore, Store
<1> HIDE DEF row
<1>3. x \in Seq(Session) /\ DOMAIN d.sessions = 1..Len(d.sessions) /\ DOMAIN x = 1..(Len(d.sessions) + 1)
      /\ Len(d.sessions) \in Nat /\ x[Len(d.sessions) + 1] = row /\ \A s \in DOMAIN d.sessions : x[s] = d.sessions[s]
  BY <1>1, Appended
<1> HIDE DEF x
<1>4. /\ WholeStore(e) /\ e.sessions = x /\ e.users = d.users /\ e.tokens = d.tokens /\ e.states = d.states
      /\ e.identities = d.identities /\ e.challenges = d.challenges /\ e.passkeys = d.passkeys
      /\ e.totp = d.totp
  BY <1>2, <1>3, TableWritten
<1> QED
  BY <1>3, <1>4 DEF SessionsOnly, row

LEMMA SessionEnded ==
  ASSUME NEW d, WholeStore(d), NEW s \in DOMAIN d.sessions, NEW e, e = RevokeSession(d, s)
  PROVE  /\ SessionsOnly(d, e) /\ DOMAIN e.sessions = DOMAIN d.sessions /\ ~e.sessions[s].live
         /\ \A t \in DOMAIN d.sessions : e.sessions[t].elevated = d.sessions[t].elevated
<1> DEFINE row == [d.sessions[s] EXCEPT !.live = FALSE]
           x == [d.sessions EXCEPT ![s] = row]
<1>1. d.sessions \in Seq(Session) /\ d.sessions[s] \in Session
  BY StoreFields
<1>2. row \in Session /\ ~row.live /\ row.user = d.sessions[s].user /\ row.pending = d.sessions[s].pending
      /\ row.elevated = d.sessions[s].elevated
  BY <1>1 DEF Session
<1>3. e = [d EXCEPT !.sessions = x]
  BY DEF RevokeSession, WholeStore, Store
<1> HIDE DEF row
<1>4. x \in Seq(Session) /\ DOMAIN x = DOMAIN d.sessions /\ x[s] = row
      /\ \A t \in DOMAIN d.sessions \ {s} : x[t] = d.sessions[t]
  BY <1>1, <1>2
<1> HIDE DEF x
<1>5. /\ WholeStore(e) /\ e.sessions = x /\ e.users = d.users /\ e.tokens = d.tokens /\ e.states = d.states
      /\ e.identities = d.identities /\ e.challenges = d.challenges /\ e.passkeys = d.passkeys
      /\ e.totp = d.totp
  BY <1>3, <1>4, TableWritten
<1> QED
  BY <1>2, <1>4, <1>5 DEF SessionsOnly

LEMMA SessionElevated ==
  ASSUME NEW d, WholeStore(d), NEW s \in DOMAIN d.sessions, NEW e, e = ElevateSession(d, s)
  PROVE  /\ SessionsOnly(d, e) /\ DOMAIN e.sessions = DOMAIN d.sessions
         /\ \A t \in DOMAIN d.sessions \ {s} : e.sessions[t] = d.sessions[t]
<1>1. CASE ~d.sessions[s].live
  BY <1>1 DEF ElevateSession, SessionsOnly
<1>2. CASE d.sessions[s].live
  <2> DEFINE row == [d.sessions[s] EXCEPT !.elevated = TRUE]
             x == [d.sessions EXCEPT ![s] = row]
  <2>1. d.sessions \in Seq(Session) /\ d.sessions[s] \in Session
    BY StoreFields
  <2>2. row \in Session /\ row.live = d.sessions[s].live /\ row.user = d.sessions[s].user
        /\ row.pending = d.sessions[s].pending
    BY <2>1 DEF Session
  <2>3. e = [d EXCEPT !.sessions = x]
    BY <1>2 DEF ElevateSession, WholeStore, Store
  <2> HIDE DEF row
  <2>4. x \in Seq(Session) /\ DOMAIN x = DOMAIN d.sessions /\ x[s] = row
        /\ \A t \in DOMAIN d.sessions \ {s} : x[t] = d.sessions[t]
    BY <2>1, <2>2
  <2> HIDE DEF x
  <2>5. /\ WholeStore(e) /\ e.sessions = x /\ e.users = d.users /\ e.tokens = d.tokens /\ e.states = d.states
        /\ e.identities = d.identities /\ e.challenges = d.challenges /\ e.passkeys = d.passkeys
        /\ e.totp = d.totp
    BY <2>3, <2>4, TableWritten
  <2> QED
    BY <2>2, <2>4, <2>5 DEF SessionsOnly
<1> QED
  BY <1>1, <1>2

LEMMA UserSignedOut ==
  ASSUME NEW d, WholeStore(d), NEW u, NEW e, e = RevokeUserSessions(d, u)
  PROVE  /\ SessionsOnly(d, e) /\ e.passwords = d.passwords /\ DOMAIN e.sessions = DOMAIN d.sessions
         /\ \A t \in DOMAIN d.sessions : /\ e.sessions[t].elevated = d.sessions[t].elevated
                                         /\ d.sessions[t].user = u => ~e.sessions[t].live
<1> DEFINE row(s) == IF d.sessions[s].user = u THEN [d.sessions[s] EXCEPT !.live = FALSE] ELSE d.sessions[s]
           x == [s \in DOMAIN d.sessions |-> row(s)]
<1>1. d.sessions \in Seq(Session) /\ \A s \in DOMAIN d.sessions : d.sessions[s] \in Session
  BY StoreFields
<1>2. ASSUME NEW s \in DOMAIN d.sessions
      PROVE  /\ row(s) \in Session /\ row(s).user = d.sessions[s].user /\ row(s).pending = d.sessions[s].pending
             /\ row(s).elevated = d.sessions[s].elevated
             /\ row(s).live => d.sessions[s].live
             /\ d.sessions[s].user = u => ~row(s).live
  BY <1>1 DEF Session
<1>3. e = [d EXCEPT !.sessions = x]
  BY DEF RevokeUserSessions, WholeStore, Store
<1> HIDE DEF row
<1>4. x \in [DOMAIN d.sessions -> Session]
  BY <1>2
<1>5. x \in Seq(Session) /\ DOMAIN x = DOMAIN d.sessions /\ \A t \in DOMAIN d.sessions : x[t] = row(t)
  BY <1>1, <1>4, SameLength
<1> HIDE DEF x
<1>6. /\ WholeStore(e) /\ e.sessions = x /\ e.users = d.users /\ e.tokens = d.tokens /\ e.states = d.states
      /\ e.identities = d.identities /\ e.challenges = d.challenges /\ e.passkeys = d.passkeys
      /\ e.totp = d.totp /\ e.passwords = d.passwords
  BY <1>3, <1>5, TableWritten
<1> QED
  BY <1>2, <1>5, <1>6 DEF SessionsOnly

LEMMA PasswordReplaced ==
  ASSUME NEW d, WholeStore(d), NEW u \in DOMAIN d.users, NEW w \in Nat, NEW e, e = ReplacePassword(d, u, w)
  PROVE  /\ SessionsOnly(d, e) /\ DOMAIN e.sessions = DOMAIN d.sessions
         /\ \A t \in DOMAIN d.sessions : /\ e.sessions[t].elevated = d.sessions[t].elevated
                                         /\ d.sessions[t].user = u => ~e.sessions[t].live
<1> DEFINE r == RevokeUserSessions(d, u)
           x == [r.passwords EXCEPT ![u] = w]
<1>1. /\ SessionsOnly(d, r) /\ DOMAIN r.sessions = DOMAIN d.sessions
      /\ \A t \in DOMAIN d.sessions : /\ r.sessions[t].elevated = d.sessions[t].elevated
                                      /\ d.sessions[t].user = u => ~r.sessions[t].live
  BY UserSignedOut
<1> HIDE DEF r
<1>2. WholeStore(r) /\ r.passwords \in Seq(Nat) /\ u \in DOMAIN r.passwords
  BY <1>1, StoreFields DEF SessionsOnly
<1>3. e = [r EXCEPT !.passwords = x]
  BY <1>2 DEF ReplacePassword, r, WholeStore, Store
<1>4. x \in Seq(Nat) /\ Len(x) = Len(r.passwords)
  BY <1>2
<1> HIDE DEF x
<1>5. /\ WholeStore(e) /\ e.sessions = r.sessions /\ e.users = r.users /\ e.tokens = r.tokens
      /\ e.states = r.states /\ e.identities = r.identities /\ e.challenges = r.challenges
      /\ e.passkeys = r.passkeys /\ e.totp = r.totp
  BY <1>2, <1>3, <1>4 DEF WholeStore, Store
<1> QED
  BY <1>1, <1>5 DEF SessionsOnly

\* Only e-mail tokens differ, and none of before works again.
TokensOnly(d, e) ==
    /\ WholeStore(e) /\ e.users = d.users /\ e.sessions = d.sessions /\ e.states = d.states
    /\ e.identities = d.identities /\ e.challenges = d.challenges /\ e.passkeys = d.passkeys /\ e.totp = d.totp
    /\ DOMAIN d.tokens \subseteq DOMAIN e.tokens
    /\ \A t \in DOMAIN d.tokens : /\ e.tokens[t].purpose = d.tokens[t].purpose
                                  /\ e.tokens[t].email = d.tokens[t].email
                                  /\ e.tokens[t].user = d.tokens[t].user
                                  /\ e.tokens[t].live => d.tokens[t].live

\* putOneTimeToken and consumeOneTimeToken write tokens.
LEMMA TokenIssued ==
  ASSUME NEW d, WholeStore(d), NEW purpose \in Purposes, NEW a \in Addresses, NEW u \in Nat,
         NEW e, e = PutOneTimeToken(d, purpose, a, u)
  PROVE  /\ TokensOnly(d, e) /\ DOMAIN e.tokens = 1..(Len(d.tokens) + 1) /\ Len(e.tokens) = Len(d.tokens) + 1
         /\ e.tokens[Len(d.tokens) + 1] = [purpose |-> purpose, email |-> a, user |-> u, live |-> TRUE]
<1> DEFINE row(t) == IF d.tokens[t].purpose = purpose /\ d.tokens[t].email = a
                     THEN [d.tokens[t] EXCEPT !.live = FALSE] ELSE d.tokens[t]
           old == [t \in DOMAIN d.tokens |-> row(t)]
           new == [purpose |-> purpose, email |-> a, user |-> u, live |-> TRUE]
           x == Append(old, new)
<1>1. d.tokens \in Seq(OneTimeToken) /\ \A t \in DOMAIN d.tokens : d.tokens[t] \in OneTimeToken
  BY StoreFields
<1>2. ASSUME NEW t \in DOMAIN d.tokens
      PROVE  /\ row(t) \in OneTimeToken /\ row(t).purpose = d.tokens[t].purpose
             /\ row(t).email = d.tokens[t].email /\ row(t).user = d.tokens[t].user
             /\ row(t).live => d.tokens[t].live
  BY <1>1 DEF OneTimeToken
<1>3. new \in OneTimeToken
  BY DEF OneTimeToken
<1>4. e = [d EXCEPT !.tokens = x]
  BY DEF PutOneTimeToken, WholeStore, Store
<1> HIDE DEF row, new
<1>5. old \in [DOMAIN d.tokens -> OneTimeToken]
  BY <1>2
<1>6. old \in Seq(OneTimeToken) /\ Len(old) = Len(d.tokens) /\ \A t \in DOMAIN d.tokens : old[t] = row(t)
  BY <1>1, <1>5, SameLength
<1> HIDE DEF old
<1>7. /\ x \in Seq(OneTimeToken) /\ Len(x) = Len(d.tokens) + 1 /\ Len(d.tokens) \in Nat
      /\ DOMAIN old = 1..Len(d.tokens) /\ DOMAIN x = 1..(Len(d.tokens) + 1)
      /\ \A t \in DOMAIN old : x[t] = old[t]
      /\ x[Len(d.tokens) + 1] = new
  BY <1>3, <1>6, Appended
<1>8. DOMAIN d.tokens = 1..Len(d.tokens)
  BY StoreFields
<1> HIDE DEF x
<1>9. /\ WholeStore(e) /\ e.tokens = x /\ e.users = d.users /\ e.sessions = d.sessions /\ e.states = d.states
      /\ e.identities = d.identities /\ e.challenges = d.challenges /\ e.passkeys = d.passkeys
      /\ e.totp = d.totp
  BY <1>4, <1>7, TableWritten
<1>10. \A t \in DOMAIN d.tokens : x[t] = row(t)
  BY <1>6, <1>7, <1>8
<1> QED
  BY <1>2, <1>7, <1>8, <1>9, <1>10 DEF TokensOnly, new

LEMMA TokenUsed ==
  ASSUME NEW d, WholeStore(d), NEW t \in DOMAIN d.tokens, NEW e, e = ConsumeOneTimeToken(d, t)
  PROVE  /\ TokensOnly(d, e) /\ DOMAIN e.tokens = DOMAIN d.tokens /\ Len(e.tokens) = Len(d.tokens)
         /\ ~e.tokens[t].live
<1> DEFINE row == [d.tokens[t] EXCEPT !.live = FALSE]
           x == [d.tokens EXCEPT ![t] = row]
<1>1. d.tokens \in Seq(OneTimeToken) /\ d.tokens[t] \in OneTimeToken
  BY StoreFields
<1>2. row \in OneTimeToken /\ ~row.live /\ row.user = d.tokens[t].user /\ row.email = d.tokens[t].email
      /\ row.purpose = d.tokens[t].purpose
  BY <1>1 DEF OneTimeToken
<1>3. e = [d EXCEPT !.tokens = x]
  BY DEF ConsumeOneTimeToken, WholeStore, Store
<1> HIDE DEF row
<1>4. x \in Seq(OneTimeToken) /\ DOMAIN x = DOMAIN d.tokens /\ Len(x) = Len(d.tokens) /\ x[t] = row
      /\ \A v \in DOMAIN d.tokens \ {t} : x[v] = d.tokens[v]
  BY <1>1, <1>2
<1> HIDE DEF x
<1>5. /\ WholeStore(e) /\ e.tokens = x /\ e.users = d.users /\ e.sessions = d.sessions /\ e.states = d.states
      /\ e.identities = d.identities /\ e.challenges = d.challenges /\ e.passkeys = d.passkeys
      /\ e.totp = d.totp
  BY <1>3, <1>4, TableWritten
<1> QED
  BY <1>2, <1>4, <1>5 DEF TokensOnly

\* No call moves.
LEMMA CallsRest ==
  ASSUME TypeOK, CallsInv, Grows, WholeStore(db'), UNCHANGED calls
  PROVE  Unenrolling
<1>1. \A q \in Slots : CallOK(db', proven', calls'[q])
  BY KnowledgeLasts DEF TypeOK, CallsInv
<1> QED
  BY <1>1 DEF Unenrolling, TypeOK, CallsInv

\* Writing sessions or tokens leaves what calls know true.
LEMMA TablesGrow ==
  ASSUME TypeOK, SessionsOnly(db, db') \/ TokensOnly(db, db'), proven \subseteq proven'
  PROVE  Grows /\ WholeStore(db')
<1>1. Len(db.challenges) \in Nat
  BY StoreFields DEF TypeOK
<1> QED
  BY <1>1 DEF Grows, SessionsOnly, TokensOnly

\* A step that writes sessions, whoever takes it.
LEMMA SessionsStep ==
  ASSUME ServiceInv, SessionsOnly(db, db'), UNCHANGED <<mailed, proven, accepted, acceptances>>,
         \A s \in DOMAIN db'.sessions \ DOMAIN db.sessions : db'.sessions[s].user \in DOMAIN db.users,
         ended' \subseteq DOMAIN db.sessions, \A s \in ended' : s \in ended \/ ~db'.sessions[s].live,
         \/ UNCHANGED calls
         \/ \E p \in Slots, c \in Call : CallOK(db', proven', c) /\ c.pc # "addkey" /\ Put(p, c)
  PROVE  ServiceInv'
<1>1. TypeOK /\ CallsInv /\ SignOutIsFinal /\ RowsAreOfUsers
  BY DEF ServiceInv, AccountsInv
<1>2. Grows /\ WholeStore(db')
  BY <1>1, TablesGrow
<1>3. Unenrolling
  BY <1>1, <1>2, CallsRest, CallUnenrolling
<1>4. \A s \in DOMAIN db'.sessions : db'.sessions[s].user \in DOMAIN db.users
  BY <1>1 DEF SessionsOnly, RowsAreOfUsers
<1>5. ended' \subseteq DOMAIN db'.sessions /\ \A s \in ended' : ~db'.sessions[s].live
  BY <1>1 DEF SessionsOnly, SignOutIsFinal
<1> QED
  BY <1>2, <1>3, <1>4, <1>5, SessionsWritten DEF SessionsOnly

\* A token is used up by the call that presents it, whose mailbox is proven.
LEMMA TokenStep ==
  ASSUME ServiceInv, NEW p \in Slots, NEW t \in DOMAIN db.tokens, NEW c \in Call, ConsumeToken(p, t, c),
         c.pc \in {"verify", "replace", "find"}, c.pc # "find" => c.user = db.tokens[t].user /\ c.user # 0,
         c.pc = "find" => c.email = db.tokens[t].email, c.next \in {"idle", "session"}
  PROVE  ServiceInv'
<1>1. TypeOK /\ CallsInv /\ RowsAreOfUsers /\ WholeStore(db)
  BY DEF ServiceInv, AccountsInv, TypeOK
<1>2. /\ TokensOnly(db, db') /\ DOMAIN db'.tokens = DOMAIN db.tokens /\ Len(db'.tokens) = Len(db.tokens)
      /\ ~db'.tokens[t].live
  BY <1>1, TokenUsed DEF ConsumeToken
<1>3. proven' = proven \cup {db.tokens[t].email}
  BY DEF ConsumeToken
<1>4. Grows /\ WholeStore(db')
  BY <1>1, <1>2, <1>3, TablesGrow
<1>5. ForAccount(db, db.tokens[t].purpose, db.tokens[t].email, db.tokens[t].user) /\ db.tokens[t].email \in Addresses
  <2>1. db.tokens[t] \in OneTimeToken
    BY <1>1, StoreFields
  <2> QED
    BY <1>1, <2>1 DEF RowsAreOfUsers, OneTimeToken
<1>6. CallOK(db', proven', c)
  <2>1. db'.users = db.users
    BY <1>2 DEF TokensOnly
  <2>2. c.pc # "find" => c.user \in DOMAIN db.users /\ db.users[c.user].email = db.tokens[t].email
    BY <1>5 DEF ForAccount
  <2> QED
    BY <1>3, <1>5, <2>1, <2>2
    DEF CallOK, AccountPcs, EnrolmentPcs, CodePcs, LinkPcs, ProfilePcs, RetryPcs
<1>7. Unenrolling
  BY <1>1, <1>4, <1>6, CallUnenrolling DEF ConsumeToken
<1>8. \A v \in DOMAIN db'.tokens :
         ForAccount(db, db'.tokens[v].purpose, db'.tokens[v].email, db'.tokens[v].user)
  BY <1>1, <1>2 DEF RowsAreOfUsers, TokensOnly
<1>9. mailed' \subseteq DOMAIN db'.tokens /\ Len(db'.tokens) <= MaxTokens /\ UNCHANGED ended /\ Spend(<<"mail", t>>)
  BY <1>1, <1>2 DEF TypeOK, ConsumeToken
<1> QED
  BY <1>2, <1>3, <1>4, <1>7, <1>8, <1>9, TokensWritten DEF TokensOnly

\* The steps that sign in.
LEMMA AccountsOpenSessions ==
  ASSUME ServiceInv, NEW p \in Slots, CreateSession(p) \/ ReplaceAndRevoke(p)
  PROVE  ServiceInv'
<1> DEFINE k == calls[p]
<1>1. k \in Call /\ CallOK(db, proven, k) /\ WholeStore(db) /\ TypeOK
  BY DEF ServiceInv, TypeOK, CallsInv
<1>2. CASE CreateSession(p)
  <2>1. k.user \in DOMAIN db.users /\ k.user \in Nat /\ k.flag \in BOOLEAN
    BY <1>1, <1>2 DEF CreateSession, CallOK, AccountPcs, Call
  <2>2. db' = InsertSession(db, k.user, k.flag)
    BY <1>2 DEF CreateSession
  <2>3. /\ SessionsOnly(db, db') /\ DOMAIN db'.sessions = 1..(Len(db.sessions) + 1)
        /\ db'.sessions[Len(db.sessions) + 1].user = k.user
    <3>1. /\ SessionsOnly(db, db') /\ DOMAIN db'.sessions = 1..(Len(db.sessions) + 1)
          /\ db'.sessions[Len(db.sessions) + 1]
               = [user |-> k.user, elevated |-> ~k.flag, pending |-> k.flag, live |-> TRUE]
      BY <1>1, <2>1, <2>2, SessionOpened
    <3> QED
      BY <3>1
  <2>4. \A s \in DOMAIN db'.sessions \ DOMAIN db.sessions : db'.sessions[s].user \in DOMAIN db.users
    BY <1>1, <2>1, <2>3, StoreFields
  <2>5. Put(p, Blank) /\ UNCHANGED <<mailed, proven, accepted, acceptances, ended>>
    BY <1>2 DEF CreateSession, Return
  <2>6. ended' \subseteq DOMAIN db.sessions
    BY <1>1, <2>5 DEF TypeOK
  <2>7. CallOK(db', proven', Blank) /\ Blank.pc # "addkey" /\ Blank \in Call
    BY BlankCall
  <2> QED
    BY <2>3, <2>4, <2>5, <2>6, <2>7, SessionsStep
<1>3. CASE ReplaceAndRevoke(p)
  <2> DEFINE c == [k EXCEPT !.pc = "session"]
  <2>1. k.user \in DOMAIN db.users /\ k.arg \in Nat
    BY <1>1, <1>3 DEF ReplaceAndRevoke, CallOK, AccountPcs, Call
  <2>2. db' = ReplacePassword(db, k.user, k.arg)
    BY <1>3 DEF ReplaceAndRevoke
  <2>3. /\ SessionsOnly(db, db') /\ DOMAIN db'.sessions = DOMAIN db.sessions
        /\ \A t \in DOMAIN db.sessions : db.sessions[t].user = k.user => ~db'.sessions[t].live
    BY <1>1, <2>1, <2>2, PasswordReplaced
  <2>4. c \in Call /\ c.pc = "session" /\ c.user = k.user /\ Put(p, c)
    BY <1>1, <1>3 DEF ReplaceAndRevoke, Goto, Put, Call, Pcs, AccountPcs
  <2> HIDE DEF c
  <2>5. CallOK(db', proven', c)
    BY <2>1, <2>3, <2>4, AccountCall DEF SessionsOnly
  <2>6. UNCHANGED <<mailed, proven, accepted, acceptances>> /\ ended' = ended \cup SessionsOf(k.user)
    BY <1>3 DEF ReplaceAndRevoke
  <2>7. ended' \subseteq DOMAIN db.sessions /\ \A s \in ended' : s \in ended \/ ~db'.sessions[s].live
    BY <1>1, <2>3, <2>6 DEF TypeOK, SessionsOf
  <2> QED
    BY <2>3, <2>4, <2>5, <2>6, <2>7, SessionsStep
<1> QED
  BY <1>2, <1>3

\* The steps that sign out, revoke or expire.
LEMMA AccountsEndSessions ==
  ASSUME ServiceInv,
         \/ \E s \in DOMAIN db.sessions : SignOut(s)
         \/ \E u \in DOMAIN db.users : RevokeAllSessions(u)
         \/ Expire
  PROVE  ServiceInv'
<1>1. WholeStore(db) /\ TypeOK /\ CallsInv /\ RowsAreOfUsers
  BY DEF ServiceInv, TypeOK, AccountsInv
<1>2. ASSUME NEW s \in DOMAIN db.sessions, db' = RevokeSession(db, s), ended' = ended \/ ended' = ended \cup {s},
             UNCHANGED <<calls, mailed, proven, accepted, acceptances>>
      PROVE  ServiceInv'
  <2>1. SessionsOnly(db, db') /\ DOMAIN db'.sessions = DOMAIN db.sessions /\ ~db'.sessions[s].live
    BY <1>1, <1>2, SessionEnded
  <2>2. ended' \subseteq DOMAIN db.sessions
    BY <1>1, <1>2 DEF TypeOK
  <2>3. \A v \in ended' : v \in ended \/ ~db'.sessions[v].live
    BY <1>2, <2>1
  <2> QED
    BY <1>2, <2>1, <2>2, <2>3, SessionsStep
<1>3. ASSUME NEW u \in DOMAIN db.users, RevokeAllSessions(u) PROVE ServiceInv'
  <2>1. /\ SessionsOnly(db, db') /\ DOMAIN db'.sessions = DOMAIN db.sessions
        /\ \A t \in DOMAIN db.sessions : db.sessions[t].user = u => ~db'.sessions[t].live
    BY <1>1, <1>3, UserSignedOut DEF RevokeAllSessions
  <2>2. ended' \subseteq DOMAIN db.sessions /\ \A s \in ended' : s \in ended \/ ~db'.sessions[s].live
    BY <1>1, <1>3, <2>1 DEF TypeOK, SessionsOf, RevokeAllSessions
  <2> QED
    BY <1>3, <2>1, <2>2, SessionsStep DEF RevokeAllSessions
<1>4. ASSUME NEW t \in DOMAIN db.tokens, db' = ConsumeOneTimeToken(db, t),
             UNCHANGED <<calls, mailed, proven, accepted, acceptances, ended>>
      PROVE  ServiceInv'
  <2>1. TokensOnly(db, db') /\ DOMAIN db'.tokens = DOMAIN db.tokens /\ Len(db'.tokens) = Len(db.tokens)
    BY <1>1, <1>4, TokenUsed
  <2>2. Grows /\ WholeStore(db')
    BY <1>1, <1>4, <2>1, TablesGrow
  <2>3. Unenrolling
    BY <1>1, <1>4, <2>2, CallsRest
  <2>4. \A v \in DOMAIN db'.tokens :
           ForAccount(db, db'.tokens[v].purpose, db'.tokens[v].email, db'.tokens[v].user)
    BY <1>1, <2>1 DEF RowsAreOfUsers, TokensOnly
  <2>5. mailed' \subseteq DOMAIN db'.tokens /\ Len(db'.tokens) <= MaxTokens
    BY <1>1, <1>4, <2>1 DEF TypeOK
  <2> QED
    BY <1>4, <2>1, <2>2, <2>3, <2>4, <2>5, TokensWritten DEF TokensOnly
<1> QED
  BY <1>2, <1>3, <1>4 DEF SignOut, Expire

\* The steps that issue, send, consume and expire tokens.
LEMMA AccountsMail ==
  ASSUME ServiceInv, NEW p \in Slots,
         \/ PutToken(p) \/ SendToken(p)
         \/ \E t \in DOMAIN db.tokens : \/ VerifyEmail(p, t) \/ ConsumeMagicLink(p, t)
                                        \/ \E w \in Passwords : ResetPassword(p, t, w)
  PROVE  ServiceInv'
<1> USE AuthAssumption DEF AuthAssumption
<1> DEFINE k == calls[p]
<1>1. k \in Call /\ CallOK(db, proven, k) /\ WholeStore(db) /\ TypeOK /\ CallsInv /\ RowsAreOfUsers
  BY DEF ServiceInv, TypeOK, CallsInv, AccountsInv
<1>2. CASE PutToken(p)
  <2> DEFINE n == Len(db.tokens) + 1
             c == [k EXCEPT !.pc = "send", !.arg = n]
  <2>1. k.email \in Addresses /\ k.purpose \in Purposes /\ ForAccount(db, k.purpose, k.email, k.user) /\ k.user \in Nat
    BY <1>1, <1>2 DEF PutToken, CallOK, Call
  <2>2. db' = PutOneTimeToken(db, k.purpose, k.email, k.user)
    BY <1>2 DEF PutToken
  <2>3. /\ TokensOnly(db, db') /\ DOMAIN db'.tokens = 1..n /\ Len(db'.tokens) = n
        /\ db'.tokens[n] = [purpose |-> k.purpose, email |-> k.email, user |-> k.user, live |-> TRUE]
    BY <1>1, <2>1, <2>2, TokenIssued
  <2>4. n \in Nat /\ n <= MaxTokens /\ DOMAIN db.tokens = 1..(n - 1)
    BY <1>1, <1>2, StoreFields DEF PutToken
  <2>5. c \in Call /\ c.pc = "send" /\ c.arg = n /\ Put(p, c)
    BY <1>1, <1>2, <2>4 DEF PutToken, Call, Pcs
  <2> HIDE DEF c
  <2>6. CallOK(db', proven', c)
    BY <2>3, <2>4, <2>5 DEF CallOK, AccountPcs, EnrolmentPcs, CodePcs, LinkPcs, ProfilePcs, RetryPcs
  <2>7. UNCHANGED <<mailed, proven, accepted, acceptances, ended>>
    BY <1>2 DEF PutToken
  <2>8. Grows /\ WholeStore(db')
    BY <1>1, <2>3, <2>7, TablesGrow
  <2>9. Unenrolling
    BY <1>1, <2>5, <2>6, <2>8, CallUnenrolling
  <2>10. \A v \in DOMAIN db'.tokens :
            ForAccount(db, db'.tokens[v].purpose, db'.tokens[v].email, db'.tokens[v].user)
    <3>1. \A v \in DOMAIN db.tokens :
             ForAccount(db, db'.tokens[v].purpose, db'.tokens[v].email, db'.tokens[v].user)
      BY <1>1, <2>3 DEF RowsAreOfUsers, TokensOnly
    <3>2. ForAccount(db, db'.tokens[n].purpose, db'.tokens[n].email, db'.tokens[n].user)
      BY <2>1, <2>3
    <3> QED
      BY <2>3, <2>4, <3>1, <3>2
  <2>11. mailed' \subseteq DOMAIN db'.tokens
    BY <1>1, <2>3, <2>4, <2>7 DEF TypeOK
  <2> QED
    BY <2>3, <2>4, <2>7, <2>8, <2>9, <2>10, <2>11, TokensWritten DEF TokensOnly
<1>3. CASE SendToken(p)
  <2>1. k.arg \in DOMAIN db.tokens
    BY <1>1, <1>3 DEF SendToken, CallOK
  <2>2. Grows /\ WholeStore(db')
    BY <1>1, <1>3, StoreFields DEF Grows, SendToken
  <2>3. Unenrolling
    BY <1>1, <1>3, <2>2, BlankCall, CallUnenrolling DEF SendToken, Return
  <2>4. mailed' \subseteq DOMAIN db.tokens /\ Len(db.tokens) <= MaxTokens
    BY <1>1, <1>3, <2>1 DEF SendToken, TypeOK
  <2>5. \A v \in DOMAIN db.tokens : ForAccount(db, db.tokens[v].purpose, db.tokens[v].email, db.tokens[v].user)
    BY <1>1 DEF RowsAreOfUsers
  <2> QED
    BY <1>3, <2>2, <2>3, <2>4, <2>5, TokensWritten DEF SendToken
<1>4. ASSUME NEW t \in DOMAIN db.tokens
      PROVE  /\ db.tokens[t].user \in Nat /\ db.tokens[t].email \in Addresses
             /\ db.tokens[t].purpose # "magic-link" => db.tokens[t].user # 0
  <2>1. db.tokens[t] \in OneTimeToken /\ ForAccount(db, db.tokens[t].purpose, db.tokens[t].email, db.tokens[t].user)
    BY <1>1, StoreFields DEF RowsAreOfUsers
  <2> QED
    BY <2>1 DEF OneTimeToken, ForAccount
<1>5. ASSUME NEW t \in DOMAIN db.tokens, VerifyEmail(p, t) PROVE ServiceInv'
  <2> DEFINE c == [Blank EXCEPT !.pc = "verify", !.user = db.tokens[t].user]
  <2>1. c \in Call /\ c.pc = "verify" /\ c.user = db.tokens[t].user /\ c.next = "idle" /\ c.user # 0
    BY <1>4, <1>5, BlankCall DEF VerifyEmail, TokenWorks, Call, Pcs, AccountPcs, Blank
  <2>2. ConsumeToken(p, t, c)
    BY <1>5 DEF VerifyEmail
  <2> HIDE DEF c
  <2> QED
    BY <2>1, <2>2, TokenStep
<1>6. ASSUME NEW t \in DOMAIN db.tokens, ConsumeMagicLink(p, t) PROVE ServiceInv'
  <2> DEFINE c == [Blank EXCEPT !.pc = "find", !.email = db.tokens[t].email, !.next = "session"]
  <2>1. c \in Call /\ c.pc = "find" /\ c.email = db.tokens[t].email /\ c.next = "session"
    BY <1>4, BlankCall DEF Call, Pcs, LinkPcs
  <2>2. ConsumeToken(p, t, c)
    BY <1>6 DEF ConsumeMagicLink
  <2> HIDE DEF c
  <2> QED
    BY <2>1, <2>2, TokenStep
<1>7. ASSUME NEW t \in DOMAIN db.tokens, NEW w \in Passwords, ResetPassword(p, t, w) PROVE ServiceInv'
  <2> DEFINE c == [Blank EXCEPT !.pc = "replace", !.user = db.tokens[t].user, !.arg = w]
  <2>1. c \in Call /\ c.pc = "replace" /\ c.user = db.tokens[t].user /\ c.next = "idle" /\ c.user # 0
    BY <1>4, <1>7, BlankCall DEF ResetPassword, TokenWorks, Call, Pcs, AccountPcs, Blank
  <2>2. ConsumeToken(p, t, c)
    BY <1>7 DEF ResetPassword
  <2> HIDE DEF c
  <2> QED
    BY <2>1, <2>2, TokenStep
<1> QED
  BY <1>2, <1>3, <1>5, <1>6, <1>7

\* A user is created for an address that is free, or proven to be nobody else's, with a subject or none.
LEMMA UserCreated ==
  ASSUME ServiceInv, NEW a \in Addresses, NEW verified \in BOOLEAN, NEW origin \in {"password", "magic-link", "oauth"},
         NEW e, UserAdded(db, e, [email |-> a, verified |-> verified, origin |-> origin]), EmailIsFree(db, a),
         WholeStore(db'), db'.users = e.users, db'.tokens = e.tokens, db'.sessions = e.sessions,
         db'.states = e.states, db'.challenges = e.challenges, db'.passkeys = e.passkeys,
         \/ db'.identities = db.identities
         \/ \E subject : /\ db'.identities = db.identities \cup {<<subject, Len(db.users) + 1>>}
                         /\ OwnersOf(db, subject) = {},
         verified => a \in proven \cup {NoEmail},
         UNCHANGED <<mailed, proven, accepted, acceptances, ended>>,
         NEW p \in Slots, NEW c \in Call, c.pc \in {"token", "session"}, c.user = Len(db.users) + 1,
         c.pc = "token" => c.purpose \in Purposes /\ c.email = a, Put(p, c)
  PROVE  ServiceInv'
<1> DEFINE n == Len(db.users) + 1
<1>1. TypeOK /\ CallsInv /\ RowsAreOfUsers /\ AccountsAreSound /\ WholeStore(db)
  BY DEF ServiceInv, TypeOK, AccountsInv
<1>2. /\ WholeStore(e) /\ Len(e.users) = n
      /\ \A u \in DOMAIN db.users : e.users[u] = db.users[u]
      /\ e.users[n] = [email |-> a, verified |-> verified, origin |-> origin]
      /\ e.tokens = db.tokens /\ e.sessions = db.sessions /\ e.states = db.states
      /\ e.challenges = db.challenges /\ e.passkeys = db.passkeys
  BY DEF UserAdded
<1>3. DOMAIN db.users = 1..(n - 1) /\ n \in Nat \ {0} /\ DOMAIN db'.users = 1..n /\ Len(db.challenges) \in Nat
  BY <1>1, <1>2, StoreFields
<1>4. /\ \A u \in DOMAIN db.users : db'.users[u] = db.users[u]
      /\ db'.users[n].email = a /\ db'.users[n].verified = verified
  BY <1>2
<1>5. DOMAIN db'.users = DOMAIN db.users \cup {n} /\ n \notin DOMAIN db.users
  BY <1>3
<1> HIDE DEF n
<1>6. Grows
  BY <1>2, <1>3, <1>4, <1>5 DEF Grows
<1>7. CallOK(db', proven', c)
  <2>1. CASE c.pc = "session"
    BY <1>5, <2>1, AccountCall DEF n
  <2>2. CASE c.pc = "token"
    <3>1. ForAccount(db', c.purpose, c.email, c.user)
      BY <1>3, <1>4, <1>5, <2>2 DEF ForAccount, n
    <3> QED
      BY <2>2, <3>1 DEF CallOK, AccountPcs, EnrolmentPcs, CodePcs, LinkPcs, ProfilePcs, RetryPcs
  <2> QED
    BY <2>1, <2>2
<1>8. Unenrolling
  BY <1>1, <1>6, <1>7, CallUnenrolling
<1>9. \A i \in db'.identities : i[2] \in DOMAIN db'.users
  BY <1>1, <1>5 DEF RowsAreOfUsers, n
<1>10. VerifiedByProof'
  BY <1>1, <1>4, <1>5 DEF VerifiedByProof, AccountsAreSound
<1>11. AccountsAreWhole'
  <2>1. \A u, v \in DOMAIN db'.users :
           db'.users[u].email = db'.users[v].email /\ u /= v => db'.users[u].email = NoEmail
    <3>1. \A u \in DOMAIN db.users : db.users[u].email = a => a = NoEmail
      BY DEF EmailIsFree, UserByEmail
    <3> QED
      BY <1>1, <1>4, <1>5, <3>1 DEF AccountsAreSound, AccountsAreWhole
  <2>2. \A i, j \in db'.identities : i[1] = j[1] => i = j
    <3>1. CASE db'.identities = db.identities
      BY <1>1, <3>1 DEF AccountsAreSound, AccountsAreWhole
    <3>2. ASSUME NEW subject, db'.identities = db.identities \cup {<<subject, n>>}, OwnersOf(db, subject) = {}
          PROVE  \A i, j \in db'.identities : i[1] = j[1] => i = j
      <4>1. \A i \in db.identities : i = <<i[1], i[2]>> /\ i[2] \in DOMAIN db.users
        <5>1. db.identities \subseteq Subjects \X Nat
          BY <1>1, StoreFields
        <5> QED
          BY <1>1, <5>1 DEF RowsAreOfUsers
      <4>2. \A i \in db.identities : i[1] # subject
        BY <3>2, <4>1 DEF OwnersOf
      <4> QED
        BY <1>1, <3>2, <4>2 DEF AccountsAreSound, AccountsAreWhole
    <3> QED
      BY <3>1, <3>2 DEF n
  <2> QED
    BY <2>1, <2>2 DEF AccountsAreWhole
<1> QED
  BY <1>2, <1>4, <1>5, <1>8, <1>9, <1>10, <1>11, UsersWritten DEF AccountsAreSound

\* The steps that create a user or verify an address.
LEMMA AccountsUsers ==
  ASSUME ServiceInv, NEW p \in Slots,
         SetVerified(p) \/ MagicCreate(p) \/ \E a \in Emails, w \in Passwords : RegisterPassword(p, a, w)
  PROVE  ServiceInv'
<1> USE AuthAssumption DEF AuthAssumption
<1> DEFINE k == calls[p]
<1>1. k \in Call /\ CallOK(db, proven, k) /\ WholeStore(db) /\ TypeOK /\ CallsInv /\ RowsAreOfUsers /\ AccountsAreSound
  BY DEF ServiceInv, TypeOK, CallsInv, AccountsInv
<1>2. CASE SetVerified(p)
  <2> DEFINE u == k.user
             c == IF k.next = "idle" THEN Blank ELSE [k EXCEPT !.pc = "session"]
  <2>1. /\ u \in DOMAIN db.users /\ db.users[u].email \in proven \cup {NoEmail} /\ k.next \in {"idle", "session"}
        /\ db.users[u] \in User
    BY <1>1, <1>2, StoreFields DEF SetVerified, CallOK, AccountPcs
  <2>2. db' = SetEmailVerified(db, u) /\ UNCHANGED <<mailed, proven, accepted, acceptances, ended>>
    BY <1>2 DEF SetVerified
  <2>3. /\ WholeStore(db') /\ Len(db'.users) = Len(db.users)
        /\ db'.users[u] = [db.users[u] EXCEPT !.verified = TRUE]
        /\ \A v \in DOMAIN db.users \ {u} : db'.users[v] = db.users[v]
        /\ db'.tokens = db.tokens /\ db'.sessions = db.sessions /\ db'.states = db.states
        /\ db'.identities = db.identities /\ db'.challenges = db.challenges /\ db'.passkeys = db.passkeys
    BY <1>1, <2>1, <2>2, UserUpdate
  <2>4. DOMAIN db'.users = DOMAIN db.users /\ Len(db.challenges) \in Nat
    BY <1>1, <2>3, StoreFields
  <2>5. \A v \in DOMAIN db.users : db'.users[v].email = db.users[v].email
    <3>1. db'.users[u].email = db.users[u].email
      BY <2>1, <2>3 DEF User
    <3> QED
      BY <2>3, <3>1
  <2>6. Grows
    BY <2>2, <2>3, <2>4, <2>5 DEF Grows
  <2>7. c \in Call /\ c.pc # "addkey" /\ CallOK(db', proven', c) /\ Put(p, c)
    <3>1. CASE k.next = "idle"
      BY <1>2, <3>1, BlankCall DEF SetVerified, Return
    <3>2. CASE k.next # "idle"
      <4>1. c = [k EXCEPT !.pc = "session"] /\ k.next = "session"
        BY <2>1, <3>2
      <4>2. c \in Call /\ c.pc = "session" /\ c.user = u
        BY <1>1, <4>1 DEF Call, Pcs, AccountPcs
      <4>3. Put(p, c)
        BY <1>1, <1>2, <3>2, <4>1 DEF SetVerified, Goto, Put, Call
      <4> QED
        BY <2>1, <2>4, <4>2, <4>3, AccountCall
    <3> QED
      BY <3>1, <3>2
  <2> HIDE DEF c
  <2>8. Unenrolling
    BY <1>1, <2>3, <2>6, <2>7, CallUnenrolling
  <2>9. \A i \in db'.identities : i[2] \in DOMAIN db'.users
    BY <1>1, <2>3, <2>4 DEF RowsAreOfUsers
  <2>10. AccountsAreSound'
    <3>1. VerifiedByProof'
      BY <1>1, <2>1, <2>2, <2>3, <2>4, <2>5 DEF AccountsAreSound, VerifiedByProof
    <3>2. AccountsAreWhole'
      BY <1>1, <2>3, <2>4, <2>5 DEF AccountsAreSound, AccountsAreWhole
    <3> QED
      BY <3>1, <3>2 DEF AccountsAreSound
  <2> QED
    BY <2>2, <2>3, <2>4, <2>5, <2>8, <2>9, <2>10, UsersWritten
<1>3. CASE MagicCreate(p)
  <2>1. k.pc = "create" /\ k.email \in Addresses \cap proven /\ k.next \in {"idle", "session"}
    BY <1>1, <1>3 DEF MagicCreate, CallOK, LinkPcs
  <2>2. CASE EmailIsFree(db, k.email)
    <3> DEFINE c == [k EXCEPT !.pc = "session", !.user = Len(db.users) + 1]
    <3>1. db' = InsertUser(db, k.email, TRUE, "magic-link", 0)
      BY <1>3, <2>2 DEF MagicCreate, CreateMagicLinkUser
    <3>2. Len(db.users) + 1 \in Nat
      BY <1>1, StoreFields
    <3>3. c \in Call /\ c.pc = "session" /\ c.user = Len(db.users) + 1
      BY <1>1, <3>2 DEF Call, Pcs, AccountPcs
    <3>4. Put(p, c) /\ UNCHANGED <<mailed, proven, accepted, acceptances, ended>>
      BY <1>3, <2>2 DEF MagicCreate
    <3> HIDE DEF c
    <3>5. UserAdded(db, db', [email |-> k.email, verified |-> TRUE, origin |-> "magic-link"])
      BY <1>1, <2>1, <3>1, NewUser
    <3>6. WholeStore(db') /\ db'.identities = db.identities
      BY <3>5 DEF UserAdded
    <3> QED
      BY <2>1, <2>2, <3>3, <3>4, <3>5, <3>6, UserCreated
  <2>3. CASE ~EmailIsFree(db, k.email)
    <3>1. CallOK(db, proven, [k EXCEPT !.pc = "find"])
      BY <1>1, <2>1 DEF CallOK, Call, AccountPcs, EnrolmentPcs, CodePcs, LinkPcs, ProfilePcs, RetryPcs
    <3>2. "find" \in Pcs \ {"addkey"}
      BY DEF Pcs, LinkPcs
    <3> QED
      BY <1>3, <2>3, <3>1, <3>2, CallGoes DEF MagicCreate
  <2> QED
    BY <2>2, <2>3
<1>4. ASSUME NEW a \in Emails, NEW w \in Passwords, RegisterPassword(p, a, w) PROVE ServiceInv'
  <2> DEFINE n == Len(db.users) + 1
             c == [Blank EXCEPT !.pc = "token", !.purpose = "email-verification", !.email = a, !.user = n]
  <2>1. n \in Nat /\ a \in Addresses /\ w \in Nat
    BY <1>1, StoreFields DEF Addresses
  <2>2. /\ c \in Call /\ c.pc = "token" /\ c.user = n /\ c.purpose \in Purposes /\ c.email = a
    BY <2>1, BlankCall DEF Call, Pcs, Purposes
  <2>3. Put(p, c) /\ EmailIsFree(db, a) /\ UNCHANGED <<mailed, proven, accepted, acceptances, ended>>
    BY <1>4 DEF RegisterPassword, Issue
  <2>4. db' = InsertUser(db, a, FALSE, "password", w)
    BY <1>4 DEF RegisterPassword, CreatePasswordUser
  <2> HIDE DEF c
  <2>5. UserAdded(db, db', [email |-> a, verified |-> FALSE, origin |-> "password"])
    BY <1>1, <2>1, <2>4, NewUser
  <2>6. WholeStore(db') /\ db'.identities = db.identities
    BY <2>5 DEF UserAdded
  <2> QED
    BY <2>1, <2>2, <2>3, <2>5, <2>6, UserCreated
<1> QED
  BY <1>2, <1>3, <1>4

\* Every step of accounts keeps the invariant.
LEMMA AccountsKeep == ServiceInv /\ AccountsNext => ServiceInv'
  BY AccountsRead, AccountsOpenSessions, AccountsEndSessions, AccountsMail, AccountsUsers DEF AccountsNext

-----------------------------------------------------------------------------
(* External identities                                                     *)

\* The steps of identities that read the store and write none of it.
LEMMA IdentitiesRead ==
  ASSUME ServiceInv, NEW p \in Slots,
         \/ FindIdentity(p) \/ FindTarget(p) \/ ReadPasskey(p)
         \/ \E s \in DOMAIN db.sessions : \/ UnlinkOAuthIdentity(p, s)
                                          \/ \E k \in db.passkeys : RemoveOwnPasskey(p, s, k.id)
  PROVE  ServiceInv'
<1> DEFINE k == calls[p]
<1>1. k \in Call /\ CallOK(db, proven, k) /\ WholeStore(db) /\ RowsAreOfUsers
  BY DEF ServiceInv, TypeOK, CallsInv, AccountsInv
<1>2. \A u \in DOMAIN db.users : u \in Nat
  BY <1>1, StoreFields
<1>3. CASE FindIdentity(p)
  <2> DEFINE asker == IF k.sess = 0 THEN 0 ELSE db.sessions[k.sess].user
  <2>1. /\ k.pc = "identity" /\ k.sess \in {0} \cup DOMAIN db.sessions
        /\ k.email \in Addresses \cap (proven \cup {NoEmail}) /\ k.purpose \in Subjects
    BY <1>1, <1>3 DEF FindIdentity, CallOK, ProfilePcs
  <2>2. asker \in {0} \cup DOMAIN db.users /\ asker \in Nat
    BY <1>1, <1>2, <2>1 DEF RowsAreOfUsers
  <2> HIDE DEF asker
  <2>3. CASE Put(p, [k EXCEPT !.pc = "target", !.user = asker])
    <3> DEFINE c == [k EXCEPT !.pc = "target", !.user = asker]
    <3>1. c \in Call /\ c.pc = "target" /\ c.user = asker /\ c.email = k.email /\ c.purpose = k.purpose
      BY <1>1, <2>2 DEF Call, Pcs, ProfilePcs
    <3>2. Put(p, c)
      BY <2>3
    <3> HIDE DEF c
    <3>3. CallOK(db, proven, c)
      BY <2>1, <2>2, <3>1 DEF CallOK, AccountPcs, EnrolmentPcs, CodePcs, LinkPcs, ProfilePcs, RetryPcs
    <3> QED
      BY <1>3, <3>1, <3>2, <3>3, CallReads DEF FindIdentity
  <2>4. ASSUME NEW u \in DOMAIN db.users, Put(p, [k EXCEPT !.pc = "session", !.user = u]) PROVE ServiceInv'
    <3> DEFINE c == [k EXCEPT !.pc = "session", !.user = u]
    <3>1. c \in Call /\ c.pc = "session" /\ c.user = u
      BY <1>1, <1>2 DEF Call, Pcs, AccountPcs
    <3>2. Put(p, c)
      BY <2>4
    <3> HIDE DEF c
    <3>3. CallOK(db, proven, c)
      BY <3>1, AccountCall
    <3> QED
      BY <1>3, <3>1, <3>2, <3>3, CallReads DEF FindIdentity
  <2>5. CASE Return(p)
    BY <1>3, <2>5, CallReturns DEF FindIdentity
  <2> QED
    BY <1>3, <2>3, <2>4, <2>5 DEF FindIdentity, OwnersOf, asker
<1>4. CASE FindTarget(p)
  <2>1. /\ k.pc = "target" /\ k.user \in {0} \cup DOMAIN db.users
        /\ k.email \in Addresses \cap (proven \cup {NoEmail}) /\ k.purpose \in Subjects
    BY <1>1, <1>4 DEF FindTarget, CallOK, ProfilePcs
  <2>2. CASE Goto(p, "newuser")
    <3>1. CallOK(db, proven, [k EXCEPT !.pc = "newuser"])
      BY <1>1, <2>1 DEF CallOK, Call, AccountPcs, EnrolmentPcs, CodePcs, LinkPcs, ProfilePcs, RetryPcs
    <3>2. "newuser" \in Pcs \ {"addkey"}
      BY DEF Pcs, ProfilePcs
    <3> QED
      BY <1>4, <2>2, <3>1, <3>2, CallGoes DEF FindTarget
  <2>3. ASSUME NEW u \in DOMAIN db.users, Put(p, [k EXCEPT !.pc = "link", !.user = u]) PROVE ServiceInv'
    <3> DEFINE c == [k EXCEPT !.pc = "link", !.user = u]
    <3>1. c \in Call /\ c.pc = "link" /\ c.user = u /\ c.email = k.email /\ c.purpose = k.purpose
      BY <1>1, <1>2 DEF Call, Pcs, AccountPcs
    <3>2. Put(p, c)
      BY <2>3
    <3> HIDE DEF c
    <3>3. CallOK(db, proven, c)
      BY <2>1, <3>1 DEF CallOK, AccountPcs, EnrolmentPcs, CodePcs, LinkPcs, ProfilePcs, RetryPcs
    <3> QED
      BY <1>4, <3>1, <3>2, <3>3, CallReads DEF FindTarget
  <2>4. CASE Return(p)
    BY <1>4, <2>4, CallReturns DEF FindTarget
  <2> QED
    BY <1>4, <2>1, <2>2, <2>3, <2>4 DEF FindTarget, UserByEmail
<1>5. CASE ReadPasskey(p)
  <2>1. k.pc = "readkey" /\ k.arg \in 0..Len(db.challenges) /\ k.secret \in Counters
    BY <1>1, <1>5 DEF ReadPasskey, CallOK
  <2>2. ASSUME NEW x \in db.passkeys, CounterIncreases(x.counter, k.secret),
               Put(p, [k EXCEPT !.pc = "counter", !.user = x.user, !.tries = x.counter])
        PROVE  ServiceInv'
    <3> DEFINE c == [k EXCEPT !.pc = "counter", !.user = x.user, !.tries = x.counter]
    <3>1. x \in Passkey /\ x.user \in DOMAIN db.users
      BY <1>1, StoreFields DEF RowsAreOfUsers
    <3>2. x.counter \in Nat /\ x.user \in Nat
      BY <3>1 DEF Passkey
    <3>3. Put(p, c)
      BY <2>2
    <3>4. c \in Call /\ c.pc = "counter" /\ c.user = x.user /\ c.tries = x.counter /\ c.arg = k.arg
          /\ c.secret = k.secret
      <4> DEFINE n == x.counter
                 u == x.user
      <4>1. "counter" \in Pcs
        BY DEF Pcs, AccountPcs
      <4>2. n \in Int /\ u \in Nat
        BY <3>2
      <4> HIDE DEF n, u
      <4> SUFFICES ASSUME NEW b, b = [k EXCEPT !.pc = "counter", !.user = u, !.tries = n]
                   PROVE  /\ b \in Call /\ b.pc = "counter" /\ b.user = u /\ b.tries = n /\ b.arg = k.arg
                          /\ b.secret = k.secret
        BY DEF n, u
      <4>3. k \in Call
        BY <1>1
      <4> HIDE DEF k
      <4> QED
        BY <4>1, <4>2, <4>3 DEF Call
    <3> HIDE DEF c
    <3>5. CallOK(db, proven, c)
      BY <2>1, <2>2, <3>1, <3>2, <3>4
      DEF CallOK, CounterIncreases, AccountPcs, EnrolmentPcs, CodePcs, LinkPcs, ProfilePcs, RetryPcs
    <3> QED
      BY <1>5, <3>3, <3>4, <3>5, CallReads DEF ReadPasskey
  <2>3. CASE Return(p)
    BY <1>5, <2>3, CallReturns DEF ReadPasskey
  <2> QED
    BY <1>5, <2>2, <2>3 DEF ReadPasskey
<1>6. ASSUME NEW s \in DOMAIN db.sessions, NEW n \in Nat,
             UnlinkOAuthIdentity(p, s) \/ RemoveOwnPasskey(p, s, n)
      PROVE  ServiceInv'
  <2> DEFINE u == db.sessions[s].user
  <2>1. u \in DOMAIN db.users /\ u \in Nat
    BY <1>1, <1>2 DEF RowsAreOfUsers
  <2> HIDE DEF u
  <2>2. PICK c : /\ \/ c = [Blank EXCEPT !.pc = "unlink", !.user = u]
                    \/ c = [Blank EXCEPT !.pc = "dropkey", !.user = u, !.arg = n]
                 /\ Put(p, c)
    BY <1>6 DEF UnlinkOAuthIdentity, RemoveOwnPasskey, u
  <2>3. c \in Call /\ c.pc \in {"unlink", "dropkey"} /\ c.user = u
    <3>1. "unlink" \in Pcs /\ "dropkey" \in Pcs
      BY DEF Pcs, AccountPcs
    <3> QED
      BY <2>1, <2>2, <3>1, BlankCall DEF Call
  <2>4. CallOK(db, proven, c)
    BY <2>1, <2>3, AccountCall
  <2> QED
    BY <1>6, <2>2, <2>3, <2>4, CallReads DEF UnlinkOAuthIdentity, RemoveOwnPasskey
<1>7. \A x \in db.passkeys : x.id \in Nat
  BY <1>1, StoreFields DEF Passkey
<1> QED
  BY <1>3, <1>4, <1>5, <1>6, <1>7

\* States of the OAuth flow are issued or used up.
LEMMA StatesWritten ==
  ASSUME ServiceInv, WholeStore(db'), Unenrolling, UNCHANGED <<mailed, ended>>,
         db'.users = db.users, db'.tokens = db.tokens, db'.sessions = db.sessions,
         db'.identities = db.identities, db'.challenges = db.challenges, db'.passkeys = db.passkeys,
         DOMAIN db.states \subseteq DOMAIN db'.states, Len(db'.states) <= MaxStates,
         \A n \in DOMAIN db.states : db'.states[n] => db.states[n], proven \subseteq proven',
         \/ UNCHANGED <<accepted, acceptances>>
         \/ \E n \in DOMAIN db.states : ~db'.states[n] /\ Spend(<<"state", n>>)
  PROVE  ServiceInv'
<1> USE AuthAssumption DEF AuthAssumption
<1>1. TypeOK /\ OnceInv /\ AccountsInv
  BY DEF ServiceInv
<1>2. accepted' \subseteq Credentials /\ acceptances' \in Nat
  <2>1. CASE UNCHANGED <<accepted, acceptances>>
    BY <1>1, <2>1 DEF TypeOK
  <2>2. ASSUME NEW n \in DOMAIN db.states, Spend(<<"state", n>>)
        PROVE  accepted' \subseteq Credentials /\ acceptances' \in Nat
    <3>1. n \in 1..MaxStates
      BY <1>1, StoreFields DEF TypeOK
    <3>2. <<"state", n>> \in Credentials
      BY <3>1 DEF Credentials
    <3> QED
      BY <1>1, <2>2, <3>2 DEF TypeOK, Spend
  <2> QED
    BY <2>1, <2>2
<1>3. TypeOK'
  BY <1>1, <1>2 DEF TypeOK, Unenrolling
<1>4. AccountsInv'
  BY <1>1 DEF AccountsInv, RowsAreOfUsers, ForAccount, AccountsAreSound, VerifiedByProof, AccountsAreWhole
<1>5. OnceInv'
  <2>1. \A q \in Slots : calls'[q].pc = "addkey" => calls[q].pc = "addkey" /\ calls'[q].arg = calls[q].arg
    BY DEF Unenrolling
  <2>2. /\ \A t : <<"mail", t>> \in accepted' => <<"mail", t>> \in accepted
        /\ \A c : <<"challenge", c>> \in accepted' => <<"challenge", c>> \in accepted
        /\ \A i, n : <<"assertion", i, n>> \in accepted' => <<"assertion", i, n>> \in accepted
    BY DEF Spend
  <2>3. \A n : <<"state", n>> \in accepted' => n \in DOMAIN db'.states /\ ~db'.states[n]
    <3>1. \A n : <<"state", n>> \in accepted => n \in DOMAIN db.states /\ ~db.states[n]
      BY <1>1 DEF OnceInv
    <3>2. CASE UNCHANGED <<accepted, acceptances>>
      BY <3>1, <3>2
    <3>3. CASE \E n \in DOMAIN db.states : ~db'.states[n] /\ Spend(<<"state", n>>)
      BY <3>1, <3>3 DEF Spend
    <3> QED
      BY <3>2, <3>3
  <2> QED
    BY <1>1, <2>1, <2>2, <2>3 DEF OnceInv, KeysOnce, KeyId
<1> QED
  BY <1>3, <1>4, <1>5 DEF ServiceInv, SignOutIsFinal, Unenrolling

\* OAuth states are issued and consumed.
LEMMA StatesKeep ==
  ASSUME ServiceInv,
         \/ BeginOAuth
         \/ \E p \in Slots, n \in DOMAIN db.states, f \in Profiles, s \in {0} \cup DOMAIN db.sessions :
               CompleteOAuth(p, n, f, s)
  PROVE  ServiceInv'
<1>1. WholeStore(db) /\ TypeOK /\ CallsInv
  BY DEF ServiceInv, TypeOK
<1>2. /\ db.states \in Seq(BOOLEAN) /\ DOMAIN db.states = 1..Len(db.states) /\ Len(db.states) \in Nat
      /\ Len(db.challenges) \in Nat /\ DOMAIN db.sessions = 1..Len(db.sessions) /\ Len(db.sessions) \in Nat
  BY <1>1, StoreFields
<1>3. CASE BeginOAuth
  <2> DEFINE x == Append(db.states, TRUE)
  <2>1. x \in Seq(BOOLEAN) /\ Len(x) = Len(db.states) + 1 /\ DOMAIN x = 1..(Len(db.states) + 1)
        /\ \A n \in DOMAIN db.states : x[n] = db.states[n]
    <3> DEFINE T == BOOLEAN
               true == TRUE
    <3>1. db.states \in Seq(T) /\ true \in T
      BY <1>2
    <3> HIDE DEF T, true
    <3>2. /\ Append(db.states, true) \in Seq(T) /\ Len(Append(db.states, true)) = Len(db.states) + 1
          /\ DOMAIN Append(db.states, true) = 1..(Len(db.states) + 1)
          /\ \A n \in DOMAIN db.states : Append(db.states, true)[n] = db.states[n]
      BY <3>1, Appended
    <3> QED
      BY <3>2 DEF T, true
  <2>2. db' = [db EXCEPT !.states = x] /\ UNCHANGED <<calls, mailed, proven, accepted, acceptances, ended>>
    BY <1>1, <1>3 DEF BeginOAuth, PutOAuthState, WholeStore, Store
  <2> HIDE DEF x
  <2>3. /\ WholeStore(db') /\ db'.states = x /\ db'.users = db.users /\ db'.tokens = db.tokens
        /\ db'.sessions = db.sessions /\ db'.identities = db.identities /\ db'.challenges = db.challenges
        /\ db'.passkeys = db.passkeys
    BY <1>1, <2>1, <2>2, TableWritten
  <2>4. Grows
    BY <1>2, <2>2, <2>3 DEF Grows
  <2>5. Unenrolling
    BY <1>1, <2>2, <2>3, <2>4, CallsRest
  <2>6. Len(db'.states) <= MaxStates /\ DOMAIN db.states \subseteq DOMAIN db'.states
    <3>1. Len(db.states) + 1 <= MaxStates
      BY <1>2, <1>3, AuthAssumption DEF BeginOAuth, AuthAssumption
    <3> QED
      BY <1>2, <2>1, <2>3, <3>1
  <2> QED
    BY <2>1, <2>2, <2>3, <2>5, <2>6, StatesWritten
<1>4. ASSUME NEW p \in Slots, NEW n \in DOMAIN db.states, NEW f \in Profiles, NEW s \in {0} \cup DOMAIN db.sessions,
             CompleteOAuth(p, n, f, s)
      PROVE  ServiceInv'
  <2> DEFINE x == [db.states EXCEPT ![n] = FALSE]
             a == VouchedAddress(f)
             c == [Blank EXCEPT !.pc = "identity", !.purpose = f[1], !.email = a, !.sess = s]
  <2>1. x \in Seq(BOOLEAN) /\ Len(x) = Len(db.states) /\ DOMAIN x = DOMAIN db.states /\ ~x[n]
        /\ \A m \in DOMAIN db.states \ {n} : x[m] = db.states[m]
    BY <1>2
  <2>2. db' = [db EXCEPT !.states = x] /\ UNCHANGED <<mailed, ended>> /\ Spend(<<"state", n>>)
    BY <1>1, <1>4 DEF CompleteOAuth, ConsumeOAuthState, WholeStore, Store
  <2> HIDE DEF x
  <2>3. /\ WholeStore(db') /\ db'.states = x /\ db'.users = db.users /\ db'.tokens = db.tokens
        /\ db'.sessions = db.sessions /\ db'.identities = db.identities /\ db'.challenges = db.challenges
        /\ db'.passkeys = db.passkeys
    BY <1>1, <2>1, <2>2, TableWritten
  <2>4. a \in Addresses /\ proven \subseteq proven' /\ a \in proven' \cup {NoEmail} /\ f[1] \in Subjects
    BY <1>4 DEF CompleteOAuth, VouchedAddress, Profiles, Addresses
  <2>5. Grows
    BY <1>2, <2>2, <2>3, <2>4 DEF Grows
  <2>6. s \in Nat
    BY <1>2
  <2>7. Put(p, c)
    BY <1>4 DEF CompleteOAuth
  <2> HIDE DEF a
  <2>8. c \in Call /\ c.pc = "identity" /\ c.purpose = f[1] /\ c.email = a /\ c.sess = s
    BY <2>4, <2>6, BlankCall DEF Call, Pcs, ProfilePcs
  <2> HIDE DEF c
  <2>9. CallOK(db', proven', c)
    BY <2>3, <2>4, <2>8 DEF CallOK, AccountPcs, EnrolmentPcs, CodePcs, LinkPcs, ProfilePcs, RetryPcs
  <2>10. Unenrolling
    BY <1>1, <2>3, <2>5, <2>7, <2>8, <2>9, CallUnenrolling
  <2>11. \A m \in DOMAIN db.states : db'.states[m] => db.states[m]
    BY <2>1, <2>3
  <2>12. Len(db'.states) <= MaxStates /\ DOMAIN db.states \subseteq DOMAIN db'.states /\ ~db'.states[n]
    BY <1>1, <2>1, <2>3 DEF TypeOK
  <2> QED
    BY <2>2, <2>3, <2>4, <2>10, <2>11, <2>12, StatesWritten
<1> QED
  BY <1>3, <1>4

\* The same of identities and of challenges.
LEMMA IdentitiesTable ==
  ASSUME NEW d, WholeStore(d), NEW x \in SUBSET (Subjects \X Nat), NEW e, e = [d EXCEPT !.identities = x]
  PROVE  /\ WholeStore(e) /\ e.identities = x /\ e.users = d.users /\ e.tokens = d.tokens
         /\ e.sessions = d.sessions /\ e.states = d.states /\ e.challenges = d.challenges
         /\ e.passkeys = d.passkeys
  BY DEF WholeStore, Store

LEMMA ChallengesTable ==
  ASSUME NEW d, WholeStore(d), NEW x \in Seq(Challenge), NEW e, e = [d EXCEPT !.challenges = x]
  PROVE  /\ WholeStore(e) /\ e.challenges = x /\ e.users = d.users /\ e.tokens = d.tokens
         /\ e.sessions = d.sessions /\ e.states = d.states /\ e.identities = d.identities
         /\ e.passkeys = d.passkeys
  BY DEF WholeStore, Store

\* Only passkeys differ.
PasskeysOnly(d, e) ==
    /\ WholeStore(e) /\ e.users = d.users /\ e.tokens = d.tokens /\ e.sessions = d.sessions /\ e.states = d.states
    /\ e.identities = d.identities /\ e.challenges = d.challenges

\* The table of passkeys is written.
LEMMA PasskeysTable ==
  ASSUME NEW d, WholeStore(d), NEW x \in SUBSET Passkey, NEW e, e = [d EXCEPT !.passkeys = x]
  PROVE  PasskeysOnly(d, e) /\ e.passkeys = x
  BY DEF WholeStore, Store, PasskeysOnly

\* Identities are linked and unlinked, with users as they are.
LEMMA IdentitiesStep ==
  ASSUME ServiceInv, NEW x \in SUBSET (Subjects \X Nat), db' = [db EXCEPT !.identities = x],
         \A i \in x : i[2] \in DOMAIN db.users, \A i, j \in x : i[1] = j[1] => i = j,
         UNCHANGED <<mailed, proven, accepted, acceptances, ended>>,
         NEW p \in Slots, NEW c \in Call, CallOK(db, proven, c), c.pc # "addkey", Put(p, c)
  PROVE  ServiceInv'
<1>1. WholeStore(db) /\ TypeOK /\ CallsInv /\ AccountsAreSound
  BY DEF ServiceInv, TypeOK, AccountsInv
<1>2. /\ WholeStore(db') /\ db'.identities = x /\ db'.users = db.users /\ db'.tokens = db.tokens
      /\ db'.sessions = db.sessions /\ db'.states = db.states /\ db'.challenges = db.challenges
      /\ db'.passkeys = db.passkeys
  BY <1>1, IdentitiesTable
<1>3. Len(db.challenges) \in Nat
  BY <1>1, StoreFields
<1>4. Grows
  BY <1>2, <1>3 DEF Grows
<1>5. CallOK(db', proven', c)
  BY <1>2 DEF CallOK, ForAccount
<1>6. Unenrolling
  BY <1>1, <1>2, <1>4, <1>5, CallUnenrolling
<1>7. AccountsAreSound'
  BY <1>1, <1>2 DEF AccountsAreSound, VerifiedByProof, AccountsAreWhole
<1> QED
  BY <1>2, <1>6, <1>7, UsersWritten

\* The steps that link, unlink or provision an identity.
LEMMA IdentitiesUsers ==
  ASSUME ServiceInv, NEW p \in Slots, LinkIdentity(p) \/ ProvisionUser(p) \/ Unlink(p)
  PROVE  ServiceInv'
<1> DEFINE k == calls[p]
<1>1. k \in Call /\ CallOK(db, proven, k) /\ WholeStore(db) /\ RowsAreOfUsers /\ AccountsAreSound
  BY DEF ServiceInv, TypeOK, CallsInv, AccountsInv
<1>2. /\ db.identities \subseteq Subjects \X Nat /\ \A u \in DOMAIN db.users : u \in Nat
      /\ \A i \in db.identities : i = <<i[1], i[2]>> /\ i[2] \in DOMAIN db.users
      /\ \A i, j \in db.identities : i[1] = j[1] => i = j
  <2>1. db.identities \subseteq Subjects \X Nat /\ \A u \in DOMAIN db.users : u \in Nat
    BY <1>1, StoreFields
  <2>2. \A i \in db.identities : i = <<i[1], i[2]>>
    BY <2>1
  <2>3. \A i \in db.identities : i[2] \in DOMAIN db.users
    BY <1>1 DEF RowsAreOfUsers
  <2>4. \A i, j \in db.identities : i[1] = j[1] => i = j
    BY <1>1 DEF AccountsAreSound, AccountsAreWhole
  <2> QED
    BY <2>1, <2>2, <2>3, <2>4
<1>3. CASE LinkIdentity(p)
  <2> DEFINE u == k.user
             pc == IF VouchesFor(u, k.email) THEN "verify" ELSE "session"
             c == [k EXCEPT !.next = "session", !.pc = pc]
             x == db.identities \cup {<<k.purpose, u>>}
  <2>1. /\ k.pc = "link" /\ u \in DOMAIN db.users /\ k.purpose \in Subjects
        /\ k.email \in Addresses \cap (proven \cup {NoEmail})
    BY <1>1, <1>3 DEF LinkIdentity, CallOK, AccountPcs, ProfilePcs
  <2>2. CASE OwnersOf(db, k.purpose) # {}
    BY <1>3, <2>2, CallReturns DEF LinkIdentity
  <2>3. CASE OwnersOf(db, k.purpose) = {}
    <3>1. db' = [db EXCEPT !.identities = x] /\ Put(p, c)
      BY <1>1, <1>3, <2>3 DEF LinkIdentity, AddOAuthIdentity, WholeStore, Store
    <3>2. \A i \in db.identities : i[1] # k.purpose
      BY <1>2, <2>3 DEF OwnersOf
    <3>3. x \in SUBSET (Subjects \X Nat) /\ \A i \in x : i[2] \in DOMAIN db.users
      BY <1>2, <2>1
    <3>4. \A i, j \in x : i[1] = j[1] => i = j
      BY <1>2, <3>2
    <3>5. pc \in {"verify", "session"} /\ (pc = "verify" => db.users[u].email = k.email)
      BY DEF VouchesFor
    <3> HIDE DEF pc, x
    <3>6. c \in Call /\ c.pc = pc /\ c.next = "session" /\ c.user = u
      BY <1>1, <3>5 DEF Call, Pcs, AccountPcs
    <3> HIDE DEF c
    <3>7. CallOK(db, proven, c)
      BY <2>1, <3>5, <3>6 DEF CallOK, AccountPcs, EnrolmentPcs, CodePcs, LinkPcs, ProfilePcs, RetryPcs
    <3>8. UNCHANGED <<mailed, proven, accepted, acceptances, ended>> /\ c.pc # "addkey"
      BY <1>3, <3>5, <3>6 DEF LinkIdentity
    <3> QED
      BY <3>1, <3>3, <3>4, <3>6, <3>7, <3>8, IdentitiesStep
  <2> QED
    BY <2>2, <2>3
<1>4. CASE ProvisionUser(p)
  <2> DEFINE a == k.email
             n == Len(db.users) + 1
             v == a /= NoEmail
             e == InsertUser(db, a, v, "oauth", 0)
             x == db.identities \cup {<<k.purpose, n>>}
             c == [k EXCEPT !.pc = "session", !.user = n]
  <2>1. k.pc = "newuser" /\ k.purpose \in Subjects /\ a \in Addresses \cap (proven \cup {NoEmail})
    BY <1>1, <1>4 DEF ProvisionUser, CallOK, ProfilePcs
  <2>2. CASE ~(EmailIsFree(db, a) /\ OwnersOf(db, k.purpose) = {})
    BY <1>4, <2>2, CallReturns DEF ProvisionUser
  <2>3. CASE EmailIsFree(db, a) /\ OwnersOf(db, k.purpose) = {}
    <3>1. v \in BOOLEAN /\ (v => a \in proven \cup {NoEmail})
      BY <2>1
    <3>2. n \in Nat /\ "session" \in Pcs
      BY <1>1, StoreFields DEF Pcs, AccountPcs
    <3>3. db' = [e EXCEPT !.identities = @ \cup {<<k.purpose, n>>}] /\ Put(p, c)
      BY <1>4, <2>3 DEF ProvisionUser, CreateOAuthUser
    <3> HIDE DEF v
    <3>4. UserAdded(db, e, [email |-> a, verified |-> v, origin |-> "oauth"])
      BY <1>1, <2>1, <3>1, NewUser
    <3> HIDE DEF e
    <3>5. WholeStore(e) /\ e.identities = db.identities
      BY <3>4 DEF UserAdded
    <3>6. db' = [e EXCEPT !.identities = x]
      BY <3>3, <3>5 DEF WholeStore, Store
    <3>7. x \in SUBSET (Subjects \X Nat)
      BY <1>2, <2>1, <3>2
    <3> HIDE DEF x
    <3>8. /\ WholeStore(db') /\ db'.identities = x /\ db'.users = e.users /\ db'.tokens = e.tokens
          /\ db'.sessions = e.sessions /\ db'.states = e.states /\ db'.challenges = e.challenges
          /\ db'.passkeys = e.passkeys
      BY <3>5, <3>6, <3>7, IdentitiesTable
    <3>9. c \in Call /\ c.pc = "session" /\ c.user = Len(db.users) + 1
      BY <1>1, <3>2 DEF Call
    <3> HIDE DEF c
    <3>10. UNCHANGED <<mailed, proven, accepted, acceptances, ended>>
      BY <1>4, <2>3 DEF ProvisionUser
    <3>11. \E subject : /\ db'.identities = db.identities \cup {<<subject, Len(db.users) + 1>>}
                        /\ OwnersOf(db, subject) = {}
      <4>1. db'.identities = db.identities \cup {<<k.purpose, Len(db.users) + 1>>} /\ OwnersOf(db, k.purpose) = {}
        BY <2>3, <3>8 DEF x
      <4> QED
        BY <4>1
    <3> QED
      BY <2>1, <2>3, <3>1, <3>3, <3>4, <3>8, <3>9, <3>10, <3>11, UserCreated
  <2> QED
    BY <2>2, <2>3
<1>5. CASE Unlink(p)
  <2> DEFINE x == {i \in db.identities : i[2] /= k.user}
  <2>1. db' = [db EXCEPT !.identities = x] /\ Put(p, Blank) /\ UNCHANGED <<mailed, proven, accepted, acceptances, ended>>
    BY <1>1, <1>5 DEF Unlink, RemoveOAuthIdentity, Return, WholeStore, Store
  <2>2. /\ x \in SUBSET (Subjects \X Nat) /\ \A i \in x : i[2] \in DOMAIN db.users
        /\ \A i, j \in x : i[1] = j[1] => i = j
    BY <1>2
  <2> HIDE DEF x
  <2>3. Blank \in Call /\ Blank.pc # "addkey" /\ CallOK(db, proven, Blank)
    BY BlankCall
  <2> QED
    BY <2>1, <2>2, <2>3, IdentitiesStep
<1> QED
  BY <1>3, <1>4, <1>5

-----------------------------------------------------------------------------
(* Passkeys                                                                *)

\* Passkeys are written: ids stay distinct, and no counter falls behind an assertion that was accepted.
LEMMA KeysStep ==
  ASSUME ServiceInv, WholeStore(db'), calls' \in [Slots -> Call], CallsInv', UNCHANGED <<mailed, proven, ended>>,
         db'.users = db.users, db'.tokens = db.tokens, db'.sessions = db.sessions, db'.states = db.states,
         db'.identities = db.identities, Len(db'.challenges) <= MaxChallenges,
         DOMAIN db.challenges \subseteq DOMAIN db'.challenges,
         \A c \in DOMAIN db.challenges : db'.challenges[c].live => db.challenges[c].live,
         \A k \in db'.passkeys : k.user \in DOMAIN db.users, KeysOnce',
         \/ UNCHANGED <<accepted, acceptances>>
         \/ \E c \in DOMAIN db.challenges : ~db'.challenges[c].live /\ Spend(<<"challenge", c>>)
         \/ \E i \in 0..Len(db.challenges), n \in Counters : Spend(<<"assertion", i, n>>)
  PROVE  ServiceInv'
<1>1. TypeOK /\ OnceInv /\ AccountsInv
  BY DEF ServiceInv
<1>2. DOMAIN db.challenges = 1..Len(db.challenges) /\ Len(db.challenges) \in Nat /\ Len(db.challenges) <= MaxChallenges
  BY <1>1, StoreFields DEF TypeOK
<1>3. MaxChallenges \in Nat
  BY AuthAssumption DEF AuthAssumption
<1>4. accepted' \subseteq Credentials /\ acceptances' \in Nat
  <2>1. CASE UNCHANGED <<accepted, acceptances>>
    BY <1>1, <2>1 DEF TypeOK
  <2>2. ASSUME NEW x \in Credentials, Spend(x) PROVE accepted' \subseteq Credentials /\ acceptances' \in Nat
    BY <1>1, <2>2 DEF TypeOK, Spend
  <2>3. ASSUME NEW c \in DOMAIN db.challenges PROVE <<"challenge", c>> \in Credentials
    <3>1. c \in 1..MaxChallenges
      BY <1>2, <1>3
    <3> QED
      BY <3>1 DEF Credentials
  <2>4. ASSUME NEW i \in 0..Len(db.challenges), NEW n \in Counters PROVE <<"assertion", i, n>> \in Credentials
    <3>1. i \in 0..MaxChallenges
      BY <1>2, <1>3
    <3> QED
      BY <3>1 DEF Credentials
  <2> QED
    BY <2>1, <2>2, <2>3, <2>4
<1>5. TypeOK'
  BY <1>1, <1>4 DEF TypeOK
<1>6. AccountsInv'
  BY <1>1 DEF AccountsInv, RowsAreOfUsers, ForAccount, AccountsAreSound, VerifiedByProof, AccountsAreWhole
<1>7. OnceInv'
  <2>1. /\ \A t : <<"mail", t>> \in accepted' => <<"mail", t>> \in accepted
        /\ \A n : <<"state", n>> \in accepted' => <<"state", n>> \in accepted
    BY DEF Spend
  <2>2. \A c : <<"challenge", c>> \in accepted' => c \in DOMAIN db'.challenges /\ ~db'.challenges[c].live
    <3>1. \A c : <<"challenge", c>> \in accepted => c \in DOMAIN db.challenges /\ ~db.challenges[c].live
      BY <1>1 DEF OnceInv
    <3>2. CASE UNCHANGED <<accepted, acceptances>>
      BY <3>1, <3>2
    <3>3. CASE \E c \in DOMAIN db.challenges : ~db'.challenges[c].live /\ Spend(<<"challenge", c>>)
      BY <3>1, <3>3 DEF Spend
    <3>4. CASE \E i \in 0..Len(db.challenges), n \in Counters : Spend(<<"assertion", i, n>>)
      BY <3>1, <3>4 DEF Spend
    <3> QED
      BY <3>2, <3>3, <3>4
  <2> QED
    BY <1>1, <2>1, <2>2 DEF OnceInv
<1> QED
  BY <1>5, <1>6, <1>7 DEF ServiceInv, SignOutIsFinal

\* A challenge is issued.
LEMMA ChallengeIssued ==
  ASSUME ServiceInv, NEW purpose \in {"registration", "authentication"}, NEW u \in Nat,
         db' = PutPasskeyChallenge(db, purpose, u), Len(db.challenges) < MaxChallenges,
         UNCHANGED <<calls, mailed, proven, accepted, acceptances, ended>>
  PROVE  ServiceInv'
<1> DEFINE row == [purpose |-> purpose, user |-> u, live |-> TRUE]
           x == Append(db.challenges, row)
<1>1. WholeStore(db) /\ TypeOK /\ CallsInv /\ KeysOnce /\ RowsAreOfUsers /\ calls \in [Slots -> Call]
  BY DEF ServiceInv, TypeOK, OnceInv, AccountsInv
<1>2. db.challenges \in Seq(Challenge) /\ row \in Challenge
  BY <1>1, StoreFields DEF Challenge
<1>3. db' = [db EXCEPT !.challenges = x]
  BY <1>1 DEF PutPasskeyChallenge, WholeStore, Store
<1> HIDE DEF row
<1>4. /\ x \in Seq(Challenge) /\ Len(x) = Len(db.challenges) + 1 /\ Len(db.challenges) \in Nat
      /\ DOMAIN db.challenges = 1..Len(db.challenges) /\ DOMAIN x = 1..(Len(db.challenges) + 1)
      /\ \A c \in DOMAIN db.challenges : x[c] = db.challenges[c]
  BY <1>2, Appended
<1> HIDE DEF x
<1>5. /\ WholeStore(db') /\ db'.challenges = x /\ db'.users = db.users /\ db'.tokens = db.tokens
      /\ db'.sessions = db.sessions /\ db'.states = db.states /\ db'.identities = db.identities
      /\ db'.passkeys = db.passkeys
  BY <1>1, <1>3, <1>4, ChallengesTable
<1>6. MaxChallenges \in Nat
  BY AuthAssumption DEF AuthAssumption
<1>7. /\ Len(db'.challenges) <= MaxChallenges /\ DOMAIN db.challenges \subseteq DOMAIN db'.challenges
      /\ Len(db.challenges) <= Len(db'.challenges)
      /\ \A c \in DOMAIN db.challenges : db'.challenges[c] = db.challenges[c]
  BY <1>4, <1>5, <1>6
<1>8. Grows
  BY <1>5, <1>7 DEF Grows
<1>9. CallsInv' /\ calls' \in [Slots -> Call]
  BY <1>1, <1>5, <1>8, CallsRest DEF Unenrolling
<1>10. KeysOnce'
  <2>1. \A i : KeyId(i) /\ i # 0 => i \in DOMAIN db'.challenges /\ ~db'.challenges[i].live
    BY <1>7 DEF KeyId
  <2>2. /\ \A i, n : <<"assertion", i, n>> \in accepted =>
              KeyId(i) /\ \A k \in db.passkeys : k.id = i => n <= k.counter
        /\ \A k \in db.passkeys : KeyId(k.id) /\ \A l \in db.passkeys : k.id = l.id => k = l
        /\ \A p \in Slots : calls[p].pc = "addkey" =>
              /\ \A k \in db.passkeys : k.id # calls[p].arg
              /\ \A n : <<"assertion", calls[p].arg, n>> \notin accepted
              /\ \A q \in Slots \ {p} : calls[q].pc = "addkey" => calls[q].arg # calls[p].arg
    BY <1>1 DEF KeysOnce
  <2>3. calls' = calls /\ accepted' = accepted /\ db'.passkeys = db.passkeys
    BY <1>5
  <2>4. \A i, n : <<"assertion", i, n>> \in accepted' =>
           KeyId(i)' /\ \A k \in db'.passkeys : k.id = i => n <= k.counter
    BY <2>1, <2>2, <2>3 DEF KeyId
  <2>5. \A k \in db'.passkeys : KeyId(k.id)' /\ \A l \in db'.passkeys : k.id = l.id => k = l
    BY <2>1, <2>2, <2>3 DEF KeyId
  <2> QED
    BY <2>2, <2>3, <2>4, <2>5 DEF KeysOnce
<1>11. \A k \in db'.passkeys : k.user \in DOMAIN db.users
  BY <1>1, <1>5 DEF RowsAreOfUsers
<1> QED
  BY <1>5, <1>7, <1>9, <1>10, <1>11, KeysStep

\* consumePasskeyChallenge uses up one row.
LEMMA ChallengeUsed ==
  ASSUME NEW d, WholeStore(d), NEW c \in DOMAIN d.challenges, NEW e, e = ConsumePasskeyChallenge(d, c)
  PROVE  /\ WholeStore(e) /\ e.users = d.users /\ e.tokens = d.tokens /\ e.sessions = d.sessions
         /\ e.states = d.states /\ e.identities = d.identities /\ e.passkeys = d.passkeys
         /\ DOMAIN e.challenges = DOMAIN d.challenges /\ Len(e.challenges) = Len(d.challenges)
         /\ ~e.challenges[c].live
         /\ \A b \in DOMAIN d.challenges \ {c} : e.challenges[b] = d.challenges[b]
<1> DEFINE row == [d.challenges[c] EXCEPT !.live = FALSE]
           x == [d.challenges EXCEPT ![c] = row]
<1>1. d.challenges \in Seq(Challenge) /\ d.challenges[c] \in Challenge
  BY StoreFields
<1>2. row \in Challenge /\ ~row.live
  BY <1>1 DEF Challenge
<1>3. e = [d EXCEPT !.challenges = x]
  BY DEF ConsumePasskeyChallenge, WholeStore, Store
<1> HIDE DEF row
<1>4. /\ x \in Seq(Challenge) /\ DOMAIN x = DOMAIN d.challenges /\ Len(x) = Len(d.challenges) /\ x[c] = row
      /\ \A b \in DOMAIN d.challenges \ {c} : x[b] = d.challenges[b]
  BY <1>1, <1>2
<1> HIDE DEF x
<1>5. /\ WholeStore(e) /\ e.challenges = x /\ e.users = d.users /\ e.tokens = d.tokens
      /\ e.sessions = d.sessions /\ e.states = d.states /\ e.identities = d.identities
      /\ e.passkeys = d.passkeys
  BY <1>3, <1>4, ChallengesTable
<1> QED
  BY <1>2, <1>4, <1>5

\* A challenge is used up; of the calls it may lead to, one that stores a passkey gives it that id.
LEMMA ChallengeSpent ==
  ASSUME ServiceInv, NEW c \in DOMAIN db.challenges, db.challenges[c].live, db' = ConsumePasskeyChallenge(db, c),
         Spend(<<"challenge", c>>), UNCHANGED <<mailed, proven, ended>>,
         \/ UNCHANGED calls
         \/ \E p \in Slots, k \in Call : CallOK(db', proven', k) /\ (k.pc = "addkey" => k.arg = c) /\ Put(p, k)
  PROVE  ServiceInv'
<1>1. WholeStore(db) /\ TypeOK /\ CallsInv /\ KeysOnce /\ RowsAreOfUsers /\ calls \in [Slots -> Call]
  BY DEF ServiceInv, TypeOK, OnceInv, AccountsInv
<1>2. /\ WholeStore(db') /\ db'.users = db.users /\ db'.tokens = db.tokens /\ db'.sessions = db.sessions
      /\ db'.states = db.states /\ db'.identities = db.identities /\ db'.passkeys = db.passkeys
      /\ DOMAIN db'.challenges = DOMAIN db.challenges /\ Len(db'.challenges) = Len(db.challenges)
      /\ ~db'.challenges[c].live
      /\ \A b \in DOMAIN db.challenges \ {c} : db'.challenges[b] = db.challenges[b]
  BY <1>1, ChallengeUsed
<1>3. Len(db.challenges) \in Nat /\ Len(db.challenges) <= MaxChallenges /\ c # 0
  BY <1>1, StoreFields DEF TypeOK
<1>4. \A b \in DOMAIN db.challenges : db'.challenges[b].live => db.challenges[b].live
  BY <1>2
<1>5. Grows
  BY <1>2, <1>3, <1>4 DEF Grows
<1>6. CallsInv' /\ calls' \in [Slots -> Call]
  <2>1. CASE UNCHANGED calls
    BY <1>1, <1>2, <1>5, <2>1, CallsRest DEF Unenrolling
  <2>2. ASSUME NEW p \in Slots, NEW k \in Call, CallOK(db', proven', k), Put(p, k)
        PROVE  CallsInv' /\ calls' \in [Slots -> Call]
    BY <1>1, <1>2, <1>5, <2>2, CallMoves DEF Put
  <2> QED
    BY <2>1, <2>2
<1>7. \A i : KeyId(i) => i # c /\ KeyId(i)'
  BY <1>2, <1>3 DEF KeyId
<1>8. /\ \A i, n : <<"assertion", i, n>> \in accepted =>
              KeyId(i) /\ \A k \in db.passkeys : k.id = i => n <= k.counter
      /\ \A k \in db.passkeys : KeyId(k.id) /\ \A l \in db.passkeys : k.id = l.id => k = l
      /\ \A p \in Slots : calls[p].pc = "addkey" =>
              /\ \A k \in db.passkeys : k.id # calls[p].arg
              /\ \A n : <<"assertion", calls[p].arg, n>> \notin accepted
              /\ \A q \in Slots \ {p} : calls[q].pc = "addkey" => calls[q].arg # calls[p].arg
  BY <1>1 DEF KeysOnce
<1>9. \A i, n : <<"assertion", i, n>> \in accepted' => <<"assertion", i, n>> \in accepted
  BY DEF Spend
<1>10. \A p \in Slots : calls[p].pc = "addkey" => calls[p].arg # c
  BY <1>1 DEF CallsInv, CallOK
<1>11. /\ \A q \in Slots : calls'[q].pc = "addkey" => calls'[q] = calls[q] \/ calls'[q].arg = c
       /\ \A p, q \in Slots : p # q => calls'[p] = calls[p] \/ calls'[q] = calls[q]
  <2>1. CASE UNCHANGED calls
    BY <2>1
  <2>2. ASSUME NEW p \in Slots, NEW k \in Call, k.pc = "addkey" => k.arg = c, Put(p, k)
        PROVE  /\ \A q \in Slots : calls'[q].pc = "addkey" => calls'[q] = calls[q] \/ calls'[q].arg = c
               /\ \A m, q \in Slots : m # q => calls'[m] = calls[m] \/ calls'[q] = calls[q]
    BY <1>1, <2>2 DEF Put
  <2> QED
    BY <2>1, <2>2
<1>12. ASSUME NEW p \in Slots, calls'[p].pc = "addkey"
       PROVE  /\ \A k \in db'.passkeys : k.id # calls'[p].arg
              /\ \A n : <<"assertion", calls'[p].arg, n>> \notin accepted'
              /\ \A q \in Slots \ {p} : calls'[q].pc = "addkey" => calls'[q].arg # calls'[p].arg
  <2>1. CASE calls'[p] = calls[p]
    BY <1>2, <1>8, <1>9, <1>10, <1>11, <1>12, <2>1
  <2>2. CASE calls'[p].arg = c
    BY <1>2, <1>7, <1>8, <1>9, <1>10, <1>11, <1>12, <2>2
  <2> QED
    BY <1>11, <1>12, <2>1, <2>2
<1>13. KeysOnce'
  <2>1. \A i, n : <<"assertion", i, n>> \in accepted' =>
           KeyId(i)' /\ \A k \in db'.passkeys : k.id = i => n <= k.counter
    BY <1>2, <1>7, <1>8, <1>9
  <2>2. \A k \in db'.passkeys : KeyId(k.id)' /\ \A l \in db'.passkeys : k.id = l.id => k = l
    <3>1. \A k \in db.passkeys : KeyId(k.id)'
      BY <1>2, <1>3, <1>8 DEF KeyId
    <3> QED
      BY <1>2, <1>8, <3>1
  <2> QED
    BY <1>12, <2>1, <2>2 DEF KeysOnce
<1>14. \A k \in db'.passkeys : k.user \in DOMAIN db.users
  BY <1>1, <1>2 DEF RowsAreOfUsers
<1> QED
  BY <1>2, <1>3, <1>4, <1>6, <1>13, <1>14, KeysStep

\* Challenges are issued and consumed.
LEMMA ChallengesKeep ==
  ASSUME ServiceInv,
         \/ \E s \in DOMAIN db.sessions : BeginPasskeyRegistration(s)
         \/ \E u \in {0} \cup DOMAIN db.users : BeginPasskeyAuthentication(u)
         \/ \E p \in Slots, c \in DOMAIN db.challenges, n \in Counters :
               \/ \E s \in DOMAIN db.sessions : FinishPasskeyRegistration(p, s, c, n)
               \/ \E k \in db.passkeys : FinishPasskeyAuthentication(p, c, k.id, n)
  PROVE  ServiceInv'
<1>1. WholeStore(db) /\ RowsAreOfUsers /\ KeysOnce /\ calls \in [Slots -> Call]
  BY DEF ServiceInv, TypeOK, AccountsInv, OnceInv
<1>2. /\ DOMAIN db.users = 1..Len(db.users) /\ Len(db.users) \in Nat
      /\ DOMAIN db.challenges = 1..Len(db.challenges) /\ Len(db.challenges) \in Nat
      /\ Counters \subseteq Nat
  BY <1>1, StoreFields, AuthAssumption DEF AuthAssumption
<1>3. \A s \in DOMAIN db.sessions : db.sessions[s].user \in DOMAIN db.users /\ db.sessions[s].user \in Nat
  BY <1>1, <1>2 DEF RowsAreOfUsers
<1>4. ASSUME NEW s \in DOMAIN db.sessions, BeginPasskeyRegistration(s) PROVE ServiceInv'
  BY <1>3, <1>4, ChallengeIssued DEF BeginPasskeyRegistration
<1>5. ASSUME NEW u \in {0} \cup DOMAIN db.users, BeginPasskeyAuthentication(u) PROVE ServiceInv'
  <2>1. u \in Nat
    BY <1>2
  <2> QED
    BY <1>5, <2>1, ChallengeIssued DEF BeginPasskeyAuthentication
<1>6. ASSUME NEW p \in Slots, NEW c \in DOMAIN db.challenges, NEW n \in Counters, NEW s \in DOMAIN db.sessions,
             FinishPasskeyRegistration(p, s, c, n)
      PROVE  ServiceInv'
  <2> DEFINE u == db.sessions[s].user
             k == [Blank EXCEPT !.pc = "addkey", !.user = u, !.arg = c, !.secret = n]
  <2>1. /\ db.challenges[c].live /\ db' = ConsumePasskeyChallenge(db, c) /\ Spend(<<"challenge", c>>)
        /\ UNCHANGED <<mailed, proven, ended>> /\ (UNCHANGED calls \/ Put(p, k))
    BY <1>6 DEF FinishPasskeyRegistration
  <2>2. u \in DOMAIN db.users /\ u \in Nat /\ c \in Nat /\ n \in Nat /\ "addkey" \in Pcs
    BY <1>2, <1>3 DEF Pcs, AccountPcs
  <2> HIDE DEF u
  <2>3. k \in Call /\ k.pc = "addkey" /\ k.user = u /\ k.arg = c
    BY <2>2, BlankCall DEF Call
  <2> HIDE DEF k
  <2>4. db'.users = db.users /\ DOMAIN db'.challenges = DOMAIN db.challenges /\ ~db'.challenges[c].live
    BY <1>1, <2>1, ChallengeUsed
  <2>5. CallOK(db', proven', k)
    BY <2>2, <2>3, <2>4 DEF CallOK, AccountPcs, EnrolmentPcs, CodePcs, LinkPcs, ProfilePcs, RetryPcs
  <2> QED
    BY <2>1, <2>3, <2>5, ChallengeSpent
<1>7. ASSUME NEW p \in Slots, NEW c \in DOMAIN db.challenges, NEW n \in Counters, NEW x \in db.passkeys,
             FinishPasskeyAuthentication(p, c, x.id, n)
      PROVE  ServiceInv'
  <2> DEFINE u == db.challenges[c].user
             i == x.id
             k == [Blank EXCEPT !.pc = "readkey", !.user = u, !.arg = i, !.secret = n]
  <2>1. /\ db.challenges[c].live /\ db' = ConsumePasskeyChallenge(db, c) /\ Spend(<<"challenge", c>>)
        /\ UNCHANGED <<mailed, proven, ended>> /\ Put(p, k)
    BY <1>7 DEF FinishPasskeyAuthentication
  <2>2. u \in Nat /\ i \in Nat /\ n \in Nat /\ "readkey" \in Pcs /\ i \in 0..Len(db.challenges)
    <3>1. u \in Nat
      <4>1. db.challenges[c] \in Challenge
        BY <1>1, StoreFields
      <4> QED
        BY <4>1 DEF Challenge
    <3>2. i \in 0..Len(db.challenges)
      BY <1>1, <1>2 DEF KeysOnce, KeyId
    <3> QED
      BY <1>2, <3>1, <3>2 DEF Pcs
  <2> HIDE DEF u, i
  <2>3. k \in Call /\ k.pc = "readkey" /\ k.arg = i /\ k.secret = n
    BY <2>2, BlankCall DEF Call
  <2> HIDE DEF k
  <2>4. Len(db'.challenges) = Len(db.challenges)
    BY <1>1, <2>1, ChallengeUsed
  <2>5. CallOK(db', proven', k)
    BY <2>2, <2>3, <2>4 DEF CallOK, AccountPcs, EnrolmentPcs, CodePcs, LinkPcs, ProfilePcs, RetryPcs
  <2> QED
    BY <2>1, <2>3, <2>5, ChallengeSpent
<1> QED
  BY <1>4, <1>5, <1>6, <1>7

\* Passkeys are stored, moved on or dropped by a call that goes on to something else.
LEMMA PasskeysStep ==
  ASSUME ServiceInv, NEW x, PasskeysOnly(db, db'), db'.passkeys = x, UNCHANGED <<mailed, proven, ended>>,
         \A k \in x : k.user \in DOMAIN db.users /\ KeyId(k.id) /\ \A l \in x : k.id = l.id => k = l,
         NEW p \in Slots, NEW c \in Call, CallOK(db, proven, c), c.pc # "addkey", Put(p, c),
         \A k \in x : \/ \E l \in db.passkeys : l.id = k.id
                      \/ calls[p].pc = "addkey" /\ k.id = calls[p].arg,
         \/ UNCHANGED <<accepted, acceptances>>
         \/ \E k \in x, n \in Counters : Spend(<<"assertion", k.id, n>>) /\ n <= k.counter
                                         /\ \E l \in db.passkeys : l.id = k.id,
         \A i, n : <<"assertion", i, n>> \in accepted => \A k \in x : k.id = i => n <= k.counter
  PROVE  ServiceInv'
<1>1. WholeStore(db) /\ TypeOK /\ CallsInv /\ KeysOnce /\ calls \in [Slots -> Call]
  BY DEF ServiceInv, TypeOK, OnceInv
<1>2. /\ WholeStore(db') /\ db'.passkeys = x /\ db'.users = db.users /\ db'.tokens = db.tokens
      /\ db'.sessions = db.sessions /\ db'.states = db.states /\ db'.identities = db.identities
      /\ db'.challenges = db.challenges
  BY DEF PasskeysOnly
<1>3. Len(db.challenges) \in Nat /\ Len(db.challenges) <= MaxChallenges /\ DOMAIN db.challenges = 1..Len(db.challenges)
  BY <1>1, StoreFields DEF TypeOK
<1>4. Grows
  BY <1>2, <1>3 DEF Grows
<1>5. CallOK(db', proven', c)
  BY <1>2 DEF CallOK, ForAccount
<1>6. CallsInv' /\ calls' \in [Slots -> Call]
  BY <1>1, <1>2, <1>4, <1>5, CallMoves DEF Put
<1>7. \A i : KeyId(i) => i \in 0..Len(db.challenges) /\ KeyId(i)'
  BY <1>2, <1>3 DEF KeyId
<1>8. /\ \A i, n : <<"assertion", i, n>> \in accepted =>
              KeyId(i) /\ \A k \in db.passkeys : k.id = i => n <= k.counter
      /\ \A k \in db.passkeys : KeyId(k.id) /\ \A l \in db.passkeys : k.id = l.id => k = l
      /\ \A q \in Slots : calls[q].pc = "addkey" =>
              /\ \A k \in db.passkeys : k.id # calls[q].arg
              /\ \A n : <<"assertion", calls[q].arg, n>> \notin accepted
              /\ \A r \in Slots \ {q} : calls[r].pc = "addkey" => calls[r].arg # calls[q].arg
  BY <1>1 DEF KeysOnce
<1>9. \A q \in Slots : calls'[q].pc = "addkey" => q # p /\ calls'[q] = calls[q]
  BY <1>1 DEF Put
<1>10. \A i, n : <<"assertion", i, n>> \in accepted' =>
          \/ <<"assertion", i, n>> \in accepted
          \/ \E k \in x : k.id = i /\ n <= k.counter /\ \E l \in db.passkeys : l.id = i
  BY DEF Spend
<1>11. KeysOnce'
  <2>1. ASSUME NEW i, NEW n, <<"assertion", i, n>> \in accepted'
        PROVE  KeyId(i)' /\ \A k \in db'.passkeys : k.id = i => n <= k.counter
    <3>1. CASE <<"assertion", i, n>> \in accepted
      BY <1>2, <1>7, <1>8, <3>1
    <3>2. CASE \E k \in x : k.id = i /\ n <= k.counter
      <4>1. PICK k \in x : k.id = i /\ n <= k.counter
        BY <3>2
      <4>2. KeyId(i)
        BY <4>1
      <4> QED
        BY <1>2, <1>7, <4>1, <4>2
    <3> QED
      BY <1>10, <2>1, <3>1, <3>2
  <2>2. \A k \in db'.passkeys : KeyId(k.id)' /\ \A l \in db'.passkeys : k.id = l.id => k = l
    <3>1. \A k \in x : KeyId(k.id)'
      BY <1>2, <1>3 DEF KeyId
    <3> QED
      BY <1>2, <3>1
  <2>3. ASSUME NEW q \in Slots, calls'[q].pc = "addkey"
        PROVE  /\ \A k \in db'.passkeys : k.id # calls'[q].arg
               /\ \A n : <<"assertion", calls'[q].arg, n>> \notin accepted'
               /\ \A r \in Slots \ {q} : calls'[r].pc = "addkey" => calls'[r].arg # calls'[q].arg
    <3>1. q # p /\ calls'[q] = calls[q] /\ calls[q].pc = "addkey"
      BY <1>9, <2>3
    <3>2. \A k \in x : k.id # calls[q].arg
      BY <1>8, <3>1
    <3>3. \A n : <<"assertion", calls[q].arg, n>> \notin accepted'
      BY <1>8, <1>10, <3>1
    <3> QED
      BY <1>2, <1>8, <1>9, <3>1, <3>2, <3>3
  <2> QED
    BY <2>1, <2>2, <2>3 DEF KeysOnce
<1>12. \/ UNCHANGED <<accepted, acceptances>>
       \/ \E i \in 0..Len(db.challenges), n \in Counters : Spend(<<"assertion", i, n>>)
  BY <1>7
<1> QED
  BY <1>2, <1>3, <1>6, <1>11, <1>12, KeysStep

\* The counter of an assertion.
LEMMA AssertionCounters == ASSUME NEW i, NEW n, <<"assertion", i, n>> \in Credentials PROVE n \in Counters
<1> DEFINE x == <<"assertion", i, n>>
<1>1. x[1] = "assertion" /\ x[3] = n
  OBVIOUS
<1>2. x \in {"assertion"} \X (0..MaxChallenges) \X Counters
  <2>1. x \notin TotpCodes \cup RecoveryCodes
    BY DEF TotpCodes, RecoveryCodes
  <2>2. x \notin {"mail"} \X (1..MaxTokens) /\ x \notin {"state"} \X (1..MaxStates) /\ x \notin {"challenge"} \X (1..MaxChallenges)
    BY <1>1
  <2>3. x \in Credentials
    OBVIOUS
  <2> HIDE DEF x
  <2> QED
    BY <2>1, <2>2, <2>3 DEF Credentials
<1> QED
  BY <1>2

\* Passkeys are stored, used and dropped.
LEMMA PasskeysKeep ==
  ASSUME ServiceInv, NEW p \in Slots, StorePasskey(p) \/ MoveCounter(p) \/ DropPasskey(p)
  PROVE  ServiceInv'
<1> DEFINE k == calls[p]
<1>1. /\ k \in Call /\ CallOK(db, proven, k) /\ WholeStore(db) /\ RowsAreOfUsers /\ KeysOnce
      /\ accepted \subseteq Credentials /\ Counters \subseteq Nat
  BY AuthAssumption DEF ServiceInv, TypeOK, CallsInv, AccountsInv, OnceInv, AuthAssumption
<1>2. db.passkeys \subseteq Passkey /\ \A x \in db.passkeys : x \in Passkey
  BY <1>1, StoreFields
<1>3. \A x \in db.passkeys : x.user \in DOMAIN db.users /\ KeyId(x.id) /\ \A l \in db.passkeys : x.id = l.id => x = l
  BY <1>1 DEF RowsAreOfUsers, KeysOnce
<1>4. \A i, n : <<"assertion", i, n>> \in accepted => \A x \in db.passkeys : x.id = i => n <= x.counter
  BY <1>1 DEF KeysOnce
<1>5. Blank \in Call /\ Blank.pc # "addkey" /\ CallOK(db, proven, Blank)
  BY BlankCall
<1>6. CASE StorePasskey(p)
  <2> DEFINE new == [id |-> k.arg, user |-> k.user, counter |-> k.secret]
             x == db.passkeys \cup {new}
  <2>1. k.pc = "addkey" /\ k.user \in DOMAIN db.users /\ k.arg \in DOMAIN db.challenges /\ ~db.challenges[k.arg].live
    BY <1>1, <1>6 DEF StorePasskey, CallOK, AccountPcs
  <2>2. /\ \A l \in db.passkeys : l.id # k.arg
        /\ \A n : <<"assertion", k.arg, n>> \notin accepted
    BY <1>1, <2>1 DEF KeysOnce
  <2>3. db' = [db EXCEPT !.passkeys = x] /\ Put(p, Blank) /\ UNCHANGED <<mailed, proven, accepted, acceptances, ended>>
    BY <1>1, <1>6 DEF StorePasskey, AddPasskey, Return, WholeStore, Store
  <2>4. new \in Passkey /\ new.id = k.arg /\ new.user = k.user
    BY <1>1 DEF Call, Passkey
  <2> HIDE DEF new
  <2>5. x \in SUBSET Passkey
    BY <1>2, <2>4
  <2>6. \A m \in x : m.user \in DOMAIN db.users /\ KeyId(m.id) /\ \A l \in x : m.id = l.id => m = l
    <3>1. KeyId(new.id)
      BY <2>1, <2>4 DEF KeyId
    <3> QED
      BY <1>3, <2>1, <2>2, <2>4, <3>1
  <2>7. \A m \in x : (\E l \in db.passkeys : l.id = m.id) \/ (calls[p].pc = "addkey" /\ m.id = calls[p].arg)
    BY <2>1, <2>4
  <2>8. \A i, n : <<"assertion", i, n>> \in accepted => \A m \in x : m.id = i => n <= m.counter
    BY <1>4, <2>2, <2>4
  <2> HIDE DEF x
  <2>9. PasskeysOnly(db, db') /\ db'.passkeys = x
    BY <1>1, <2>3, <2>5, PasskeysTable
  <2> QED
    BY <1>5, <2>3, <2>6, <2>7, <2>8, <2>9, PasskeysStep
<1>7. CASE DropPasskey(p)
  <2> DEFINE x == {m \in db.passkeys : ~(m.id = k.arg /\ m.user = k.user)}
  <2>1. db' = [db EXCEPT !.passkeys = x] /\ Put(p, Blank) /\ UNCHANGED <<mailed, proven, accepted, acceptances, ended>>
    BY <1>1, <1>7 DEF DropPasskey, RemovePasskey, Return, WholeStore, Store
  <2>2. x \subseteq db.passkeys /\ x \in SUBSET Passkey
    BY <1>2
  <2> HIDE DEF x
  <2>3. \A m \in x : m.user \in DOMAIN db.users /\ KeyId(m.id) /\ \A l \in x : m.id = l.id => m = l
    BY <1>3, <2>2
  <2>4. \A m \in x : (\E l \in db.passkeys : l.id = m.id) \/ (calls[p].pc = "addkey" /\ m.id = calls[p].arg)
    BY <2>2
  <2>5. \A i, n : <<"assertion", i, n>> \in accepted => \A m \in x : m.id = i => n <= m.counter
    BY <1>4, <2>2
  <2>6. PasskeysOnly(db, db') /\ db'.passkeys = x
    BY <1>1, <2>1, <2>2, PasskeysTable
  <2> QED
    BY <1>5, <2>1, <2>3, <2>4, <2>5, <2>6, PasskeysStep
<1>8. CASE MoveCounter(p)
  <2> DEFINE i == k.arg
             n == k.secret
             moved(m) == IF m.id = i THEN [m EXCEPT !.counter = n] ELSE m
             x == {moved(m) : m \in db.passkeys}
             c == [Blank EXCEPT !.pc = "session", !.user = k.user]
  <2>1. k.pc = "counter" /\ n \in Counters /\ k.user \in DOMAIN db.users /\ k.tries \in Nat /\ (k.tries > 0 => n > k.tries)
    BY <1>1, <1>8 DEF MoveCounter, CallOK, AccountPcs
  <2>2. CASE ~CounterMoves(db, i, k.tries)
    BY <1>8, <2>2, CallReturns DEF MoveCounter, Unspent
  <2>3. CASE CounterMoves(db, i, k.tries)
    <3>1. db' = [db EXCEPT !.passkeys = x] /\ Put(p, c) /\ UNCHANGED <<mailed, proven, ended>>
      BY <1>1, <1>8, <2>3 DEF MoveCounter, UpdatePasskeyCounter, WholeStore, Store
    <3>2. IF n > 0 THEN Spend(<<"assertion", i, n>>) ELSE UNCHANGED <<accepted, acceptances>>
      BY <1>8, <2>3 DEF MoveCounter, Unspent
    <3>3. PICK key \in db.passkeys : key.id = i /\ key.counter = k.tries
      BY <2>3 DEF CounterMoves
    <3>4. n \in Nat /\ k.user \in Nat /\ "session" \in Pcs
      BY <1>1, <2>1 DEF Pcs, AccountPcs, Call
    <3>5. c \in Call /\ c.pc = "session" /\ c.user = k.user
      BY <3>4, BlankCall DEF Call
    <3> HIDE DEF c
    <3>6. CallOK(db, proven, c) /\ c.pc # "addkey"
      BY <2>1, <3>5, AccountCall
    <3>7. ASSUME NEW m \in db.passkeys
          PROVE  /\ moved(m) \in Passkey /\ moved(m).id = m.id /\ moved(m).user = m.user
                 /\ m.id = i => moved(m).counter = n
                 /\ m.id # i => moved(m) = m
      BY <1>2, <3>4 DEF Passkey
    <3> HIDE DEF moved, n, i
    <3>8. x \in SUBSET Passkey
      BY <3>7
    <3>9. \A a \in x : a.user \in DOMAIN db.users /\ KeyId(a.id) /\ \A b \in x : a.id = b.id => a = b
      BY <1>3, <3>7
    <3>10. \A a \in x : (\E l \in db.passkeys : l.id = a.id) \/ (calls[p].pc = "addkey" /\ a.id = calls[p].arg)
      BY <3>7
    <3>11. ASSUME NEW b, NEW v, <<"assertion", b, v>> \in accepted, NEW a \in x, a.id = b PROVE v <= a.counter
      <4>1. PICK m \in db.passkeys : a = moved(m)
        OBVIOUS
      <4>2. m.id = b /\ v <= m.counter
        BY <1>4, <3>7, <3>11, <4>1
      <4>3. CASE m.id # i
        BY <3>7, <4>1, <4>2, <4>3
      <4>4. CASE m.id = i
        <5>1. m.counter = k.tries /\ a.counter = n
          BY <1>3, <3>3, <3>7, <4>1, <4>4
        <5>2. <<"assertion", b, v>> \in Credentials
          BY <1>1, <3>11
        <5>3. v \in Nat
          BY <1>1, <5>2, AssertionCounters
        <5> QED
          BY <2>1, <3>4, <4>2, <5>1, <5>3
      <4> QED
        BY <4>3, <4>4
    <3>12. \/ UNCHANGED <<accepted, acceptances>>
           \/ \E a \in x, v \in Counters : Spend(<<"assertion", a.id, v>>) /\ v <= a.counter
                                           /\ \E l \in db.passkeys : l.id = a.id
      <4>1. moved(key) \in x /\ moved(key).id = i /\ moved(key).counter = n
        BY <3>3, <3>7
      <4> QED
        BY <2>1, <3>2, <3>3, <3>4, <4>1
    <3> HIDE DEF x
    <3>13. PasskeysOnly(db, db') /\ db'.passkeys = x
      BY <1>1, <3>1, <3>8, PasskeysTable
    <3>14. \A b, v : <<"assertion", b, v>> \in accepted => \A a \in x : a.id = b => v <= a.counter
      BY <3>11
    <3> QED
      BY <3>1, <3>5, <3>6, <3>9, <3>10, <3>12, <3>13, <3>14, PasskeysStep
  <2> QED
    BY <2>2, <2>3
<1> QED
  BY <1>6, <1>7, <1>8

\* Every step of identities keeps the invariant.
LEMMA IdentitiesKeep == ServiceInv /\ IdentitiesNext => ServiceInv'
  BY IdentitiesRead, IdentitiesUsers, StatesKeep, ChallengesKeep, PasskeysKeep DEF IdentitiesNext

-----------------------------------------------------------------------------
(* The second factor                                                       *)

\* Only the row of user u differs, which is r now.
TotpRow(d, e, u, r) ==
    /\ WholeStore(e) /\ e.users = d.users /\ e.tokens = d.tokens /\ e.sessions = d.sessions /\ e.states = d.states
    /\ e.identities = d.identities /\ e.challenges = d.challenges /\ e.passkeys = d.passkeys
    /\ DOMAIN e.totp = DOMAIN d.totp /\ e.totp[u] = r /\ r \in Totp
    /\ \A v \in DOMAIN d.totp \ {u} : e.totp[v] = d.totp[v]

\* One enrolment is written,
LEMMA RowWritten ==
  ASSUME NEW d, WholeStore(d), NEW u \in DOMAIN d.totp, NEW r \in Totp, NEW e,
         e = [d EXCEPT !.totp = [d.totp EXCEPT ![u] = r]]
  PROVE  TotpRow(d, e, u, r)
<1> DEFINE x == [d.totp EXCEPT ![u] = r]
<1>1. d.totp \in Seq(Totp)
  BY StoreFields
<1>2. /\ x \in Seq(Totp) /\ Len(x) = Len(d.totp) /\ DOMAIN x = DOMAIN d.totp /\ x[u] = r
      /\ \A v \in DOMAIN d.totp \ {u} : x[v] = d.totp[v]
  BY <1>1
<1> HIDE DEF x
<1>3. /\ WholeStore(e) /\ e.totp = x /\ e.users = d.users /\ e.tokens = d.tokens
      /\ e.sessions = d.sessions /\ e.states = d.states /\ e.identities = d.identities
      /\ e.challenges = d.challenges /\ e.passkeys = d.passkeys
  <2>1. e = [d EXCEPT !.totp = x] /\ Len(x) = Len(d.totp) /\ x \in Seq(Totp)
    BY <1>2 DEF x
  <2> QED
    BY <2>1 DEF WholeStore, Store
<1> QED
  BY <1>2, <1>3 DEF TotpRow

\* or written as it was.
LEMMA RowUntouched ==
  ASSUME NEW d, WholeStore(d), NEW u \in DOMAIN d.totp PROVE TotpRow(d, d, u, d.totp[u]) /\ d.totp[u] \in Totp
  BY StoreFields DEF TotpRow

\* What the operations of the port make of the row.
LEMMA TotpOperations ==
  ASSUME NEW d, WholeStore(d), NEW u \in DOMAIN d.totp, NEW r, r = d.totp[u]
  PROVE  /\ \A x \in Nat : TotpRow(d, PutTotpSecret(d, u, x), u, [NoTotp EXCEPT !.secret = x])
         /\ TotpRow(d, RemoveTotp(d, u), u, NoTotp)
         /\ \A s \in Nat : TotpRow(d, MarkTotpStepUsed(d, u, s), u, [r EXCEPT !.last = s])
         /\ \A codes \in SUBSET (Nat \X Nat) :
               /\ TotpRow(d, SetRecoveryCodes(d, u, codes), u, [r EXCEPT !.codes = codes])
               /\ TotpRow(d, ConfirmTotp(d, u, codes), u,
                          IF r.secret = 0 \/ r.confirmed THEN r
                          ELSE [r EXCEPT !.confirmed = TRUE, !.codes = codes, !.fails = 0, !.locked = FALSE])
         /\ \A x \in Nat : TotpRow(d, ReplaceTotpSecret(d, u, x), u,
                                   IF r.secret = 0 THEN r ELSE [r EXCEPT !.secret = x, !.sealed = TRUE])
         /\ TotpRow(d, ResetTotpFailures(d, u), u, [r EXCEPT !.fails = 0, !.locked = FALSE])
         /\ TotpRow(d, [d EXCEPT !.totp[u].locked = FALSE], u, [r EXCEPT !.locked = FALSE])
<1>1. r \in Totp /\ NoTotp \in Totp /\ TotpRow(d, d, u, r)
  BY RowUntouched DEF NoTotp, Totp
<1>2. \A x \in Nat : TotpRow(d, PutTotpSecret(d, u, x), u, [NoTotp EXCEPT !.secret = x])
  <2> TAKE x \in Nat
  <2> DEFINE new == [NoTotp EXCEPT !.secret = x]
  <2>1. new \in Totp
    BY <1>1 DEF Totp
  <2>2. PutTotpSecret(d, u, x) = [d EXCEPT !.totp = [d.totp EXCEPT ![u] = new]]
    BY DEF PutTotpSecret, WholeStore, Store
  <2> HIDE DEF new
  <2>3. TotpRow(d, PutTotpSecret(d, u, x), u, new)
    BY <2>1, <2>2, RowWritten
  <2> QED
    BY <2>3 DEF new
<1>3. TotpRow(d, RemoveTotp(d, u), u, NoTotp)
  <2>1. RemoveTotp(d, u) = [d EXCEPT !.totp = [d.totp EXCEPT ![u] = NoTotp]]
    BY DEF RemoveTotp, WholeStore, Store
  <2> QED
    BY <1>1, <2>1, RowWritten
<1>4. \A s \in Nat : TotpRow(d, MarkTotpStepUsed(d, u, s), u, [r EXCEPT !.last = s])
  <2> TAKE s \in Nat
  <2> DEFINE new == [r EXCEPT !.last = s]
  <2>1. new \in Totp
    BY <1>1 DEF Totp
  <2>2. MarkTotpStepUsed(d, u, s) = [d EXCEPT !.totp = [d.totp EXCEPT ![u] = new]]
    BY <1>1 DEF MarkTotpStepUsed, WholeStore, Store
  <2> HIDE DEF new
  <2>3. TotpRow(d, MarkTotpStepUsed(d, u, s), u, new)
    BY <2>1, <2>2, RowWritten
  <2> QED
    BY <2>3 DEF new
<1>5. \A codes \in SUBSET (Nat \X Nat) : TotpRow(d, SetRecoveryCodes(d, u, codes), u, [r EXCEPT !.codes = codes])
  <2> TAKE codes \in SUBSET (Nat \X Nat)
  <2> DEFINE new == [r EXCEPT !.codes = codes]
  <2>1. new \in Totp
    BY <1>1 DEF Totp
  <2>2. SetRecoveryCodes(d, u, codes) = [d EXCEPT !.totp = [d.totp EXCEPT ![u] = new]]
    BY <1>1 DEF SetRecoveryCodes, WholeStore, Store
  <2> HIDE DEF new
  <2>3. TotpRow(d, SetRecoveryCodes(d, u, codes), u, new)
    BY <2>1, <2>2, RowWritten
  <2> QED
    BY <2>3 DEF new
<1>6. \A codes \in SUBSET (Nat \X Nat) :
         TotpRow(d, ConfirmTotp(d, u, codes), u,
                 IF r.secret = 0 \/ r.confirmed THEN r
                 ELSE [r EXCEPT !.confirmed = TRUE, !.codes = codes, !.fails = 0, !.locked = FALSE])
  <2> TAKE codes \in SUBSET (Nat \X Nat)
  <2> DEFINE new == [r EXCEPT !.confirmed = TRUE, !.codes = codes, !.fails = 0, !.locked = FALSE]
  <2>1. new \in Totp
    BY <1>1 DEF Totp
  <2>2. CASE r.secret = 0 \/ r.confirmed
    BY <1>1, <2>2 DEF ConfirmTotp
  <2>3. CASE ~(r.secret = 0 \/ r.confirmed)
    <3>1. ConfirmTotp(d, u, codes) = [d EXCEPT !.totp = [d.totp EXCEPT ![u] = new]]
      BY <1>1, <2>3 DEF ConfirmTotp, WholeStore, Store
    <3> HIDE DEF new
    <3>2. TotpRow(d, ConfirmTotp(d, u, codes), u, new)
      BY <2>1, <3>1, RowWritten
    <3> QED
      BY <2>3, <3>2 DEF new
  <2> QED
    BY <2>2, <2>3
<1>7. \A x \in Nat : TotpRow(d, ReplaceTotpSecret(d, u, x), u,
                             IF r.secret = 0 THEN r ELSE [r EXCEPT !.secret = x, !.sealed = TRUE])
  <2> TAKE x \in Nat
  <2> DEFINE new == [r EXCEPT !.secret = x, !.sealed = TRUE]
  <2>1. new \in Totp
    BY <1>1 DEF Totp
  <2>2. CASE r.secret = 0
    BY <1>1, <2>2 DEF ReplaceTotpSecret
  <2>3. CASE r.secret # 0
    <3>1. ReplaceTotpSecret(d, u, x) = [d EXCEPT !.totp = [d.totp EXCEPT ![u] = new]]
      BY <1>1, <2>3 DEF ReplaceTotpSecret, WholeStore, Store
    <3> HIDE DEF new
    <3>2. TotpRow(d, ReplaceTotpSecret(d, u, x), u, new)
      BY <2>1, <3>1, RowWritten
    <3> QED
      BY <2>3, <3>2 DEF new
  <2> QED
    BY <2>2, <2>3
<1>8. TotpRow(d, ResetTotpFailures(d, u), u, [r EXCEPT !.fails = 0, !.locked = FALSE])
  <2> DEFINE new == [r EXCEPT !.fails = 0, !.locked = FALSE]
  <2>1. new \in Totp
    BY <1>1 DEF Totp
  <2>2. ResetTotpFailures(d, u) = [d EXCEPT !.totp = [d.totp EXCEPT ![u] = new]]
    BY <1>1 DEF ResetTotpFailures, WholeStore, Store
  <2> HIDE DEF new
  <2>3. TotpRow(d, ResetTotpFailures(d, u), u, new)
    BY <2>1, <2>2, RowWritten
  <2> QED
    BY <2>3 DEF new
<1>9. TotpRow(d, [d EXCEPT !.totp[u].locked = FALSE], u, [r EXCEPT !.locked = FALSE])
  <2> DEFINE new == [r EXCEPT !.locked = FALSE]
             e == [d EXCEPT !.totp[u].locked = FALSE]
  <2>1. new \in Totp
    BY <1>1 DEF Totp
  <2>2. e = [d EXCEPT !.totp = [d.totp EXCEPT ![u] = new]]
    BY <1>1 DEF WholeStore, Store
  <2> HIDE DEF new
  <2>3. TotpRow(d, e, u, new)
    BY <2>1, <2>2, RowWritten
  <2> QED
    BY <2>3 DEF new
<1> QED
  BY <1>2, <1>3, <1>4, <1>5, <1>6, <1>7, <1>8, <1>9

\* A failure is counted, which leaves everything but the counter and the lock as it was.
LEMMA FailureCounted ==
  ASSUME NEW d, WholeStore(d), NEW u \in DOMAIN d.totp, NEW e, e = RecordTotpFailure(d, u, LockoutThreshold)
  PROVE  \E r : /\ TotpRow(d, e, u, r) /\ r.secret = d.totp[u].secret /\ r.confirmed = d.totp[u].confirmed
                /\ r.codes = d.totp[u].codes /\ r.last = d.totp[u].last
<1> DEFINE r == d.totp[u]
           fails == IF r.fails < LockoutThreshold THEN r.fails + 1 ELSE r.fails
           locked == r.locked \/ r.fails + 1 >= LockoutThreshold
           new == [r EXCEPT !.fails = fails, !.locked = locked]
<1>1. r \in Totp /\ TotpRow(d, d, u, r)
  BY RowUntouched
<1>2. CASE r.secret = 0
  BY <1>1, <1>2 DEF RecordTotpFailure
<1>3. CASE r.secret # 0
  <2>1. fails \in Nat /\ locked \in BOOLEAN
    <3>1. r.fails \in Nat /\ r.locked \in BOOLEAN
      BY <1>1 DEF Totp
    <3> QED
      BY <3>1
  <2>2. e = [d EXCEPT !.totp = [d.totp EXCEPT ![u] = new]]
    BY <1>1, <1>3 DEF RecordTotpFailure, WholeStore, Store
  <2> HIDE DEF fails, locked
  <2>3. new \in Totp /\ new.secret = r.secret /\ new.confirmed = r.confirmed /\ new.codes = r.codes /\ new.last = r.last
    BY <1>1, <2>1 DEF Totp
  <2> HIDE DEF new
  <2>4. TotpRow(d, e, u, new)
    BY <2>2, <2>3, RowWritten
  <2> QED
    BY <2>3, <2>4
<1> QED
  BY <1>2, <1>3

\* The calls that enrol, present a code or work on one; no other operation makes or changes one.
FactorPcs == EnrolmentPcs \cup {"putsecret"}

CallsApart == \A q \in Slots : calls'[q].pc \in FactorPcs => calls'[q] = calls[q]

\* A call that moves to any other step leaves those calls alone.
LEMMA CallApart ==
  ASSUME calls \in [Slots -> Call], NEW p \in Slots, NEW c, c.pc \notin FactorPcs, Put(p, c) PROVE CallsApart
  BY DEF CallsApart, Put

LEMMA GotoApart ==
  ASSUME calls \in [Slots -> Call], NEW p \in Slots, NEW pc, pc \notin FactorPcs, Goto(p, pc) PROVE CallsApart
  BY DEF CallsApart, Goto, Call

LEMMA ReturnApart == ASSUME calls \in [Slots -> Call], NEW p \in Slots, Return(p) PROVE CallsApart
  BY CallApart DEF Return, Blank, FactorPcs, EnrolmentPcs, CodePcs

\* The steps that are not of the second factor.
LEMMA OtherSteps ==
  \A pc \in {"idle", "insert", "send", "token", "session", "replace", "verify", "user", "current", "find", "create",
             "identity", "target", "newuser", "link", "unlink", "addkey", "readkey", "counter", "dropkey"} :
     pc \notin FactorPcs
  BY DEF FactorPcs, EnrolmentPcs, CodePcs

\* No operation on accounts or identities makes or changes such a call.
LEMMA AccountsApart == ASSUME ServiceInv, AccountsNext PROVE CallsApart
<1>1. /\ calls \in [Slots -> Call] /\ \A p \in Slots : calls[p] \in Call /\ CallOK(db, proven, calls[p])
      /\ Blank \in Call
  BY BlankCall DEF ServiceInv, TypeOK, CallsInv
<1>2. UNCHANGED calls => CallsApart
  BY DEF CallsApart
<1>3. ASSUME NEW p \in Slots, ReadEnrolled(p) PROVE CallsApart
  <2> DEFINE c == [calls[p] EXCEPT !.pc = "insert", !.flag = db.totp[calls[p].user].confirmed]
  <2>1. c.pc = "insert" /\ Put(p, c)
    BY <1>1, <1>3 DEF ReadEnrolled, Call
  <2> HIDE DEF c
  <2> QED
    BY <1>1, <2>1, OtherSteps, CallApart
<1>4. ASSUME NEW p \in Slots, CreateSession(p) \/ SendToken(p) \/ Fail(p) PROVE CallsApart
  BY <1>1, <1>4, ReturnApart DEF CreateSession, SendToken, Fail
<1>5. ASSUME NEW p \in Slots, PutToken(p) PROVE CallsApart
  <2> DEFINE c == [calls[p] EXCEPT !.pc = "send", !.arg = Len(db.tokens) + 1]
  <2>1. c.pc = "send" /\ Put(p, c)
    BY <1>1, <1>5 DEF PutToken, Call
  <2> HIDE DEF c
  <2> QED
    BY <1>1, <2>1, OtherSteps, CallApart
<1>6. ASSUME NEW p \in Slots, SetVerified(p) PROVE CallsApart
  <2>1. calls[p].next \in {"idle", "session"}
    BY <1>1, <1>6 DEF SetVerified, CallOK
  <2> QED
    BY <1>1, <1>6, <2>1, OtherSteps, ReturnApart, GotoApart DEF SetVerified
<1>7. ASSUME NEW p \in Slots, CheckVerified(p) \/ CheckCurrent(p) \/ ReplaceAndRevoke(p) PROVE CallsApart
  BY <1>1, <1>7, OtherSteps, ReturnApart, GotoApart DEF CheckVerified, CheckCurrent, ReplaceAndRevoke
<1>8. ASSUME NEW p \in Slots, MagicFind(p) PROVE CallsApart
  <2>1. ASSUME NEW u, Put(p, [calls[p] EXCEPT !.user = u, !.pc = IF db.users[u].verified THEN "session" ELSE "verify"])
        PROVE  CallsApart
    <3> DEFINE pc == IF db.users[u].verified THEN "session" ELSE "verify"
               c == [calls[p] EXCEPT !.user = u, !.pc = pc]
    <3>1. c.pc = pc /\ Put(p, c) /\ pc \in {"session", "verify"}
      BY <1>1, <2>1 DEF Call
    <3> HIDE DEF c, pc
    <3> QED
      BY <1>1, <3>1, OtherSteps, CallApart
  <2> QED
    BY <1>1, <1>8, <2>1, OtherSteps, GotoApart DEF MagicFind
<1>9. ASSUME NEW p \in Slots, MagicCreate(p) PROVE CallsApart
  <2> DEFINE c == [calls[p] EXCEPT !.pc = "session", !.user = Len(db.users) + 1]
  <2>1. c.pc = "session" /\ (Put(p, c) \/ Goto(p, "find"))
    BY <1>1, <1>9 DEF MagicCreate, Call
  <2> HIDE DEF c
  <2> QED
    BY <1>1, <2>1, OtherSteps, CallApart, GotoApart
<1>10. ASSUME NEW p \in Slots, NEW purpose, NEW e, NEW u, Issue(p, purpose, e, u) PROVE CallsApart
  <2> DEFINE c == [Blank EXCEPT !.pc = "token", !.purpose = purpose, !.email = e, !.user = u]
  <2>1. c.pc = "token" /\ Put(p, c)
    BY <1>10 DEF Issue, Blank
  <2> HIDE DEF c
  <2> QED
    BY <1>1, <2>1, OtherSteps, CallApart
<1>11. ASSUME NEW p \in Slots,
              \/ \E e \in Emails : RequestMagicLink(p, e) \/ \E w \in Passwords : RegisterPassword(p, e, w)
              \/ \E u \in DOMAIN db.users : RequestEmailVerification(p, u) \/ RequestPasswordReset(p, u)
       PROVE  CallsApart
  BY <1>10, <1>11 DEF RequestMagicLink, RegisterPassword, RequestEmailVerification, RequestPasswordReset
<1>12. ASSUME NEW p \in Slots, NEW u, NEW w, SignInPassword(p, u, w) PROVE CallsApart
  BY <1>1, <1>12, OtherSteps, CallApart DEF SignInPassword, Blank
<1>13. ASSUME NEW p \in Slots, NEW t, VerifyEmail(p, t) PROVE CallsApart
  BY <1>1, <1>13, OtherSteps, CallApart DEF VerifyEmail, ConsumeToken, Blank
<1>14. ASSUME NEW p \in Slots, NEW t, ConsumeMagicLink(p, t) PROVE CallsApart
  BY <1>1, <1>14, OtherSteps, CallApart DEF ConsumeMagicLink, ConsumeToken, Blank
<1>15. ASSUME NEW p \in Slots, NEW t, NEW w, ResetPassword(p, t, w) PROVE CallsApart
  BY <1>1, <1>15, OtherSteps, CallApart DEF ResetPassword, ConsumeToken, Blank
<1>16. ASSUME NEW p \in Slots, NEW s, NEW v, NEW w, ChangePassword(p, s, v, w) PROVE CallsApart
  BY <1>1, <1>16, OtherSteps, CallApart DEF ChangePassword, Blank
<1>17. ASSUME \/ \E s \in DOMAIN db.sessions : SignOut(s)
              \/ \E u \in DOMAIN db.users : RevokeAllSessions(u)
              \/ Expire
       PROVE  CallsApart
  BY <1>2, <1>17 DEF SignOut, RevokeAllSessions, Expire
<1> QED
  BY <1>3, <1>4, <1>5, <1>6, <1>7, <1>8, <1>9, <1>11, <1>12, <1>13, <1>14, <1>15, <1>16, <1>17 DEF AccountsNext

LEMMA IdentitiesApart == ASSUME ServiceInv, IdentitiesNext PROVE CallsApart
<1>1. calls \in [Slots -> Call] /\ \A p \in Slots : calls[p] \in Call
  BY DEF ServiceInv, TypeOK
<1>2. UNCHANGED calls => CallsApart
  BY DEF CallsApart
<1>3. ASSUME BeginOAuth \/ (\E s \in DOMAIN db.sessions : BeginPasskeyRegistration(s))
               \/ (\E u \in {0} \cup DOMAIN db.users : BeginPasskeyAuthentication(u))
      PROVE  CallsApart
  BY <1>2, <1>3 DEF BeginOAuth, BeginPasskeyRegistration, BeginPasskeyAuthentication
<1>4. ASSUME NEW p \in Slots, Unlink(p) \/ StorePasskey(p) \/ DropPasskey(p) PROVE CallsApart
  BY <1>1, <1>4, ReturnApart DEF Unlink, StorePasskey, DropPasskey
<1>5. ASSUME NEW p \in Slots, NEW pc, pc \notin FactorPcs, NEW u, Put(p, [calls[p] EXCEPT !.pc = pc, !.user = u])
      PROVE  CallsApart
  <2> DEFINE c == [calls[p] EXCEPT !.pc = pc, !.user = u]
  <2>1. c.pc = pc /\ Put(p, c)
    BY <1>1, <1>5 DEF Call
  <2> HIDE DEF c
  <2> QED
    BY <1>1, <1>5, <2>1, CallApart
<1>6. ASSUME NEW p \in Slots, FindIdentity(p) PROVE CallsApart
  BY <1>1, <1>5, <1>6, OtherSteps, ReturnApart DEF FindIdentity
<1>7. ASSUME NEW p \in Slots, FindTarget(p) PROVE CallsApart
  BY <1>1, <1>5, <1>7, OtherSteps, ReturnApart, GotoApart DEF FindTarget
<1>8. ASSUME NEW p \in Slots, LinkIdentity(p) PROVE CallsApart
  <2> DEFINE pc == IF VouchesFor(calls[p].user, calls[p].email) THEN "verify" ELSE "session"
             c == [calls[p] EXCEPT !.next = "session", !.pc = pc]
  <2>1. c.pc = pc /\ (Put(p, c) \/ Return(p)) /\ pc \in {"session", "verify"}
    BY <1>1, <1>8 DEF LinkIdentity, Call
  <2> HIDE DEF c, pc
  <2> QED
    BY <1>1, <2>1, OtherSteps, CallApart, ReturnApart
<1>9. ASSUME NEW p \in Slots, ProvisionUser(p) PROVE CallsApart
  BY <1>1, <1>5, <1>9, OtherSteps, ReturnApart DEF ProvisionUser
<1>10. ASSUME NEW p \in Slots, ReadPasskey(p) PROVE CallsApart
  <2>1. ASSUME NEW x, Put(p, [calls[p] EXCEPT !.pc = "counter", !.user = x.user, !.tries = x.counter])
        PROVE  CallsApart
    <3> DEFINE c == [calls[p] EXCEPT !.pc = "counter", !.user = x.user, !.tries = x.counter]
    <3>1. c.pc = "counter" /\ Put(p, c)
      BY <1>1, <2>1 DEF Call
    <3> HIDE DEF c
    <3> QED
      BY <1>1, <3>1, OtherSteps, CallApart
  <2> QED
    BY <1>1, <1>10, <2>1, ReturnApart DEF ReadPasskey
<1>11. ASSUME NEW p \in Slots, MoveCounter(p) PROVE CallsApart
  BY <1>1, <1>11, OtherSteps, CallApart, ReturnApart DEF MoveCounter, Blank
<1>12. ASSUME NEW p \in Slots, NEW n, NEW f, NEW s, CompleteOAuth(p, n, f, s) PROVE CallsApart
  BY <1>1, <1>12, OtherSteps, CallApart DEF CompleteOAuth, Blank
<1>13. ASSUME NEW p \in Slots, NEW s, NEW i, UnlinkOAuthIdentity(p, s) \/ RemoveOwnPasskey(p, s, i) PROVE CallsApart
  BY <1>1, <1>13, OtherSteps, CallApart DEF UnlinkOAuthIdentity, RemoveOwnPasskey, Blank
<1>14. ASSUME NEW p \in Slots, NEW s, NEW c, NEW n, FinishPasskeyRegistration(p, s, c, n) PROVE CallsApart
  BY <1>1, <1>2, <1>14, OtherSteps, CallApart DEF FinishPasskeyRegistration, Blank
<1>15. ASSUME NEW p \in Slots, NEW c, NEW i, NEW n, FinishPasskeyAuthentication(p, c, i, n) PROVE CallsApart
  BY <1>1, <1>15, OtherSteps, CallApart DEF FinishPasskeyAuthentication, Blank
<1> QED
  BY <1>3, <1>4, <1>6, <1>7, <1>8, <1>9, <1>10, <1>11, <1>12, <1>13, <1>14, <1>15 DEF IdentitiesNext

\* Whatever other operations do, enrolments stay as they are and no session is raised.
FactorKept(d, e) ==
    /\ \A u \in DOMAIN d.totp : u \in DOMAIN e.totp /\ e.totp[u] = d.totp[u]
    /\ \A u \in DOMAIN e.totp \ DOMAIN d.totp : e.totp[u] = NoTotp
    /\ DOMAIN d.sessions \subseteq DOMAIN e.sessions
    /\ \A s \in DOMAIN e.sessions :
          e.sessions[s].pending /\ e.sessions[s].elevated =>
             s \in DOMAIN d.sessions /\ d.sessions[s].pending /\ d.sessions[s].elevated

\* Steps that write neither enrolments nor sessions; that end sessions; that add a user.
LEMMA FactorAside ==
  ASSUME NEW d, NEW e, e.totp = d.totp, e.sessions = d.sessions PROVE FactorKept(d, e)
  BY DEF FactorKept

LEMMA FactorSignedOut ==
  ASSUME NEW d, NEW e, SessionsOnly(d, e), DOMAIN e.sessions = DOMAIN d.sessions,
         \A s \in DOMAIN d.sessions : e.sessions[s].elevated = d.sessions[s].elevated
  PROVE  FactorKept(d, e)
  BY DEF FactorKept, SessionsOnly

LEMMA FactorOfNewUser ==
  ASSUME NEW d, NEW e, NEW row, WholeStore(d), UserAdded(d, e, row) PROVE FactorKept(d, e)
<1>1. /\ DOMAIN d.totp = DOMAIN d.users /\ DOMAIN d.users = 1..Len(d.users) /\ Len(d.users) \in Nat
      /\ DOMAIN e.totp = 1..(Len(d.users) + 1)
  BY StoreFields DEF UserAdded
<1> QED
  BY <1>1 DEF FactorKept, UserAdded

\* The operations of the port on other tables.
LEMMA PortAside ==
  ASSUME NEW d, WholeStore(d)
  PROVE  /\ \A purpose, a, u : FactorKept(d, PutOneTimeToken(d, purpose, a, u))
         /\ \A t : FactorKept(d, ConsumeOneTimeToken(d, t))
         /\ \A u : FactorKept(d, SetEmailVerified(d, u))
         /\ FactorKept(d, PutOAuthState(d))
         /\ \A n : FactorKept(d, ConsumeOAuthState(d, n))
         /\ \A u, subject : FactorKept(d, AddOAuthIdentity(d, u, subject))
         /\ \A u : FactorKept(d, RemoveOAuthIdentity(d, u))
         /\ \A purpose, u : FactorKept(d, PutPasskeyChallenge(d, purpose, u))
         /\ \A c : FactorKept(d, ConsumePasskeyChallenge(d, c))
         /\ \A i, u, n : FactorKept(d, AddPasskey(d, i, u, n))
         /\ \A i, u : FactorKept(d, RemovePasskey(d, i, u))
         /\ \A i, n : FactorKept(d, UpdatePasskeyCounter(d, i, n))
<1>1. \A purpose, a, u : FactorKept(d, PutOneTimeToken(d, purpose, a, u))
  <2> TAKE purpose, a, u
  <2> DEFINE e == PutOneTimeToken(d, purpose, a, u)
  <2>1. e.totp = d.totp /\ e.sessions = d.sessions
    BY DEF PutOneTimeToken, WholeStore, Store
  <2> HIDE DEF e
  <2>2. FactorKept(d, e)
    BY <2>1, FactorAside
  <2> QED
    BY <2>2 DEF e
<1>2. \A t : FactorKept(d, ConsumeOneTimeToken(d, t))
  <2> TAKE t
  <2> DEFINE e == ConsumeOneTimeToken(d, t)
  <2>1. e.totp = d.totp /\ e.sessions = d.sessions
    BY DEF ConsumeOneTimeToken, WholeStore, Store
  <2> HIDE DEF e
  <2>2. FactorKept(d, e)
    BY <2>1, FactorAside
  <2> QED
    BY <2>2 DEF e
<1>3. \A u : FactorKept(d, SetEmailVerified(d, u))
  <2> TAKE u
  <2> DEFINE e == SetEmailVerified(d, u)
  <2>1. e.totp = d.totp /\ e.sessions = d.sessions
    BY DEF SetEmailVerified, WholeStore, Store
  <2> HIDE DEF e
  <2>2. FactorKept(d, e)
    BY <2>1, FactorAside
  <2> QED
    BY <2>2 DEF e
<1>4. FactorKept(d, PutOAuthState(d))
  <2> DEFINE e == PutOAuthState(d)
  <2>1. e.totp = d.totp /\ e.sessions = d.sessions
    BY DEF PutOAuthState, WholeStore, Store
  <2> HIDE DEF e
  <2>2. FactorKept(d, e)
    BY <2>1, FactorAside
  <2> QED
    BY <2>2 DEF e
<1>5. \A n : FactorKept(d, ConsumeOAuthState(d, n))
  <2> TAKE n
  <2> DEFINE e == ConsumeOAuthState(d, n)
  <2>1. e.totp = d.totp /\ e.sessions = d.sessions
    BY DEF ConsumeOAuthState, WholeStore, Store
  <2> HIDE DEF e
  <2>2. FactorKept(d, e)
    BY <2>1, FactorAside
  <2> QED
    BY <2>2 DEF e
<1>6. \A u, subject : FactorKept(d, AddOAuthIdentity(d, u, subject))
  <2> TAKE u, subject
  <2> DEFINE e == AddOAuthIdentity(d, u, subject)
  <2>1. e.totp = d.totp /\ e.sessions = d.sessions
    BY DEF AddOAuthIdentity, WholeStore, Store
  <2> HIDE DEF e
  <2>2. FactorKept(d, e)
    BY <2>1, FactorAside
  <2> QED
    BY <2>2 DEF e
<1>7. \A u : FactorKept(d, RemoveOAuthIdentity(d, u))
  <2> TAKE u
  <2> DEFINE e == RemoveOAuthIdentity(d, u)
  <2>1. e.totp = d.totp /\ e.sessions = d.sessions
    BY DEF RemoveOAuthIdentity, WholeStore, Store
  <2> HIDE DEF e
  <2>2. FactorKept(d, e)
    BY <2>1, FactorAside
  <2> QED
    BY <2>2 DEF e
<1>8. \A purpose, u : FactorKept(d, PutPasskeyChallenge(d, purpose, u))
  <2> TAKE purpose, u
  <2> DEFINE e == PutPasskeyChallenge(d, purpose, u)
  <2>1. e.totp = d.totp /\ e.sessions = d.sessions
    BY DEF PutPasskeyChallenge, WholeStore, Store
  <2> HIDE DEF e
  <2>2. FactorKept(d, e)
    BY <2>1, FactorAside
  <2> QED
    BY <2>2 DEF e
<1>9. \A c : FactorKept(d, ConsumePasskeyChallenge(d, c))
  <2> TAKE c
  <2> DEFINE e == ConsumePasskeyChallenge(d, c)
  <2>1. e.totp = d.totp /\ e.sessions = d.sessions
    BY DEF ConsumePasskeyChallenge, WholeStore, Store
  <2> HIDE DEF e
  <2>2. FactorKept(d, e)
    BY <2>1, FactorAside
  <2> QED
    BY <2>2 DEF e
<1>10. \A i, u, n : FactorKept(d, AddPasskey(d, i, u, n))
  <2> TAKE i, u, n
  <2> DEFINE e == AddPasskey(d, i, u, n)
  <2>1. e.totp = d.totp /\ e.sessions = d.sessions
    BY DEF AddPasskey, WholeStore, Store
  <2> HIDE DEF e
  <2>2. FactorKept(d, e)
    BY <2>1, FactorAside
  <2> QED
    BY <2>2 DEF e
<1>11. \A i, u : FactorKept(d, RemovePasskey(d, i, u))
  <2> TAKE i, u
  <2> DEFINE e == RemovePasskey(d, i, u)
  <2>1. e.totp = d.totp /\ e.sessions = d.sessions
    BY DEF RemovePasskey, WholeStore, Store
  <2> HIDE DEF e
  <2>2. FactorKept(d, e)
    BY <2>1, FactorAside
  <2> QED
    BY <2>2 DEF e
<1>12. \A i, n : FactorKept(d, UpdatePasskeyCounter(d, i, n))
  <2> TAKE i, n
  <2> DEFINE e == UpdatePasskeyCounter(d, i, n)
  <2>1. e.totp = d.totp /\ e.sessions = d.sessions
    BY DEF UpdatePasskeyCounter, WholeStore, Store
  <2> HIDE DEF e
  <2>2. FactorKept(d, e)
    BY <2>1, FactorAside
  <2> QED
    BY <2>2 DEF e
<1> QED
  BY <1>1, <1>2, <1>3, <1>4, <1>5, <1>6, <1>7, <1>8, <1>9, <1>10, <1>11, <1>12

\* The steps of accounts and of identities leave enrolments alone.
LEMMA AccountsAside == ASSUME ServiceInv, AccountsNext PROVE FactorKept(db, db')
<1> USE AuthAssumption DEF AuthAssumption
<1>1. /\ WholeStore(db) /\ RowsAreOfUsers /\ \A p \in Slots : calls[p] \in Call /\ CallOK(db, proven, calls[p])
      /\ DOMAIN db.users = 1..Len(db.users) /\ Len(db.users) \in Nat
  BY StoreFields DEF ServiceInv, TypeOK, AccountsInv, CallsInv
<1>2. UNCHANGED db => FactorKept(db, db')
  BY FactorAside
<1>3. ASSUME NEW p \in Slots, CreateSession(p) PROVE FactorKept(db, db')
  <2> DEFINE u == calls[p].user
             f == calls[p].flag
  <2>1. u \in Nat /\ f \in BOOLEAN
    BY <1>1 DEF Call
  <2>2. db' = InsertSession(db, u, f)
    BY <1>3 DEF CreateSession
  <2> HIDE DEF u, f
  <2>3. /\ SessionsOnly(db, db') /\ DOMAIN db'.sessions = 1..(Len(db.sessions) + 1)
        /\ \A s \in DOMAIN db.sessions : db'.sessions[s] = db.sessions[s]
        /\ db'.sessions[Len(db.sessions) + 1] = [user |-> u, elevated |-> ~f, pending |-> f, live |-> TRUE]
    BY <1>1, <2>1, <2>2, SessionOpened
  <2>4. ~(db'.sessions[Len(db.sessions) + 1].pending /\ db'.sessions[Len(db.sessions) + 1].elevated)
    <3> DEFINE new == [user |-> u, elevated |-> ~f, pending |-> f, live |-> TRUE]
    <3>1. db'.sessions[Len(db.sessions) + 1] = new
      BY <2>3
    <3>2. CASE f
      <4>1. ~new.elevated
        BY <3>2
      <4> QED
        BY <3>1, <4>1
    <3>3. CASE ~f
      <4>1. ~new.pending
        BY <3>3
      <4> QED
        BY <3>1, <4>1
    <3> QED
      BY <3>2, <3>3
  <2>5. DOMAIN db.sessions = 1..Len(db.sessions) /\ Len(db.sessions) \in Nat
    BY <1>1, StoreFields
  <2> QED
    BY <2>3, <2>4, <2>5 DEF FactorKept, SessionsOnly
<1>4. ASSUME NEW p \in Slots, PutToken(p) PROVE FactorKept(db, db')
  BY <1>1, <1>4, PortAside DEF PutToken
<1>5. ASSUME NEW p \in Slots, SetVerified(p) PROVE FactorKept(db, db')
  BY <1>1, <1>5, PortAside DEF SetVerified
<1>6. ASSUME NEW p \in Slots, ReplaceAndRevoke(p) PROVE FactorKept(db, db')
  <2>1. calls[p].user \in DOMAIN db.users /\ calls[p].arg \in Nat
    BY <1>1, <1>6 DEF ReplaceAndRevoke, CallOK, AccountPcs, Call
  <2> DEFINE u == calls[p].user
             w == calls[p].arg
  <2>2. db' = ReplacePassword(db, u, w)
    BY <1>6 DEF ReplaceAndRevoke
  <2> HIDE DEF u, w
  <2>3. /\ SessionsOnly(db, db') /\ DOMAIN db'.sessions = DOMAIN db.sessions
        /\ \A t \in DOMAIN db.sessions : db'.sessions[t].elevated = db.sessions[t].elevated
    <3>1. WholeStore(db) /\ u \in DOMAIN db.users /\ w \in Nat
      BY <1>1, <2>1 DEF u, w
    <3> QED
      BY <2>2, <3>1, PasswordReplaced
  <2> QED
    BY <2>3, FactorSignedOut
<1>7. ASSUME NEW p \in Slots, MagicCreate(p) PROVE FactorKept(db, db')
  <2>1. CASE EmailIsFree(db, calls[p].email)
    <3>1. db' = InsertUser(db, calls[p].email, TRUE, "magic-link", 0) /\ calls[p].email \in Addresses
      BY <1>1, <1>7, <2>1 DEF MagicCreate, CreateMagicLinkUser, CallOK, LinkPcs
    <3>2. UserAdded(db, db', [email |-> calls[p].email, verified |-> TRUE, origin |-> "magic-link"])
      BY <1>1, <3>1, NewUser
    <3> QED
      BY <1>1, <3>2, FactorOfNewUser
  <2>2. CASE ~EmailIsFree(db, calls[p].email)
    BY <1>2, <1>7, <2>2 DEF MagicCreate
  <2> QED
    BY <2>1, <2>2
<1>8. ASSUME NEW p \in Slots, NEW a \in Emails, NEW w \in Passwords, RegisterPassword(p, a, w) PROVE FactorKept(db, db')
  <2>1. db' = InsertUser(db, a, FALSE, "password", w) /\ a \in Addresses /\ w \in Nat
    BY <1>8 DEF RegisterPassword, CreatePasswordUser, Addresses
  <2>2. UserAdded(db, db', [email |-> a, verified |-> FALSE, origin |-> "password"])
    BY <1>1, <2>1, NewUser
  <2> QED
    BY <1>1, <2>2, FactorOfNewUser
<1>9. ASSUME NEW t \in DOMAIN db.tokens, db' = ConsumeOneTimeToken(db, t) PROVE FactorKept(db, db')
  BY <1>1, <1>9, PortAside
<1>10. ASSUME NEW s \in DOMAIN db.sessions, db' = RevokeSession(db, s) PROVE FactorKept(db, db')
  BY <1>1, <1>10, SessionEnded, FactorSignedOut
<1>11. ASSUME NEW u \in DOMAIN db.users, RevokeAllSessions(u) PROVE FactorKept(db, db')
  BY <1>1, <1>11, UserSignedOut, FactorSignedOut DEF RevokeAllSessions
<1>12. ASSUME NEW p \in Slots, NEW t \in DOMAIN db.tokens,
              VerifyEmail(p, t) \/ ConsumeMagicLink(p, t) \/ \E w \in Passwords : ResetPassword(p, t, w)
       PROVE  FactorKept(db, db')
  BY <1>9, <1>12 DEF VerifyEmail, ConsumeMagicLink, ResetPassword, ConsumeToken
<1>13. ASSUME \/ \E s \in DOMAIN db.sessions : SignOut(s)
              \/ Expire
       PROVE  FactorKept(db, db')
  BY <1>9, <1>10, <1>13 DEF SignOut, Expire
<1>14. ASSUME NEW p \in Slots,
              \/ ReadEnrolled(p) \/ SendToken(p) \/ CheckVerified(p) \/ CheckCurrent(p) \/ MagicFind(p) \/ Fail(p)
              \/ \E e \in Emails : RequestMagicLink(p, e)
              \/ \E u \in DOMAIN db.users : \/ RequestEmailVerification(p, u) \/ RequestPasswordReset(p, u)
                                            \/ \E w \in Passwords : SignInPassword(p, u, w)
              \/ \E s \in DOMAIN db.sessions, v, w \in Passwords : ChangePassword(p, s, v, w)
       PROVE  FactorKept(db, db')
  BY <1>2, <1>14 DEF ReadEnrolled, SendToken, CheckVerified, CheckCurrent, MagicFind, Fail, RequestMagicLink,
                     RequestEmailVerification, RequestPasswordReset, SignInPassword, ChangePassword
<1> QED
  BY <1>3, <1>4, <1>5, <1>6, <1>7, <1>8, <1>11, <1>12, <1>13, <1>14 DEF AccountsNext

LEMMA IdentitiesAside == ASSUME ServiceInv, IdentitiesNext PROVE FactorKept(db, db')
<1>1. WholeStore(db) /\ \A p \in Slots : calls[p] \in Call /\ CallOK(db, proven, calls[p])
  BY DEF ServiceInv, TypeOK, CallsInv
<1>2. UNCHANGED db => FactorKept(db, db')
  BY FactorAside
<1>3. ASSUME BeginOAuth PROVE FactorKept(db, db')
  BY <1>1, <1>3, PortAside DEF BeginOAuth
<1>4. ASSUME NEW purpose, NEW u, db' = PutPasskeyChallenge(db, purpose, u) PROVE FactorKept(db, db')
  BY <1>1, <1>4, PortAside
<1>5. ASSUME NEW c, db' = ConsumePasskeyChallenge(db, c) PROVE FactorKept(db, db')
  BY <1>1, <1>5, PortAside
<1>6. ASSUME NEW p \in Slots, LinkIdentity(p) PROVE FactorKept(db, db')
  BY <1>1, <1>2, <1>6, PortAside DEF LinkIdentity
<1>7. ASSUME NEW p \in Slots, Unlink(p) PROVE FactorKept(db, db')
  BY <1>1, <1>7, PortAside DEF Unlink
<1>8. ASSUME NEW p \in Slots, StorePasskey(p) PROVE FactorKept(db, db')
  BY <1>1, <1>8, PortAside DEF StorePasskey
<1>9. ASSUME NEW p \in Slots, DropPasskey(p) PROVE FactorKept(db, db')
  BY <1>1, <1>9, PortAside DEF DropPasskey
<1>10. ASSUME NEW p \in Slots, MoveCounter(p) PROVE FactorKept(db, db')
  BY <1>1, <1>2, <1>10, PortAside DEF MoveCounter
<1>11. ASSUME NEW p \in Slots, NEW n, NEW f, NEW s, CompleteOAuth(p, n, f, s) PROVE FactorKept(db, db')
  BY <1>1, <1>11, PortAside DEF CompleteOAuth
<1>12. ASSUME NEW p \in Slots, ProvisionUser(p) PROVE FactorKept(db, db')
  <2> DEFINE a == calls[p].email
             v == a /= NoEmail
             e == InsertUser(db, a, v, "oauth", 0)
  <2>1. CASE EmailIsFree(db, a) /\ OwnersOf(db, calls[p].purpose) = {}
    <3>1. a \in Addresses /\ v \in BOOLEAN
      BY <1>1, <1>12 DEF ProvisionUser, CallOK, ProfilePcs
    <3>2. db' = [e EXCEPT !.identities = @ \cup {<<calls[p].purpose, Len(db.users) + 1>>}]
      BY <1>12, <2>1 DEF ProvisionUser, CreateOAuthUser
    <3> HIDE DEF v
    <3>3. UserAdded(db, e, [email |-> a, verified |-> v, origin |-> "oauth"])
      BY <1>1, <3>1, NewUser
    <3> HIDE DEF e
    <3>4. FactorKept(db, e) /\ WholeStore(e)
      BY <1>1, <3>3, FactorOfNewUser DEF UserAdded
    <3>5. db'.totp = e.totp /\ db'.sessions = e.sessions
      BY <3>2, <3>4 DEF WholeStore, Store
    <3> QED
      BY <3>4, <3>5 DEF FactorKept
  <2>2. CASE ~(EmailIsFree(db, a) /\ OwnersOf(db, calls[p].purpose) = {})
    BY <1>2, <1>12, <2>2 DEF ProvisionUser
  <2> QED
    BY <2>1, <2>2
<1>13. ASSUME NEW p \in Slots, NEW s, NEW i,
              FindIdentity(p) \/ FindTarget(p) \/ ReadPasskey(p) \/ UnlinkOAuthIdentity(p, s) \/ RemoveOwnPasskey(p, s, i)
       PROVE  FactorKept(db, db')
  BY <1>2, <1>13 DEF FindIdentity, FindTarget, ReadPasskey, UnlinkOAuthIdentity, RemoveOwnPasskey
<1>14. ASSUME NEW p \in Slots, NEW s, NEW c, NEW n, FinishPasskeyRegistration(p, s, c, n) PROVE FactorKept(db, db')
  BY <1>5, <1>14 DEF FinishPasskeyRegistration
<1>15. ASSUME NEW p \in Slots, NEW c, NEW i, NEW n, FinishPasskeyAuthentication(p, c, i, n) PROVE FactorKept(db, db')
  BY <1>5, <1>15 DEF FinishPasskeyAuthentication
<1>16. ASSUME (\E s \in DOMAIN db.sessions : BeginPasskeyRegistration(s))
               \/ (\E u \in {0} \cup DOMAIN db.users : BeginPasskeyAuthentication(u))
       PROVE  FactorKept(db, db')
  BY <1>4, <1>16 DEF BeginPasskeyRegistration, BeginPasskeyAuthentication
<1> QED
  BY <1>3, <1>6, <1>7, <1>8, <1>9, <1>10, <1>11, <1>12, <1>13, <1>14, <1>15, <1>16 DEF IdentitiesNext

\* A row with no secret is not an enrolment.
RowOK(r) == r.secret \in {0} \cup Secrets /\ (r.confirmed => r.secret # 0)

RowsInv == \A u \in DOMAIN db.totp : RowOK(db.totp[u])

\* A user without an enrolment.
LEMMA EmptyRow == RowOK(NoTotp)
  BY DEF RowOK, NoTotp

\* Steps that leave enrolments alone keep their shape.
LEMMA RowsLast == ASSUME RowsInv, FactorKept(db, db') PROVE RowsInv'
  BY EmptyRow DEF RowsInv, FactorKept

\* Each step of the second factor writes at most one row, and one call takes its next step.
LEMMA RowStep ==
  ASSUME ServiceInv, RowsInv, NEW u, NEW r, TotpRow(db, db', u, r), RowOK(r), CodesOnly, UNCHANGED <<mailed, proven, ended>>,
         NEW p \in Slots, NEW c \in Call, CallOK(db, proven, c), c.pc # "addkey", Put(p, c)
  PROVE  ServiceInv' /\ RowsInv'
<1>1. RowsInv'
  BY DEF RowsInv, TotpRow
<1>2. WholeStore(db') /\ SameTables
  BY DEF TotpRow, SameTables
<1>3. ServiceInv'
  BY <1>2, QuietCall DEF Put
<1> QED
  BY <1>1, <1>3

\* A call that works on a code, and one that goes on with it.
LEMMA CodeCall ==
  ASSUME NEW d, NEW known, NEW c, c.pc \in CodePcs, c.user \in DOMAIN d.users, c.sess \in DOMAIN d.sessions,
         c.secret \in Secrets, c.pc \in RetryPcs => c.email \in RecoveryCodes, c.pc = "step" => c.arg \in Steps
  PROVE  CallOK(d, known, c) /\ c.pc # "addkey" /\ c.pc \in Pcs
  BY DEF CallOK, Pcs, AccountPcs, EnrolmentPcs, CodePcs, LinkPcs, ProfilePcs, RetryPcs

\* What a call that works on a code knows.
LEMMA CodeKnown ==
  ASSUME ServiceInv, NEW p \in Slots, calls[p].pc \in CodePcs
  PROVE  /\ calls[p] \in Call /\ calls[p].user \in DOMAIN db.users /\ calls[p].user \in DOMAIN db.totp
         /\ calls[p].sess \in DOMAIN db.sessions /\ calls[p].secret \in Secrets /\ calls[p].secret \in Nat
         /\ calls[p].pc \in RetryPcs => calls[p].email \in RecoveryCodes
         /\ calls[p].pc = "step" => calls[p].arg \in Steps
         /\ WholeStore(db)
<1>1. WholeStore(db) /\ calls[p] \in Call /\ CallOK(db, proven, calls[p])
  BY DEF ServiceInv, TypeOK, CallsInv
<1>2. DOMAIN db.users = DOMAIN db.totp
  BY <1>1, StoreFields
<1> QED
  BY <1>1, <1>2 DEF CallOK, AccountPcs, EnrolmentPcs, Call

\* It goes on to another step,
LEMMA CodeGoesOn ==
  ASSUME ServiceInv, NEW p \in Slots, calls[p].pc \in CodePcs, NEW pc \in CodePcs \ {"step"},
         pc \in RetryPcs => calls[p].pc \in RetryPcs, NEW c, c = [calls[p] EXCEPT !.pc = pc]
  PROVE  c \in Call /\ CallOK(db, proven, c) /\ c.pc # "addkey" /\ c.pc = pc
<1> DEFINE k == calls[p]
<1>1. /\ k \in Call /\ k.user \in DOMAIN db.users /\ k.sess \in DOMAIN db.sessions /\ k.secret \in Secrets
      /\ k.pc \in RetryPcs => k.email \in RecoveryCodes
  BY CodeKnown
<1> HIDE DEF k
<1>2. pc \in Pcs
  BY DEF Pcs, AccountPcs, EnrolmentPcs
<1>3. c = [k EXCEPT !.pc = pc]
  BY DEF k
<1>4. /\ c \in Call /\ c.pc = pc /\ c.user = k.user /\ c.sess = k.sess /\ c.secret = k.secret
      /\ c.email = k.email
  BY <1>1, <1>2, <1>3 DEF Call
<1>5. pc \in RetryPcs => k.pc \in RetryPcs
  BY DEF k
<1> QED
  BY <1>1, <1>4, <1>5, CodeCall

\* in particular once its code was accepted.
LEMMA AcceptedGoesOn ==
  ASSUME ServiceInv, NEW p \in Slots, calls[p].pc \in CodePcs, NEW c, c = Accepted(calls[p])
  PROVE  c \in Call /\ CallOK(db, proven, c) /\ c.pc # "addkey" /\ c.pc \in {"remove", "clear", "seal"}
<1> DEFINE pc == IF calls[p].next = "remove" THEN "remove" ELSE IF calls[p].sealed THEN "clear" ELSE "seal"
<1>1. pc \in {"remove", "clear", "seal"}
  OBVIOUS
<1>2. c = [calls[p] EXCEPT !.pc = pc]
  BY DEF Accepted
<1> HIDE DEF pc
<1>3. pc \in CodePcs \ {"step"} /\ pc \notin RetryPcs
  BY <1>1 DEF CodePcs, RetryPcs
<1> QED
  BY <1>1, <1>2, <1>3, CodeGoesOn

\* Goto is Put of the same call with another pc.
LEMMA GotoPut == ASSUME calls \in [Slots -> Call], NEW p \in Slots, NEW pc, Goto(p, pc) PROVE Put(p, [calls[p] EXCEPT !.pc = pc])
  BY DEF Goto, Put, Call

\* The steps that read the store and write none of it.
LEMMA FactorRead ==
  ASSUME ServiceInv, RowsInv, NEW p \in Slots,
         \/ MatchRecoveryCode(p) \/ SelectCodes(p) \/ RereadCodes(p)
         \/ \E s \in DOMAIN db.sessions :
               \/ \E x \in Secrets : BeginEnrollment(p, s, x)
               \/ \E n \in Steps : ConfirmEnrollment(p, s, n)
               \/ \E code \in TotpCodes \cup RecoveryCodes, next \in {"elevate", "remove"} : PresentCode(p, s, code, next)
  PROVE  ServiceInv' /\ RowsInv'
<1> DEFINE k == calls[p]
<1>1. /\ WholeStore(db) /\ RowsAreOfUsers /\ calls \in [Slots -> Call] /\ MaxTries \in Nat /\ Steps \subseteq Nat
      /\ MaxSecrets \in Nat
  BY AuthAssumption DEF ServiceInv, TypeOK, AccountsInv, AuthAssumption
<1>2. UNCHANGED db => RowsInv'
  BY DEF RowsInv
<1>3. ASSUME NEW s \in DOMAIN db.sessions
      PROVE  /\ db.sessions[s].user \in DOMAIN db.users /\ db.sessions[s].user \in Nat /\ s \in Nat
             /\ RowOK(Row(db.sessions[s].user)) /\ Row(db.sessions[s].user) \in Totp
  <2>1. db.sessions[s].user \in DOMAIN db.users /\ DOMAIN db.users = DOMAIN db.totp
        /\ \A u \in DOMAIN db.users : u \in Nat
    BY <1>1, StoreFields DEF RowsAreOfUsers
  <2>2. db.totp \in Seq(Totp) /\ s \in Nat
    BY <1>1, StoreFields
  <2> QED
    BY <2>1, <2>2 DEF RowsInv, Row
<1>4. Secrets \subseteq Nat
  BY <1>1 DEF Secrets
<1>5. ASSUME NEW s \in DOMAIN db.sessions, NEW x \in Secrets, BeginEnrollment(p, s, x) PROVE ServiceInv' /\ RowsInv'
  <2> DEFINE u == db.sessions[s].user
             c == [Blank EXCEPT !.pc = "putsecret", !.user = u, !.secret = x]
  <2>1. u \in DOMAIN db.users /\ u \in Nat /\ x \in Nat /\ "putsecret" \in Pcs
    BY <1>3, <1>4 DEF Pcs, AccountPcs
  <2>2. Put(p, c)
    BY <1>5 DEF BeginEnrollment
  <2> HIDE DEF u
  <2>3. c \in Call /\ c.pc = "putsecret" /\ c.user = u /\ c.secret = x
    BY <2>1, BlankCall DEF Call
  <2> HIDE DEF c
  <2>4. CallOK(db, proven, c)
    BY <2>1, <2>3 DEF CallOK, AccountPcs, EnrolmentPcs, CodePcs, LinkPcs, ProfilePcs, RetryPcs
  <2> QED
    BY <1>2, <1>5, <2>2, <2>3, <2>4, CallReads DEF BeginEnrollment
<1>6. ASSUME NEW s \in DOMAIN db.sessions, NEW n \in Steps, ConfirmEnrollment(p, s, n) PROVE ServiceInv' /\ RowsInv'
  <2> DEFINE u == db.sessions[s].user
             x == Row(u).secret
             c == [Blank EXCEPT !.pc = "confirm", !.user = u, !.secret = x, !.arg = n]
  <2>1. u \in DOMAIN db.users /\ u \in Nat /\ "confirm" \in Pcs /\ n \in Nat
    BY <1>1, <1>3 DEF Pcs, AccountPcs, EnrolmentPcs
  <2>2. x \in Secrets /\ x \in Nat
    <3>1. x # 0 /\ RowOK(Row(u))
      BY <1>3, <1>6 DEF ConfirmEnrollment
    <3> QED
      BY <1>4, <3>1 DEF RowOK
  <2>3. Put(p, c)
    BY <1>6 DEF ConfirmEnrollment
  <2> HIDE DEF u, x
  <2>4. c \in Call /\ c.pc = "confirm" /\ c.user = u /\ c.secret = x /\ c.arg = n
    BY <2>1, <2>2, BlankCall DEF Call
  <2> HIDE DEF c
  <2>5. CallOK(db, proven, c)
    BY <2>1, <2>2, <2>4 DEF CallOK, AccountPcs, EnrolmentPcs, CodePcs, LinkPcs, ProfilePcs, RetryPcs
  <2> QED
    BY <1>2, <1>6, <2>3, <2>4, <2>5, CallReads DEF ConfirmEnrollment
<1>7. ASSUME NEW s \in DOMAIN db.sessions, NEW code \in TotpCodes \cup RecoveryCodes, NEW next \in {"elevate", "remove"},
             PresentCode(p, s, code, next)
      PROVE  ServiceInv' /\ RowsInv'
  <2> DEFINE u == db.sessions[s].user
             x == Row(u).secret
             sealed == Row(u).sealed
             codes == Row(u).codes
             n == code[3]
             call == [Blank EXCEPT !.user = u, !.sess = s, !.next = next, !.secret = x, !.sealed = sealed, !.arg = n,
                                   !.set = codes]
  <2>1. /\ u \in DOMAIN db.users /\ u \in Nat /\ s \in Nat /\ x \in Secrets /\ x \in Nat /\ sealed \in BOOLEAN
        /\ codes \in SUBSET (Nat \X Nat)
    <3>1. Row(u).confirmed /\ RowOK(Row(u)) /\ Row(u) \in Totp
      BY <1>3, <1>7 DEF PresentCode
    <3> QED
      BY <1>3, <1>4, <3>1 DEF RowOK, Totp
  <2>2. /\ code[1] = "totp" => n \in Steps
        /\ code[1] # "totp" => code \in RecoveryCodes /\ n \in {1, 2}
    BY DEF TotpCodes, RecoveryCodes
  <2>3. n \in Nat
    <3>1. Steps \subseteq Nat /\ {1, 2} \subseteq Nat
      BY <1>1
    <3> HIDE DEF n
    <3> QED
      BY <2>2, <3>1
  <2>4. \/ code[1] = "totp" /\ (Put(p, [call EXCEPT !.pc = "step"]) \/ Put(p, [call EXCEPT !.pc = "failure"]))
        \/ code[1] # "totp" /\ Put(p, [call EXCEPT !.pc = "match", !.tries = MaxTries, !.email = code])
    BY <1>7 DEF PresentCode
  <2>5. UNCHANGED <<db, mailed, proven, accepted, acceptances, ended>>
    BY <1>7 DEF PresentCode
  <2> HIDE DEF u, x, sealed, codes, n
  <2>6. call \in Call /\ call.user = u /\ call.sess = s /\ call.secret = x /\ call.arg = n
    BY <2>1, <2>3, BlankCall DEF Call
  <2> HIDE DEF call
  <2>7. ASSUME NEW c \in Call, c.pc \in CodePcs, c.user = u, c.sess = s, c.secret = x, c.arg = n, Put(p, c),
               c.pc \in RetryPcs => c.email \in RecoveryCodes, c.pc = "step" => n \in Steps
        PROVE  ServiceInv' /\ RowsInv'
    <3>1. CallOK(db, proven, c) /\ c.pc # "addkey"
      BY <2>1, <2>7, CodeCall
    <3> QED
      BY <1>2, <2>5, <2>7, <3>1, CallReads
  <2>8. ASSUME NEW pc \in {"step", "failure"}, pc = "step" => n \in Steps, Put(p, [call EXCEPT !.pc = pc])
        PROVE  ServiceInv' /\ RowsInv'
    <3> DEFINE c == [call EXCEPT !.pc = pc]
    <3>1. pc \in Pcs /\ pc \in CodePcs /\ pc \notin RetryPcs
      BY DEF Pcs, AccountPcs, EnrolmentPcs, CodePcs, RetryPcs
    <3>2. c \in Call /\ c.pc = pc /\ c.user = u /\ c.sess = s /\ c.secret = x /\ c.arg = n
      BY <2>6, <3>1 DEF Call
    <3>3. Put(p, c)
      BY <2>8
    <3> HIDE DEF c
    <3> QED
      BY <2>7, <2>8, <3>1, <3>2, <3>3
  <2>9. ASSUME code \in RecoveryCodes, Put(p, [call EXCEPT !.pc = "match", !.tries = MaxTries, !.email = code])
        PROVE  ServiceInv' /\ RowsInv'
    <3> DEFINE c == [call EXCEPT !.pc = "match", !.tries = MaxTries, !.email = code]
    <3>1. "match" \in Pcs /\ "match" \in CodePcs
      BY DEF Pcs, AccountPcs, EnrolmentPcs, CodePcs
    <3>2. MaxTries \in Int
      BY <1>1
    <3>3. c \in Call /\ c.pc = "match" /\ c.user = u /\ c.sess = s /\ c.secret = x /\ c.arg = n /\ c.email = code
      BY <2>6, <2>9, <3>1, <3>2 DEF Call
    <3>4. Put(p, c)
      BY <2>9
    <3> HIDE DEF c
    <3> QED
      BY <2>7, <2>9, <3>1, <3>3, <3>4
  <2> QED
    BY <2>2, <2>4, <2>8, <2>9
<1>8. CASE MatchRecoveryCode(p)
  <2>1. k.pc \in CodePcs /\ k.pc \in RetryPcs
    BY <1>8 DEF MatchRecoveryCode, CodePcs, RetryPcs
  <2>2. PICK pc \in {"select", "failure"} : Goto(p, pc)
    BY <1>8 DEF MatchRecoveryCode
  <2>3. pc \in CodePcs \ {"step"}
    BY DEF CodePcs
  <2> DEFINE c == [calls[p] EXCEPT !.pc = pc]
  <2>4. Put(p, c)
    BY <1>1, <2>2, GotoPut
  <2> HIDE DEF c
  <2>5. c \in Call /\ CallOK(db, proven, c) /\ c.pc # "addkey"
    BY <2>1, <2>3, CodeGoesOn DEF c
  <2> QED
    BY <1>2, <1>8, <2>4, <2>5, CallReads DEF MatchRecoveryCode
<1>9. CASE SelectCodes(p)
  <2> DEFINE codes == Row(k.user).codes
             pc == IF <<k.email[2], k.email[3]>> \in codes THEN "swap" ELSE "reread"
             c == [k EXCEPT !.set = codes, !.pc = pc]
  <2>1. k.pc \in CodePcs /\ k.pc \in RetryPcs
    BY <1>9 DEF SelectCodes, CodePcs, RetryPcs
  <2>2. /\ k \in Call /\ k.user \in DOMAIN db.users /\ k.user \in DOMAIN db.totp /\ k.sess \in DOMAIN db.sessions
        /\ k.secret \in Secrets /\ k.email \in RecoveryCodes
    BY <2>1, CodeKnown
  <2>3. codes \in SUBSET (Nat \X Nat)
    <3>1. Row(k.user) \in Totp
      BY <1>1, <2>2, RowUntouched DEF Row
    <3> QED
      BY <3>1 DEF Totp
  <2>4. pc \in {"swap", "reread"} /\ pc \in CodePcs \ {"step"} /\ pc \in Pcs
    BY DEF CodePcs, Pcs, AccountPcs, EnrolmentPcs
  <2>5. Put(p, c)
    BY <1>1, <1>9 DEF SelectCodes, Put
  <2> HIDE DEF pc, codes, k
  <2>6. c \in Call /\ c.pc = pc /\ c.user = k.user /\ c.sess = k.sess /\ c.secret = k.secret /\ c.email = k.email
    BY <2>2, <2>3, <2>4 DEF Call
  <2> HIDE DEF c
  <2>7. CallOK(db, proven, c) /\ c.pc # "addkey"
    BY <2>2, <2>4, <2>6, CodeCall
  <2> QED
    BY <1>2, <1>9, <2>5, <2>6, <2>7, CallReads DEF SelectCodes
<1>10. CASE RereadCodes(p)
  <2> DEFINE codes == Row(k.user).codes
             n == k.tries - 1
             c == [k EXCEPT !.pc = "match", !.set = codes, !.tries = n]
  <2>1. k.pc \in CodePcs /\ k.pc \in RetryPcs
    BY <1>10 DEF RereadCodes, CodePcs, RetryPcs
  <2>2. /\ k \in Call /\ k.user \in DOMAIN db.users /\ k.user \in DOMAIN db.totp /\ k.sess \in DOMAIN db.sessions
        /\ k.secret \in Secrets /\ k.email \in RecoveryCodes
    BY <2>1, CodeKnown
  <2>3. codes \in SUBSET (Nat \X Nat)
    <3>1. Row(k.user) \in Totp
      BY <1>1, <2>2, RowUntouched DEF Row
    <3> QED
      BY <3>1 DEF Totp
  <2>4. n \in Int /\ "match" \in CodePcs \ {"step"} /\ "match" \in Pcs
    <3>1. "match" \in CodePcs \ {"step"} /\ "match" \in Pcs
      BY DEF CodePcs, Pcs, AccountPcs, EnrolmentPcs
    <3>2. k.tries \in Int
      BY <2>2 DEF Call
    <3> HIDE DEF k
    <3> QED
      BY <3>1, <3>2
  <2>5. Put(p, c)
    BY <1>1, <1>10 DEF RereadCodes, Put
  <2> HIDE DEF n, codes, k
  <2>6. c \in Call /\ c.pc = "match" /\ c.user = k.user /\ c.sess = k.sess /\ c.secret = k.secret /\ c.email = k.email
    BY <2>2, <2>3, <2>4 DEF Call
  <2> HIDE DEF c
  <2>7. CallOK(db, proven, c) /\ c.pc # "addkey"
    BY <2>2, <2>4, <2>6, CodeCall
  <2> QED
    BY <1>2, <1>10, <2>5, <2>6, <2>7, CallReads DEF RereadCodes
<1> QED
  BY <1>5, <1>6, <1>7, <1>8, <1>9, <1>10

\* What a call of an enrolment that is pending knows.
LEMMA EnrolKnown ==
  ASSUME ServiceInv, NEW p \in Slots, calls[p].pc \in {"putsecret", "confirm", "spendstep"}
  PROVE  /\ calls[p] \in Call /\ calls[p].user \in DOMAIN db.users /\ calls[p].user \in DOMAIN db.totp
         /\ calls[p].secret \in Secrets /\ calls[p].secret \in Nat /\ WholeStore(db)
         /\ calls[p].pc # "putsecret" => calls[p].arg \in Steps /\ calls[p].arg \in Nat
<1>1. WholeStore(db) /\ calls[p] \in Call /\ CallOK(db, proven, calls[p])
  BY DEF ServiceInv, TypeOK, CallsInv
<1>2. DOMAIN db.users = DOMAIN db.totp
  BY <1>1, StoreFields
<1> QED
  BY <1>1, <1>2 DEF CallOK, AccountPcs, EnrolmentPcs, Call

\* The lists a confirmation prints.
LEMMA PrintedCodes == ASSUME NEW x \in Nat PROVE {<<x, 1>>, <<x, 2>>} \in SUBSET (Nat \X Nat)
  OBVIOUS

\* A row keeps its shape under what the steps do to it.
LEMMA RowShape ==
  ASSUME NEW r \in Totp, RowOK(r)
  PROVE  /\ \A n : RowOK([r EXCEPT !.last = n])
         /\ \A codes : RowOK([r EXCEPT !.codes = codes])
         /\ RowOK([r EXCEPT !.locked = FALSE])
         /\ RowOK([r EXCEPT !.fails = 0, !.locked = FALSE])
         /\ \A codes : r.secret # 0 =>
               RowOK([r EXCEPT !.confirmed = TRUE, !.codes = codes, !.fails = 0, !.locked = FALSE])
         /\ \A x \in Secrets : x # 0 => RowOK([r EXCEPT !.secret = x, !.sealed = TRUE])
         /\ \A x \in Secrets : RowOK([NoTotp EXCEPT !.secret = x])
<1> USE DEF RowOK, Totp
<1>1. \A n : RowOK([r EXCEPT !.last = n])
  OBVIOUS
<1>2. \A codes : RowOK([r EXCEPT !.codes = codes])
  OBVIOUS
<1>3. RowOK([r EXCEPT !.locked = FALSE]) /\ RowOK([r EXCEPT !.fails = 0, !.locked = FALSE])
  OBVIOUS
<1>4. \A codes : r.secret # 0 => RowOK([r EXCEPT !.confirmed = TRUE, !.codes = codes, !.fails = 0, !.locked = FALSE])
  OBVIOUS
<1>5. \A x \in Secrets : x # 0 => RowOK([r EXCEPT !.secret = x, !.sealed = TRUE])
  OBVIOUS
<1>6. \A x \in Secrets : RowOK([NoTotp EXCEPT !.secret = x])
  BY DEF NoTotp
<1> QED
  BY <1>1, <1>2, <1>3, <1>4, <1>5, <1>6

\* The steps of an enrolment that write.
LEMMA EnrolmentStep ==
  ASSUME ServiceInv, RowsInv, NEW p \in Slots, StoreSecret(p) \/ StoreConfirmation(p) \/ SpendConfirmingStep(p)
  PROVE  ServiceInv' /\ RowsInv'
<1> DEFINE k == calls[p]
           u == k.user
           r == db.totp[u]
<1>1. calls \in [Slots -> Call] /\ 0 \notin Secrets
  BY DEF ServiceInv, TypeOK, Secrets
<1>2. /\ k \in Call /\ u \in DOMAIN db.users /\ u \in DOMAIN db.totp /\ k.secret \in Secrets /\ k.secret \in Nat
      /\ WholeStore(db) /\ (k.pc # "putsecret" => k.arg \in Steps /\ k.arg \in Nat)
  BY EnrolKnown DEF StoreSecret, StoreConfirmation, SpendConfirmingStep
<1>3. r \in Totp /\ RowOK(r) /\ TotpRow(db, db, u, r)
  BY <1>2, RowUntouched DEF RowsInv
<1>4. Blank \in Call /\ CallOK(db, proven, Blank) /\ Blank.pc # "addkey"
  BY BlankCall
<1>5. UNCHANGED <<accepted, acceptances>> => CodesOnly
  BY DEF CodesOnly
<1>6. CASE StoreSecret(p)
  <2> DEFINE new == [NoTotp EXCEPT !.secret = k.secret]
  <2>1. TotpRow(db, db', u, new)
    BY <1>2, <1>6, TotpOperations DEF StoreSecret
  <2>2. RowOK(new)
    BY <1>2, <1>3, RowShape
  <2>3. Put(p, Blank) /\ UNCHANGED <<mailed, proven, accepted, acceptances, ended>>
    BY <1>6 DEF StoreSecret, Return
  <2> HIDE DEF new, u, k
  <2> QED
    BY <1>4, <1>5, <2>1, <2>2, <2>3, RowStep
<1>7. CASE StoreConfirmation(p)
  <2> DEFINE codes == {<<k.secret, 1>>, <<k.secret, 2>>}
             new == IF r.secret = 0 \/ r.confirmed THEN r
                    ELSE [r EXCEPT !.confirmed = TRUE, !.codes = codes, !.fails = 0, !.locked = FALSE]
             c == [k EXCEPT !.pc = "spendstep"]
  <2>1. codes \in SUBSET (Nat \X Nat)
    BY <1>2, PrintedCodes
  <2>2. db' = ConfirmTotp(db, u, codes) /\ UNCHANGED <<mailed, proven, accepted, acceptances, ended>>
    BY <1>7 DEF StoreConfirmation
  <2>3. Put(p, c)
    BY <1>1, <1>7, GotoPut DEF StoreConfirmation
  <2> HIDE DEF codes
  <2>4. TotpRow(db, db', u, new)
    BY <1>2, <2>1, <2>2, TotpOperations
  <2>5. RowOK(new)
    BY <1>3, RowShape
  <2>6. k.arg \in Steps
    BY <1>2, <1>7 DEF StoreConfirmation
  <2>7. "spendstep" \in Pcs
    BY DEF Pcs, AccountPcs, EnrolmentPcs
  <2> HIDE DEF new, u, k
  <2>8. c \in Call /\ c.pc = "spendstep" /\ c.user = k.user /\ c.secret = k.secret /\ c.arg = k.arg
    BY <1>2, <2>7 DEF Call
  <2> HIDE DEF c
  <2>9. CallOK(db, proven, c)
    BY <1>2, <2>6, <2>8 DEF CallOK, AccountPcs, EnrolmentPcs, CodePcs, LinkPcs, ProfilePcs, RetryPcs, u
  <2> QED
    BY <1>5, <2>2, <2>3, <2>4, <2>5, <2>8, <2>9, RowStep
<1>8. CASE SpendConfirmingStep(p)
  <2> DEFINE new == IF StepIsNew(db, u, k.arg) THEN [r EXCEPT !.last = k.arg] ELSE r
  <2>1. k.arg \in Nat
    BY <1>2, <1>8 DEF SpendConfirmingStep
  <2>2. TotpRow(db, db', u, new)
    <3>1. CASE StepIsNew(db, u, k.arg)
      BY <1>2, <1>8, <2>1, <3>1, TotpOperations DEF SpendConfirmingStep
    <3>2. CASE ~StepIsNew(db, u, k.arg)
      BY <1>3, <1>8, <3>2 DEF SpendConfirmingStep
    <3> QED
      BY <3>1, <3>2
  <2>3. RowOK(new)
    BY <1>3, RowShape
  <2>4. Put(p, Blank) /\ UNCHANGED <<mailed, proven, accepted, acceptances, ended>>
    BY <1>8 DEF SpendConfirmingStep, Return
  <2> HIDE DEF new, u, k
  <2> QED
    BY <1>4, <1>5, <2>2, <2>3, <2>4, RowStep
<1> QED
  BY <1>6, <1>7, <1>8

\* The steps of a call that works on a code.
LEMMA CodeStep ==
  ASSUME ServiceInv, RowsInv, NEW p \in Slots,
         \/ ClaimStep(p) \/ SwapCodes(p) \/ RecordFailure(p) \/ SealSecret(p) \/ ClearFailures(p) \/ RemoveEnrollment(p)
  PROVE  ServiceInv' /\ RowsInv'
<1> DEFINE k == calls[p]
           u == k.user
           r == db.totp[u]
<1>1. calls \in [Slots -> Call] /\ 0 \notin Secrets /\ Steps \subseteq Nat
  BY AuthAssumption DEF AuthAssumption, ServiceInv, TypeOK, Secrets
<1>2. k.pc \in CodePcs
  BY DEF ClaimStep, SwapCodes, RecordFailure, SealSecret, ClearFailures, RemoveEnrollment, CodePcs
<1>3. /\ k \in Call /\ u \in DOMAIN db.totp /\ k.secret \in Secrets /\ k.secret \in Nat /\ WholeStore(db)
      /\ (k.pc \in RetryPcs => k.email \in RecoveryCodes) /\ (k.pc = "step" => k.arg \in Steps)
  BY <1>2, CodeKnown
<1>4. r \in Totp /\ RowOK(r) /\ TotpRow(db, db, u, r)
  BY <1>3, RowUntouched DEF RowsInv
<1>5. Blank \in Call /\ CallOK(db, proven, Blank) /\ Blank.pc # "addkey"
  BY BlankCall
<1>6. UNCHANGED <<accepted, acceptances>> => CodesOnly
  BY DEF CodesOnly
<1>7. CASE ClaimStep(p)
  <2>1. UNCHANGED <<mailed, proven, ended>> /\ k.pc = "step" /\ k.arg \in Steps /\ k.arg \in Nat
    BY <1>1, <1>3, <1>7 DEF ClaimStep
  <2>2. CASE StepIsNew(db, u, k.arg)
    <3> DEFINE new == [r EXCEPT !.last = k.arg]
               c == Accepted(k)
    <3>1. db' = MarkTotpStepUsed(db, u, k.arg) /\ Spend(<<"totp", k.secret, k.arg>>) /\ Put(p, c)
      BY <1>7, <2>2 DEF ClaimStep
    <3>2. TotpRow(db, db', u, new)
      BY <1>3, <2>1, <3>1, TotpOperations
    <3>3. RowOK(new)
      BY <1>4, RowShape
    <3>4. CodesOnly
      BY <1>3, <2>1, <3>1 DEF CodesOnly, TotpCodes
    <3>5. c \in Call /\ CallOK(db, proven, c) /\ c.pc # "addkey"
      BY <1>2, AcceptedGoesOn
    <3> HIDE DEF new, c, u, k
    <3> QED
      BY <2>1, <3>1, <3>2, <3>3, <3>4, <3>5, RowStep
  <2>3. CASE ~StepIsNew(db, u, k.arg)
    <3> DEFINE c == [k EXCEPT !.pc = "failure"]
    <3>1. UNCHANGED <<db, accepted, acceptances>> /\ Put(p, c)
      BY <1>1, <1>7, <2>3, GotoPut DEF ClaimStep, Unspent
    <3>2. c \in Call /\ CallOK(db, proven, c) /\ c.pc # "addkey"
      <4>1. "failure" \in CodePcs \ {"step"} /\ "failure" \notin RetryPcs
        BY DEF CodePcs, RetryPcs
      <4> QED
        BY <1>2, <4>1, CodeGoesOn
    <3>3. TotpRow(db, db', u, r)
      BY <1>4, <3>1
    <3> HIDE DEF c, u, k
    <3> QED
      BY <1>4, <1>6, <2>1, <3>1, <3>2, <3>3, RowStep
  <2> QED
    BY <2>2, <2>3
<1>8. CASE SwapCodes(p)
  <2> DEFINE entry == <<k.email[2], k.email[3]>>
             codes == k.set \ {entry}
  <2>1. UNCHANGED <<mailed, proven, ended>> /\ k.pc = "swap" /\ k.email \in RecoveryCodes
    BY <1>3, <1>8 DEF SwapCodes, RetryPcs
  <2>2. CASE CodesAreAsRead(db, u, k.set)
    <3> DEFINE new == [r EXCEPT !.codes = codes]
               c == Accepted(k)
    <3>1. db' = SetRecoveryCodes(db, u, codes) /\ Spend(k.email) /\ Put(p, c)
      BY <1>8, <2>2 DEF SwapCodes
    <3>2. codes \in SUBSET (Nat \X Nat)
      <4>1. k.set \in SUBSET (Nat \X Nat)
        BY <1>3 DEF Call
      <4> QED
        BY <4>1
    <3> HIDE DEF codes
    <3>3. TotpRow(db, db', u, new)
      BY <1>3, <3>1, <3>2, TotpOperations
    <3>4. RowOK(new)
      BY <1>4, RowShape
    <3>5. CodesOnly
      BY <2>1, <3>1 DEF CodesOnly
    <3>6. c \in Call /\ CallOK(db, proven, c) /\ c.pc # "addkey"
      BY <1>2, AcceptedGoesOn
    <3> HIDE DEF new, c, u, k
    <3> QED
      BY <2>1, <3>1, <3>3, <3>4, <3>5, <3>6, RowStep
  <2>3. CASE ~CodesAreAsRead(db, u, k.set)
    <3> DEFINE c == [k EXCEPT !.pc = "reread"]
    <3>1. UNCHANGED <<db, accepted, acceptances>> /\ Put(p, c)
      BY <1>1, <1>8, <2>3, GotoPut DEF SwapCodes, Unspent
    <3>2. c \in Call /\ CallOK(db, proven, c) /\ c.pc # "addkey"
      <4>1. "reread" \in CodePcs \ {"step"} /\ k.pc \in RetryPcs
        BY <2>1 DEF CodePcs, RetryPcs
      <4> QED
        BY <1>2, <4>1, CodeGoesOn
    <3>3. TotpRow(db, db', u, r)
      BY <1>4, <3>1
    <3> HIDE DEF c, u, k
    <3> QED
      BY <1>4, <1>6, <2>1, <3>1, <3>2, <3>3, RowStep
  <2> QED
    BY <2>2, <2>3
<1>9. CASE RecordFailure(p)
  <2>1. db' = RecordTotpFailure(db, u, LockoutThreshold)
    BY <1>9 DEF RecordFailure
  <2>2. Put(p, Blank) /\ UNCHANGED <<mailed, proven, accepted, acceptances, ended>>
    BY <1>9 DEF RecordFailure, Return
  <2>3. PICK new : /\ TotpRow(db, db', u, new) /\ new.secret = r.secret /\ new.confirmed = r.confirmed
                   /\ new.codes = r.codes /\ new.last = r.last
    BY <1>3, <2>1, FailureCounted
  <2>4. RowOK(new)
    BY <1>4, <2>3 DEF RowOK
  <2> HIDE DEF u, k
  <2> QED
    BY <1>5, <1>6, <2>2, <2>3, <2>4, RowStep
<1>10. CASE SealSecret(p)
  <2> DEFINE new == IF r.secret = 0 THEN r ELSE [r EXCEPT !.secret = k.secret, !.sealed = TRUE]
             c == [k EXCEPT !.pc = "clear"]
  <2>1. db' = ReplaceTotpSecret(db, u, k.secret) /\ UNCHANGED <<mailed, proven, accepted, acceptances, ended>>
    BY <1>10 DEF SealSecret
  <2>2. Put(p, c)
    BY <1>1, <1>10, GotoPut DEF SealSecret
  <2>3. TotpRow(db, db', u, new)
    BY <1>3, <2>1, TotpOperations
  <2>4. RowOK(new)
    <3>1. k.secret # 0
      BY <1>1, <1>3
    <3> QED
      BY <1>3, <1>4, <3>1, RowShape
  <2>5. c \in Call /\ CallOK(db, proven, c) /\ c.pc # "addkey"
    <3>1. "clear" \in CodePcs \ {"step"} /\ "clear" \notin RetryPcs
      BY DEF CodePcs, RetryPcs
    <3> QED
      BY <1>2, <3>1, CodeGoesOn
  <2> HIDE DEF new, c, u, k
  <2> QED
    BY <1>6, <2>1, <2>2, <2>3, <2>4, <2>5, RowStep
<1>11. CASE ClearFailures(p)
  <2> DEFINE new == [r EXCEPT !.fails = 0, !.locked = FALSE]
             c == [k EXCEPT !.pc = "elevate"]
  <2>1. db' = ResetTotpFailures(db, u) /\ UNCHANGED <<mailed, proven, accepted, acceptances, ended>>
    BY <1>11 DEF ClearFailures
  <2>2. Put(p, c)
    BY <1>1, <1>11, GotoPut DEF ClearFailures
  <2>3. TotpRow(db, db', u, new)
    BY <1>3, <2>1, TotpOperations
  <2>4. RowOK(new)
    BY <1>4, RowShape
  <2>5. c \in Call /\ CallOK(db, proven, c) /\ c.pc # "addkey"
    <3>1. "elevate" \in CodePcs \ {"step"} /\ "elevate" \notin RetryPcs
      BY DEF CodePcs, RetryPcs
    <3> QED
      BY <1>2, <3>1, CodeGoesOn
  <2> HIDE DEF new, c, u, k
  <2> QED
    BY <1>6, <2>1, <2>2, <2>3, <2>4, <2>5, RowStep
<1>12. CASE RemoveEnrollment(p)
  <2>1. db' = RemoveTotp(db, u) /\ Put(p, Blank) /\ UNCHANGED <<mailed, proven, accepted, acceptances, ended>>
    BY <1>12 DEF RemoveEnrollment, Return
  <2>2. TotpRow(db, db', u, NoTotp)
    BY <1>3, <2>1, TotpOperations
  <2> HIDE DEF u, k
  <2> QED
    BY <1>5, <1>6, <2>1, <2>2, EmptyRow, RowStep
<1> QED
  BY <1>7, <1>8, <1>9, <1>10, <1>11, <1>12

\* A session is elevated.
LEMMA ElevateStep ==
  ASSUME ServiceInv, RowsInv, NEW p \in Slots, Elevate(p) PROVE ServiceInv' /\ RowsInv'
<1> DEFINE s == calls[p].sess
<1>1. s \in DOMAIN db.sessions /\ WholeStore(db)
  BY CodeKnown DEF Elevate, CodePcs
<1>2. db' = ElevateSession(db, s) /\ UNCHANGED <<mailed, proven, accepted, acceptances, ended>> /\ Put(p, Blank)
  BY DEF Elevate, Return
<1> HIDE DEF s
<1>3. /\ SessionsOnly(db, db') /\ DOMAIN db'.sessions = DOMAIN db.sessions
  BY <1>1, <1>2, SessionElevated
<1>4. ended' \subseteq DOMAIN db.sessions /\ \A t \in ended' : t \in ended \/ ~db'.sessions[t].live
  BY <1>2 DEF ServiceInv, TypeOK
<1>5. \E q \in Slots, c \in Call : CallOK(db', proven', c) /\ c.pc # "addkey" /\ Put(q, c)
  BY <1>2, BlankCall
<1>6. ServiceInv'
  BY <1>2, <1>3, <1>4, <1>5, SessionsStep
<1>7. RowsInv'
  BY <1>3 DEF SessionsOnly, RowsInv
<1> QED
  BY <1>6, <1>7

\* What nobody's call does: the operator resets an enrolment, a lockout ends.
LEMMA RowReset ==
  ASSUME ServiceInv, RowsInv, NEW u \in DOMAIN db.totp, ResetSecondFactor(u) \/ CooldownEnds(u)
  PROVE  ServiceInv' /\ RowsInv'
<1>1. UNCHANGED <<calls, mailed, proven, accepted, acceptances, ended>>
  BY DEF ResetSecondFactor, CooldownEnds
<1>2. WholeStore(db) /\ TypeOK /\ CallsInv
  BY DEF ServiceInv, TypeOK
<1>3. \E r : TotpRow(db, db', u, r) /\ RowOK(r)
  <2>1. CASE ResetSecondFactor(u)
    BY <1>2, <2>1, TotpOperations, EmptyRow DEF ResetSecondFactor
  <2>2. CASE CooldownEnds(u)
    <3> DEFINE new == [db.totp[u] EXCEPT !.locked = FALSE]
    <3>1. TotpRow(db, db', u, new)
      BY <1>2, <2>2, TotpOperations DEF CooldownEnds
    <3>2. RowOK(new)
      BY <1>2, RowUntouched, RowShape DEF RowsInv
    <3> HIDE DEF new
    <3> QED
      BY <3>1, <3>2
  <2> QED
    BY <2>1, <2>2
<1>4. PICK r : TotpRow(db, db', u, r) /\ RowOK(r)
  BY <1>3
<1>5. RowsInv'
  BY <1>4 DEF RowsInv, TotpRow
<1>6. WholeStore(db') /\ SameTables /\ CodesOnly
  BY <1>1, <1>4 DEF TotpRow, SameTables, CodesOnly
<1>7. Grows
  <2>1. Len(db.challenges) \in Nat
    BY <1>2, StoreFields
  <2> QED
    BY <1>1, <1>6, <2>1 DEF Grows, SameTables
<1>8. Unenrolling
  BY <1>1, <1>2, <1>6, <1>7, CallsRest
<1>9. ServiceInv'
  BY <1>1, <1>6, <1>8, QuietTables DEF Unenrolling
<1> QED
  BY <1>5, <1>9

\* Every step of the second factor keeps the invariant.
LEMMA SecondFactorKeeps == ASSUME ServiceInv, RowsInv, SecondFactorNext PROVE ServiceInv' /\ RowsInv'
  BY FactorRead, EnrolmentStep, CodeStep, ElevateStep, RowReset DEF SecondFactorNext

\* The inductive invariant of the service.
Inv == ServiceInv /\ RowsInv

\* The invariant holds at the start, of a store at rest,
LEMMA InitHolds == Init => Inv
<1> SUFFICES ASSUME Init PROVE Inv
  OBVIOUS
<1>1. AtRest(db)
  BY AuthAssumption DEF Init, AuthAssumption
<1>2. WholeStore(db)
  BY <1>1 DEF AtRest, WholeStore
<1>3. db.tokens = <<>> /\ db.states = <<>> /\ db.challenges = <<>>
  BY <1>1 DEF AtRest
<1>4. /\ calls = [p \in Slots |-> Blank] /\ mailed = {} /\ accepted = {} /\ acceptances = 0 /\ ended = {}
      /\ proven = {db.users[u].email : u \in DOMAIN db.users}
  BY DEF Init
<1>5. TypeOK
  <2>1. Len(db.tokens) = 0 /\ Len(db.states) = 0 /\ Len(db.challenges) = 0
    BY <1>3
  <2>2. MaxTokens \in Nat /\ MaxStates \in Nat /\ MaxChallenges \in Nat
    BY AuthAssumption DEF AuthAssumption
  <2>3. calls \in [Slots -> Call]
    BY <1>4, BlankCall
  <2> QED
    BY <1>2, <1>4, <2>1, <2>2, <2>3 DEF TypeOK
<1>6. CallsInv
  BY <1>4, BlankCall DEF CallsInv
<1>7. DOMAIN db.users = DOMAIN db.totp /\ DOMAIN db.tokens = {}
  BY <1>2, <1>3, StoreFields
<1>8. AccountsInv
  <2>1. RowsAreOfUsers
    BY <1>1, <1>7 DEF RowsAreOfUsers, AtRest
  <2>2. VerifiedByProof
    BY <1>4 DEF VerifiedByProof
  <2>3. AccountsAreWhole
    BY <1>1 DEF AccountsAreWhole, AtRest
  <2> QED
    BY <2>1, <2>2, <2>3 DEF AccountsInv, AccountsAreSound
<1>9. OnceInv
  <2>1. \A k \in db.passkeys : k.id = 0 /\ \A l \in db.passkeys : k = l
    BY <1>1 DEF AtRest
  <2>2. \A q \in Slots : calls[q].pc # "addkey"
    BY <1>4, BlankCall
  <2> QED
    BY <1>4, <2>1, <2>2 DEF OnceInv, KeysOnce, KeyId
<1>10. SignOutIsFinal
  BY <1>4 DEF SignOutIsFinal
<1>11. RowsInv
  BY <1>1 DEF RowsInv, RowOK, AtRest
<1> QED
  BY <1>5, <1>6, <1>8, <1>9, <1>10, <1>11 DEF Inv, ServiceInv

\* when nothing happens,
LEMMA StutterHolds == Inv /\ UNCHANGED authVars => Inv'
<1> SUFFICES ASSUME Inv, UNCHANGED authVars PROVE Inv'
  OBVIOUS
<1>1. UNCHANGED <<db, calls, mailed, proven, accepted, acceptances, ended>>
  BY DEF authVars
<1>2. ServiceInv /\ RowsInv /\ TypeOK /\ CallsInv
  BY DEF Inv, ServiceInv
<1>3. WholeStore(db') /\ SameTables /\ CodesOnly
  BY <1>1, <1>2 DEF TypeOK, SameTables, CodesOnly
<1>4. calls' \in [Slots -> Call] /\ CallsInv' /\ \A q \in Slots : calls'[q].pc = "addkey" => calls'[q] = calls[q]
  BY <1>1, <1>2 DEF TypeOK, CallsInv
<1>5. ServiceInv'
  BY <1>1, <1>2, <1>3, <1>4, QuietTables
<1>6. RowsInv'
  BY <1>1, <1>2 DEF RowsInv
<1> QED
  BY <1>5, <1>6 DEF Inv

\* and after every step of the service.
LEMMA NextHolds == Inv /\ Next => Inv'
<1> SUFFICES ASSUME Inv, Next PROVE Inv'
  OBVIOUS
<1>1. ServiceInv /\ RowsInv
  BY DEF Inv
<1>2. CASE AccountsNext
  BY <1>1, <1>2, AccountsKeep, AccountsAside, RowsLast DEF Inv
<1>3. CASE IdentitiesNext
  BY <1>1, <1>3, IdentitiesKeep, IdentitiesAside, RowsLast DEF Inv
<1>4. CASE SecondFactorNext
  BY <1>1, <1>4, SecondFactorKeeps DEF Inv
<1> QED
  BY <1>2, <1>3, <1>4 DEF Next

\* The inductive invariant holds for every scenario and any interleaving of calls.
THEOREM InvHolds == Spec => []Inv
<1>1. Init => Inv
  BY InitHolds
<1>2. Inv /\ [Next]_authVars => Inv'
  BY NextHolds, StutterHolds
<1> QED
  BY <1>1, <1>2, PTL DEF Spec

\* Registrations, magic links and provider callbacks that race leave one account per address and one owner
\* per provider subject, and an address counts as verified only if its owner proved control of it
\* (registerPassword, consumeMagicLink, completeOAuth).
THEOREM AccountsHold == Spec => []AccountsAreSound
<1>1. Inv => AccountsAreSound
  BY DEF Inv, ServiceInv, AccountsInv
<1> QED
  BY <1>1, InvHolds, PTL

\* A session that was signed out or revoked never works again, also when a verify call that had read it
\* elevates it afterwards (signOut, revokeUserSessions, elevateSession).
THEOREM SignOutHolds == Spec => []SignOutIsFinal
<1>1. Inv => SignOutIsFinal
  BY DEF Inv, ServiceInv
<1> QED
  BY <1>1, InvHolds, PTL

-----------------------------------------------------------------------------
(* What is accepted                                                        *)

\* What the service or a passkey issued, the codes of second factors apart.
Issued ==
    ({"mail"} \X (1..MaxTokens)) \cup ({"state"} \X (1..MaxStates)) \cup ({"challenge"} \X (1..MaxChallenges))
    \cup ({"assertion"} \X (0..MaxChallenges) \X Counters)

\* A step accepts nothing, or one of them, which was not accepted before.
FirstUse == UNCHANGED <<accepted, acceptances>> \/ (\E x \in Issued \ accepted : Spend(x))

\* The operations of accounts and identities accept what was not accepted before.
LEMMA OthersFirst == ASSUME ServiceInv, AccountsNext \/ IdentitiesNext PROVE FirstUse
<1>1. TypeOK /\ OnceInv /\ WholeStore(db) /\ CallsInv
  BY DEF ServiceInv, TypeOK
<1>2. /\ DOMAIN db.tokens = 1..Len(db.tokens) /\ Len(db.tokens) \in Nat /\ Len(db.tokens) <= MaxTokens
      /\ DOMAIN db.states = 1..Len(db.states) /\ Len(db.states) \in Nat /\ Len(db.states) <= MaxStates
      /\ DOMAIN db.challenges = 1..Len(db.challenges) /\ Len(db.challenges) \in Nat
      /\ Len(db.challenges) <= MaxChallenges
      /\ MaxTokens \in Nat /\ MaxStates \in Nat /\ MaxChallenges \in Nat
  BY <1>1, StoreFields, AuthAssumption DEF TypeOK, AuthAssumption
<1>3. UNCHANGED <<accepted, acceptances>> => FirstUse
  BY DEF FirstUse
<1>4. ASSUME NEW p, NEW t \in DOMAIN db.tokens, NEW c, db.tokens[t].live, ConsumeToken(p, t, c) PROVE FirstUse
  <2>1. <<"mail", t>> \in Issued
    BY <1>2 DEF Issued
  <2>2. <<"mail", t>> \notin accepted
    BY <1>1, <1>4 DEF OnceInv
  <2> QED
    BY <1>4, <2>1, <2>2 DEF FirstUse, ConsumeToken
<1>5. ASSUME NEW c \in DOMAIN db.challenges, db.challenges[c].live, Spend(<<"challenge", c>>) PROVE FirstUse
  <2>1. <<"challenge", c>> \in Issued
    BY <1>2 DEF Issued
  <2>2. <<"challenge", c>> \notin accepted
    BY <1>1, <1>5 DEF OnceInv
  <2> QED
    BY <1>5, <2>1, <2>2 DEF FirstUse
<1>6. CASE AccountsNext
  <2>1. ASSUME NEW p \in Slots,
               \/ ReadEnrolled(p) \/ CreateSession(p) \/ PutToken(p) \/ SendToken(p) \/ SetVerified(p)
               \/ CheckVerified(p) \/ CheckCurrent(p) \/ ReplaceAndRevoke(p) \/ MagicFind(p) \/ MagicCreate(p)
               \/ Fail(p)
        PROVE  FirstUse
    BY <1>3, <2>1 DEF ReadEnrolled, CreateSession, PutToken, SendToken, SetVerified, CheckVerified, CheckCurrent,
                      ReplaceAndRevoke, MagicFind, MagicCreate, Fail
  <2>2. ASSUME NEW p \in Slots,
               \/ \E e \in Emails : RequestMagicLink(p, e) \/ \E w \in Passwords : RegisterPassword(p, e, w)
               \/ \E u \in DOMAIN db.users : \/ RequestEmailVerification(p, u) \/ RequestPasswordReset(p, u)
                                             \/ \E w \in Passwords : SignInPassword(p, u, w)
               \/ \E s \in DOMAIN db.sessions, v, w \in Passwords : ChangePassword(p, s, v, w)
        PROVE  FirstUse
    BY <1>3, <2>2 DEF RequestMagicLink, RegisterPassword, RequestEmailVerification, RequestPasswordReset,
                      SignInPassword, ChangePassword
  <2>3. ASSUME NEW p \in Slots, NEW t \in DOMAIN db.tokens,
               \/ VerifyEmail(p, t) \/ ConsumeMagicLink(p, t) \/ \E w \in Passwords : ResetPassword(p, t, w)
        PROVE  FirstUse
    BY <1>4, <2>3 DEF VerifyEmail, ConsumeMagicLink, ResetPassword, TokenWorks
  <2>4. ASSUME \/ \E s \in DOMAIN db.sessions : SignOut(s)
               \/ \E u \in DOMAIN db.users : RevokeAllSessions(u)
               \/ Expire
        PROVE  FirstUse
    BY <1>3, <2>4 DEF SignOut, RevokeAllSessions, Expire
  <2> QED
    BY <1>6, <2>1, <2>2, <2>3, <2>4 DEF AccountsNext
<1>7. CASE IdentitiesNext
  <2>1. ASSUME \/ BeginOAuth \/ (\E s \in DOMAIN db.sessions : BeginPasskeyRegistration(s))
               \/ (\E u \in {0} \cup DOMAIN db.users : BeginPasskeyAuthentication(u))
        PROVE  FirstUse
    BY <1>3, <2>1 DEF BeginOAuth, BeginPasskeyRegistration, BeginPasskeyAuthentication
  <2>2. ASSUME NEW p \in Slots,
               \/ FindIdentity(p) \/ FindTarget(p) \/ LinkIdentity(p) \/ ProvisionUser(p) \/ Unlink(p)
               \/ StorePasskey(p) \/ ReadPasskey(p) \/ DropPasskey(p)
               \/ \E s \in DOMAIN db.sessions :
                     UnlinkOAuthIdentity(p, s) \/ (\E k \in db.passkeys : RemoveOwnPasskey(p, s, k.id))
        PROVE  FirstUse
    BY <1>3, <2>2 DEF FindIdentity, FindTarget, LinkIdentity, ProvisionUser, Unlink, StorePasskey, ReadPasskey,
                      DropPasskey, UnlinkOAuthIdentity, RemoveOwnPasskey
  <2>3. ASSUME NEW p \in Slots, MoveCounter(p) PROVE FirstUse
    <3> DEFINE i == calls[p].arg
               n == calls[p].secret
    <3>1. CASE ~CounterMoves(db, i, calls[p].tries) \/ ~(n > 0)
      BY <1>3, <2>3, <3>1 DEF MoveCounter, Unspent
    <3>2. CASE CounterMoves(db, i, calls[p].tries) /\ n > 0
      <4>1. /\ i \in 0..Len(db.challenges) /\ n \in Counters /\ calls[p].tries \in Nat
            /\ (calls[p].tries > 0 => n > calls[p].tries)
        BY <1>1, <2>3 DEF MoveCounter, CallsInv, CallOK
      <4>2. PICK k \in db.passkeys : k.id = i /\ k.counter = calls[p].tries
        BY <3>2 DEF CounterMoves
      <4>3. n > k.counter /\ k.counter \in Nat /\ n \in Nat
        <5>1. n \in Nat /\ n > 0
          BY <3>2, <4>1, AuthAssumption DEF AuthAssumption
        <5> DEFINE m == calls[p].tries
        <5>2. m \in Nat /\ (m > 0 => n > m) /\ k.counter = m
          BY <4>1, <4>2
        <5> HIDE DEF n, m
        <5> QED
          BY <5>1, <5>2
      <4>4. <<"assertion", i, n>> \in Issued
        BY <1>2, <4>1 DEF Issued
      <4>5. <<"assertion", i, n>> \notin accepted
        <5>1. <<"assertion", i, n>> \in accepted => n <= k.counter
          BY <1>1, <4>2 DEF OnceInv, KeysOnce
        <5> HIDE DEF i, n
        <5> QED
          BY <4>3, <5>1
      <4>6. Spend(<<"assertion", i, n>>)
        BY <2>3, <3>2 DEF MoveCounter
      <4> QED
        BY <4>4, <4>5, <4>6 DEF FirstUse
    <3> QED
      BY <3>1, <3>2
  <2>4. ASSUME NEW p \in Slots, NEW n \in DOMAIN db.states, NEW f, NEW s, CompleteOAuth(p, n, f, s) PROVE FirstUse
    <3>1. <<"state", n>> \in Issued
      BY <1>2 DEF Issued
    <3>2. <<"state", n>> \notin accepted
      BY <1>1, <2>4 DEF OnceInv, CompleteOAuth
    <3> QED
      BY <2>4, <3>1, <3>2 DEF FirstUse, CompleteOAuth
  <2>5. ASSUME NEW p \in Slots, NEW c \in DOMAIN db.challenges,
               \/ \E s \in DOMAIN db.sessions, n \in Counters : FinishPasskeyRegistration(p, s, c, n)
               \/ \E k \in db.passkeys, n \in Counters : FinishPasskeyAuthentication(p, c, k.id, n)
        PROVE  FirstUse
    BY <1>5, <2>5 DEF FinishPasskeyRegistration, FinishPasskeyAuthentication
  <2> QED
    BY <1>7, <2>1, <2>2, <2>3, <2>4, <2>5 DEF IdentitiesNext
<1> QED
  BY <1>6, <1>7

\* Those of the second factor accept codes at most.
LEMMA FactorAccepts == ASSUME ServiceInv, SecondFactorNext PROVE CodesOnly
<1>1. UNCHANGED <<accepted, acceptances>> => CodesOnly
  BY DEF CodesOnly
<1>2. ASSUME NEW p \in Slots, ClaimStep(p) PROVE CodesOnly
  <2>1. calls[p].pc = "step" /\ "step" \in CodePcs
    BY <1>2 DEF ClaimStep, CodePcs
  <2>2. calls[p].secret \in Secrets /\ calls[p].arg \in Steps
    BY <2>1, CodeKnown
  <2> QED
    BY <1>1, <1>2, <2>2 DEF ClaimStep, Unspent, CodesOnly, TotpCodes
<1>3. ASSUME NEW p \in Slots, SwapCodes(p) PROVE CodesOnly
  <2>1. calls[p].pc = "swap" /\ "swap" \in CodePcs /\ "swap" \in RetryPcs
    BY <1>3 DEF SwapCodes, CodePcs, RetryPcs
  <2>2. calls[p].email \in RecoveryCodes
    BY <2>1, CodeKnown
  <2> QED
    BY <1>1, <1>3, <2>2 DEF SwapCodes, Unspent, CodesOnly
<1>4. ASSUME NEW p \in Slots,
             \/ StoreSecret(p) \/ StoreConfirmation(p) \/ SpendConfirmingStep(p) \/ MatchRecoveryCode(p)
             \/ SelectCodes(p) \/ RereadCodes(p) \/ RecordFailure(p) \/ SealSecret(p) \/ ClearFailures(p)
             \/ Elevate(p) \/ RemoveEnrollment(p)
      PROVE  CodesOnly
  BY <1>1, <1>4 DEF StoreSecret, StoreConfirmation, SpendConfirmingStep, MatchRecoveryCode, SelectCodes,
                    RereadCodes, RecordFailure, SealSecret, ClearFailures, Elevate, RemoveEnrollment
<1>5. ASSUME NEW p, NEW s, NEW x, BeginEnrollment(p, s, x) \/ ConfirmEnrollment(p, s, x) PROVE CodesOnly
  BY <1>1, <1>5 DEF BeginEnrollment, ConfirmEnrollment
<1>6. ASSUME NEW p, NEW s, NEW c, NEW next, PresentCode(p, s, c, next) PROVE CodesOnly
  BY <1>1, <1>6 DEF PresentCode
<1>7. ASSUME NEW u, ResetSecondFactor(u) \/ CooldownEnds(u) PROVE CodesOnly
  BY <1>1, <1>7 DEF ResetSecondFactor, CooldownEnds
<1> QED
  BY <1>2, <1>3, <1>4, <1>5, <1>6, <1>7 DEF SecondFactorNext

\* E-mailed tokens, OAuth states, passkey challenges and assertions are accepted once: however calls
\* interleave, fail and retry, what an operation on accounts or identities accepts was not accepted before
\* (consumeOneTimeToken, consumeOAuthState, consumePasskeyChallenge, updatePasskeyCounter), and the second
\* factor accepts nothing but its codes.
THEOREM IssuedOnce ==
    Spec => [][(AccountsNext \/ IdentitiesNext => FirstUse) /\ (SecondFactorNext => CodesOnly)]_authVars
<1>1. Inv => ServiceInv
  BY DEF Inv
<1>2. Inv /\ [Next]_authVars => [(AccountsNext \/ IdentitiesNext => FirstUse) /\ (SecondFactorNext => CodesOnly)]_authVars
  BY <1>1, OthersFirst, FactorAccepts
<1> QED
  BY <1>2, InvHolds, PTL DEF Spec

-----------------------------------------------------------------------------
(* Codes of second factors                                                 *)

\* The calls that present a code of user u, and the rule that enrolments are not replaced under them.
Presenting(q, u) == calls[q].pc \in EnrolmentPcs /\ calls[q].user = u

NotReplaced == \A p \in Slots : StoreSecret(p) => \A q \in Slots : ~Presenting(q, calls[p].user)

EnrolmentsLast == [][NotReplaced]_authVars

\* An enrolment r, when acc was accepted: its codes are of its own secret; a step is accepted up to the
\* last one used, and an accepted recovery code is struck off its list.
CodesSpent(r, acc) ==
    /\ r.codes \subseteq {r.secret} \X {1, 2}
    /\ r.codes # {} => r.confirmed
    /\ r.secret # 0 =>
          /\ \A n \in Steps : <<"totp", r.secret, n>> \in acc => n <= r.last
          /\ \A n \in {1, 2} : <<"recovery", r.secret, n>> \in acc => r.confirmed /\ <<r.secret, n>> \notin r.codes

\* Secret x is in no code accepted.
Unknown(x, acc) == /\ \A n \in Steps : <<"totp", x, n>> \notin acc
                   /\ \A n \in {1, 2} : <<"recovery", x, n>> \notin acc

\* A secret is of one enrolment; one about to be stored is nobody's yet; a call works on the secret it
\* read, unless the enrolment is gone by now.
FactorInv ==
    /\ \A u \in DOMAIN db.totp : CodesSpent(db.totp[u], accepted)
    /\ \A u, v \in DOMAIN db.totp : db.totp[u].secret = db.totp[v].secret /\ u # v => db.totp[u].secret = 0
    /\ \A p \in Slots : calls[p].pc = "putsecret" =>
          /\ \A u \in DOMAIN db.totp : db.totp[u].secret # calls[p].secret
          /\ \A q \in Slots \ {p} : calls[q].pc \in FactorPcs => calls[q].secret # calls[p].secret
          /\ Unknown(calls[p].secret, accepted)
    /\ \A p \in Slots : calls[p].pc \in EnrolmentPcs => db.totp[calls[p].user].secret \in {0, calls[p].secret}
    /\ \A p \in Slots : calls[p].pc = "swap" => <<calls[p].email[2], calls[p].email[3]>> \in calls[p].set

\* The calls whose code was accepted and whose session is still to be elevated.
Winners == {p \in Slots : calls[p].pc \in {"seal", "clear", "elevate"}}
Raised == {s \in DOMAIN db.sessions : db.sessions[s].pending /\ db.sessions[s].elevated}
SecondFactors == {c \in accepted : c[1] \in {"totp", "recovery"}}

CountInv ==
    /\ IsFiniteSet(SecondFactors) /\ IsFiniteSet(Raised)
    /\ Cardinality(Raised) + Cardinality(Winners) <= Cardinality(SecondFactors)

\* What it says is of these four fields.
LEMMA SpentAlike ==
  ASSUME NEW r, NEW s, NEW acc, CodesSpent(r, acc),
         s.secret = r.secret, s.confirmed = r.confirmed, s.codes = r.codes, s.last = r.last
  PROVE  CodesSpent(s, acc)
  BY DEF CodesSpent

\* A row with no secret has no codes.
LEMMA SpentEmpty == ASSUME NEW acc PROVE CodesSpent(NoTotp, acc)
  BY DEF CodesSpent, NoTotp

\* A step of the clock is used, by a code that is accepted or by the one that confirms.
LEMMA StepSpent ==
  ASSUME NEW r \in Totp, NEW acc, NEW m \in Steps, CodesSpent(r, acc), r.last < m
  PROVE  /\ CodesSpent([r EXCEPT !.last = m], acc \cup {<<"totp", r.secret, m>>})
         /\ CodesSpent([r EXCEPT !.last = m], acc)
<1> DEFINE s == [r EXCEPT !.last = m]
<1>1. s.secret = r.secret /\ s.confirmed = r.confirmed /\ s.codes = r.codes /\ s.last = m
  BY DEF Totp
<1>2. r.last \in Nat /\ Steps \subseteq Nat
  BY AuthAssumption DEF Totp, AuthAssumption
<1> HIDE DEF s
<1>3. ASSUME NEW a, a = acc \cup {<<"totp", r.secret, m>>} \/ a = acc PROVE CodesSpent(s, a)
  <2>1. ASSUME r.secret # 0, NEW n \in Steps, <<"totp", r.secret, n>> \in a PROVE n <= m
    <3>1. CASE n = m
      BY <1>2, <3>1
    <3>2. CASE n # m
      <4>1. <<"totp", r.secret, n>> \in acc
        BY <1>3, <2>1, <3>2
      <4>2. n <= r.last
        BY <2>1, <4>1 DEF CodesSpent
      <4> QED
        BY <1>2, <4>2
    <3> QED
      BY <3>1, <3>2
  <2>2. ASSUME r.secret # 0, NEW n \in {1, 2}, <<"recovery", r.secret, n>> \in a
        PROVE  r.confirmed /\ <<r.secret, n>> \notin r.codes
    <3>1. <<"recovery", r.secret, n>> \in acc
      BY <1>3, <2>2
    <3> QED
      BY <2>2, <3>1 DEF CodesSpent
  <2>3. r.codes \subseteq {r.secret} \X {1, 2} /\ (r.codes # {} => r.confirmed)
    BY DEF CodesSpent
  <2> QED
    BY <1>1, <2>1, <2>2, <2>3 DEF CodesSpent
<1> QED
  BY <1>3 DEF s

\* A recovery code is struck off its list.
LEMMA ListSpent ==
  ASSUME NEW r \in Totp, NEW acc, NEW n \in {1, 2}, CodesSpent(r, acc), r.confirmed
  PROVE  CodesSpent([r EXCEPT !.codes = r.codes \ {<<r.secret, n>>}], acc \cup {<<"recovery", r.secret, n>>})
<1> DEFINE s == [r EXCEPT !.codes = r.codes \ {<<r.secret, n>>}]
           a == acc \cup {<<"recovery", r.secret, n>>}
<1>1. s.secret = r.secret /\ s.confirmed /\ s.codes = r.codes \ {<<r.secret, n>>} /\ s.last = r.last
  BY DEF Totp
<1> HIDE DEF s
<1>2. ASSUME r.secret # 0, NEW m \in Steps, <<"totp", r.secret, m>> \in a PROVE m <= r.last
  <2>1. <<"totp", r.secret, m>> \in acc
    BY <1>2
  <2> QED
    BY <1>2, <2>1 DEF CodesSpent
<1>3. ASSUME r.secret # 0, NEW m \in {1, 2}, <<"recovery", r.secret, m>> \in a PROVE <<r.secret, m>> \notin s.codes
  <2>1. m = n \/ <<"recovery", r.secret, m>> \in acc
    BY <1>3
  <2> QED
    BY <1>1, <1>3, <2>1 DEF CodesSpent
<1>4. s.codes \subseteq {r.secret} \X {1, 2}
  BY <1>1 DEF CodesSpent
<1> HIDE DEF a
<1>5. CodesSpent(s, a)
  BY <1>1, <1>2, <1>3, <1>4 DEF CodesSpent
<1> QED
  BY <1>5 DEF s, a

\* A list is printed with the confirmation.
LEMMA ListPrinted ==
  ASSUME NEW r \in Totp, NEW acc, CodesSpent(r, acc), ~r.confirmed
  PROVE  CodesSpent([r EXCEPT !.confirmed = TRUE, !.codes = {<<r.secret, 1>>, <<r.secret, 2>>}, !.fails = 0,
                              !.locked = FALSE], acc)
<1> DEFINE codes == {<<r.secret, 1>>, <<r.secret, 2>>}
           s == [r EXCEPT !.confirmed = TRUE, !.codes = codes, !.fails = 0, !.locked = FALSE]
<1>1. s.secret = r.secret /\ s.confirmed /\ s.codes = codes /\ s.last = r.last
  BY DEF Totp
<1>2. codes \subseteq {r.secret} \X {1, 2}
  OBVIOUS
<1> HIDE DEF codes, s
<1>3. CodesSpent(s, acc)
  BY <1>1, <1>2 DEF CodesSpent
<1> QED
  BY <1>3 DEF s, codes

\* A call goes on with the secret it works on.
GoesOn(k, c) ==
    /\ k.pc \in EnrolmentPcs /\ c.pc \in EnrolmentPcs /\ c.secret = k.secret /\ c.user = k.user
    /\ c.pc = "swap" => <<c.email[2], c.email[3]>> \in c.set

CallsGoOn == \A q \in Slots : calls'[q].pc \in FactorPcs => calls'[q] = calls[q] \/ GoesOn(calls[q], calls'[q])

\* No enrolment gets a secret; and what is accepted is of the secret of an enrolment.
RowsGoOn ==
    \A v \in DOMAIN db'.totp :
        /\ CodesSpent(db'.totp[v], accepted')
        /\ \/ db'.totp[v].secret = 0
           \/ v \in DOMAIN db.totp /\ db'.totp[v].secret = db.totp[v].secret

OfEnrolments ==
    \A x : Unknown(x, accepted) /\ (\A v \in DOMAIN db.totp : db.totp[v].secret # x) => Unknown(x, accepted')

\* What a call of the second factor works on.
LEMMA FactorKnown ==
  ASSUME ServiceInv, NEW p \in Slots, calls[p].pc \in FactorPcs
  PROVE  calls[p].user \in DOMAIN db.totp /\ calls[p].secret \in Secrets /\ calls[p].secret # 0 /\ calls[p] \in Call
<1>1. WholeStore(db) /\ calls[p] \in Call /\ CallOK(db, proven, calls[p])
  BY DEF ServiceInv, TypeOK, CallsInv
<1>2. DOMAIN db.users = DOMAIN db.totp
  BY <1>1, StoreFields
<1>3. calls[p].secret \in Secrets /\ 0 \notin Secrets
  BY <1>1 DEF CallOK, FactorPcs, Secrets
<1>4. calls[p].pc \in AccountPcs
  BY DEF AccountPcs, FactorPcs
<1> QED
  BY <1>1, <1>2, <1>3, <1>4 DEF CallOK

\* Steps that put no secret in an enrolment and start no call keep the invariant.
LEMMA FactorGoesOn ==
  ASSUME ServiceInv, FactorInv, CallsGoOn, RowsGoOn, OfEnrolments, DOMAIN db.totp \subseteq DOMAIN db'.totp
  PROVE  FactorInv'
<1>1. "putsecret" \in FactorPcs /\ "putsecret" \notin EnrolmentPcs /\ "swap" \in EnrolmentPcs
      /\ EnrolmentPcs \subseteq FactorPcs
  BY DEF FactorPcs, EnrolmentPcs, CodePcs
<1>2. \A u \in DOMAIN db'.totp : CodesSpent(db'.totp[u], accepted')
  BY DEF RowsGoOn
<1>3. ASSUME NEW u \in DOMAIN db'.totp, NEW v \in DOMAIN db'.totp, db'.totp[u].secret = db'.totp[v].secret, u # v
      PROVE  db'.totp[u].secret = 0
  BY <1>3 DEF RowsGoOn, FactorInv
<1>4. ASSUME NEW p \in Slots, calls'[p].pc = "putsecret"
      PROVE  /\ \A u \in DOMAIN db'.totp : db'.totp[u].secret # calls'[p].secret
             /\ \A q \in Slots \ {p} : calls'[q].pc \in FactorPcs => calls'[q].secret # calls'[p].secret
             /\ Unknown(calls'[p].secret, accepted')
  <2>1. calls'[p] = calls[p] /\ calls[p].pc = "putsecret"
    BY <1>1, <1>4 DEF CallsGoOn, GoesOn
  <2>2. calls[p].secret # 0
    BY <1>1, <2>1, FactorKnown
  <2>3. /\ \A u \in DOMAIN db.totp : db.totp[u].secret # calls[p].secret
        /\ \A q \in Slots \ {p} : calls[q].pc \in FactorPcs => calls[q].secret # calls[p].secret
        /\ Unknown(calls[p].secret, accepted)
    BY <2>1 DEF FactorInv
  <2>4. \A u \in DOMAIN db'.totp : db'.totp[u].secret # calls[p].secret
    BY <2>2, <2>3 DEF RowsGoOn
  <2>5. ASSUME NEW q \in Slots \ {p}, calls'[q].pc \in FactorPcs PROVE calls'[q].secret # calls[p].secret
    <3>1. calls[q].pc \in FactorPcs /\ calls'[q].secret = calls[q].secret
      BY <1>1, <2>5 DEF CallsGoOn, GoesOn
    <3> QED
      BY <2>3, <3>1
  <2>6. Unknown(calls[p].secret, accepted')
    BY <2>3 DEF OfEnrolments
  <2> QED
    BY <2>1, <2>4, <2>5, <2>6
<1>5. ASSUME NEW p \in Slots, calls'[p].pc \in EnrolmentPcs
      PROVE  db'.totp[calls'[p].user].secret \in {0, calls'[p].secret}
  <2>1. calls[p].pc \in EnrolmentPcs /\ calls'[p].secret = calls[p].secret /\ calls'[p].user = calls[p].user
    BY <1>1, <1>5 DEF CallsGoOn, GoesOn
  <2>2. calls[p].user \in DOMAIN db.totp /\ calls[p].user \in DOMAIN db'.totp
    BY <1>1, <2>1, FactorKnown
  <2>3. db.totp[calls[p].user].secret \in {0, calls[p].secret}
    BY <2>1 DEF FactorInv
  <2> QED
    BY <2>1, <2>2, <2>3 DEF RowsGoOn
<1>6. ASSUME NEW p \in Slots, calls'[p].pc = "swap"
      PROVE  <<calls'[p].email[2], calls'[p].email[3]>> \in calls'[p].set
  BY <1>1, <1>6 DEF CallsGoOn, GoesOn, FactorInv
<1> QED
  BY <1>2, <1>3, <1>4, <1>5, <1>6 DEF FactorInv

\* What was issued is no code.
LEMMA IssuedIsNoCode ==
  ASSUME NEW x \in Issued PROVE x[1] \notin {"totp", "recovery"} /\ \A z, n : <<"totp", z, n>> # x /\ <<"recovery", z, n>> # x
<1>1. x[1] \in {"mail", "state", "challenge", "assertion"}
  BY DEF Issued
<1>2. \A z, n : <<"totp", z, n>>[1] = "totp" /\ <<"recovery", z, n>>[1] = "recovery"
  OBVIOUS
<1> QED
  BY <1>1, <1>2

\* The operations of accounts and identities.
LEMMA FactorApart ==
  ASSUME ServiceInv, FactorInv, FactorKept(db, db'), CallsApart, FirstUse PROVE FactorInv'
<1>1. CallsGoOn /\ DOMAIN db.totp \subseteq DOMAIN db'.totp
  BY DEF CallsApart, CallsGoOn, FactorKept
<1>2. \A z, n : /\ <<"totp", z, n>> \in accepted' => <<"totp", z, n>> \in accepted
                /\ <<"recovery", z, n>> \in accepted' => <<"recovery", z, n>> \in accepted
  BY IssuedIsNoCode DEF FirstUse, Spend
<1>3. OfEnrolments
  BY <1>2 DEF OfEnrolments, Unknown
<1>4. ASSUME NEW v \in DOMAIN db'.totp
      PROVE  /\ CodesSpent(db'.totp[v], accepted')
             /\ \/ db'.totp[v].secret = 0
                \/ v \in DOMAIN db.totp /\ db'.totp[v].secret = db.totp[v].secret
  <2>1. CASE v \in DOMAIN db.totp
    <3>1. db'.totp[v] = db.totp[v] /\ CodesSpent(db.totp[v], accepted)
      BY <2>1 DEF FactorKept, FactorInv
    <3> QED
      BY <1>2, <2>1, <3>1 DEF CodesSpent
  <2>2. CASE v \notin DOMAIN db.totp
    <3>1. db'.totp[v] = NoTotp
      BY <2>2 DEF FactorKept
    <3> QED
      BY <3>1, SpentEmpty DEF NoTotp
  <2> QED
    BY <2>1, <2>2
<1>5. RowsGoOn
  BY <1>4 DEF RowsGoOn
<1> QED
  BY <1>1, <1>3, <1>5, FactorGoesOn

\* One enrolment is written, with a code of it accepted or none.
RowChanged(d, e, u, r) ==
    DOMAIN e.totp = DOMAIN d.totp /\ e.totp[u] = r /\ \A v \in DOMAIN d.totp \ {u} : e.totp[v] = d.totp[v]

CodeOf(x) ==
    \/ UNCHANGED accepted
    \/ x # 0 /\ \E n : accepted' = accepted \cup {<<"totp", x, n>>} \/ accepted' = accepted \cup {<<"recovery", x, n>>}

\* Then the invariant is that of the row.
LEMMA FactorRow ==
  ASSUME ServiceInv, FactorInv, CallsGoOn, NEW u \in DOMAIN db.totp, NEW r, RowChanged(db, db', u, r),
         r.secret \in {0, db.totp[u].secret}, CodesSpent(r, accepted'), CodeOf(db.totp[u].secret)
  PROVE  FactorInv'
<1> DEFINE x == db.totp[u].secret
<1>1. ASSUME NEW z, z # x \/ x = 0
      PROVE  \A n : /\ <<"totp", z, n>> \in accepted' => <<"totp", z, n>> \in accepted
                    /\ <<"recovery", z, n>> \in accepted' => <<"recovery", z, n>> \in accepted
  BY <1>1 DEF CodeOf
<1>2. OfEnrolments
  <2>1. ASSUME NEW z, Unknown(z, accepted), \A v \in DOMAIN db.totp : db.totp[v].secret # z PROVE Unknown(z, accepted')
    <3>1. z # x
      BY <2>1
    <3> HIDE DEF x
    <3> QED
      BY <1>1, <2>1, <3>1 DEF Unknown
  <2> QED
    BY <2>1 DEF OfEnrolments
<1>3. ASSUME NEW v \in DOMAIN db'.totp
      PROVE  /\ CodesSpent(db'.totp[v], accepted')
             /\ \/ db'.totp[v].secret = 0
                \/ v \in DOMAIN db.totp /\ db'.totp[v].secret = db.totp[v].secret
  <2>1. CASE v = u
    BY <2>1 DEF RowChanged
  <2>2. CASE v # u
    <3> DEFINE z == db.totp[v].secret
    <3>1. v \in DOMAIN db.totp /\ db'.totp[v] = db.totp[v] /\ CodesSpent(db.totp[v], accepted)
      BY <2>2 DEF RowChanged, FactorInv
    <3>2. z # 0 => z # x
      BY <2>2, <3>1 DEF FactorInv
    <3>3. z # 0 => \A n : /\ <<"totp", z, n>> \in accepted' => <<"totp", z, n>> \in accepted
                          /\ <<"recovery", z, n>> \in accepted' => <<"recovery", z, n>> \in accepted
      <4> HIDE DEF x, z
      <4> QED
        BY <1>1, <3>2
    <3> QED
      BY <3>1, <3>3 DEF CodesSpent
  <2> QED
    BY <2>1, <2>2
<1>4. RowsGoOn /\ DOMAIN db.totp \subseteq DOMAIN db'.totp
  BY <1>3 DEF RowsGoOn, RowChanged
<1> QED
  BY <1>2, <1>4, FactorGoesOn

\* A secret is stored: nobody works on the enrolment it replaces, and nobody knows it.
LEMMA FactorStored ==
  ASSUME ServiceInv, FactorInv, NEW p \in Slots, StoreSecret(p), NotReplaced PROVE FactorInv'
<1> DEFINE u == calls[p].user
           x == calls[p].secret
           new == [NoTotp EXCEPT !.secret = x]
<1>1. /\ u \in DOMAIN db.totp /\ x \in Nat /\ x # 0 /\ calls \in [Slots -> Call] /\ WholeStore(db)
      /\ calls[p].pc = "putsecret"
  <2>1. calls[p].pc = "putsecret" /\ "putsecret" \in FactorPcs
    BY DEF StoreSecret, FactorPcs
  <2> QED
    BY <2>1, FactorKnown DEF ServiceInv, TypeOK, Secrets
<1>2. TotpRow(db, db', u, new)
  BY <1>1, TotpOperations DEF StoreSecret
<1>3. new.secret = x /\ new.codes = {}
  BY DEF NoTotp
<1>4. \A q \in Slots : /\ calls[q].pc \in EnrolmentPcs => calls[q].user # u
                       /\ calls'[q] = IF q = p THEN Blank ELSE calls[q]
  BY <1>1 DEF NotReplaced, Presenting, StoreSecret, Return, Put
<1>5. Blank.pc \notin FactorPcs /\ UNCHANGED accepted
  BY DEF Blank, FactorPcs, EnrolmentPcs, CodePcs, StoreSecret
<1>6. EnrolmentPcs \subseteq FactorPcs /\ "putsecret" \in FactorPcs /\ "swap" \in FactorPcs
  BY DEF FactorPcs, EnrolmentPcs, CodePcs
<1>7. /\ \A v \in DOMAIN db.totp : db.totp[v].secret # x
      /\ \A q \in Slots \ {p} : calls[q].pc \in FactorPcs => calls[q].secret # x
      /\ Unknown(x, accepted)
  BY <1>1 DEF FactorInv
<1>8. DOMAIN db'.totp = DOMAIN db.totp /\ db'.totp[u].secret = x /\ CodesSpent(db'.totp[u], accepted)
      /\ \A v \in DOMAIN db.totp \ {u} : db'.totp[v] = db.totp[v]
  <2>1. CodesSpent(new, accepted)
    BY <1>3, <1>7 DEF CodesSpent, Unknown
  <2> HIDE DEF new, u, x
  <2> QED
    BY <1>2, <1>3, <2>1 DEF TotpRow
<1> HIDE DEF u, x, new
<1>9. \A v \in DOMAIN db'.totp : CodesSpent(db'.totp[v], accepted')
  BY <1>5, <1>8 DEF FactorInv
<1>10. \A v, w \in DOMAIN db'.totp : db'.totp[v].secret = db'.totp[w].secret /\ v # w => db'.totp[v].secret = 0
  <2> SUFFICES ASSUME NEW v \in DOMAIN db'.totp, NEW w \in DOMAIN db'.totp,
                      db'.totp[v].secret = db'.totp[w].secret, v # w
               PROVE  db'.totp[v].secret = 0
    OBVIOUS
  <2>1. v # u /\ w # u
    BY <1>7, <1>8
  <2> QED
    BY <1>8, <2>1 DEF FactorInv
<1>11. ASSUME NEW q \in Slots, calls'[q].pc = "putsecret"
       PROVE  /\ \A v \in DOMAIN db'.totp : db'.totp[v].secret # calls'[q].secret
              /\ \A r \in Slots \ {q} : calls'[r].pc \in FactorPcs => calls'[r].secret # calls'[q].secret
              /\ Unknown(calls'[q].secret, accepted')
  <2>1. q # p /\ calls'[q] = calls[q]
    BY <1>4, <1>5, <1>6, <1>11
  <2>2. calls[q].secret # x
    BY <1>6, <1>7, <1>11, <2>1
  <2>3. /\ \A v \in DOMAIN db.totp : db.totp[v].secret # calls[q].secret
        /\ \A r \in Slots \ {q} : calls[r].pc \in FactorPcs => calls[r].secret # calls[q].secret
        /\ Unknown(calls[q].secret, accepted)
    BY <1>11, <2>1 DEF FactorInv
  <2> QED
    BY <1>4, <1>5, <1>8, <2>1, <2>2, <2>3
<1>12. ASSUME NEW q \in Slots, calls'[q].pc \in EnrolmentPcs
       PROVE  db'.totp[calls'[q].user].secret \in {0, calls'[q].secret}
  <2>1. q # p /\ calls'[q] = calls[q] /\ calls[q].user # u
    BY <1>4, <1>5, <1>6, <1>12
  <2>2. calls[q].user \in DOMAIN db.totp
    BY <1>6, <1>12, <2>1, FactorKnown
  <2> QED
    BY <1>8, <1>12, <2>1, <2>2 DEF FactorInv
<1>13. ASSUME NEW q \in Slots, calls'[q].pc = "swap"
       PROVE  <<calls'[q].email[2], calls'[q].email[3]>> \in calls'[q].set
  <2>1. calls'[q] = calls[q]
    BY <1>4, <1>5, <1>6, <1>13
  <2> QED
    BY <1>13, <2>1 DEF FactorInv
<1> QED
  BY <1>9, <1>10, <1>11, <1>12, <1>13 DEF FactorInv

\* A call starts: with a fresh secret,
LEMMA FactorBegins ==
  ASSUME ServiceInv, FactorInv, NEW p \in Slots, NEW s \in DOMAIN db.sessions, NEW x \in Secrets, BeginEnrollment(p, s, x)
  PROVE  FactorInv'
<1> DEFINE c == [Blank EXCEPT !.pc = "putsecret", !.user = db.sessions[s].user, !.secret = x]
<1>1. c.pc = "putsecret" /\ c.secret = x
  BY DEF Blank
<1>2. calls \in [Slots -> Call] /\ calls' = [calls EXCEPT ![p] = c] /\ UNCHANGED <<db, accepted>>
  BY DEF BeginEnrollment, Put, ServiceInv, TypeOK
<1> HIDE DEF c
<1>3. \A q \in Slots : calls'[q] = IF q = p THEN c ELSE calls[q]
  BY <1>2
<1>4. /\ \A q \in Slots : calls[q].secret # x
      /\ \A u \in DOMAIN db.totp : db.totp[u].secret # x
      /\ Unknown(x, accepted)
  <2>1. FreshSecret(x)
    BY DEF BeginEnrollment
  <2>2. ASSUME NEW t \in {"totp", "recovery"}, NEW n PROVE <<t, x, n>> \notin accepted
    <3>1. <<t, x, n>>[1] = t /\ <<t, x, n>>[2] = x
      OBVIOUS
    <3> QED
      BY <2>1, <3>1 DEF FreshSecret
  <2> QED
    BY <2>1, <2>2 DEF FreshSecret, Unknown
<1>5. "putsecret" \in FactorPcs /\ "putsecret" \notin EnrolmentPcs
  BY DEF FactorPcs, EnrolmentPcs, CodePcs
<1>6. ASSUME NEW q \in Slots, calls'[q].pc = "putsecret"
      PROVE  /\ \A u \in DOMAIN db.totp : db.totp[u].secret # calls'[q].secret
             /\ \A r \in Slots \ {q} : calls'[r].pc \in FactorPcs => calls'[r].secret # calls'[q].secret
             /\ Unknown(calls'[q].secret, accepted)
  <2>1. CASE q = p
    BY <1>1, <1>3, <1>4, <2>1
  <2>2. CASE q # p
    <3>1. calls'[q] = calls[q] /\ calls[q].pc = "putsecret"
      BY <1>3, <1>6, <2>2
    <3>2. /\ \A u \in DOMAIN db.totp : db.totp[u].secret # calls[q].secret
          /\ \A r \in Slots \ {q} : calls[r].pc \in FactorPcs => calls[r].secret # calls[q].secret
          /\ Unknown(calls[q].secret, accepted)
      BY <3>1 DEF FactorInv
    <3>3. \A r \in Slots \ {q} : calls'[r].pc \in FactorPcs => calls'[r].secret # calls[q].secret
      BY <1>1, <1>3, <1>4, <3>2
    <3> QED
      BY <3>1, <3>2, <3>3
  <2> QED
    BY <2>1, <2>2
<1>7. ASSUME NEW q \in Slots, calls'[q].pc \in EnrolmentPcs
      PROVE  db.totp[calls'[q].user].secret \in {0, calls'[q].secret}
             /\ (calls'[q].pc = "swap" => <<calls'[q].email[2], calls'[q].email[3]>> \in calls'[q].set)
  BY <1>1, <1>3, <1>5, <1>7 DEF FactorInv
<1>8. "swap" \in EnrolmentPcs
  BY DEF EnrolmentPcs, CodePcs
<1>9. /\ \A q \in Slots : calls'[q].pc = "putsecret" =>
            /\ \A u \in DOMAIN db'.totp : db'.totp[u].secret # calls'[q].secret
            /\ \A r \in Slots \ {q} : calls'[r].pc \in FactorPcs => calls'[r].secret # calls'[q].secret
            /\ Unknown(calls'[q].secret, accepted')
      /\ \A q \in Slots : calls'[q].pc \in EnrolmentPcs => db'.totp[calls'[q].user].secret \in {0, calls'[q].secret}
      /\ \A q \in Slots : calls'[q].pc = "swap" => <<calls'[q].email[2], calls'[q].email[3]>> \in calls'[q].set
  BY <1>2, <1>6, <1>7, <1>8
<1>10. /\ \A u \in DOMAIN db'.totp : CodesSpent(db'.totp[u], accepted')
       /\ \A u, v \in DOMAIN db'.totp : db'.totp[u].secret = db'.totp[v].secret /\ u # v => db'.totp[u].secret = 0
  BY <1>2 DEF FactorInv
<1> QED
  BY <1>9, <1>10 DEF FactorInv

\* or with that of the enrolment it reads.
LEMMA FactorStarts ==
  ASSUME ServiceInv, FactorInv, UNCHANGED <<db, accepted>>, NEW p \in Slots, NEW c, Put(p, c),
         c.user \in DOMAIN db.totp, c.pc \in EnrolmentPcs \ {"swap"}, c.secret = db.totp[c.user].secret
  PROVE  FactorInv'
<1>1. \A q \in Slots : calls'[q] = IF q = p THEN c ELSE calls[q]
  BY DEF Put, ServiceInv, TypeOK
<1>2. "putsecret" \notin EnrolmentPcs
  BY DEF EnrolmentPcs, CodePcs
<1>3. ASSUME NEW q \in Slots, calls'[q].pc = "putsecret"
      PROVE  /\ \A u \in DOMAIN db.totp : db.totp[u].secret # calls'[q].secret
             /\ \A r \in Slots \ {q} : calls'[r].pc \in FactorPcs => calls'[r].secret # calls'[q].secret
             /\ Unknown(calls'[q].secret, accepted)
  <2>1. calls'[q] = calls[q] /\ calls[q].pc = "putsecret"
    BY <1>1, <1>2, <1>3
  <2>2. /\ \A u \in DOMAIN db.totp : db.totp[u].secret # calls[q].secret
        /\ \A r \in Slots \ {q} : calls[r].pc \in FactorPcs => calls[r].secret # calls[q].secret
        /\ Unknown(calls[q].secret, accepted)
    BY <2>1 DEF FactorInv
  <2>3. \A r \in Slots \ {q} : calls'[r].pc \in FactorPcs => calls'[r].secret # calls[q].secret
    BY <1>1, <2>2
  <2> QED
    BY <2>1, <2>2, <2>3
<1>4. ASSUME NEW q \in Slots, calls'[q].pc \in EnrolmentPcs
      PROVE  db.totp[calls'[q].user].secret \in {0, calls'[q].secret}
             /\ (calls'[q].pc = "swap" => <<calls'[q].email[2], calls'[q].email[3]>> \in calls'[q].set)
  BY <1>1, <1>4 DEF FactorInv
<1>5. "swap" \in EnrolmentPcs
  BY DEF EnrolmentPcs, CodePcs
<1>6. /\ \A q \in Slots : calls'[q].pc = "putsecret" =>
            /\ \A u \in DOMAIN db'.totp : db'.totp[u].secret # calls'[q].secret
            /\ \A r \in Slots \ {q} : calls'[r].pc \in FactorPcs => calls'[r].secret # calls'[q].secret
            /\ Unknown(calls'[q].secret, accepted')
      /\ \A q \in Slots : calls'[q].pc \in EnrolmentPcs => db'.totp[calls'[q].user].secret \in {0, calls'[q].secret}
      /\ \A q \in Slots : calls'[q].pc = "swap" => <<calls'[q].email[2], calls'[q].email[3]>> \in calls'[q].set
  BY <1>3, <1>4, <1>5
<1>7. /\ \A u \in DOMAIN db'.totp : CodesSpent(db'.totp[u], accepted')
      /\ \A u, v \in DOMAIN db'.totp : db'.totp[u].secret = db'.totp[v].secret /\ u # v => db'.totp[u].secret = 0
  BY DEF FactorInv
<1> QED
  BY <1>6, <1>7 DEF FactorInv

\* The calls that start with a session.
LEMMA FactorOpened ==
  ASSUME ServiceInv, FactorInv, NEW p \in Slots, NEW s \in DOMAIN db.sessions,
         \/ \E x \in Secrets : BeginEnrollment(p, s, x)
         \/ \E n \in Steps : ConfirmEnrollment(p, s, n)
         \/ \E code \in TotpCodes \cup RecoveryCodes, next \in {"elevate", "remove"} : PresentCode(p, s, code, next)
  PROVE  FactorInv'
<1> DEFINE u == db.sessions[s].user
           r == db.totp[u]
<1>1. u \in DOMAIN db.totp
  <2>1. WholeStore(db) /\ u \in DOMAIN db.users
    BY DEF ServiceInv, TypeOK, AccountsInv, RowsAreOfUsers
  <2> QED
    BY <2>1, StoreFields
<1>2. {"confirm", "step", "failure", "match"} \subseteq EnrolmentPcs \ {"swap"}
  BY DEF EnrolmentPcs, CodePcs
<1>3. ASSUME NEW x \in Secrets, BeginEnrollment(p, s, x) PROVE FactorInv'
  BY <1>3, FactorBegins
<1>4. ASSUME NEW n \in Steps, ConfirmEnrollment(p, s, n) PROVE FactorInv'
  <2> DEFINE c == [Blank EXCEPT !.pc = "confirm", !.user = u, !.secret = r.secret, !.arg = n]
  <2>1. Put(p, c) /\ UNCHANGED <<db, accepted>>
    BY <1>4 DEF ConfirmEnrollment, Row
  <2>2. c.pc = "confirm" /\ c.user = u /\ c.secret = r.secret
    BY DEF Blank
  <2> HIDE DEF c, u
  <2> QED
    BY <1>1, <1>2, <2>1, <2>2, FactorStarts
<1>5. ASSUME NEW code \in TotpCodes \cup RecoveryCodes, NEW next \in {"elevate", "remove"}, PresentCode(p, s, code, next)
      PROVE  FactorInv'
  <2> DEFINE call == [Blank EXCEPT !.user = u, !.sess = s, !.next = next, !.secret = r.secret,
                                   !.sealed = r.sealed, !.arg = code[3], !.set = r.codes]
             c == IF code[1] = "totp" THEN IF code[2] = r.secret THEN [call EXCEPT !.pc = "step"]
                                                                 ELSE [call EXCEPT !.pc = "failure"]
                  ELSE [call EXCEPT !.pc = "match", !.tries = MaxTries, !.email = code]
  <2>1. Put(p, c) /\ UNCHANGED <<db, accepted>>
    BY <1>5 DEF PresentCode, Row
  <2>2. c.pc \in {"step", "failure", "match"} /\ c.user = u /\ c.secret = r.secret
    BY DEF Blank
  <2> HIDE DEF c, u
  <2> QED
    BY <1>1, <1>2, <2>1, <2>2, FactorStarts
<1> QED
  BY <1>3, <1>4, <1>5

\* A call goes on or returns.
LEMMA GoesOnPut ==
  ASSUME ServiceInv, NEW p \in Slots, NEW c, Put(p, c), GoesOn(calls[p], c) \/ c.pc \notin FactorPcs PROVE CallsGoOn
<1>1. \A q \in Slots : calls'[q] = IF q = p THEN c ELSE calls[q]
  BY DEF Put, ServiceInv, TypeOK
<1> QED
  BY <1>1 DEF CallsGoOn

\* The same by Goto, by Return and by Accepted.
LEMMA GoesOnGoto ==
  ASSUME ServiceInv, NEW p \in Slots, NEW pc \in EnrolmentPcs \ {"swap"}, Goto(p, pc), calls[p].pc \in EnrolmentPcs
  PROVE  CallsGoOn
<1> DEFINE c == [calls[p] EXCEPT !.pc = pc]
<1>1. calls \in [Slots -> Call] /\ calls[p] \in Call
  BY DEF ServiceInv, TypeOK
<1>2. Put(p, c)
  BY <1>1, GotoPut
<1>3. GoesOn(calls[p], c)
  BY <1>1 DEF GoesOn, Call
<1> HIDE DEF c
<1> QED
  BY <1>2, <1>3, GoesOnPut

LEMMA GoesOnReturn == ASSUME ServiceInv, NEW p \in Slots, Return(p) PROVE CallsGoOn
<1>1. Blank.pc \notin FactorPcs
  BY DEF Blank, FactorPcs, EnrolmentPcs, CodePcs
<1> QED
  BY <1>1, GoesOnPut DEF Return

LEMMA GoesOnAccepted ==
  ASSUME ServiceInv, NEW p \in Slots, Put(p, Accepted(calls[p])), calls[p].pc \in EnrolmentPcs PROVE CallsGoOn
<1> DEFINE c == Accepted(calls[p])
<1>1. c.pc \in {"remove", "clear", "seal"} /\ c.secret = calls[p].secret /\ c.user = calls[p].user
  BY DEF Accepted, ServiceInv, TypeOK, Call
<1>2. {"remove", "clear", "seal"} \subseteq EnrolmentPcs \ {"swap"}
  BY DEF EnrolmentPcs, CodePcs
<1> HIDE DEF c
<1>3. GoesOn(calls[p], c)
  BY <1>1, <1>2 DEF GoesOn
<1> QED
  BY <1>3, GoesOnPut DEF c

\* An enrolment is written, or not, with no code accepted.
LEMMA FactorRowAlone ==
  ASSUME ServiceInv, FactorInv, CallsGoOn, NEW u \in DOMAIN db.totp, NEW r, TotpRow(db, db', u, r), UNCHANGED accepted,
         r.secret \in {0, db.totp[u].secret}, CodesSpent(r, accepted)
  PROVE  FactorInv'
<1>1. RowChanged(db, db', u, r) /\ CodeOf(db.totp[u].secret) /\ CodesSpent(r, accepted')
  BY DEF RowChanged, TotpRow, CodeOf
<1> QED
  BY <1>1, FactorRow

\* Nothing is written.
LEMMA FactorUnwritten ==
  ASSUME ServiceInv, FactorInv, CallsGoOn, UNCHANGED <<db, accepted>> PROVE FactorInv'
<1>1. RowsGoOn /\ OfEnrolments
  BY DEF RowsGoOn, OfEnrolments, FactorInv
<1> QED
  BY <1>1, FactorGoesOn

\* Calls match a recovery code with the list they read, and read it again.
LEMMA FactorMatches ==
  ASSUME ServiceInv, FactorInv, NEW p \in Slots, MatchRecoveryCode(p) \/ SelectCodes(p) \/ RereadCodes(p)
  PROVE  FactorInv'
<1>1. {"match", "select", "reread", "failure", "swap"} \subseteq EnrolmentPcs
  BY DEF EnrolmentPcs, CodePcs
<1>2. calls[p] \in Call /\ calls[p].pc \in EnrolmentPcs
  BY <1>1 DEF ServiceInv, TypeOK, MatchRecoveryCode, SelectCodes, RereadCodes
<1>3. ASSUME MatchRecoveryCode(p) PROVE CallsGoOn
  <2>1. PICK pc \in {"select", "failure"} : Goto(p, pc)
    BY <1>3 DEF MatchRecoveryCode
  <2> QED
    BY <1>1, <1>2, <2>1, GoesOnGoto
<1>4. ASSUME SelectCodes(p) PROVE CallsGoOn
  <2> DEFINE entry == <<calls[p].email[2], calls[p].email[3]>>
             codes == Row(calls[p].user).codes
             c == [calls[p] EXCEPT !.set = codes, !.pc = IF entry \in codes THEN "swap" ELSE "reread"]
  <2>1. Put(p, c)
    BY <1>4 DEF SelectCodes
  <2>2. /\ c.pc = (IF entry \in codes THEN "swap" ELSE "reread") /\ c.set = codes
        /\ c.secret = calls[p].secret /\ c.user = calls[p].user /\ c.email = calls[p].email
    BY <1>2 DEF Call
  <2> HIDE DEF c
  <2>3. GoesOn(calls[p], c)
    BY <1>1, <1>2, <2>2 DEF GoesOn
  <2> QED
    BY <2>1, <2>3, GoesOnPut
<1>5. ASSUME RereadCodes(p) PROVE CallsGoOn
  <2> DEFINE c == [calls[p] EXCEPT !.pc = "match", !.set = Row(calls[p].user).codes, !.tries = @ - 1]
  <2>1. Put(p, c)
    BY <1>5 DEF RereadCodes
  <2>2. c.pc = "match" /\ c.secret = calls[p].secret /\ c.user = calls[p].user
    BY <1>2 DEF Call
  <2> HIDE DEF c
  <2>3. GoesOn(calls[p], c)
    BY <1>1, <1>2, <2>2 DEF GoesOn
  <2> QED
    BY <2>1, <2>3, GoesOnPut
<1> QED
  BY <1>3, <1>4, <1>5, FactorUnwritten DEF MatchRecoveryCode, SelectCodes, RereadCodes

\* What a call that works on an enrolment finds in its row.
LEMMA EnrolmentFound ==
  ASSUME ServiceInv, FactorInv, NEW p \in Slots, calls[p].pc \in EnrolmentPcs, NEW u, u = calls[p].user
  PROVE  /\ u \in DOMAIN db.totp /\ db.totp[u] \in Totp /\ WholeStore(db) /\ calls[p] \in Call
         /\ calls[p].secret \in Nat /\ calls[p].secret # 0
         /\ db.totp[u].secret \in {0, calls[p].secret} /\ CodesSpent(db.totp[u], accepted)
         /\ calls[p].pc \in {"step", "confirm", "spendstep"} => calls[p].arg \in Steps /\ calls[p].arg \in Nat
<1>1. calls[p].pc \in FactorPcs
  BY DEF FactorPcs
<1>2. u \in DOMAIN db.totp /\ calls[p].secret \in Secrets /\ calls[p].secret # 0 /\ calls[p] \in Call
  BY <1>1, FactorKnown
<1>3. WholeStore(db) /\ CallOK(db, proven, calls[p])
  BY DEF ServiceInv, TypeOK, CallsInv
<1>4. db.totp[u] \in Totp
  BY <1>2, <1>3, RowUntouched
<1>5. db.totp[u].secret \in {0, calls[p].secret} /\ CodesSpent(db.totp[u], accepted)
  BY <1>2 DEF FactorInv
<1>6. calls[p].pc \in {"step", "confirm", "spendstep"} => calls[p].arg \in Steps /\ calls[p].arg \in Nat
  BY <1>3, AuthAssumption DEF CallOK, AuthAssumption
<1> QED
  BY <1>2, <1>3, <1>4, <1>5, <1>6 DEF Secrets

\* An enrolment is confirmed, and the step of the confirming code is used.
LEMMA FactorConfirmed ==
  ASSUME ServiceInv, FactorInv, NEW p \in Slots, StoreConfirmation(p) \/ SpendConfirmingStep(p) PROVE FactorInv'
<1> DEFINE u == calls[p].user
           r == db.totp[u]
           x == calls[p].secret
<1>1. calls[p].pc \in {"confirm", "spendstep"} /\ {"confirm", "spendstep"} \subseteq EnrolmentPcs \ {"swap"}
  BY DEF StoreConfirmation, SpendConfirmingStep, EnrolmentPcs, CodePcs
<1>2. /\ u \in DOMAIN db.totp /\ r \in Totp /\ WholeStore(db) /\ x \in Nat /\ r.secret \in {0, x}
      /\ CodesSpent(r, accepted) /\ calls[p].arg \in Steps /\ calls[p].arg \in Nat
  BY <1>1, EnrolmentFound
<1>3. ASSUME StoreConfirmation(p) PROVE FactorInv'
  <2> DEFINE codes == {<<x, 1>>, <<x, 2>>}
             new == IF r.secret = 0 \/ r.confirmed THEN r
                    ELSE [r EXCEPT !.confirmed = TRUE, !.codes = codes, !.fails = 0, !.locked = FALSE]
  <2>1. db' = ConfirmTotp(db, u, codes) /\ Goto(p, "spendstep") /\ UNCHANGED accepted
    BY <1>3 DEF StoreConfirmation
  <2>2. codes \in SUBSET (Nat \X Nat)
    BY <1>2, PrintedCodes
  <2>3. CallsGoOn
    BY <1>1, <2>1, GoesOnGoto
  <2>4. new.secret = r.secret /\ CodesSpent(new, accepted)
    <3>1. CASE r.secret = 0 \/ r.confirmed
      BY <1>2, <3>1
    <3>2. CASE ~(r.secret = 0 \/ r.confirmed)
      <4> DEFINE s == [r EXCEPT !.confirmed = TRUE, !.codes = {<<r.secret, 1>>, <<r.secret, 2>>}, !.fails = 0,
                                !.locked = FALSE]
      <4>1. CodesSpent(s, accepted)
        BY <1>2, <3>2, ListPrinted
      <4>2. new = s /\ s.secret = r.secret
        BY <1>2, <3>2 DEF Totp
      <4> QED
        BY <4>1, <4>2
    <3> QED
      BY <3>1, <3>2
  <2> HIDE DEF codes
  <2>5. TotpRow(db, ConfirmTotp(db, u, codes), u, new)
    BY <1>2, <2>2, TotpOperations
  <2> HIDE DEF new, u, x
  <2> QED
    BY <1>2, <2>1, <2>3, <2>4, <2>5, FactorRowAlone
<1>4. ASSUME SpendConfirmingStep(p) PROVE FactorInv'
  <2> DEFINE n == calls[p].arg
             new == [r EXCEPT !.last = n]
  <2>1. db' = (IF StepIsNew(db, u, n) THEN MarkTotpStepUsed(db, u, n) ELSE db) /\ Return(p) /\ UNCHANGED accepted
    BY <1>4 DEF SpendConfirmingStep
  <2>2. CallsGoOn
    BY <2>1, GoesOnReturn
  <2>3. CASE StepIsNew(db, u, n)
    <3>1. TotpRow(db, MarkTotpStepUsed(db, u, n), u, new)
      BY <1>2, TotpOperations
    <3>2. CodesSpent(new, accepted)
      BY <1>2, <2>3, StepSpent DEF StepIsNew
    <3>3. new.secret = r.secret
      BY <1>2 DEF Totp
    <3> HIDE DEF new, u, n
    <3> QED
      BY <1>2, <2>1, <2>2, <2>3, <3>1, <3>2, <3>3, FactorRowAlone
  <2>4. CASE ~StepIsNew(db, u, n)
    BY <2>1, <2>2, <2>4, FactorUnwritten
  <2> QED
    BY <2>3, <2>4
<1> QED
  BY <1>3, <1>4

\* Failures are counted and cleared, a secret is sealed, a session is elevated, an enrolment is removed.
LEMMA FactorSettled ==
  ASSUME ServiceInv, FactorInv, NEW p \in Slots,
         RecordFailure(p) \/ SealSecret(p) \/ ClearFailures(p) \/ Elevate(p) \/ RemoveEnrollment(p)
  PROVE  FactorInv'
<1> DEFINE u == calls[p].user
           r == db.totp[u]
           x == calls[p].secret
<1>1. {"failure", "seal", "clear", "elevate", "remove"} \subseteq EnrolmentPcs \ {"swap"}
  BY DEF EnrolmentPcs, CodePcs
<1>2. calls[p].pc \in EnrolmentPcs /\ UNCHANGED accepted
  BY <1>1 DEF RecordFailure, SealSecret, ClearFailures, Elevate, RemoveEnrollment
<1>3. /\ u \in DOMAIN db.totp /\ r \in Totp /\ WholeStore(db) /\ x \in Nat /\ r.secret \in {0, x}
      /\ CodesSpent(r, accepted) /\ calls[p] \in Call
  BY <1>2, EnrolmentFound
<1>4. CallsGoOn
  <2>1. CASE SealSecret(p) \/ ClearFailures(p)
    BY <1>1, <1>2, <2>1, GoesOnGoto DEF SealSecret, ClearFailures
  <2>2. CASE RecordFailure(p) \/ Elevate(p) \/ RemoveEnrollment(p)
    BY <2>2, GoesOnReturn DEF RecordFailure, Elevate, RemoveEnrollment
  <2> QED
    BY <2>1, <2>2
<1>5. ASSUME RecordFailure(p) PROVE FactorInv'
  <2>1. db' = RecordTotpFailure(db, u, LockoutThreshold)
    BY <1>5 DEF RecordFailure
  <2> HIDE DEF u
  <2>2. PICK s : /\ TotpRow(db, db', u, s) /\ s.secret = r.secret /\ s.confirmed = r.confirmed
                 /\ s.codes = r.codes /\ s.last = r.last
    BY <1>3, <2>1, FailureCounted
  <2>3. CodesSpent(s, accepted)
    BY <1>3, <2>2, SpentAlike
  <2> QED
    BY <1>2, <1>3, <1>4, <2>2, <2>3, FactorRowAlone
<1>6. ASSUME SealSecret(p) PROVE FactorInv'
  <2> DEFINE new == IF r.secret = 0 THEN r ELSE [r EXCEPT !.secret = x, !.sealed = TRUE]
  <2>1. db' = ReplaceTotpSecret(db, u, x)
    BY <1>6 DEF SealSecret
  <2>2. TotpRow(db, ReplaceTotpSecret(db, u, x), u, new)
    BY <1>3, TotpOperations
  <2>3. new.secret = r.secret /\ new.confirmed = r.confirmed /\ new.codes = r.codes /\ new.last = r.last
    BY <1>3 DEF Totp
  <2> HIDE DEF new, u
  <2>4. CodesSpent(new, accepted)
    BY <1>3, <2>3, SpentAlike
  <2> QED
    BY <1>2, <1>3, <1>4, <2>1, <2>2, <2>3, <2>4, FactorRowAlone
<1>7. ASSUME ClearFailures(p) PROVE FactorInv'
  <2> DEFINE new == [r EXCEPT !.fails = 0, !.locked = FALSE]
  <2>1. db' = ResetTotpFailures(db, u)
    BY <1>7 DEF ClearFailures
  <2>2. TotpRow(db, ResetTotpFailures(db, u), u, new)
    BY <1>3, TotpOperations
  <2>3. new.secret = r.secret /\ new.confirmed = r.confirmed /\ new.codes = r.codes /\ new.last = r.last
    BY <1>3 DEF Totp
  <2> HIDE DEF new, u
  <2>4. CodesSpent(new, accepted)
    BY <1>3, <2>3, SpentAlike
  <2> QED
    BY <1>2, <1>3, <1>4, <2>1, <2>2, <2>3, <2>4, FactorRowAlone
<1>8. ASSUME Elevate(p) PROVE FactorInv'
  <2>1. db' = ElevateSession(db, calls[p].sess)
    BY <1>8 DEF Elevate
  <2>2. db'.totp = db.totp
    BY <1>3, <2>1 DEF ElevateSession, WholeStore, Store
  <2>3. RowsGoOn /\ OfEnrolments
    BY <1>2, <2>2 DEF RowsGoOn, OfEnrolments, FactorInv
  <2> QED
    BY <1>4, <2>2, <2>3, FactorGoesOn
<1>9. ASSUME RemoveEnrollment(p) PROVE FactorInv'
  <2>1. db' = RemoveTotp(db, u) /\ NoTotp.secret = 0
    BY <1>9 DEF RemoveEnrollment, NoTotp
  <2>2. TotpRow(db, RemoveTotp(db, u), u, NoTotp)
    BY <1>3, TotpOperations
  <2> HIDE DEF u
  <2>3. CodesSpent(NoTotp, accepted)
    BY SpentEmpty
  <2> QED
    BY <1>2, <1>3, <1>4, <2>1, <2>2, <2>3, FactorRowAlone
<1> QED
  BY <1>5, <1>6, <1>7, <1>8, <1>9

\* The operator resets an enrolment, a lockout ends.
LEMMA FactorReset ==
  ASSUME ServiceInv, FactorInv, NEW u \in DOMAIN db.totp, ResetSecondFactor(u) \/ CooldownEnds(u) PROVE FactorInv'
<1> DEFINE r == db.totp[u]
           new == [r EXCEPT !.locked = FALSE]
<1>1. r \in Totp /\ WholeStore(db) /\ UNCHANGED <<calls, accepted>> /\ CodesSpent(r, accepted)
  <2>1. WholeStore(db)
    BY DEF ServiceInv, TypeOK
  <2> QED
    BY <2>1, RowUntouched DEF ResetSecondFactor, CooldownEnds, FactorInv
<1>2. CallsGoOn
  BY <1>1 DEF CallsGoOn
<1>3. CASE ResetSecondFactor(u)
  <2>1. TotpRow(db, RemoveTotp(db, u), u, NoTotp) /\ NoTotp.secret = 0 /\ CodesSpent(NoTotp, accepted)
    BY <1>1, TotpOperations, SpentEmpty DEF NoTotp
  <2> QED
    BY <1>1, <1>2, <1>3, <2>1, FactorRowAlone DEF ResetSecondFactor
<1>4. CASE CooldownEnds(u)
  <2>1. TotpRow(db, [db EXCEPT !.totp[u].locked = FALSE], u, new)
    BY <1>1, TotpOperations
  <2>2. new.secret = r.secret /\ new.confirmed = r.confirmed /\ new.codes = r.codes /\ new.last = r.last
    BY <1>1 DEF Totp
  <2> HIDE DEF new
  <2>3. CodesSpent(new, accepted)
    BY <1>1, <2>2, SpentAlike
  <2> QED
    BY <1>1, <1>2, <1>4, <2>1, <2>2, <2>3, FactorRowAlone DEF CooldownEnds
<1> QED
  BY <1>3, <1>4

\* A call presents its code: it is refused, or accepted for the first time.
CodeTaken(p) ==
    /\ db'.sessions = db.sessions
    /\ \/ UNCHANGED <<accepted, acceptances>> /\ \E pc \in {"failure", "reread"} : Goto(p, pc)
       \/ \E x \in (TotpCodes \cup RecoveryCodes) \ accepted : Spend(x) /\ Put(p, Accepted(calls[p]))

\* A time-based code is accepted with a step later than any accepted of its secret.
LEMMA StepTaken ==
  ASSUME ServiceInv, FactorInv, NEW p \in Slots, ClaimStep(p) PROVE FactorInv' /\ CodeTaken(p)
<1> DEFINE u == calls[p].user
           n == calls[p].arg
           x == calls[p].secret
           r == db.totp[u]
           new == [r EXCEPT !.last = n]
<1>1. calls[p].pc = "step" /\ {"step", "failure"} \subseteq EnrolmentPcs \ {"swap"}
  BY DEF ClaimStep, EnrolmentPcs, CodePcs
<1>2. /\ u \in DOMAIN db.totp /\ r \in Totp /\ WholeStore(db) /\ x \in Nat /\ x # 0 /\ r.secret \in {0, x}
      /\ CodesSpent(r, accepted) /\ n \in Steps /\ n \in Nat
  BY <1>1, EnrolmentFound
<1>3. x \in Secrets
  BY <1>1, FactorKnown DEF FactorPcs
<1>4. CASE StepIsNew(db, u, n)
  <2>1. /\ db' = MarkTotpStepUsed(db, u, n) /\ Spend(<<"totp", x, n>>) /\ Put(p, Accepted(calls[p]))
        /\ r.secret = x /\ r.last < n
    BY <1>2, <1>4 DEF ClaimStep, StepIsNew
  <2>2. TotpRow(db, MarkTotpStepUsed(db, u, n), u, new)
    BY <1>2, TotpOperations
  <2>3. CallsGoOn
    BY <1>1, <2>1, GoesOnAccepted
  <2>4. CodesSpent(new, accepted \cup {<<"totp", r.secret, n>>}) /\ new.secret = r.secret
    BY <1>2, <2>1, StepSpent DEF Totp
  <2>5. <<"totp", x, n>> \in (TotpCodes \cup RecoveryCodes) \ accepted
    <3>1. <<"totp", x, n>> \notin accepted
      <4>1. r.last \in Nat
        BY <1>2 DEF Totp
      <4>2. <<"totp", r.secret, n>> \in accepted => n <= r.last
        BY <1>2, <2>1 DEF CodesSpent
      <4> QED
        BY <1>2, <2>1, <4>1, <4>2
    <3> QED
      BY <1>2, <1>3, <3>1 DEF TotpCodes
  <2> HIDE DEF new, u, n, x
  <2>6. RowChanged(db, db', u, new) /\ CodeOf(r.secret) /\ CodesSpent(new, accepted')
    BY <1>2, <2>1, <2>2, <2>4 DEF RowChanged, TotpRow, CodeOf, Spend
  <2>7. FactorInv'
    BY <1>2, <2>3, <2>4, <2>6, FactorRow
  <2>8. db'.sessions = db.sessions
    BY <2>1, <2>2 DEF TotpRow
  <2> QED
    BY <2>1, <2>5, <2>7, <2>8 DEF CodeTaken
<1>5. CASE ~StepIsNew(db, u, n)
  <2>1. UNCHANGED <<db, accepted, acceptances>> /\ Goto(p, "failure")
    BY <1>5 DEF ClaimStep, Unspent
  <2>2. CallsGoOn
    BY <1>1, <2>1, GoesOnGoto
  <2> QED
    BY <2>1, <2>2, FactorUnwritten DEF CodeTaken
<1> QED
  BY <1>4, <1>5

\* A recovery code is accepted while it is on the list, which it leaves.
LEMMA RecoveryTaken ==
  ASSUME ServiceInv, FactorInv, NEW p \in Slots, SwapCodes(p) PROVE FactorInv' /\ CodeTaken(p)
<1> DEFINE u == calls[p].user
           email == calls[p].email
           r == db.totp[u]
           entry == <<email[2], email[3]>>
<1>1. calls[p].pc = "swap" /\ {"swap", "reread"} \subseteq EnrolmentPcs /\ "swap" \in RetryPcs /\ "swap" \in CodePcs
  BY DEF SwapCodes, EnrolmentPcs, CodePcs, RetryPcs
<1>2. /\ u \in DOMAIN db.totp /\ r \in Totp /\ WholeStore(db) /\ r.secret \in {0, calls[p].secret}
      /\ CodesSpent(r, accepted)
  BY <1>1, EnrolmentFound
<1>3. email \in RecoveryCodes /\ entry \in calls[p].set
  BY <1>1, CodeKnown DEF FactorInv
<1>4. CASE CodesAreAsRead(db, u, calls[p].set)
  <2>1. /\ db' = SetRecoveryCodes(db, u, calls[p].set \ {entry}) /\ Spend(email) /\ Put(p, Accepted(calls[p]))
        /\ r.secret # 0 /\ r.codes = calls[p].set
    BY <1>4 DEF SwapCodes, CodesAreAsRead
  <2>2. PICK a \in Secrets, n \in {1, 2} : email = <<"recovery", a, n>>
    BY <1>3 DEF RecoveryCodes
  <2>3. entry = <<a, n>>
    BY <2>2
  <2>4. a = r.secret /\ r.confirmed
    BY <1>2, <1>3, <2>1, <2>3 DEF CodesSpent
  <2> DEFINE new == [r EXCEPT !.codes = r.codes \ {<<r.secret, n>>}]
  <2>5. TotpRow(db, db', u, new)
    <3>1. r.codes \ {<<r.secret, n>>} \in SUBSET (Nat \X Nat)
      BY <1>2 DEF Totp
    <3>2. db' = SetRecoveryCodes(db, u, r.codes \ {<<r.secret, n>>})
      BY <2>1, <2>3, <2>4
    <3> HIDE DEF u
    <3>3. TotpRow(db, SetRecoveryCodes(db, u, r.codes \ {<<r.secret, n>>}), u, new)
      BY <1>2, <3>1, TotpOperations
    <3> QED
      BY <3>2, <3>3
  <2>6. CallsGoOn
    BY <1>1, <2>1, GoesOnAccepted
  <2>7. CodesSpent(new, accepted \cup {<<"recovery", r.secret, n>>}) /\ new.secret = r.secret
    BY <1>2, <2>4, ListSpent DEF Totp
  <2>8. email \in (TotpCodes \cup RecoveryCodes) \ accepted
    <3>1. <<"recovery", r.secret, n>> \notin accepted
      BY <1>2, <1>3, <2>1, <2>3, <2>4 DEF CodesSpent
    <3> QED
      BY <1>3, <2>2, <2>4, <3>1
  <2> HIDE DEF new, u
  <2>9. RowChanged(db, db', u, new) /\ CodeOf(r.secret) /\ CodesSpent(new, accepted')
    BY <1>2, <2>1, <2>2, <2>4, <2>5, <2>7 DEF RowChanged, TotpRow, CodeOf, Spend
  <2>10. FactorInv'
    BY <1>2, <2>6, <2>7, <2>9, FactorRow
  <2>11. db'.sessions = db.sessions
    BY <2>5 DEF TotpRow
  <2> QED
    BY <2>1, <2>8, <2>10, <2>11 DEF CodeTaken
<1>5. CASE ~CodesAreAsRead(db, u, calls[p].set)
  <2>1. UNCHANGED <<db, accepted, acceptances>> /\ Goto(p, "reread")
    BY <1>5 DEF SwapCodes, Unspent
  <2>2. CallsGoOn
    BY <1>1, <2>1, GoesOnGoto
  <2> QED
    BY <2>1, <2>2, FactorUnwritten DEF CodeTaken
<1> QED
  BY <1>4, <1>5

\* What is known of codes holds after every step, under the rule.
LEMMA FactorKeeps == ASSUME ServiceInv, FactorInv, NotReplaced, Next PROVE FactorInv'
<1>1. CASE AccountsNext
  BY <1>1, AccountsAside, AccountsApart, OthersFirst, FactorApart
<1>2. CASE IdentitiesNext
  BY <1>2, IdentitiesAside, IdentitiesApart, OthersFirst, FactorApart
<1>3. CASE SecondFactorNext
  <2>1. ASSUME NEW p \in Slots,
               \/ StoreSecret(p) \/ StoreConfirmation(p) \/ SpendConfirmingStep(p) \/ ClaimStep(p)
               \/ MatchRecoveryCode(p) \/ SelectCodes(p) \/ SwapCodes(p) \/ RereadCodes(p) \/ RecordFailure(p)
               \/ SealSecret(p) \/ ClearFailures(p) \/ Elevate(p) \/ RemoveEnrollment(p)
        PROVE  FactorInv'
    BY <2>1, FactorStored, FactorConfirmed, StepTaken, FactorMatches, RecoveryTaken, FactorSettled
  <2>2. ASSUME NEW p \in Slots, NEW s \in DOMAIN db.sessions,
               \/ \E x \in Secrets : BeginEnrollment(p, s, x)
               \/ \E n \in Steps : ConfirmEnrollment(p, s, n)
               \/ \E c \in TotpCodes \cup RecoveryCodes, next \in {"elevate", "remove"} : PresentCode(p, s, c, next)
        PROVE  FactorInv'
    BY <2>2, FactorOpened
  <2>3. ASSUME NEW u \in DOMAIN db.totp, ResetSecondFactor(u) \/ CooldownEnds(u) PROVE FactorInv'
    BY <2>3, FactorReset
  <2> QED
    BY <1>3, <2>1, <2>2, <2>3 DEF SecondFactorNext
<1> QED
  BY <1>1, <1>2, <1>3 DEF Next

\* Winners, raised sessions and accepted codes are counted: W, R and S before a step, V, Q and T after it.
LEMMA Counted ==
  ASSUME NEW W, NEW R, NEW S, NEW V, NEW Q, NEW T, IsFiniteSet(W), IsFiniteSet(R), IsFiniteSet(S),
         Cardinality(R) + Cardinality(W) <= Cardinality(S),
         NEW p, NEW x,
         \/ V \subseteq W /\ Q \subseteq R /\ T = S
         \/ V \subseteq W \cup {p} /\ Q \subseteq R /\ x \notin S /\ T = S \cup {x}
         \/ p \in W /\ V \subseteq W \ {p} /\ Q \subseteq R \cup {x} /\ T = S
  PROVE  IsFiniteSet(T) /\ IsFiniteSet(Q) /\ Cardinality(Q) + Cardinality(V) <= Cardinality(T)
<1>1. Cardinality(W) \in Nat /\ Cardinality(R) \in Nat /\ Cardinality(S) \in Nat
  BY FS_CardinalityType
<1>2. \A A, B : IsFiniteSet(B) /\ A \subseteq B => /\ IsFiniteSet(A) /\ Cardinality(A) <= Cardinality(B)
                                                  /\ Cardinality(A) \in Nat /\ Cardinality(B) \in Nat
  BY FS_Subset, FS_CardinalityType
<1>3. CASE V \subseteq W /\ Q \subseteq R /\ T = S
  BY <1>1, <1>2, <1>3
<1>4. CASE V \subseteq W \cup {p} /\ Q \subseteq R /\ x \notin S /\ T = S \cup {x}
  <2>1. IsFiniteSet(T) /\ Cardinality(T) = Cardinality(S) + 1
    <3>1. IsFiniteSet(S \cup {x}) /\ Cardinality(S \cup {x}) = Cardinality(S) + 1
      BY <1>4, FS_AddElement
    <3> QED
      BY <1>4, <3>1
  <2>2. IsFiniteSet(W \cup {p}) /\ Cardinality(W \cup {p}) <= Cardinality(W) + 1
    <3>1. /\ IsFiniteSet(W \cup {p})
          /\ Cardinality(W \cup {p}) = Cardinality(W) \/ Cardinality(W \cup {p}) = Cardinality(W) + 1
      BY FS_AddElement
    <3> QED
      BY <1>1, <3>1
  <2>3. Cardinality(V) <= Cardinality(W \cup {p}) /\ Cardinality(V) \in Nat /\ Cardinality(W \cup {p}) \in Nat
    BY <1>2, <1>4, <2>2
  <2>4. IsFiniteSet(Q) /\ Cardinality(Q) <= Cardinality(R) /\ Cardinality(Q) \in Nat
    BY <1>2, <1>4
  <2> QED
    BY <1>1, <2>1, <2>2, <2>3, <2>4
<1>5. CASE p \in W /\ V \subseteq W \ {p} /\ Q \subseteq R \cup {x} /\ T = S
  <2>1. IsFiniteSet(W \ {p}) /\ Cardinality(W \ {p}) = Cardinality(W) - 1
    BY <1>5, FS_RemoveElement
  <2>2. Cardinality(V) <= Cardinality(W \ {p}) /\ Cardinality(V) \in Nat
    BY <1>2, <1>5, <2>1
  <2>3. IsFiniteSet(R \cup {x}) /\ Cardinality(R \cup {x}) <= Cardinality(R) + 1
    <3>1. /\ IsFiniteSet(R \cup {x})
          /\ Cardinality(R \cup {x}) = Cardinality(R) \/ Cardinality(R \cup {x}) = Cardinality(R) + 1
      BY FS_AddElement
    <3> QED
      BY <1>1, <3>1
  <2>4. IsFiniteSet(Q) /\ Cardinality(Q) <= Cardinality(R \cup {x}) /\ Cardinality(Q) \in Nat
        /\ Cardinality(R \cup {x}) \in Nat
    BY <1>2, <1>5, <2>3
  <2> QED
    BY <1>1, <1>5, <2>1, <2>2, <2>3, <2>4
<1> QED
  BY <1>3, <1>4, <1>5

\* What a step may do: nothing to the count, accept a new code for one call, or elevate a session for one that won.
CountKept == Winners' \subseteq Winners /\ Raised' \subseteq Raised /\ SecondFactors' = SecondFactors

CodeWon == \E p : /\ Winners' \subseteq Winners \cup {p} /\ Raised' \subseteq Raised
                  /\ \E x : x \notin SecondFactors /\ SecondFactors' = SecondFactors \cup {x}

WinnerRaises == \E p, s : /\ p \in Winners /\ Winners' \subseteq Winners \ {p} /\ Raised' \subseteq Raised \cup {s}
                          /\ SecondFactors' = SecondFactors

\* Each keeps the invariant.
LEMMA CountMoves == ASSUME CountInv, CountKept \/ CodeWon \/ WinnerRaises PROVE CountInv'
<1>1. IsFiniteSet(Winners)
  <2>1. IsFiniteSet(Slots) /\ Winners \subseteq Slots
    BY AuthAssumption DEF AuthAssumption, Winners
  <2> QED
    BY <2>1, FS_Subset
<1>2. /\ IsFiniteSet(SecondFactors) /\ IsFiniteSet(Raised)
      /\ Cardinality(Raised) + Cardinality(Winners) <= Cardinality(SecondFactors)
  BY DEF CountInv
<1> DEFINE W == Winners
           R == Raised
           S == SecondFactors
           V == Winners'
           Q == Raised'
           T == SecondFactors'
<1>3. PICK p, x : \/ V \subseteq W /\ Q \subseteq R /\ T = S
                  \/ V \subseteq W \cup {p} /\ Q \subseteq R /\ x \notin S /\ T = S \cup {x}
                  \/ p \in W /\ V \subseteq W \ {p} /\ Q \subseteq R \cup {x} /\ T = S
  <2>1. CASE CountKept
    BY <2>1 DEF CountKept
  <2>2. CASE CodeWon
    BY <2>2 DEF CodeWon
  <2>3. CASE WinnerRaises
    BY <2>3 DEF WinnerRaises
  <2> QED
    BY <2>1, <2>2, <2>3
<1>4. IsFiniteSet(T) /\ IsFiniteSet(Q) /\ Cardinality(Q) + Cardinality(V) <= Cardinality(T)
  <2>1. IsFiniteSet(W) /\ IsFiniteSet(R) /\ IsFiniteSet(S) /\ Cardinality(R) + Cardinality(W) <= Cardinality(S)
    BY <1>1, <1>2
  <2> HIDE DEF W, R, S, V, Q, T
  <2> QED
    BY <1>3, <2>1, Counted
<1> QED
  BY <1>4 DEF CountInv

\* A call stops or goes on to elevate its session.
LEMMA WinnersPut ==
  ASSUME ServiceInv, NEW p \in Slots, NEW c, Put(p, c)
  PROVE  /\ Winners' \subseteq Winners \cup {p}
         /\ c.pc \notin {"seal", "clear", "elevate"} => Winners' \subseteq Winners \ {p}
<1>1. \A q \in Slots : calls'[q] = IF q = p THEN c ELSE calls[q]
  BY DEF Put, ServiceInv, TypeOK
<1> QED
  BY <1>1 DEF Winners

\* The same by Goto.
LEMMA WinnersGoto ==
  ASSUME ServiceInv, NEW p \in Slots, NEW pc, Goto(p, pc)
  PROVE  /\ calls[p].pc \in {"seal", "clear", "elevate"} => Winners' \subseteq Winners
         /\ pc \notin {"seal", "clear", "elevate"} => Winners' \subseteq Winners
<1>1. /\ \A q \in Slots \ {p} : calls'[q] = calls[q]
      /\ calls'[p].pc = pc
  BY DEF Goto, ServiceInv, TypeOK, Call
<1> QED
  BY <1>1 DEF Winners

\* The operations of the port on enrolments write no session.
LEMMA SessionsApart ==
  ASSUME NEW d, WholeStore(d)
  PROVE  /\ \A u, x : PutTotpSecret(d, u, x).sessions = d.sessions
         /\ \A u, codes : ConfirmTotp(d, u, codes).sessions = d.sessions
         /\ \A u : RemoveTotp(d, u).sessions = d.sessions
         /\ \A u : RecordTotpFailure(d, u, LockoutThreshold).sessions = d.sessions
         /\ \A u : ResetTotpFailures(d, u).sessions = d.sessions
         /\ \A u, n : MarkTotpStepUsed(d, u, n).sessions = d.sessions
         /\ \A u, x : ReplaceTotpSecret(d, u, x).sessions = d.sessions
         /\ \A u : [d EXCEPT !.totp[u].locked = FALSE].sessions = d.sessions
  BY DEF WholeStore, Store, PutTotpSecret, ConfirmTotp, RemoveTotp, RecordTotpFailure, ResetTotpFailures,
         MarkTotpStepUsed, ReplaceTotpSecret

\* A step that writes no session and accepts nothing.
LEMMA CountAlone ==
  ASSUME UNCHANGED accepted, db'.sessions = db.sessions, Winners' \subseteq Winners PROVE CountKept
  BY DEF CountKept, Raised, SecondFactors

\* Accounts and identities do nothing to the count.
LEMMA OthersCount == ASSUME ServiceInv, AccountsNext \/ IdentitiesNext PROVE CountKept
<1>1. FactorKept(db, db') /\ CallsApart /\ FirstUse
  BY AccountsAside, IdentitiesAside, AccountsApart, IdentitiesApart, OthersFirst
<1>2. Raised' \subseteq Raised
  BY <1>1 DEF FactorKept, Raised
<1>3. Winners' \subseteq Winners
  <2>1. {"seal", "clear", "elevate"} \subseteq FactorPcs
    BY DEF FactorPcs, EnrolmentPcs, CodePcs
  <2> QED
    BY <1>1, <2>1 DEF CallsApart, Winners
<1>4. SecondFactors' = SecondFactors
  BY <1>1, IssuedIsNoCode DEF FirstUse, Spend, SecondFactors
<1> QED
  BY <1>2, <1>3, <1>4 DEF CountKept

\* An accepted code is counted.
LEMMA CodeCounts == ASSUME ServiceInv, NEW p \in Slots, CodeTaken(p) PROVE CountKept \/ CodeWon
<1>1. ASSUME UNCHANGED accepted, NEW pc \in {"failure", "reread"}, Goto(p, pc) PROVE CountKept
  <2>1. Winners' \subseteq Winners
    BY <1>1, WinnersGoto
  <2> QED
    BY <1>1, <2>1, CountAlone DEF CodeTaken
<1>2. ASSUME NEW x \in (TotpCodes \cup RecoveryCodes) \ accepted, Spend(x), Put(p, Accepted(calls[p])) PROVE CodeWon
  <2>1. x[1] \in {"totp", "recovery"}
    BY DEF TotpCodes, RecoveryCodes
  <2>2. x \notin SecondFactors /\ SecondFactors' = SecondFactors \cup {x}
    BY <1>2, <2>1 DEF SecondFactors, Spend
  <2>3. Winners' \subseteq Winners \cup {p}
    BY <1>2, WinnersPut
  <2>4. Raised' \subseteq Raised
    BY DEF CodeTaken, Raised
  <2> QED
    BY <2>2, <2>3, <2>4 DEF CodeWon
<1> QED
  BY <1>1, <1>2 DEF CodeTaken

\* A session is elevated by a call that won.
LEMMA ElevationCounts == ASSUME ServiceInv, NEW p \in Slots, Elevate(p) PROVE WinnerRaises
<1> DEFINE s == calls[p].sess
<1>1. /\ calls[p].pc = "elevate" /\ db' = ElevateSession(db, s) /\ Return(p) /\ UNCHANGED accepted
  BY DEF Elevate
<1>2. WholeStore(db) /\ s \in DOMAIN db.sessions
  BY <1>1, CodeKnown DEF CodePcs
<1>3. Raised' \subseteq Raised \cup {s}
  <2> HIDE DEF s
  <2>1. DOMAIN db'.sessions = DOMAIN db.sessions /\ \A t \in DOMAIN db.sessions \ {s} : db'.sessions[t] = db.sessions[t]
    BY <1>1, <1>2, SessionElevated
  <2> QED
    BY <2>1 DEF Raised
<1>4. p \in Winners /\ Winners' \subseteq Winners \ {p}
  BY <1>1, WinnersPut, BlankCall DEF Winners, Return
<1>5. SecondFactors' = SecondFactors
  BY <1>1 DEF SecondFactors
<1> QED
  BY <1>3, <1>4, <1>5 DEF WinnerRaises

\* The other steps of the second factor do nothing to it.
LEMMA FactorCounts ==
  ASSUME ServiceInv, NEW p \in Slots,
         \/ StoreSecret(p) \/ StoreConfirmation(p) \/ SpendConfirmingStep(p)
         \/ MatchRecoveryCode(p) \/ SelectCodes(p) \/ RereadCodes(p) \/ RecordFailure(p)
         \/ SealSecret(p) \/ ClearFailures(p) \/ RemoveEnrollment(p)
         \/ \E s \in DOMAIN db.sessions :
               \/ \E x \in Secrets : BeginEnrollment(p, s, x)
               \/ \E n \in Steps : ConfirmEnrollment(p, s, n)
               \/ \E code \in TotpCodes \cup RecoveryCodes, next \in {"elevate", "remove"} : PresentCode(p, s, code, next)
  PROVE  CountKept
<1>1. WholeStore(db) /\ calls \in [Slots -> Call] /\ calls[p] \in Call
  BY DEF ServiceInv, TypeOK
<1>2. Blank.pc \notin {"seal", "clear", "elevate"}
  BY BlankCall
<1>3. ASSUME StoreSecret(p) \/ SpendConfirmingStep(p) \/ RecordFailure(p) \/ RemoveEnrollment(p) PROVE CountKept
  <2>1. Winners' \subseteq Winners /\ UNCHANGED accepted
    BY <1>2, <1>3, WinnersPut DEF StoreSecret, SpendConfirmingStep, RecordFailure, RemoveEnrollment, Return
  <2>2. db'.sessions = db.sessions
    BY <1>1, <1>3, SessionsApart DEF StoreSecret, SpendConfirmingStep, RecordFailure, RemoveEnrollment
  <2> QED
    BY <2>1, <2>2, CountAlone
<1>4. ASSUME StoreConfirmation(p) \/ SealSecret(p) \/ ClearFailures(p) PROVE CountKept
  <2>1. Winners' \subseteq Winners /\ UNCHANGED accepted
    BY <1>4, WinnersGoto DEF StoreConfirmation, SealSecret, ClearFailures
  <2>2. db'.sessions = db.sessions
    BY <1>1, <1>4, SessionsApart DEF StoreConfirmation, SealSecret, ClearFailures
  <2> QED
    BY <2>1, <2>2, CountAlone
<1>5. ASSUME MatchRecoveryCode(p) PROVE CountKept
  <2>1. PICK pc \in {"select", "failure"} : Goto(p, pc)
    BY <1>5 DEF MatchRecoveryCode
  <2>2. Winners' \subseteq Winners
    BY <2>1, WinnersGoto
  <2> QED
    BY <1>5, <2>2, CountAlone DEF MatchRecoveryCode
<1>6. ASSUME UNCHANGED <<db, accepted>>, NEW c, Put(p, c), c.pc \notin {"seal", "clear", "elevate"} PROVE CountKept
  <2>1. Winners' \subseteq Winners
    BY <1>6, WinnersPut
  <2> QED
    BY <1>6, <2>1, CountAlone
<1>7. ASSUME SelectCodes(p) PROVE CountKept
  <2> DEFINE entry == <<calls[p].email[2], calls[p].email[3]>>
             codes == Row(calls[p].user).codes
             c == [calls[p] EXCEPT !.set = codes, !.pc = IF entry \in codes THEN "swap" ELSE "reread"]
  <2>1. Put(p, c) /\ UNCHANGED <<db, accepted>>
    BY <1>7 DEF SelectCodes
  <2>2. c.pc \notin {"seal", "clear", "elevate"}
    BY <1>1 DEF Call
  <2> HIDE DEF c
  <2> QED
    BY <1>6, <2>1, <2>2
<1>8. ASSUME RereadCodes(p) PROVE CountKept
  <2> DEFINE c == [calls[p] EXCEPT !.pc = "match", !.set = Row(calls[p].user).codes, !.tries = @ - 1]
  <2>1. Put(p, c) /\ UNCHANGED <<db, accepted>>
    BY <1>8 DEF RereadCodes
  <2>2. c.pc \notin {"seal", "clear", "elevate"}
    BY <1>1 DEF Call
  <2> HIDE DEF c
  <2> QED
    BY <1>6, <2>1, <2>2
<1>9. ASSUME NEW s \in DOMAIN db.sessions, NEW x \in Secrets, BeginEnrollment(p, s, x) PROVE CountKept
  <2> DEFINE c == [Blank EXCEPT !.pc = "putsecret", !.user = db.sessions[s].user, !.secret = x]
  <2>1. Put(p, c) /\ UNCHANGED <<db, accepted>> /\ c.pc = "putsecret"
    BY <1>9 DEF BeginEnrollment, Blank
  <2> HIDE DEF c
  <2> QED
    BY <1>6, <2>1
<1>10. ASSUME NEW s \in DOMAIN db.sessions, NEW n \in Steps, ConfirmEnrollment(p, s, n) PROVE CountKept
  <2> DEFINE u == db.sessions[s].user
             c == [Blank EXCEPT !.pc = "confirm", !.user = u, !.secret = Row(u).secret, !.arg = n]
  <2>1. Put(p, c) /\ UNCHANGED <<db, accepted>> /\ c.pc = "confirm"
    BY <1>10 DEF ConfirmEnrollment, Blank
  <2> HIDE DEF c
  <2> QED
    BY <1>6, <2>1
<1>11. ASSUME NEW s \in DOMAIN db.sessions, NEW code \in TotpCodes \cup RecoveryCodes,
              NEW next \in {"elevate", "remove"}, PresentCode(p, s, code, next)
       PROVE  CountKept
  <2> DEFINE u == db.sessions[s].user
             r == Row(u)
             call == [Blank EXCEPT !.user = u, !.sess = s, !.next = next, !.secret = r.secret,
                                   !.sealed = r.sealed, !.arg = code[3], !.set = r.codes]
             c == IF code[1] = "totp" THEN IF code[2] = r.secret THEN [call EXCEPT !.pc = "step"]
                                                                 ELSE [call EXCEPT !.pc = "failure"]
                  ELSE [call EXCEPT !.pc = "match", !.tries = MaxTries, !.email = code]
  <2>1. Put(p, c) /\ UNCHANGED <<db, accepted>>
    BY <1>11 DEF PresentCode
  <2>2. c.pc \in {"step", "failure", "match"}
    BY DEF Blank
  <2> HIDE DEF c
  <2> QED
    BY <1>6, <2>1, <2>2
<1> QED
  BY <1>3, <1>4, <1>5, <1>7, <1>8, <1>9, <1>10, <1>11

\* The count holds after every step.
LEMMA CountKeeps == ASSUME ServiceInv, FactorInv, CountInv, Next PROVE CountInv'
<1>1. CASE AccountsNext \/ IdentitiesNext
  BY <1>1, OthersCount, CountMoves
<1>2. CASE SecondFactorNext
  <2>1. ASSUME NEW u \in DOMAIN db.totp, ResetSecondFactor(u) \/ CooldownEnds(u) PROVE CountKept
    <3>1. WholeStore(db)
      BY DEF ServiceInv, TypeOK
    <3>2. UNCHANGED <<calls, accepted>>
      BY <2>1 DEF ResetSecondFactor, CooldownEnds
    <3>3. db'.sessions = db.sessions
      <4>1. RemoveTotp(db, u).sessions = db.sessions /\ [db EXCEPT !.totp[u].locked = FALSE].sessions = db.sessions
        BY <3>1, SessionsApart
      <4> QED
        BY <2>1, <4>1 DEF ResetSecondFactor, CooldownEnds
    <3> QED
      BY <3>2, <3>3, CountAlone DEF Winners
  <2>2. ASSUME NEW p \in Slots, ClaimStep(p) \/ SwapCodes(p) PROVE CountKept \/ CodeWon
    BY <2>2, StepTaken, RecoveryTaken, CodeCounts
  <2>3. ASSUME NEW p \in Slots, Elevate(p) PROVE WinnerRaises
    BY <2>3, ElevationCounts
  <2>4. ASSUME NEW p \in Slots,
               \/ StoreSecret(p) \/ StoreConfirmation(p) \/ SpendConfirmingStep(p)
               \/ MatchRecoveryCode(p) \/ SelectCodes(p) \/ RereadCodes(p) \/ RecordFailure(p)
               \/ SealSecret(p) \/ ClearFailures(p) \/ RemoveEnrollment(p)
               \/ \E s \in DOMAIN db.sessions :
                     \/ \E x \in Secrets : BeginEnrollment(p, s, x)
                     \/ \E n \in Steps : ConfirmEnrollment(p, s, n)
                     \/ \E c \in TotpCodes \cup RecoveryCodes, next \in {"elevate", "remove"} : PresentCode(p, s, c, next)
        PROVE  CountKept
    BY <2>4, FactorCounts
  <2>5. CountKept \/ CodeWon \/ WinnerRaises
    BY <1>2, <2>1, <2>2, <2>3, <2>4 DEF SecondFactorNext
  <2> QED
    BY <2>5, CountMoves
<1> QED
  BY <1>1, <1>2 DEF Next

\* Whatever a step accepts was not accepted before.
LEMMA AllFirst ==
  ASSUME ServiceInv, FactorInv, Next
  PROVE  UNCHANGED <<accepted, acceptances>> \/ \E x \in Credentials \ accepted : Spend(x)
<1>1. Issued \subseteq Credentials /\ TotpCodes \cup RecoveryCodes \subseteq Credentials
  BY DEF Issued, Credentials
<1>2. CASE AccountsNext \/ IdentitiesNext
  <2>1. FirstUse
    BY <1>2, OthersFirst
  <2> QED
    BY <1>1, <2>1 DEF FirstUse
<1>3. CASE SecondFactorNext
  <2>1. ASSUME NEW p \in Slots, ClaimStep(p) \/ SwapCodes(p)
        PROVE  UNCHANGED <<accepted, acceptances>> \/ \E x \in Credentials \ accepted : Spend(x)
    <3>1. CodeTaken(p)
      BY <2>1, StepTaken, RecoveryTaken
    <3> QED
      BY <1>1, <3>1 DEF CodeTaken
  <2>2. ASSUME NEW p \in Slots,
               \/ StoreSecret(p) \/ StoreConfirmation(p) \/ SpendConfirmingStep(p) \/ MatchRecoveryCode(p)
               \/ SelectCodes(p) \/ RereadCodes(p) \/ RecordFailure(p) \/ SealSecret(p) \/ ClearFailures(p)
               \/ Elevate(p) \/ RemoveEnrollment(p)
        PROVE  UNCHANGED <<accepted, acceptances>>
    BY <2>2 DEF StoreSecret, StoreConfirmation, SpendConfirmingStep, MatchRecoveryCode, SelectCodes, RereadCodes,
                RecordFailure, SealSecret, ClearFailures, Elevate, RemoveEnrollment
  <2>3. ASSUME NEW p, NEW s, NEW x, BeginEnrollment(p, s, x) \/ ConfirmEnrollment(p, s, x)
        PROVE  UNCHANGED <<accepted, acceptances>>
    BY <2>3 DEF BeginEnrollment, ConfirmEnrollment
  <2>4. ASSUME NEW p, NEW s, NEW c, NEW next, PresentCode(p, s, c, next) PROVE UNCHANGED <<accepted, acceptances>>
    BY <2>4 DEF PresentCode
  <2>5. ASSUME NEW u, ResetSecondFactor(u) \/ CooldownEnds(u) PROVE UNCHANGED <<accepted, acceptances>>
    BY <2>5 DEF ResetSecondFactor, CooldownEnds
  <2> QED
    BY <1>3, <2>1, <2>2, <2>3, <2>4, <2>5 DEF SecondFactorNext
<1> QED
  BY <1>2, <1>3 DEF Next

\* At the start nothing is accepted and nobody is raised.
LEMMA CodesInit == Init => FactorInv /\ CountInv
<1> SUFFICES ASSUME Init PROVE FactorInv /\ CountInv
  OBVIOUS
<1>1. AtRest(db)
  BY AuthAssumption DEF Init, AuthAssumption
<1>2. accepted = {} /\ \A p \in Slots : calls[p].pc = "idle"
  BY BlankCall DEF Init
<1>3. FactorInv
  <2>1. \A u \in DOMAIN db.totp : CodesSpent(db.totp[u], accepted)
    BY <1>1, <1>2 DEF AtRest, CodesSpent
  <2>2. \A u, v \in DOMAIN db.totp : db.totp[u].secret = db.totp[v].secret /\ u # v => db.totp[u].secret = 0
    BY <1>1 DEF AtRest
  <2>3. "idle" \notin EnrolmentPcs
    BY DEF EnrolmentPcs, CodePcs
  <2> QED
    BY <1>2, <2>1, <2>2, <2>3 DEF FactorInv
<1>4. CountInv
  <2>1. SecondFactors = {} /\ Winners = {}
    BY <1>2 DEF SecondFactors, Winners
  <2>2. Raised = {}
    BY <1>1 DEF Raised, AtRest
  <2> QED
    BY <2>1, <2>2, FS_EmptySet DEF CountInv
<1> QED
  BY <1>3, <1>4

\* Nothing changes for codes when nothing happens.
LEMMA CodesStutter == FactorInv /\ CountInv /\ UNCHANGED authVars => FactorInv' /\ CountInv'
<1> SUFFICES ASSUME FactorInv, CountInv, UNCHANGED authVars PROVE FactorInv' /\ CountInv'
  OBVIOUS
<1>1. UNCHANGED <<db, calls, accepted>>
  BY DEF authVars
<1>2. FactorInv'
  BY <1>1 DEF FactorInv
<1>3. CountInv'
  BY <1>1 DEF CountInv, Winners, Raised, SecondFactors
<1> QED
  BY <1>2, <1>3

\* While no enrolment is replaced under a call that presents its code, what FactorInv and CountInv say of
\* codes always holds.
THEOREM CodesHold == Spec /\ EnrolmentsLast => [](FactorInv /\ CountInv)
<1>1. Init => FactorInv /\ CountInv
  BY CodesInit
<1>2. Inv /\ (FactorInv /\ CountInv) /\ [Next]_authVars /\ [NotReplaced]_authVars => (FactorInv /\ CountInv)'
  <2> SUFFICES ASSUME Inv, FactorInv, CountInv, [Next]_authVars, [NotReplaced]_authVars PROVE FactorInv' /\ CountInv'
    OBVIOUS
  <2>1. CASE UNCHANGED authVars
    BY <2>1, CodesStutter
  <2>2. CASE Next /\ NotReplaced
    BY <2>2, FactorKeeps, CountKeeps DEF Inv
  <2> QED
    BY <2>1, <2>2
<1> QED
  BY <1>1, <1>2, InvHolds, PTL DEF Spec, EnrolmentsLast

\* A session that was signed out or revoked never works again, and each session raised to the second factor
\* took a code of its own, as long as no enrolment is replaced under a call that presents its code
\* (markTotpStepUsed, consumeRecoveryCode, elevateSession).
THEOREM SessionsHold == Spec /\ EnrolmentsLast => []SessionsAreEarned
<1>1. Inv /\ CountInv => SessionsAreEarned
  <2> SUFFICES ASSUME Inv, CountInv PROVE SessionsAreEarned
    OBVIOUS
  <2>1. IsFiniteSet(Winners)
    <3>1. IsFiniteSet(Slots) /\ Winners \subseteq Slots
      BY AuthAssumption DEF AuthAssumption, Winners
    <3> QED
      BY <3>1, FS_Subset
  <2>2. Cardinality(Winners) \in Nat /\ Cardinality(Raised) \in Nat /\ Cardinality(SecondFactors) \in Nat
    BY <2>1, FS_CardinalityType DEF CountInv
  <2>3. Cardinality(Raised) <= Cardinality(SecondFactors)
    BY <2>2 DEF CountInv
  <2>4. OneCodePerElevation
    BY <2>3 DEF OneCodePerElevation, Raised, SecondFactors
  <2>5. SignOutIsFinal
    BY DEF Inv, ServiceInv
  <2> QED
    BY <2>4, <2>5 DEF SessionsAreEarned
<1> QED
  BY <1>1, InvHolds, CodesHold, PTL

\* The service implements OnceOnly under the same rule: however calls interleave, fail and retry, no e-mailed
\* token, OAuth state, passkey challenge or assertion, TOTP step or recovery code is accepted twice
\* (consumeOneTimeToken, consumeOAuthState, consumePasskeyChallenge, updatePasskeyCounter, markTotpStepUsed,
\* consumeRecoveryCode).
THEOREM CodesOnce == Spec /\ EnrolmentsLast => AcceptsOnce
<1>1. Init => Once!Init
  BY DEF Init, Once!Init
<1>2. Inv /\ (FactorInv /\ CountInv) /\ [Next]_authVars => [Once!Next]_<<accepted, acceptances>>
  <2> SUFFICES ASSUME Inv, FactorInv, [Next]_authVars PROVE [Once!Next]_<<accepted, acceptances>>
    OBVIOUS
  <2>1. CASE UNCHANGED authVars
    BY <2>1 DEF authVars
  <2>2. CASE Next
    BY <2>2, AllFirst DEF Inv, Spend, Once!Next, Once!Accept
  <2> QED
    BY <2>1, <2>2
<1> QED
  BY <1>1, <1>2, InvHolds, CodesHold, PTL DEF Spec, AcceptsOnce, Once!Spec

=============================================================================
