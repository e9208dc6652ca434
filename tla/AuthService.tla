---------------------------- MODULE AuthService ----------------------------
(***************************************************************************)
(* makeAuth of packages/auth as a whole: accounts and external identities, *)
(* which the modules below this one model, and the second factor, over one *)
(* store, called concurrently.  A behaviour belongs to a scenario, which   *)
(* names the operations clients call in it and the store it starts from.   *)
(*                                                                         *)
(* The second factor (twofactor.ts): enrolment of a TOTP secret,           *)
(* verification that elevates a session, recovery codes, lockout, removal. *)
(* A time-based code is the pair of a secret and a step; any step may lie  *)
(* in the window at the time it is presented.  Recovery codes are          *)
(* <<list, n>>: every confirmation prints a list of its own.  Every call   *)
(* reads the user's row once and works on that copy; the store operations  *)
(* that follow find the row as it is by then.                              *)
(***************************************************************************)
EXTENDS ExternalIdentities

CONSTANTS Steps, MaxSecrets, LockoutThreshold, MaxTries,
          Scenarios   \* records [ops, start]

Row(u) == db.totp[u]

\* A code is <<"totp", secret, step>> or <<"recovery", list, n>>
Secrets == 1..MaxSecrets
TotpCodes == {<<"totp", x, s>> : x \in Secrets, s \in Steps}
RecoveryCodes == {<<"recovery", x, n>> : x \in Secrets, n \in {1, 2}}

\* generateTotpSecret: a secret nobody has held so far
FreshSecret(x) ==
    /\ \A q \in Slots : calls[q].secret /= x
    /\ \A u \in DOMAIN db.totp : db.totp[u].secret /= x
    /\ \A c \in accepted : c[1] \in {"totp", "recovery"} => c[2] /= x

\* beginEnrollment: refused while an enrolment is confirmed
BeginEnrollment(p, s, secret) ==
    /\ Free("enroll", p) /\ ValidSession(s) /\ ~Row(db.sessions[s].user).confirmed
    /\ FreshSecret(secret)
    /\ Put(p, [Blank EXCEPT !.pc = "putsecret", !.user = db.sessions[s].user, !.secret = secret])
    /\ UNCHANGED <<db, scenario, mailed, proven, accepted, acceptances, ended>>

\* putTotpSecret: an upsert, whatever the row has become since it was read, also under calls that
\* are about to claim a step of the enrolment it replaces
StoreSecret(p) ==
    /\ calls[p].pc = "putsecret"
    /\ db' = PutTotpSecret(db, calls[p].user, calls[p].secret)
    /\ Return(p)
    /\ UNCHANGED <<scenario, mailed, proven, accepted, acceptances, ended>>

\* confirmEnrollment, up to the comparison of the code with the pending secret
ConfirmEnrollment(p, s, step) ==
    /\ Free("enroll", p) /\ ValidSession(s)
    /\ LET u == db.sessions[s].user IN
       /\ Row(u).secret /= 0 /\ ~Row(u).confirmed
       /\ Put(p, [Blank EXCEPT !.pc = "confirm", !.user = u, !.secret = Row(u).secret, !.arg = step])
    /\ UNCHANGED <<db, scenario, mailed, proven, accepted, acceptances, ended>>

\* confirmTotp with a fresh list of recovery codes; its answer is not looked at
StoreConfirmation(p) ==
    /\ calls[p].pc = "confirm"
    /\ db' = ConfirmTotp(db, calls[p].user, {<<calls[p].secret, 1>>, <<calls[p].secret, 2>>})
    /\ Goto(p, "spendstep")
    /\ UNCHANGED <<scenario, mailed, proven, accepted, acceptances, ended>>

\* The confirming code is spent too, if nobody used that step meanwhile
SpendConfirmingStep(p) ==
    /\ calls[p].pc = "spendstep"
    /\ LET u == calls[p].user IN
       db' = IF StepIsNew(db, u, calls[p].arg) THEN MarkTotpStepUsed(db, u, calls[p].arg) ELSE db
    /\ Return(p)
    /\ UNCHANGED <<scenario, mailed, proven, accepted, acceptances, ended>>

-----------------------------------------------------------------------------
(* verify and unenroll share the check of the code                         *)

\* The row is read: confirmed and not locked; the code is compared with the secret on it.
\* next = "elevate" is verify, next = "remove" is unenroll
PresentCode(p, s, code, next) ==
    /\ Free(IF next = "elevate" THEN "verify" ELSE "unenroll", p) /\ ValidSession(s)
    /\ LET u == db.sessions[s].user
           r == Row(u)
           call == [Blank EXCEPT !.user = u, !.sess = s, !.next = next, !.secret = r.secret,
                                 !.sealed = r.sealed, !.arg = code[3], !.set = r.codes] IN
       /\ r.confirmed /\ ~r.locked
       /\ Put(p, IF code[1] = "totp" THEN IF code[2] = r.secret THEN [call EXCEPT !.pc = "step"]
                                                                 ELSE [call EXCEPT !.pc = "failure"]
                 ELSE [call EXCEPT !.pc = "match", !.tries = MaxTries, !.email = code])
    /\ UNCHANGED <<db, scenario, mailed, proven, accepted, acceptances, ended>>

\* What follows an accepted code
Accepted(call) == [call EXCEPT !.pc = IF call.next = "remove" THEN "remove" ELSE IF call.sealed THEN "clear" ELSE "seal"]

\* markTotpStepUsed claims the step; a step that is already used is a failure
ClaimStep(p) ==
    /\ calls[p].pc = "step"
    /\ LET u == calls[p].user IN
       IF StepIsNew(db, u, calls[p].arg)
       THEN /\ db' = MarkTotpStepUsed(db, u, calls[p].arg)
            /\ Spend(<<"totp", calls[p].secret, calls[p].arg>>) /\ Put(p, Accepted(calls[p]))
       ELSE UNCHANGED db /\ Unspent /\ Goto(p, "failure")
    /\ UNCHANGED <<scenario, mailed, proven, ended>>

\* recoveryEntryFor on the list that was read, at most MaxTries times
MatchRecoveryCode(p) ==
    /\ calls[p].pc = "match"
    /\ LET entry == <<calls[p].email[2], calls[p].email[3]>> IN
       Goto(p, IF calls[p].tries > 0 /\ entry \in calls[p].set THEN "select" ELSE "failure")
    /\ UNCHANGED <<db, scenario, mailed, proven, accepted, acceptances, ended>>

\* consumeRecoveryCode of the SQL stores: the list is selected ...
SelectCodes(p) ==
    /\ calls[p].pc = "select"
    /\ LET entry == <<calls[p].email[2], calls[p].email[3]>> IN
       Put(p, [calls[p] EXCEPT !.set = Row(calls[p].user).codes,
                               !.pc = IF entry \in Row(calls[p].user).codes THEN "swap" ELSE "reread"])
    /\ UNCHANGED <<db, scenario, mailed, proven, accepted, acceptances, ended>>

\* ... and written back without the entry, if it is still the list that was selected
SwapCodes(p) ==
    /\ calls[p].pc = "swap"
    /\ LET u == calls[p].user
           entry == <<calls[p].email[2], calls[p].email[3]>> IN
       IF CodesAreAsRead(db, u, calls[p].set)
       THEN /\ db' = SetRecoveryCodes(db, u, calls[p].set \ {entry})
            /\ Spend(calls[p].email) /\ Put(p, Accepted(calls[p]))
       ELSE UNCHANGED db /\ Unspent /\ Goto(p, "reread")
    /\ UNCHANGED <<scenario, mailed, proven, ended>>

\* A lost race is not a wrong code: the row is read again and the consumption retried
RereadCodes(p) ==
    /\ calls[p].pc = "reread"
    /\ Put(p, [calls[p] EXCEPT !.pc = "match", !.set = Row(calls[p].user).codes, !.tries = @ - 1])
    /\ UNCHANGED <<db, scenario, mailed, proven, accepted, acceptances, ended>>

\* recordTotpFailure; at the threshold the factor is locked
RecordFailure(p) ==
    /\ calls[p].pc = "failure"
    /\ db' = RecordTotpFailure(db, calls[p].user, LockoutThreshold)
    /\ Return(p)
    /\ UNCHANGED <<scenario, mailed, proven, accepted, acceptances, ended>>

\* sealLegacySecret: a secret stored in the clear is sealed in place
SealSecret(p) ==
    /\ calls[p].pc = "seal"
    /\ db' = ReplaceTotpSecret(db, calls[p].user, calls[p].secret)
    /\ Goto(p, "clear")
    /\ UNCHANGED <<scenario, mailed, proven, accepted, acceptances, ended>>

ClearFailures(p) ==
    /\ calls[p].pc = "clear"
    /\ db' = ResetTotpFailures(db, calls[p].user)
    /\ Goto(p, "elevate")
    /\ UNCHANGED <<scenario, mailed, proven, accepted, acceptances, ended>>

Elevate(p) ==
    /\ calls[p].pc = "elevate"
    /\ db' = ElevateSession(db, calls[p].sess)
    /\ Return(p)
    /\ UNCHANGED <<scenario, mailed, proven, accepted, acceptances, ended>>

RemoveEnrollment(p) ==
    /\ calls[p].pc = "remove"
    /\ db' = RemoveTotp(db, calls[p].user)
    /\ Return(p)
    /\ UNCHANGED <<scenario, mailed, proven, accepted, acceptances, ended>>

\* resetSecondFactor: the operator's break-glass; and the end of a lockout
ResetSecondFactor(u) ==
    /\ "operator" \in scenario.ops /\ Row(u).secret /= 0
    /\ db' = RemoveTotp(db, u)
    /\ UNCHANGED <<calls, scenario, mailed, proven, accepted, acceptances, ended>>

CooldownEnds(u) ==
    /\ Row(u).locked
    /\ db' = [db EXCEPT !.totp[u].locked = FALSE]
    /\ UNCHANGED <<calls, scenario, mailed, proven, accepted, acceptances, ended>>

SecondFactorNext ==
    \/ \E p \in Slots :
          \/ StoreSecret(p) \/ StoreConfirmation(p) \/ SpendConfirmingStep(p) \/ ClaimStep(p)
          \/ MatchRecoveryCode(p) \/ SelectCodes(p) \/ SwapCodes(p) \/ RereadCodes(p) \/ RecordFailure(p)
          \/ SealSecret(p) \/ ClearFailures(p) \/ Elevate(p) \/ RemoveEnrollment(p)
          \/ \E s \in DOMAIN db.sessions :
                \/ \E x \in Secrets : BeginEnrollment(p, s, x)
                \/ \E n \in Steps : ConfirmEnrollment(p, s, n)
                \/ \E c \in TotpCodes \cup RecoveryCodes, next \in {"elevate", "remove"} : PresentCode(p, s, c, next)
    \/ \E u \in DOMAIN db.totp : ResetSecondFactor(u) \/ CooldownEnds(u)

-----------------------------------------------------------------------------
(* The service                                                             *)

\* A store at rest: one account per address and subject, rows of existing users, nothing issued that
\* waits to be used, an enrolment's secret and codes its own.  A passkey registered before has id 0.
AtRest(d) ==
    /\ d \in Store /\ Len(d.passwords) = Len(d.users) /\ Len(d.totp) = Len(d.users)
    /\ d.tokens = <<>> /\ d.states = <<>> /\ d.challenges = <<>>
    /\ \A u, v \in DOMAIN d.users : d.users[u].email = d.users[v].email /\ u /= v => d.users[u].email = NoEmail
    /\ \A i \in d.identities : i[2] \in DOMAIN d.users /\ \A j \in d.identities : i[1] = j[1] => i = j
    /\ \A k, l \in d.passkeys : k.id = 0 /\ k.user \in DOMAIN d.users /\ k = l
    /\ \A s \in DOMAIN d.sessions :
          d.sessions[s].user \in DOMAIN d.users /\ ~(d.sessions[s].pending /\ d.sessions[s].elevated)
    /\ \A u \in DOMAIN d.totp :
          /\ d.totp[u].secret \in {0} \cup Secrets /\ d.totp[u].codes \subseteq {d.totp[u].secret} \X {1, 2}
          /\ d.totp[u].secret = 0 => ~d.totp[u].confirmed
          /\ ~d.totp[u].confirmed => d.totp[u].codes = {}
          /\ \A v \in DOMAIN d.totp : d.totp[u].secret = d.totp[v].secret /\ u /= v => d.totp[u].secret = 0

ASSUME AuthAssumption ==
    /\ MaxTries \in Nat /\ LockoutThreshold \in Nat \ {0} /\ MaxSecrets \in Nat /\ Steps \subseteq Nat
    /\ Passwords \subseteq Nat /\ Counters \subseteq Nat
    /\ MaxTokens \in Nat /\ MaxStates \in Nat /\ MaxChallenges \in Nat
    /\ IsFiniteSet(Slots)
    /\ \A s \in Scenarios : AtRest(s.start)

Init ==
    /\ scenario \in Scenarios
    /\ db = scenario.start
    /\ calls = [p \in Slots |-> Blank]
    /\ mailed = {} /\ accepted = {} /\ acceptances = 0 /\ ended = {}
    /\ proven = {scenario.start.users[u].email : u \in DOMAIN scenario.start.users}

Next == AccountsNext \/ IdentitiesNext \/ SecondFactorNext

Spec == Init /\ [][Next]_authVars

-----------------------------------------------------------------------------
(* Properties                                                              *)

Credentials ==
    ({"mail"} \X (1..MaxTokens)) \cup ({"state"} \X (1..MaxStates)) \cup ({"challenge"} \X (1..MaxChallenges))
    \cup ({"assertion"} \X (0..MaxChallenges) \X Counters) \cup TotpCodes \cup RecoveryCodes

Once == INSTANCE OnceOnly WITH Credentials <- Credentials, spent <- accepted, count <- acceptances

\* The service implements OnceOnly: however calls interleave, fail and retry, no e-mailed token,
\* OAuth state, passkey challenge or assertion, TOTP step or recovery code is accepted twice.
AcceptsOnce == Once!Spec

\* A user whose address counts as verified (setEmailVerified, createMagicLinkUser, createOAuthUser)
\* has that very address proven by a token mailed to it or by the provider.
VerifiedByProof ==
    \A u \in DOMAIN db.users : db.users[u].verified => db.users[u].email \in proven \cup {NoEmail}

\* Registrations, magic links and provider callbacks that race leave one account per address and
\* one owner per provider subject.
AccountsAreWhole ==
    /\ \A u, v \in DOMAIN db.users : db.users[u].email = db.users[v].email /\ u /= v => db.users[u].email = NoEmail
    /\ \A i, j \in db.identities : i[1] = j[1] => i = j

\* A session that was signed out, or revoked with a password replacement, is never valid again,
\* also when a verify call that had read it is still on its way.
SignOutIsFinal == \A s \in ended : ~db.sessions[s].live

\* Sessions that began pending (the user was enrolled) and are elevated now: each took an accepted
\* second-factor code of its own.
OneCodePerElevation ==
    LET second == {c \in accepted : c[1] \in {"totp", "recovery"}}
        raised == {s \in DOMAIN db.sessions : db.sessions[s].pending /\ db.sessions[s].elevated} IN
    Cardinality(raised) <= Cardinality(second)

\* Registrations, mailed links and provider callbacks that race leave one account per address and one
\* owner per provider subject, and an address counts as verified only if its owner proved control of
\* it (auth service.ts).
AccountsAreSound == VerifiedByProof /\ AccountsAreWhole

\* A session that was signed out or revoked never works again, and each session raised to the second
\* factor took a code of its own, whatever verification was under way (service.ts, twofactor.ts).
SessionsAreEarned == SignOutIsFinal /\ OneCodePerElevation
=============================================================================
