------------------------------ MODULE Accounts ------------------------------
(***************************************************************************)
(* Passwords, e-mail tokens, magic links and sessions of makeAuth          *)
(* (packages/auth, service.ts).  A call is a sequence of store operations; *)
(* other calls run between any two of them.  `calls[p].pc` names the store *)
(* operation the call in slot p performs next.  What a call read stays in  *)
(* its record: the code works on that copy.                                *)
(*                                                                         *)
(* A refusal that changes nothing (validation, rate limits, a wrong        *)
(* password) ends the call where it stands and is no action of its own;    *)
(* Fail ends a call between two operations.                                *)
(***************************************************************************)
EXTENDS AuthStore

CONSTANTS Slots, Passwords,
          MaxUsers, MaxTokens, MaxSessions   \* bounds on what is created

Blank == [pc |-> "idle", next |-> "idle", user |-> 0, email |-> NoEmail, purpose |-> "", sess |-> 0,
          arg |-> 0, set |-> {}, secret |-> 0, sealed |-> TRUE, tries |-> 0, flag |-> FALSE]

\* A call of operation op may start in slot p
Free(op, p) == op \in scenario.ops /\ calls[p] = Blank

Put(p, call) == calls' = [calls EXCEPT ![p] = call]
Goto(p, pc) == calls' = [calls EXCEPT ![p].pc = pc]
Return(p) == Put(p, Blank)

\* A single-use credential is accepted
Spend(c) == accepted' = accepted \cup {c} /\ acceptances' = acceptances + 1
Unspent == UNCHANGED <<accepted, acceptances>>

\* resolveSession and requireElevatedSession: the row must be there; and elevated
ValidSession(s) == db.sessions[s].live
ElevatedSession(s) == db.sessions[s].live /\ db.sessions[s].elevated

-----------------------------------------------------------------------------
(* createSession: every sign-in ends with it.  Whether the user is         *)
(* enrolled is read first, the row is inserted afterwards.                 *)

ReadEnrolled(p) ==
    /\ calls[p].pc = "session"
    /\ Put(p, [calls[p] EXCEPT !.pc = "insert", !.flag = db.totp[calls[p].user].confirmed])
    /\ UNCHANGED <<db, scenario, mailed, proven, accepted, acceptances, ended>>

CreateSession(p) ==
    /\ calls[p].pc = "insert" /\ Len(db.sessions) < MaxSessions
    /\ db' = InsertSession(db, calls[p].user, calls[p].flag)
    /\ Return(p)
    /\ UNCHANGED <<scenario, mailed, proven, accepted, acceptances, ended>>

-----------------------------------------------------------------------------
(* issueEmailToken: the row is stored, then the mail is sent               *)

PutToken(p) ==
    /\ calls[p].pc = "token" /\ Len(db.tokens) < MaxTokens
    /\ db' = PutOneTimeToken(db, calls[p].purpose, calls[p].email, calls[p].user)
    /\ Put(p, [calls[p] EXCEPT !.pc = "send", !.arg = Len(db.tokens) + 1])
    /\ UNCHANGED <<scenario, mailed, proven, accepted, acceptances, ended>>

SendToken(p) ==
    /\ calls[p].pc = "send"
    /\ mailed' = mailed \cup {calls[p].arg}
    /\ Return(p)
    /\ UNCHANGED <<db, scenario, proven, accepted, acceptances, ended>>

Issue(p, purpose, e, u) == Put(p, [Blank EXCEPT !.pc = "token", !.purpose = purpose, !.email = e, !.user = u])

\* A token that reached a mailbox, for this purpose, not used, replaced or expired
TokenWorks(t, purpose) == t \in mailed /\ db.tokens[t].live /\ db.tokens[t].purpose = purpose

\* consumeToken: whoever presents it read the mailbox of its address
ConsumeToken(p, t, call) ==
    /\ db' = ConsumeOneTimeToken(db, t)
    /\ Spend(<<"mail", t>>)
    /\ proven' = proven \cup {db.tokens[t].email}
    /\ Put(p, call)
    /\ UNCHANGED <<scenario, mailed, ended>>

-----------------------------------------------------------------------------
(* Registration and verification of the address                            *)

\* registerPassword: a taken address is an IdentityConflict; otherwise the mail goes out
RegisterPassword(p, e, password) ==
    /\ Free("register", p) /\ Len(db.users) < MaxUsers /\ EmailIsFree(db, e)
    /\ db' = CreatePasswordUser(db, e, password)
    /\ Issue(p, "email-verification", e, Len(db.users) + 1)
    /\ UNCHANGED <<scenario, mailed, proven, accepted, acceptances, ended>>

RequestEmailVerification(p, u) ==
    /\ Free("mail", p) /\ ~db.users[u].verified /\ db.users[u].email /= NoEmail
    /\ Issue(p, "email-verification", db.users[u].email, u)
    /\ UNCHANGED <<db, scenario, mailed, proven, accepted, acceptances, ended>>

VerifyEmail(p, t) ==
    /\ Free("mail", p) /\ TokenWorks(t, "email-verification")
    /\ ConsumeToken(p, t, [Blank EXCEPT !.pc = "verify", !.user = db.tokens[t].user])

\* setEmailVerified; a magic link or a linked identity goes on to its session
SetVerified(p) ==
    /\ calls[p].pc = "verify"
    /\ db' = SetEmailVerified(db, calls[p].user)
    /\ IF calls[p].next = "idle" THEN Return(p) ELSE Goto(p, calls[p].next)
    /\ UNCHANGED <<scenario, mailed, proven, accepted, acceptances, ended>>

-----------------------------------------------------------------------------
(* Passwords                                                               *)

\* signInPassword: the credential is read and compared, then the user is read
SignInPassword(p, u, password) ==
    /\ Free("signin", p) /\ db.passwords[u] /= 0 /\ db.passwords[u] = password
    /\ Put(p, [Blank EXCEPT !.pc = "user", !.user = u])
    /\ UNCHANGED <<db, scenario, mailed, proven, accepted, acceptances, ended>>

\* EmailNotVerified ends the call
CheckVerified(p) ==
    /\ calls[p].pc = "user"
    /\ IF db.users[calls[p].user].verified THEN Goto(p, "session") ELSE Return(p)
    /\ UNCHANGED <<db, scenario, mailed, proven, accepted, acceptances, ended>>

RequestPasswordReset(p, u) ==
    /\ Free("reset", p) /\ db.passwords[u] /= 0
    /\ Issue(p, "password-reset", db.users[u].email, u)
    /\ UNCHANGED <<db, scenario, mailed, proven, accepted, acceptances, ended>>

ResetPassword(p, t, password) ==
    /\ Free("reset", p) /\ TokenWorks(t, "password-reset")
    /\ ConsumeToken(p, t, [Blank EXCEPT !.pc = "replace", !.user = db.tokens[t].user, !.arg = password])

\* changePassword: an elevated session, then the current password
ChangePassword(p, s, current, password) ==
    /\ Free("change", p) /\ ElevatedSession(s)
    /\ Put(p, [Blank EXCEPT !.pc = "current", !.user = db.sessions[s].user, !.sess = current, !.arg = password])
    /\ UNCHANGED <<db, scenario, mailed, proven, accepted, acceptances, ended>>

CheckCurrent(p) ==
    /\ calls[p].pc = "current"
    /\ LET u == calls[p].user IN
       IF db.passwords[u] /= 0 /\ db.passwords[u] = calls[p].sess THEN Goto(p, "replace") ELSE Return(p)
    /\ UNCHANGED <<db, scenario, mailed, proven, accepted, acceptances, ended>>

SessionsOf(u) == {s \in DOMAIN db.sessions : db.sessions[s].user = u /\ db.sessions[s].live}

ReplaceAndRevoke(p) ==
    /\ calls[p].pc = "replace"
    /\ db' = ReplacePassword(db, calls[p].user, calls[p].arg)
    /\ ended' = ended \cup SessionsOf(calls[p].user)
    /\ Goto(p, "session")
    /\ UNCHANGED <<scenario, mailed, proven, accepted, acceptances>>

-----------------------------------------------------------------------------
(* Magic links                                                             *)

\* requestMagicLink: a link goes out for an unknown address too
RequestMagicLink(p, e) ==
    /\ Free("magic", p)
    /\ Issue(p, "magic-link", e, IF EmailIsFree(db, e) THEN 0 ELSE CHOOSE u \in UserByEmail(db, e) : TRUE)
    /\ UNCHANGED <<db, scenario, mailed, proven, accepted, acceptances, ended>>

ConsumeMagicLink(p, t) ==
    /\ Free("magic", p) /\ TokenWorks(t, "magic-link")
    /\ ConsumeToken(p, t, [Blank EXCEPT !.pc = "find", !.email = db.tokens[t].email, !.next = "session"])

\* findUserByEmail: nobody, somebody whose address this link verifies, or a verified user
MagicFind(p) ==
    /\ calls[p].pc = "find"
    /\ LET found == UserByEmail(db, calls[p].email) IN
       \/ found = {} /\ Goto(p, "create")
       \/ \E u \in found : Put(p, [calls[p] EXCEPT !.user = u,
                                     !.pc = IF db.users[u].verified THEN "session" ELSE "verify"])
    /\ UNCHANGED <<db, scenario, mailed, proven, accepted, acceptances, ended>>

\* createMagicLinkUser: on an IdentityConflict the user that won is looked up
MagicCreate(p) ==
    /\ calls[p].pc = "create" /\ Len(db.users) < MaxUsers
    /\ IF EmailIsFree(db, calls[p].email)
       THEN /\ db' = CreateMagicLinkUser(db, calls[p].email)
            /\ Put(p, [calls[p] EXCEPT !.pc = "session", !.user = Len(db.users) + 1])
       ELSE UNCHANGED db /\ Goto(p, "find")
    /\ UNCHANGED <<scenario, mailed, proven, accepted, acceptances, ended>>

-----------------------------------------------------------------------------
(* Ends of sessions, failures, time                                        *)

SignOut(s) ==
    /\ "signout" \in scenario.ops /\ db.sessions[s].live
    /\ db' = RevokeSession(db, s) /\ ended' = ended \cup {s}
    /\ UNCHANGED <<calls, scenario, mailed, proven, accepted, acceptances>>

RevokeAllSessions(u) ==
    /\ "signout" \in scenario.ops /\ SessionsOf(u) /= {}
    /\ db' = RevokeUserSessions(db, u) /\ ended' = ended \cup SessionsOf(u)
    /\ UNCHANGED <<calls, scenario, mailed, proven, accepted, acceptances>>

\* A store, mail or crypto operation fails, or the process dies
Fail(p) ==
    /\ "fail" \in scenario.ops /\ calls[p] /= Blank
    /\ Return(p)
    /\ UNCHANGED <<db, scenario, mailed, proven, accepted, acceptances, ended>>

Expire ==
    /\ "expire" \in scenario.ops
    /\ \/ \E t \in DOMAIN db.tokens : db.tokens[t].live /\ db' = ConsumeOneTimeToken(db, t)
       \/ \E s \in DOMAIN db.sessions : db.sessions[s].live /\ db' = RevokeSession(db, s)
    /\ UNCHANGED <<calls, scenario, mailed, proven, accepted, acceptances, ended>>

AccountsNext ==
    \/ \E p \in Slots :
          \/ ReadEnrolled(p) \/ CreateSession(p) \/ PutToken(p) \/ SendToken(p) \/ SetVerified(p)
          \/ CheckVerified(p) \/ CheckCurrent(p) \/ ReplaceAndRevoke(p) \/ MagicFind(p) \/ MagicCreate(p)
          \/ Fail(p)
          \/ \E e \in Emails : RequestMagicLink(p, e) \/ \E w \in Passwords : RegisterPassword(p, e, w)
          \/ \E u \in DOMAIN db.users : \/ RequestEmailVerification(p, u) \/ RequestPasswordReset(p, u)
                                        \/ \E w \in Passwords : SignInPassword(p, u, w)
          \/ \E t \in DOMAIN db.tokens : \/ VerifyEmail(p, t) \/ ConsumeMagicLink(p, t)
                                         \/ \E w \in Passwords : ResetPassword(p, t, w)
          \/ \E s \in DOMAIN db.sessions, v, w \in Passwords : ChangePassword(p, s, v, w)
    \/ \E s \in DOMAIN db.sessions : SignOut(s)
    \/ \E u \in DOMAIN db.users : RevokeAllSessions(u)
    \/ Expire
=============================================================================
