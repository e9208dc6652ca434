------------------------- MODULE ExternalIdentities -------------------------
(***************************************************************************)
(* Sign-in with an OAuth or OIDC provider and with passkeys (packages/auth,*)
(* service.ts, oauth.ts, oidc.ts and webauthn.ts).  The provider and the   *)
(* authenticator are outside: a profile is any the provider may assert,    *)
(* an assertion any that a registered authenticator may sign.              *)
(***************************************************************************)
EXTENDS Accounts

CONSTANTS MaxStates, MaxChallenges, Counters,
          Linking,       \* AccountLinkPolicy: may an identity be linked to an existing account
          Provisioning   \* IdentityProvisioning: may an unknown identity create one

\* beginOAuth: a state, with the PKCE verifier and the redirect bound to it
BeginOAuth ==
    /\ "oauth" \in scenario.ops /\ Len(db.states) < MaxStates
    /\ db' = PutOAuthState(db)
    /\ UNCHANGED <<calls, scenario, mailed, proven, accepted, acceptances, ended>>

\* exchangeOAuthCode and validateOAuthProfile answer with a profile: <<subject, address, whether the
\* provider vouches for the address>>
Profiles == {f \in Subjects \X (Emails \cup {NoEmail}) \X BOOLEAN : f[2] = NoEmail => ~f[3]}

\* Mutant: whether the provider vouches for the address is not looked at.
AnyAddress(profile) == profile[2]

\* The address finds, verifies and names an account only when it is vouched for
VouchedAddress(profile) == IF profile[3] THEN profile[2] ELSE NoEmail

\* completeOAuth: the state is consumed first, so a callback that fails later cannot be repeated.
\* s is the session of the browser, 0 without one
CompleteOAuth(p, n, profile, s) ==
    /\ Free("oauth", p) /\ db.states[n]
    /\ db' = ConsumeOAuthState(db, n)
    /\ Spend(<<"state", n>>)
    /\ proven' = IF profile[3] THEN proven \cup {profile[2]} ELSE proven
    /\ Put(p, [Blank EXCEPT !.pc = "identity", !.purpose = profile[1], !.email = VouchedAddress(profile), !.sess = s])
    /\ UNCHANGED <<scenario, mailed, ended>>

\* findOAuthIdentity, and the session that asked: a known identity signs its owner in, unless
\* somebody else is signed in
FindIdentity(p) ==
    /\ calls[p].pc = "identity"
    /\ LET owners == OwnersOf(db, calls[p].purpose)
           s == calls[p].sess
           asker == IF s = 0 THEN 0 ELSE db.sessions[s].user IN
       IF s /= 0 /\ ~ValidSession(s) THEN Return(p)
       ELSE \/ owners = {} /\ Put(p, [calls[p] EXCEPT !.pc = "target", !.user = asker])
            \/ \E u \in owners : IF asker \in {0, u} THEN Put(p, [calls[p] EXCEPT !.pc = "session", !.user = u])
                                                     ELSE Return(p)
    /\ UNCHANGED <<db, scenario, mailed, proven, accepted, acceptances, ended>>

\* An unknown identity: linked to the signed-in user, else to the owner of the address, if the
\* policy allows; without either, provisioned
FindTarget(p) ==
    /\ calls[p].pc = "target"
    /\ LET matched == UserByEmail(db, calls[p].email)
           target == IF calls[p].user /= 0 THEN {calls[p].user} ELSE matched IN
       \/ target = {} /\ IF Provisioning THEN Goto(p, "newuser") ELSE Return(p)
       \/ \E u \in target : IF Linking THEN Put(p, [calls[p] EXCEPT !.pc = "link", !.user = u]) ELSE Return(p)
    /\ UNCHANGED <<db, scenario, mailed, proven, accepted, acceptances, ended>>

\* A vouched-for address verifies the account only when it is the account's own
VouchesFor(u, e) == ~db.users[u].verified /\ e /= NoEmail /\ db.users[u].email = e

\* addOAuthIdentity, an IdentityConflict when somebody linked the subject meanwhile
LinkIdentity(p) ==
    /\ calls[p].pc = "link"
    /\ LET u == calls[p].user IN
       IF OwnersOf(db, calls[p].purpose) /= {} THEN UNCHANGED db /\ Return(p)
       ELSE /\ db' = AddOAuthIdentity(db, u, calls[p].purpose)
            /\ Put(p, [calls[p] EXCEPT !.next = "session",
                                            !.pc = IF VouchesFor(u, calls[p].email) THEN "verify" ELSE "session"])
    /\ UNCHANGED <<scenario, mailed, proven, accepted, acceptances, ended>>

\* createOAuthUser: address and subject must both be free
ProvisionUser(p) ==
    /\ calls[p].pc = "newuser" /\ Len(db.users) < MaxUsers
    /\ IF EmailIsFree(db, calls[p].email) /\ OwnersOf(db, calls[p].purpose) = {}
       THEN /\ db' = CreateOAuthUser(db, calls[p].email, calls[p].purpose)
            /\ Put(p, [calls[p] EXCEPT !.pc = "session", !.user = Len(db.users) + 1])
       ELSE UNCHANGED db /\ Return(p)
    /\ UNCHANGED <<scenario, mailed, proven, accepted, acceptances, ended>>

\* unlinkOAuthIdentity: the session is checked, then the rows go
UnlinkOAuthIdentity(p, s) ==
    /\ Free("unlink", p) /\ ElevatedSession(s)
    /\ Put(p, [Blank EXCEPT !.pc = "unlink", !.user = db.sessions[s].user])
    /\ UNCHANGED <<db, scenario, mailed, proven, accepted, acceptances, ended>>

Unlink(p) ==
    /\ calls[p].pc = "unlink"
    /\ db' = RemoveOAuthIdentity(db, calls[p].user)
    /\ Return(p)
    /\ UNCHANGED <<scenario, mailed, proven, accepted, acceptances, ended>>

-----------------------------------------------------------------------------
(* Passkeys                                                                *)

\* beginPasskeyRegistration: needs an elevated session, the challenge is bound to its user
BeginPasskeyRegistration(s) ==
    /\ "passkeys" \in scenario.ops /\ ElevatedSession(s) /\ Len(db.challenges) < MaxChallenges
    /\ db' = PutPasskeyChallenge(db, "registration", db.sessions[s].user)
    /\ UNCHANGED <<calls, scenario, mailed, proven, accepted, acceptances, ended>>

\* finishPasskeyRegistration: the session again, then the challenge; the credential id is fresh
FinishPasskeyRegistration(p, s, c, counter) ==
    /\ Free("passkeys", p) /\ ElevatedSession(s)
    /\ db.challenges[c].live /\ db.challenges[c].purpose = "registration"
    /\ db' = ConsumePasskeyChallenge(db, c)
    /\ Spend(<<"challenge", c>>)
    /\ IF db.challenges[c].user = db.sessions[s].user
       THEN Put(p, [Blank EXCEPT !.pc = "addkey", !.user = db.sessions[s].user, !.arg = c, !.secret = counter])
       ELSE UNCHANGED calls
    /\ UNCHANGED <<scenario, mailed, proven, ended>>

StorePasskey(p) ==
    /\ calls[p].pc = "addkey"
    /\ db' = AddPasskey(db, calls[p].arg, calls[p].user, calls[p].secret)
    /\ Return(p)
    /\ UNCHANGED <<scenario, mailed, proven, accepted, acceptances, ended>>

\* beginPasskeyAuthentication: for an address, or for whoever holds a discoverable key (0)
BeginPasskeyAuthentication(u) ==
    /\ "passkeys" \in scenario.ops /\ Len(db.challenges) < MaxChallenges
    /\ db' = PutPasskeyChallenge(db, "authentication", u)
    /\ UNCHANGED <<calls, scenario, mailed, proven, accepted, acceptances, ended>>

\* verifyPasskeyAuthentication: a counter that ever moved must move on
CounterIncreases(stored, counter) == stored > 0 => counter > stored

\* finishPasskeyAuthentication: the challenge is consumed, then the passkey is read and the
\* signature and its counter are checked against that copy
FinishPasskeyAuthentication(p, c, id, counter) ==
    /\ Free("passkeys", p) /\ db.challenges[c].live /\ db.challenges[c].purpose = "authentication"
    /\ db' = ConsumePasskeyChallenge(db, c)
    /\ Spend(<<"challenge", c>>)
    /\ Put(p, [Blank EXCEPT !.pc = "readkey", !.user = db.challenges[c].user, !.arg = id, !.secret = counter])
    /\ UNCHANGED <<scenario, mailed, proven, ended>>

ReadPasskey(p) ==
    /\ calls[p].pc = "readkey"
    /\ LET found == {k \in db.passkeys : k.id = calls[p].arg /\ calls[p].user \in {0, k.user}
                                         /\ CounterIncreases(k.counter, calls[p].secret)} IN
       \/ found = {} /\ Return(p)
       \/ \E k \in found : Put(p, [calls[p] EXCEPT !.pc = "counter", !.user = k.user, !.tries = k.counter])
    /\ UNCHANGED <<db, scenario, mailed, proven, accepted, acceptances, ended>>

\* updatePasskeyCounter, an IdentityConflict when the counter is no longer the one that was read
MoveCounter(p) ==
    /\ calls[p].pc = "counter"
    /\ IF CounterMoves(db, calls[p].arg, calls[p].tries)
       THEN /\ db' = UpdatePasskeyCounter(db, calls[p].arg, calls[p].secret)
            /\ IF calls[p].secret > 0 THEN Spend(<<"assertion", calls[p].arg, calls[p].secret>>) ELSE Unspent
            /\ Put(p, [Blank EXCEPT !.pc = "session", !.user = calls[p].user])
       ELSE UNCHANGED db /\ Unspent /\ Return(p)
    /\ UNCHANGED <<scenario, mailed, proven, ended>>

\* removePasskey, of one's own; renamePasskey changes a label only
RemoveOwnPasskey(p, s, id) ==
    /\ Free("passkeys", p) /\ ElevatedSession(s)
    /\ Put(p, [Blank EXCEPT !.pc = "dropkey", !.user = db.sessions[s].user, !.arg = id])
    /\ UNCHANGED <<db, scenario, mailed, proven, accepted, acceptances, ended>>

DropPasskey(p) ==
    /\ calls[p].pc = "dropkey"
    /\ db' = RemovePasskey(db, calls[p].arg, calls[p].user)
    /\ Return(p)
    /\ UNCHANGED <<scenario, mailed, proven, accepted, acceptances, ended>>

IdentitiesNext ==
    \/ BeginOAuth
    \/ \E p \in Slots :
          \/ FindIdentity(p) \/ FindTarget(p) \/ LinkIdentity(p) \/ ProvisionUser(p) \/ Unlink(p)
          \/ StorePasskey(p) \/ ReadPasskey(p) \/ MoveCounter(p) \/ DropPasskey(p)
          \/ \E n \in DOMAIN db.states, f \in Profiles, s \in {0} \cup DOMAIN db.sessions : CompleteOAuth(p, n, f, s)
          \/ \E s \in DOMAIN db.sessions :
                \/ UnlinkOAuthIdentity(p, s)
                \/ \E k \in db.passkeys : RemoveOwnPasskey(p, s, k.id)
                \/ \E c \in DOMAIN db.challenges, n \in Counters : FinishPasskeyRegistration(p, s, c, n)
          \/ \E c \in DOMAIN db.challenges, k \in db.passkeys, n \in Counters :
                FinishPasskeyAuthentication(p, c, k.id, n)
    \/ \E s \in DOMAIN db.sessions : BeginPasskeyRegistration(s)
    \/ \E u \in {0} \cup DOMAIN db.users : BeginPasskeyAuthentication(u)
=============================================================================
