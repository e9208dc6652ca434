--------------------------- MODULE PlatformProofs ----------------------------
(***************************************************************************)
(* The edges of the platform for every number of users, tabs, sessions and *)
(* routes: the slots of one browser and the compiled route table.  And     *)
(* deployments, for all builds, runners, finalizers and calls: migrations  *)
(* run once and in order, and a process that exits clean has drained.  And *)
(* the streams of gRPC: what the client hears is what the server said.     *)
(* And mail: discreet on the wire and honest about what was sent.          *)
(***************************************************************************)
EXTENDS BrowserSessions, Lifecycle, GrpcStreams, Mailer, SequenceTheorems, TLAPS

-----------------------------------------------------------------------------
\* Sessions in a browser.

SlotNames == Users \cup {Usual}
BrowserSession == [user : Users, live : BOOLEAN, cookie : SlotNames]
BrowserRequest ==
    [stage : {"none", "resolved", "answered"}, route : RouteIds \cup {None}, slot : SlotNames \cup {None},
     usual : Nat \cup {None}, token : Nat \cup {None}, acted : Users \cup {None},
     cookie : {<<>>} \cup {<<t>> : t \in Nat \cup {None}}, status : Nat]

\* A session that was opened is there, for the same user under the same cookie, and a dead one is dead.
SessionsGrew(s, s2) ==
    \A t \in DOMAIN s : t \in DOMAIN s2 /\ s2[t].user = s[t].user /\ s2[t].cookie = s[t].cookie /\ (s2[t].live => s[t].live)

\* What a request carries and what its answer tells, given the sessions.
TokenOK(q, s) ==
    q.token # None => /\ q.token \in DOMAIN s
                      /\ q.slot \in Users /\ s[q.token].live => s[q.token].user = q.slot
ActedOK(q, s) ==
    /\ q.slot \in Users => q.acted \in {None, q.slot}
    /\ q.slot = Usual /\ q.acted # None => q.usual \in DOMAIN s /\ q.acted = s[q.usual].user
CookieOK(q, s) ==
    /\ q.cookie # <<>> => q.slot # None
    /\ \A t : q.cookie = <<t>> /\ t # None => t \in DOMAIN s /\ s[t].cookie = q.slot
RequestOK(q, s) ==
    /\ q \in BrowserRequest
    /\ q.stage = "none" => q = NoRequest
    /\ q.stage = "resolved" => /\ q.slot # None /\ q.acted = None /\ q.cookie = <<>> /\ q.status = 0
                               /\ q.slot = Usual => q.usual = q.token
    /\ TokenOK(q, s) /\ ActedOK(q, s) /\ CookieOK(q, s)
    /\ q.status \in {400, 401, 403} => q.acted = None /\ q.cookie = <<>>

BrowserInv ==
    /\ sessions \in Seq(BrowserSession)
    /\ jar \in [SlotNames -> Nat \cup {None}]
    /\ \A name \in SlotNames : jar[name] # None => jar[name] \in DOMAIN sessions /\ sessions[jar[name]].cookie = name
    /\ underway \in [Requests -> BrowserRequest]
    /\ \A r \in Requests : RequestOK(underway[r], sessions)
    /\ \E overrides \in Overrides : routes = CompileRoutes(overrides)

LEMMA RequestGrows ==
  ASSUME NEW q, NEW s \in Seq(BrowserSession), NEW s2 \in Seq(BrowserSession), SessionsGrew(s, s2), RequestOK(q, s)
  PROVE  RequestOK(q, s2)
<1>1. TokenOK(q, s2)
  BY DEF RequestOK, TokenOK, SessionsGrew
<1>2. ActedOK(q, s2)
  BY DEF RequestOK, ActedOK, SessionsGrew
<1>3. CookieOK(q, s2)
  BY DEF RequestOK, CookieOK, SessionsGrew
<1> QED
  BY <1>1, <1>2, <1>3 DEF RequestOK

\* Sessions are opened and revoked, never given to another user or cookie.
LEMMA OpenedGrows ==
  ASSUME NEW s \in Seq(BrowserSession), NEW e \in BrowserSession
  PROVE  /\ Append(s, e) \in Seq(BrowserSession) /\ SessionsGrew(s, Append(s, e))
         /\ Len(s) + 1 \in DOMAIN Append(s, e) /\ Append(s, e)[Len(s) + 1] = e
<1>1. DOMAIN s = 1..Len(s) /\ Len(s) \in Nat
  BY LenProperties
<1>2. /\ Append(s, e) \in Seq(BrowserSession) /\ DOMAIN Append(s, e) = 1..(Len(s) + 1)
      /\ \A i \in 1..Len(s) : Append(s, e)[i] = s[i]
      /\ Append(s, e)[Len(s) + 1] = e
  BY <1>1, AppendProperties, LenProperties
<1> QED
  BY <1>1, <1>2 DEF SessionsGrew

LEMMA RevokedGrows ==
  ASSUME sessions \in Seq(BrowserSession), NEW which
  PROVE  Revoked(which) \in Seq(BrowserSession) /\ SessionsGrew(sessions, Revoked(which))
<1>1. DOMAIN sessions = 1..Len(sessions) /\ Len(sessions) \in Nat /\ \A t \in 1..Len(sessions) : sessions[t] \in BrowserSession
  BY LenProperties, ElementOfSeq
<1>2. Revoked(which) \in [1..Len(sessions) -> BrowserSession]
  BY <1>1 DEF Revoked, BrowserSession
<1>3. Revoked(which) \in Seq(BrowserSession)
  BY <1>1, <1>2, SeqDef
<1>4. \A t \in DOMAIN sessions : /\ t \in DOMAIN Revoked(which) /\ Revoked(which)[t].user = sessions[t].user
                                 /\ Revoked(which)[t].cookie = sessions[t].cookie
                                 /\ (Revoked(which)[t].live => sessions[t].live)
  BY <1>1 DEF Revoked, BrowserSession
<1> QED
  BY <1>3, <1>4 DEF SessionsGrew

\* A step that changes one request and lets sessions grow keeps the invariant.
LEMMA BrowserStepKeeps ==
  ASSUME BrowserInv, NEW r \in Requests, NEW q, underway' = [underway EXCEPT ![r] = q],
         sessions' \in Seq(BrowserSession), SessionsGrew(sessions, sessions'), RequestOK(q, sessions'),
         UNCHANGED << routes, jar >>
  PROVE  BrowserInv'
<1>1. underway' \in [Requests -> BrowserRequest] /\ q \in BrowserRequest
  BY DEF BrowserInv, RequestOK
<1>2. ASSUME NEW p \in Requests, NEW x, x = underway'[p] PROVE RequestOK(x, sessions')
  <2>1. CASE p = r
    BY <1>2, <2>1 DEF BrowserInv
  <2>2. CASE p # r
    <3>1. x = underway[p] /\ RequestOK(x, sessions)
      BY <1>2, <2>2 DEF BrowserInv
    <3> QED
      BY <3>1, RequestGrows DEF BrowserInv
  <2> QED
    BY <2>1, <2>2
<1>3. \A name \in SlotNames : jar[name] # None => jar[name] \in DOMAIN sessions' /\ sessions'[jar[name]].cookie = name
  BY DEF BrowserInv, SessionsGrew
<1>4. (\A p \in Requests : RequestOK(underway[p], sessions))'
  BY <1>2
<1>5. (\E overrides \in Overrides : routes = CompileRoutes(overrides))'
  BY DEF BrowserInv
<1> QED
  BY <1>1, <1>3, <1>4, <1>5 DEF BrowserInv

LEMMA SlotIsANameOrInvalid ==
  ASSUME NEW method, NEW header, NEW query \in SUBSET Users
  PROVE  RequestedSlot(method, header, query) \in SlotNames \cup {Invalid}
<1> DEFINE queried == IF method = "GET" THEN query ELSE {}
           named == (IF header = None THEN {} ELSE {header}) \cup queried
<1>1. ASSUME named # {}, named \ Users = {}
      PROVE  (CHOOSE s \in named : TRUE) \in SlotNames
  BY <1>1 DEF SlotNames
<1> QED
  BY <1>1 DEF RequestedSlot, SlotNames

LEMMA SlotsAreNamesOrInvalid == ASSUME NEW method PROVE RequestedSlots(method) \subseteq SlotNames \cup {Invalid}
BY SlotIsANameOrInvalid DEF RequestedSlots

LEMMA NoRequestIsOK == ASSUME NEW s PROVE RequestOK(NoRequest, s)
<1>1. NoRequest \in BrowserRequest
  BY DEF BrowserRequest, NoRequest, SlotNames
<1>2. /\ NoRequest.stage = "none" /\ NoRequest.token = None /\ NoRequest.slot = None
      /\ NoRequest.acted = None /\ NoRequest.cookie = <<>>
  BY DEF NoRequest
<1>3. TokenOK(NoRequest, s) /\ ActedOK(NoRequest, s) /\ CookieOK(NoRequest, s)
  BY <1>2, BrowserAssumption DEF TokenOK, ActedOK, CookieOK
<1> QED
  BY <1>1, <1>2, <1>3 DEF RequestOK

\* An answer keeps what the request tells of the caller and the cookie, and forgets the token.
Answered(q, status) == [q EXCEPT !.stage = "answered", !.status = status, !.route = None, !.token = None]

LEMMA AnswerIsOK ==
  ASSUME NEW q \in BrowserRequest, NEW status \in Nat, NEW s, ActedOK(q, s), CookieOK(q, s),
         status \in {400, 401, 403} => q.acted = None /\ q.cookie = <<>>
  PROVE  RequestOK(Answered(q, status), s)
<1> DEFINE x == Answered(q, status)
<1>1. /\ x.stage = "answered" /\ x.status = status /\ x.token = None
      /\ x.slot = q.slot /\ x.acted = q.acted /\ x.cookie = q.cookie /\ x.usual = q.usual
  BY DEF Answered, BrowserRequest
<1>2. x \in BrowserRequest
  BY DEF Answered, BrowserRequest
<1> HIDE DEF x
<1>3. TokenOK(x, s) /\ ActedOK(x, s) /\ CookieOK(x, s)
  BY <1>1 DEF TokenOK, ActedOK, CookieOK
<1>4. RequestOK(x, s)
  BY <1>1, <1>2, <1>3 DEF RequestOK
<1> QED
  BY <1>4 DEF x

LEMMA BrowserStart == BrowserInit => BrowserInv
<1> SUFFICES ASSUME BrowserInit PROVE BrowserInv
  OBVIOUS
<1>1. sessions = <<>> /\ sessions \in Seq(BrowserSession)
  BY DEF BrowserInit
<1>2. jar \in [SlotNames -> Nat \cup {None}] /\ \A name \in SlotNames : jar[name] = None
  BY DEF BrowserInit, SlotNames
<1>3. \A r \in Requests : underway[r] = NoRequest /\ RequestOK(underway[r], sessions)
  BY NoRequestIsOK DEF BrowserInit
<1>4. underway \in [Requests -> BrowserRequest]
  BY <1>3 DEF BrowserInit, RequestOK
<1> QED
  BY <1>1, <1>2, <1>3, <1>4 DEF BrowserInv, BrowserInit

\* A request enters with the cookie of its slot.
LEMMA ArriveStep == ASSUME BrowserInv, NEW r \in Requests, Arrive(r) PROVE BrowserInv'
<1>1. UNCHANGED << routes, jar, sessions >> /\ sessions' \in Seq(BrowserSession) /\ SessionsGrew(sessions, sessions')
  BY DEF Arrive, BrowserInv, SessionsGrew
<1>2. PICK id \in {"signInPassword", "signOut", "getSession", "changePassword", "oauthCallback", "passkeyRegisterVerify"} :
       \E slot \in RequestedSlots(routes[id].method), origin \in BOOLEAN :
           IF (routes[id].method = "POST" /\ ~origin) \/ slot = Invalid THEN Reply(r, NoRequest, 400)
           ELSE Set(r, Resolved(id, slot))
  BY DEF Arrive
<1>3. PICK slot \in SlotNames \cup {Invalid} : Reply(r, NoRequest, 400) \/ (slot # Invalid /\ Set(r, Resolved(id, slot)))
  BY <1>2, SlotsAreNamesOrInvalid
<1>6. id \in RouteIds
  BY DEF RouteIds, RouteSuffixes
<1>4. CASE Reply(r, NoRequest, 400)
  <2>1. NoRequest \in BrowserRequest /\ ActedOK(NoRequest, sessions) /\ CookieOK(NoRequest, sessions)
    BY NoRequestIsOK DEF RequestOK
  <2>2. NoRequest.acted = None /\ NoRequest.cookie = <<>>
    BY DEF NoRequest
  <2>3. RequestOK(Answered(NoRequest, 400), sessions)
    BY <2>1, <2>2, AnswerIsOK
  <2>4. underway' = [underway EXCEPT ![r] = Answered(NoRequest, 400)]
    BY <1>4 DEF Reply, Set, Answered
  <2> QED
    BY <1>1, <2>3, <2>4, BrowserStepKeeps
<1>5. CASE slot # Invalid /\ Set(r, Resolved(id, slot))
  <2> DEFINE q == Resolved(id, slot)
  <2>1. slot \in SlotNames /\ jar[slot] \in Nat \cup {None} /\ jar[Usual] \in Nat \cup {None}
    BY <1>3, <1>5 DEF BrowserInv, SlotNames
  <2>2. /\ q.stage = "resolved" /\ q.route = id /\ q.slot = slot
        /\ q.usual = IF slot = Usual THEN jar[Usual] ELSE None
        /\ q.token = SessionToken(slot, jar[slot])
        /\ q.acted = None /\ q.cookie = <<>> /\ q.status = 0
    BY DEF Resolved, Presented
  <2>3. /\ q.token \in {None, jar[slot]}
        /\ slot = Usual => q.token = jar[Usual]
        /\ slot # Usual /\ q.token # None /\ Live(q.token) => sessions[q.token].user = slot
    BY <2>2 DEF SessionToken
  <2>4. q.token \in Nat \cup {None} /\ q.usual \in Nat \cup {None}
    BY <2>1, <2>2, <2>3
  <2>5. q \in BrowserRequest
    BY <1>6, <2>1, <2>2, <2>4 DEF Resolved, BrowserRequest
  <2> HIDE DEF q
  <2>6. TokenOK(q, sessions)
    BY <2>1, <2>2, <2>3, BrowserAssumption DEF TokenOK, BrowserInv, Live, SlotNames
  <2>7. ActedOK(q, sessions) /\ CookieOK(q, sessions)
    BY <2>2 DEF ActedOK, CookieOK
  <2>8. RequestOK(q, sessions)
    BY <2>1, <2>2, <2>3, <2>5, <2>6, <2>7, BrowserAssumption DEF RequestOK, SlotNames
  <2>9. underway' = [underway EXCEPT ![r] = q]
    BY <1>5 DEF Set, q
  <2> QED
    BY <1>1, <2>8, <2>9, BrowserStepKeeps
<1> QED
  BY <1>3, <1>4, <1>5

\* What a route finds: a request that was resolved.
LEMMA ResolvedIs ==
  ASSUME BrowserInv, NEW r \in Requests, NEW route, At(r, route)
  PROVE  /\ RequestOK(underway[r], sessions) /\ underway[r] \in BrowserRequest /\ underway[r].stage = "resolved"
         /\ underway[r].slot \in SlotNames /\ underway[r].acted = None /\ underway[r].cookie = <<>>
         /\ underway[r].status = 0
         /\ underway[r].slot = Usual => underway[r].usual = underway[r].token
         /\ UNCHANGED << routes, jar >>
BY DEF BrowserInv, At, RequestOK, BrowserRequest

\* Whoever holds the session of a request is the user of its slot, or of the usual cookie it sent.
LEMMA HolderIsKnown ==
  ASSUME BrowserInv, NEW q, RequestOK(q, sessions), q.stage = "resolved"
  PROVE  /\ Holder(q) \in Users \cup {None} /\ (q.slot \in Users => Holder(q) \in {None, q.slot})
         /\ q.slot = Usual /\ Holder(q) # None => q.usual \in DOMAIN sessions /\ Holder(q) = sessions[q.usual].user
<1>1. CASE Live(q.token)
  <2>1. q.token \in DOMAIN sessions /\ sessions[q.token].live /\ Holder(q) = sessions[q.token].user
    BY <1>1 DEF Live, Holder
  <2>2. sessions[q.token] \in BrowserSession
    BY <2>1, ElementOfSeq, LenProperties DEF BrowserInv
  <2>3. q.token # None
    BY <2>1, LenProperties, BrowserAssumption DEF BrowserInv
  <2> QED
    BY <2>1, <2>2, <2>3 DEF RequestOK, TokenOK, BrowserSession
<1>2. CASE ~Live(q.token)
  BY <1>2 DEF Holder
<1> QED
  BY <1>1, <1>2

\* A route that changes no session.
LEMMA RepliedKeeps ==
  ASSUME BrowserInv, NEW r \in Requests, NEW q \in BrowserRequest, NEW status \in Nat, Reply(r, q, status),
         sessions' \in Seq(BrowserSession), SessionsGrew(sessions, sessions'), UNCHANGED << routes, jar >>,
         ActedOK(q, sessions'), CookieOK(q, sessions'),
         status \in {400, 401, 403} => q.acted = None /\ q.cookie = <<>>
  PROVE  BrowserInv'
<1>1. RequestOK(Answered(q, status), sessions')
  BY AnswerIsOK
<1>2. underway' = [underway EXCEPT ![r] = Answered(q, status)]
  BY DEF Reply, Set, Answered
<1> QED
  BY <1>1, <1>2, BrowserStepKeeps

LEMMA ActingForIs ==
  ASSUME BrowserInv, NEW r \in Requests, RequestOK(underway[r], sessions), underway[r].stage = "resolved"
  PROVE  /\ ActingFor(r) \in BrowserRequest /\ ActingFor(r).acted = Holder(underway[r])
         /\ ActingFor(r).cookie = <<>> /\ ActingFor(r).slot = underway[r].slot
         /\ ActingFor(r).usual = underway[r].usual
         /\ ActedOK(ActingFor(r), sessions) /\ CookieOK(ActingFor(r), sessions)
<1> DEFINE q == underway[r]
<1>1. q \in BrowserRequest /\ q.cookie = <<>>
  BY DEF RequestOK
<1>2. /\ Holder(q) \in Users \cup {None} /\ (q.slot \in Users => Holder(q) \in {None, q.slot})
      /\ q.slot = Usual /\ Holder(q) # None => q.usual \in DOMAIN sessions /\ Holder(q) = sessions[q.usual].user
  BY HolderIsKnown
<1>3. /\ ActingFor(r) \in BrowserRequest /\ ActingFor(r).acted = Holder(q) /\ ActingFor(r).cookie = <<>>
      /\ ActingFor(r).slot = q.slot /\ ActingFor(r).usual = q.usual
  BY <1>1, <1>2 DEF ActingFor, BrowserRequest
<1>4. ActedOK(ActingFor(r), sessions) /\ CookieOK(ActingFor(r), sessions)
  BY <1>2, <1>3 DEF ActedOK, CookieOK
<1> QED
  BY <1>3, <1>4

LEMMA SessionsStay == ASSUME BrowserInv, UNCHANGED sessions PROVE sessions' \in Seq(BrowserSession) /\ SessionsGrew(sessions, sessions')
BY DEF BrowserInv, SessionsGrew

LEMMA GetSessionStep == ASSUME BrowserInv, NEW r \in Requests, GetSession(r) PROVE BrowserInv'
<1>1. At(r, "getSession") /\ UNCHANGED sessions
  BY DEF GetSession
<1>2. PICK status \in {200, 401} : /\ Reply(r, ActingFor(r), status)
                                   /\ status = 401 => Holder(underway[r]) = None
  BY DEF GetSession
<1>3. /\ ActingFor(r) \in BrowserRequest /\ ActingFor(r).acted = Holder(underway[r]) /\ ActingFor(r).cookie = <<>>
      /\ ActedOK(ActingFor(r), sessions) /\ CookieOK(ActingFor(r), sessions)
      /\ UNCHANGED << routes, jar >>
  BY <1>1, ResolvedIs, ActingForIs
<1>4. status \in Nat /\ status \in {400, 401, 403} => status = 401
  OBVIOUS
<1> QED
  BY <1>1, <1>2, <1>3, <1>4, SessionsStay, RepliedKeeps

LEMMA RegisterPasskeyStep == ASSUME BrowserInv, NEW r \in Requests, RegisterPasskey(r) PROVE BrowserInv'
<1>1. At(r, "passkeyRegisterVerify") /\ UNCHANGED sessions
  BY DEF RegisterPasskey
<1>2. PICK status \in {200, 401} : /\ Reply(r, ActingFor(r), status)
                                   /\ status = 401 => Holder(underway[r]) = None
  BY DEF RegisterPasskey
<1>3. /\ ActingFor(r) \in BrowserRequest /\ ActingFor(r).acted = Holder(underway[r]) /\ ActingFor(r).cookie = <<>>
      /\ ActedOK(ActingFor(r), sessions) /\ CookieOK(ActingFor(r), sessions)
      /\ UNCHANGED << routes, jar >>
  BY <1>1, ResolvedIs, ActingForIs
<1>4. status \in Nat /\ (status \in {400, 401, 403} => status = 401)
  OBVIOUS
<1> QED
  BY <1>1, <1>2, <1>3, <1>4, SessionsStay, RepliedKeeps

LEMMA SignOutStep == ASSUME BrowserInv, NEW r \in Requests, SignOut(r) PROVE BrowserInv'
<1> DEFINE q == [ActingFor(r) EXCEPT !.cookie = <<None>>]
<1>1. At(r, "signOut") /\ sessions' = Revoked({underway[r].token}) /\ Reply(r, q, 200)
  BY DEF SignOut
<1>2. /\ ActingFor(r) \in BrowserRequest
      /\ ActedOK(ActingFor(r), sessions) /\ ActingFor(r).slot \in SlotNames
      /\ UNCHANGED << routes, jar >>
  BY <1>1, ResolvedIs, ActingForIs
<1>3. sessions' \in Seq(BrowserSession) /\ SessionsGrew(sessions, sessions')
  BY <1>1, RevokedGrows DEF BrowserInv
<1>4. /\ q \in BrowserRequest /\ q.cookie = <<None>> /\ q.slot \in SlotNames
      /\ q.slot = ActingFor(r).slot /\ q.acted = ActingFor(r).acted /\ q.usual = ActingFor(r).usual
  BY <1>2 DEF BrowserRequest
<1> HIDE DEF q
<1>5. ActedOK(q, sessions')
  BY <1>2, <1>3, <1>4 DEF ActedOK, SessionsGrew
<1>6. CookieOK(q, sessions')
  BY <1>4, BrowserAssumption DEF CookieOK, SlotNames
<1>7. 200 \in Nat /\ 200 \notin {400, 401, 403}
  OBVIOUS
<1>8. Reply(r, q, 200)
  BY <1>1
<1>9. q \in BrowserRequest /\ UNCHANGED << routes, jar >>
  BY <1>2, <1>4
<1> QED
  BY ONLY BrowserInv, r \in Requests, <1>3, <1>5, <1>6, <1>7, <1>8, <1>9, RepliedKeeps

\* A session is opened under the cookie of the slot that was named.
LEMMA OpenKeeps ==
  ASSUME BrowserInv, NEW r \in Requests, NEW q \in BrowserRequest, NEW user \in Users, NEW kept \in Seq(BrowserSession),
         q.slot \in SlotNames, SessionsGrew(sessions, kept), ActedOK(q, sessions), Open(r, q, user, kept),
         UNCHANGED << routes, jar >>
  PROVE  BrowserInv'
<1> DEFINE e == [user |-> user, live |-> TRUE, cookie |-> q.slot]
           x == [q EXCEPT !.cookie = <<Len(kept) + 1>>]
<1>1. e \in BrowserSession /\ sessions' = Append(kept, e) /\ Reply(r, x, 200) /\ e.cookie = q.slot
  BY DEF Open, BrowserSession
<1> HIDE DEF e
<1>2. /\ sessions' \in Seq(BrowserSession) /\ SessionsGrew(kept, sessions')
      /\ Len(kept) + 1 \in DOMAIN sessions' /\ sessions'[Len(kept) + 1] = e
  BY <1>1, OpenedGrows
<1>3. SessionsGrew(sessions, sessions')
  BY <1>2 DEF SessionsGrew
<1>4. Len(kept) + 1 \in Nat
  BY LenProperties
<1>5. /\ x \in BrowserRequest /\ x.cookie = <<Len(kept) + 1>> /\ x.slot = q.slot
      /\ x.acted = q.acted /\ x.usual = q.usual
  BY <1>4 DEF BrowserRequest
<1> HIDE DEF x
<1>6. ActedOK(x, sessions')
  BY <1>3, <1>5 DEF ActedOK, SessionsGrew
<1>7. CookieOK(x, sessions')
  BY <1>1, <1>2, <1>5, BrowserAssumption DEF CookieOK, SlotNames
<1>8. 200 \in Nat /\ 200 \notin {400, 401, 403}
  OBVIOUS
<1> QED
  BY <1>1, <1>2, <1>3, <1>5, <1>6, <1>7, <1>8, RepliedKeeps

LEMMA SessionsGrewItself == SessionsGrew(sessions, sessions)
BY DEF SessionsGrew

LEMMA SignInStep == ASSUME BrowserInv, NEW r \in Requests, SignIn(r) PROVE BrowserInv'
<1>1. At(r, "signInPassword")
  BY DEF SignIn
<1>2. PICK user \in Users : Open(r, underway[r], user, sessions)
  BY DEF SignIn
<1>3. /\ underway[r] \in BrowserRequest /\ underway[r].slot \in SlotNames /\ UNCHANGED << routes, jar >>
      /\ RequestOK(underway[r], sessions)
  BY <1>1, ResolvedIs
<1>4. ActedOK(underway[r], sessions) /\ sessions \in Seq(BrowserSession)
  BY <1>3 DEF RequestOK, BrowserInv
<1> QED
  BY <1>2, <1>3, <1>4, SessionsGrewItself, OpenKeeps

\* A request that a route refuses without acting.
LEMMA RefusedKeeps ==
  ASSUME BrowserInv, NEW r \in Requests, NEW route, At(r, route), NEW status \in {401, 403},
         Reply(r, underway[r], status), UNCHANGED sessions
  PROVE  BrowserInv'
<1>1. /\ underway[r] \in BrowserRequest /\ underway[r].acted = None /\ underway[r].cookie = <<>>
      /\ RequestOK(underway[r], sessions) /\ UNCHANGED << routes, jar >>
  BY ResolvedIs
<1>2. ActedOK(underway[r], sessions) /\ CookieOK(underway[r], sessions)
  BY <1>1 DEF RequestOK
<1>3. ActedOK(underway[r], sessions') /\ CookieOK(underway[r], sessions')
  BY <1>2
<1>4. status \in Nat
  OBVIOUS
<1> QED
  BY <1>1, <1>3, <1>4, SessionsStay, RepliedKeeps

LEMMA ChangePasswordStep == ASSUME BrowserInv, NEW r \in Requests, ChangePassword(r) PROVE BrowserInv'
<1> DEFINE user == Holder(underway[r])
           ended == {t \in DOMAIN sessions : sessions[t].user = user}
<1>1. At(r, "changePassword")
  BY DEF ChangePassword
<1>2. /\ RequestOK(underway[r], sessions) /\ underway[r].stage = "resolved"
      /\ underway[r].slot \in SlotNames /\ UNCHANGED << routes, jar >>
  BY <1>1, ResolvedIs
<1>3. CASE user = None
  BY <1>1, <1>3, RefusedKeeps DEF ChangePassword
<1>4. CASE user # None
  <2>1. user \in Users /\ Open(r, ActingFor(r), user, Revoked(ended))
    BY <1>2, <1>4, HolderIsKnown DEF ChangePassword
  <2> HIDE DEF ended, user
  <2>2. /\ ActingFor(r) \in BrowserRequest /\ ActingFor(r).slot \in SlotNames
        /\ ActedOK(ActingFor(r), sessions)
    BY <1>2, ActingForIs
  <2>3. Revoked(ended) \in Seq(BrowserSession) /\ SessionsGrew(sessions, Revoked(ended))
    BY RevokedGrows DEF BrowserInv
  <2> QED
    BY <1>2, <2>1, <2>2, <2>3, OpenKeeps
<1> QED
  BY <1>3, <1>4

LEMMA OauthCallbackStep == ASSUME BrowserInv, NEW r \in Requests, OauthCallback(r) PROVE BrowserInv'
<1>1. At(r, "oauthCallback")
  BY DEF OauthCallback
<1>2. PICK user \in Users :
          \/ Reply(r, underway[r], 401) /\ UNCHANGED sessions
          \/ Reply(r, underway[r], 403) /\ UNCHANGED sessions
          \/ Open(r, ActingFor(r), user, sessions)
  BY DEF OauthCallback
<1>3. CASE Open(r, ActingFor(r), user, sessions)
  <2>1. /\ ActingFor(r) \in BrowserRequest /\ ActingFor(r).slot \in SlotNames
        /\ ActedOK(ActingFor(r), sessions) /\ UNCHANGED << routes, jar >> /\ sessions \in Seq(BrowserSession)
    BY <1>1, ResolvedIs, ActingForIs DEF BrowserInv
  <2> QED
    BY <1>3, <2>1, SessionsGrewItself, OpenKeeps
<1> QED
  BY <1>1, <1>2, <1>3, RefusedKeeps

\* An answer arrives: the cookie of its slot holds a session that was opened under that name.
LEMMA ReceiveStep == ASSUME BrowserInv, NEW r \in Requests, Receive(r) PROVE BrowserInv'
<1> DEFINE q == underway[r]
<1>1. UNCHANGED << routes, sessions >> /\ underway' = [underway EXCEPT ![r] = NoRequest]
  BY DEF Receive, Set
<1>2. RequestOK(q, sessions) /\ q \in BrowserRequest
  BY DEF BrowserInv, RequestOK
<1>3. CASE jar' = jar
  BY <1>1, <1>3, NoRequestIsOK, SessionsStay, BrowserStepKeeps
<1>4. CASE q.cookie # <<>> /\ jar' = [jar EXCEPT ![q.slot] = q.cookie[1]]
  <2>a. q.cookie \in {<<>>} \cup {<<t>> : t \in Nat \cup {None}}
    BY <1>2 DEF BrowserRequest
  <2>b. \E t \in Nat \cup {None} : q.cookie = <<t>>
    BY <1>4, <2>a, Zenon
  <2>1. PICK t \in Nat \cup {None} : q.cookie = <<t>> /\ q.cookie[1] = t
    BY ONLY <2>b
  <2>2. q.slot \in SlotNames /\ (t # None => t \in DOMAIN sessions /\ sessions[t].cookie = q.slot)
    <3>1. CookieOK(q, sessions) /\ q.slot \in SlotNames \cup {None}
      BY <1>2 DEF RequestOK, BrowserRequest
    <3> HIDE DEF q
    <3> QED
      BY ONLY <1>4, <2>1, <3>1 DEF CookieOK
  <2>3. jar' = [jar EXCEPT ![q.slot] = t]
    BY <1>4, <2>1
  <2> HIDE DEF q
  <2>4. /\ jar' \in [SlotNames -> Nat \cup {None}]
        /\ \A name \in SlotNames : jar'[name] # None =>
              jar'[name] \in DOMAIN sessions' /\ sessions'[jar'[name]].cookie = name
    BY <1>1, <2>2, <2>3 DEF BrowserInv
  <2>5. underway' \in [Requests -> BrowserRequest]
    BY <1>1, NoRequestIsOK DEF BrowserInv, RequestOK
  <2>6. ASSUME NEW p \in Requests, NEW x, x = underway'[p] PROVE RequestOK(x, sessions')
    BY <1>1, <2>6, NoRequestIsOK DEF BrowserInv
  <2>7. (\A p \in Requests : RequestOK(underway[p], sessions))'
    BY <2>6
  <2>8. (\E overrides \in Overrides : routes = CompileRoutes(overrides))'
    BY <1>1 DEF BrowserInv
  <2>9. sessions' \in Seq(BrowserSession)
    BY <1>1 DEF BrowserInv
  <2> QED
    BY <2>4, <2>5, <2>7, <2>8, <2>9 DEF BrowserInv
<1> QED
  BY <1>3, <1>4 DEF Receive

LEMMA BrowserStep == BrowserInv /\ [BrowserNext]_browserVars => BrowserInv'
<1> SUFFICES ASSUME BrowserInv, [BrowserNext]_browserVars PROVE BrowserInv'
  OBVIOUS
<1>1. CASE UNCHANGED browserVars
  BY <1>1 DEF BrowserInv, browserVars
<1>2. ASSUME NEW r \in Requests, Arrive(r) \/ Act(r) \/ Receive(r) PROVE BrowserInv'
  BY <1>2, ArriveStep, SignInStep, SignOutStep, GetSessionStep, ChangePasswordStep, RegisterPasskeyStep,
     OauthCallbackStep, ReceiveStep DEF Act
<1> QED
  BY <1>1, <1>2 DEF BrowserNext

\* What keeps slots apart follows from what each request carries.
LEMMA SlotsAreKept == BrowserInv => SlotsAreIsolated
<1> SUFFICES ASSUME BrowserInv PROVE SlotsAreIsolated
  OBVIOUS
<1>1. ASSUME NEW r \in Requests, NEW q, q = underway[r]
      PROVE  /\ q.slot \in Users => q.acted \in {None, q.slot}
             /\ q.slot = Usual /\ q.acted # None => q.acted = sessions[q.usual].user
             /\ q.status \in {400, 401, 403} => q.acted = None /\ q.cookie = <<>>
  BY <1>1 DEF BrowserInv, RequestOK, ActedOK
<1>2. \A name \in DOMAIN jar : jar[name] # None => sessions[jar[name]].cookie = name
  BY DEF BrowserInv
<1> QED
  BY <1>1, <1>2 DEF SlotsAreIsolated

\* A table that compiles has patterns for every route, and no two of one method overlap.
Words == {"register", "password", "verify-email", "email-verification", "request", "reset", "magic-link", "passkeys",
          "options", "authenticate", "sign-in", "sign-out", "session", "change", "complete", "consume", "oauth", "start",
          "callback", "verify", Param}
Segments == STRING \cup Words

LEMMA ShortSeqs == ASSUME NEW S, NEW a \in S, NEW b \in S, NEW c \in S
                   PROVE  <<a>> \in Seq(S) /\ <<a, b>> \in Seq(S) /\ <<a, b, c>> \in Seq(S)
OBVIOUS

SuffixPaths ==
    {<<"register", "password">>, <<"verify-email">>, <<"email-verification", "request">>, <<"password", "reset", "request">>,
     <<"magic-link", "request">>, <<"passkeys", "register", "options">>, <<"passkeys", "authenticate", "options">>,
     <<"sign-in", "password">>, <<"sign-out">>, <<"session">>, <<"password", "change">>, <<"password", "reset", "complete">>,
     <<"magic-link", "consume">>, <<"oauth", Param, "start">>, <<"oauth", Param, "callback">>,
     <<"passkeys", "register", "verify">>, <<"passkeys", "authenticate", "verify">>}

LEMMA SuffixesArePaths == \A id \in RouteIds : RouteSuffixes[id][2] \in Seq(Segments)
<1>1. Words \subseteq Segments
  BY Zenon DEF Segments
<1> HIDE DEF Segments
<1>2. SuffixPaths \subseteq Seq(Segments)
  BY <1>1, ShortSeqs DEF SuffixPaths, Words
<1>3. \A id \in RouteIds : RouteSuffixes[id][2] \in SuffixPaths
  BY DEF RouteIds, RouteSuffixes, SuffixPaths
<1> QED
  BY <1>2, <1>3

LEMMA SeqsWiden == ASSUME NEW S, NEW T, S \subseteq T, NEW s \in Seq(S) PROVE s \in Seq(T)
<1>1. s \in [1..Len(s) -> T] /\ Len(s) \in Nat
  BY LenProperties, ElementOfSeq
<1> QED
  BY <1>1, SeqDef

LEMMA StringsAreSegments == ASSUME NEW s \in Seq(STRING) PROVE s \in Seq(Segments)
<1>1. STRING \subseteq Segments
  BY Zenon DEF Segments
<1> QED
  BY <1>1, SeqsWiden

LEMMA TableIsApart ==
  ASSUME NEW overrides \in Overrides, NEW table, table = CompileRoutes(overrides), table # Refused
  PROVE  /\ \A id \in RouteIds : table[id].segments \in Seq(Segments)
         /\ \A a, b \in RouteIds : a # b /\ table[a].method = table[b].method =>
                                        ~PatternsOverlap(table[a].segments, table[b].segments)
<1> DEFINE segments(id) == IF id \in DOMAIN overrides THEN overrides[id] ELSE BasePath \o RouteSuffixes[id][2]
           compiled == [id \in RouteIds |-> [method |-> RouteSuffixes[id][1], segments |-> segments(id)]]
<1>1. table = compiled /\ \A a, b \in RouteIds : a # b /\ compiled[a].method = compiled[b].method =>
                                        ~PatternsOverlap(compiled[a].segments, compiled[b].segments)
  BY DEF CompileRoutes
<1>2. \A id \in RouteIds : segments(id) \in Seq(Segments)
  <2> SUFFICES ASSUME NEW id \in RouteIds PROVE segments(id) \in Seq(Segments)
    OBVIOUS
  <2>1. CASE id \in DOMAIN overrides
    BY <2>1, BrowserAssumption, StringsAreSegments
  <2>2. CASE id \notin DOMAIN overrides
    BY <2>2, BrowserAssumption, StringsAreSegments, SuffixesArePaths, ConcatProperties
  <2> QED
    BY <2>1, <2>2
<1>3. \A id \in RouteIds : compiled[id].segments = segments(id)
  OBVIOUS
<1> QED
  BY <1>1, <1>2, <1>3

\* A path made for a route matches it and no other of its method.
LEMMA RoutesAreResolved == BrowserInv => RoutesResolve
<1> SUFFICES ASSUME BrowserInv, routes # Refused, NEW id \in RouteIds, NEW provider
             PROVE  Matches(routes[id].method, PathForRoute(id, provider)) = {id}
  BY DEF RoutesResolve
<1> DEFINE path == PathForRoute(id, provider)
           own == routes[id].segments
<1>1. /\ \A a \in RouteIds : routes[a].segments \in Seq(Segments)
      /\ \A a, b \in RouteIds : a # b /\ routes[a].method = routes[b].method =>
                                        ~PatternsOverlap(routes[a].segments, routes[b].segments)
  BY TableIsApart DEF BrowserInv
<1>2. \A a \in RouteIds : DOMAIN routes[a].segments = 1..Len(routes[a].segments) /\ Len(routes[a].segments) \in Nat
  BY <1>1, LenProperties
<1>3. /\ DOMAIN path = DOMAIN own
      /\ \A i \in DOMAIN own : path[i] = IF own[i] = Param THEN provider ELSE own[i]
  BY DEF PathForRoute
<1>4. Len(path) = Len(own)
  <2>1. path \in [1..Len(own) -> Segments \cup {provider}]
    <3>1. \A i \in 1..Len(own) : own[i] \in Segments
      BY <1>1, <1>2, ElementOfSeq
    <3> QED
      BY <1>2, <3>1 DEF PathForRoute
  <2>2. path \in Seq(Segments \cup {provider})
    BY <1>2, <2>1, SeqDef
  <2> QED
    BY <1>2, <1>3, <2>2, LenProperties
<1> HIDE DEF path
<1>5. id \in Matches(routes[id].method, path)
  BY <1>3, <1>4 DEF Matches
<1>6. ASSUME NEW b \in Matches(routes[id].method, path), b # id PROVE FALSE
  <2>1. /\ b \in RouteIds /\ routes[b].method = routes[id].method /\ Len(routes[b].segments) = Len(path)
        /\ \A i \in DOMAIN path : routes[b].segments[i] \in {Param, path[i]}
    BY <1>6 DEF Matches
  <2>2. ~PatternsOverlap(own, routes[b].segments)
    BY <1>1, <1>6, <2>1
  <2>3. PICK i \in DOMAIN own : own[i] # routes[b].segments[i] /\ Param \notin {own[i], routes[b].segments[i]}
    BY <1>4, <2>1, <2>2 DEF PatternsOverlap
  <2> QED
    BY <1>3, <2>1, <2>3
<1> QED
  BY <1>5, <1>6 DEF Matches, path

\* Whatever tabs send at once and in whatever order the answers arrive, slots keep the users of one
\* browser apart, and whatever overrides compile, each path is answered by one route
\* (auth http.ts, session-slots.ts).
THEOREM SlotsStayApart == BrowserSpec => []SessionsStayApart
<1>1. BrowserInv => SessionsStayApart
  BY SlotsAreKept, RoutesAreResolved DEF SessionsStayApart
<1> QED
  BY <1>1, BrowserStart, BrowserStep, PTL DEF BrowserSpec

-----------------------------------------------------------------------------
\* Migration runners.

\* What the transaction of a runner holds at each step: the copy it read, and once it has the write lock or
\* the advisory lock, that copy is what is committed.
RunOK(r, x, held, rows, dial) ==
    /\ DOMAIN x = {"pc", "book", "schema", "read"}
    /\ x.pc \in {"verify", "write", "migrate", "apply", "stamp"} =>
          /\ x.schema \in Seq(Nat \ {0}) /\ InOrder(x.schema)
          /\ DOMAIN x.read \subseteq Nat \ {0}
    /\ x.pc \in {"verify", "write", "migrate"} => x.book = x.read /\ DOMAIN x.read = Range(x.schema)
    /\ x.pc \in {"write", "migrate", "apply", "stamp"} => Consistent(r, x.read)
    /\ x.pc \in {"apply", "stamp"} =>
          /\ DOMAIN x.book = DOMAIN x.read \cup Required(r, x.read)
          /\ \A i \in DOMAIN x.read : x.book[i] = x.read[i]
          /\ \A i \in Required(r, x.read) : x.book[i] = NoSum
          /\ Range(x.schema) \subseteq DOMAIN x.book
          /\ \A i \in Range(x.schema), j \in DOMAIN x.book \ Range(x.schema) : i < j
    /\ x.pc = "stamp" => DOMAIN x.book = Range(x.schema)
    /\ x.pc \in {"migrate", "apply", "stamp"} \/ (dial = "pg" /\ x.pc = "verify") => held = r /\ x.read = rows

MigrationsInv ==
    /\ schema \in Seq(Nat \ {0}) /\ MigratesOnceInOrder
    /\ lock \in Runners \cup {Nobody}
    /\ DOMAIN runs = Runners
    /\ \A r \in Runners : RunOK(r, runs[r], lock, book, dialect)

LEMMA RangeOfAppend ==
  ASSUME NEW s \in Seq(Nat \ {0}), NEW i \in Nat \ {0}
  PROVE  /\ Append(s, i) \in Seq(Nat \ {0}) /\ Range(Append(s, i)) = Range(s) \cup {i}
         /\ InOrder(s) /\ (\A k \in Range(s) : k < i) => InOrder(Append(s, i))
<1>1. /\ Append(s, i) \in Seq(Nat \ {0}) /\ Len(Append(s, i)) = Len(s) + 1 /\ Append(s, i)[Len(s) + 1] = i
      /\ \A k \in 1..Len(s) : Append(s, i)[k] = s[k]
  BY AppendProperties
<1>2. /\ Len(s) \in Nat /\ DOMAIN s = 1..Len(s) /\ DOMAIN Append(s, i) = 1..(Len(s) + 1)
  BY <1>1, LenProperties
<1>3. Range(Append(s, i)) = Range(s) \cup {i}
  BY <1>1, <1>2 DEF Range
<1>4. ASSUME InOrder(s), \A k \in Range(s) : k < i PROVE InOrder(Append(s, i))
  <2>1. \A k \in DOMAIN s : s[k] < i
    BY <1>4 DEF Range
  <2> QED
    BY <1>1, <1>2, <1>4, <2>1 DEF InOrder
<1> QED
  BY <1>1, <1>3, <1>4

\* One runner moves: the others keep what they hold, for either nothing they depend on changes or they
\* hold no lock.
LEMMA RunKeeps ==
  ASSUME MigrationsInv, NEW r \in Runners, NEW y, runs' = [runs EXCEPT ![r] = y],
         RunOK(r, y, lock', book', dialect), dialect' = dialect, lock' \in Runners \cup {Nobody},
         \/ lock \in {Nobody, r}
         \/ lock' = lock /\ book' = book,
         \/ schema' = schema /\ book' = book
         \/ schema' \in Seq(Nat \ {0}) /\ InOrder(schema') /\ DOMAIN book' = Range(schema')
  PROVE  MigrationsInv'
<1>1. DOMAIN runs' = Runners /\ runs'[r] = y /\ \A s \in Runners \ {r} : runs'[s] = runs[s]
  BY DEF MigrationsInv
<1>2. ASSUME NEW s \in Runners \ {r} PROVE RunOK(s, runs[s], lock', book', dialect)
  BY MigrationsAssumption DEF MigrationsInv, RunOK
<1>3. \A s \in Runners : RunOK(s, runs'[s], lock', book', dialect')
  BY <1>1, <1>2
<1>4. schema' \in Seq(Nat \ {0}) /\ InOrder(schema') /\ DOMAIN book' = Range(schema')
  BY DEF MigrationsInv, MigratesOnceInOrder
<1> QED
  BY <1>1, <1>3, <1>4, Zenon DEF MigrationsInv, MigratesOnceInOrder, RunOK, InOrder, Consistent, Required, Pending, UnknownRows, Mismatched, Ids

\* The fields of a runner's record after a move.
LEMMA Moved ==
  ASSUME NEW x, DOMAIN x = {"pc", "book", "schema", "read"}, NEW step
  PROVE  /\ DOMAIN [x EXCEPT !.pc = step] = {"pc", "book", "schema", "read"} /\ [x EXCEPT !.pc = step].pc = step
         /\ [x EXCEPT !.pc = step].book = x.book /\ [x EXCEPT !.pc = step].schema = x.schema
         /\ [x EXCEPT !.pc = step].read = x.read
  OBVIOUS

Terminal == {"start", "locked", "bad-state", "failed", "ok", "unlock"}

\* A runner that ends, or starts again, gives back what it holds and depends on nothing.
LEMMA EndKeeps ==
  ASSUME MigrationsInv, NEW r \in Runners, NEW step \in Terminal, Move(r, step), lock' \in {lock, ReleasedBy(r)},
         UNCHANGED << dialect, book, schema >>
  PROVE  MigrationsInv'
<1>1. DOMAIN runs[r] = {"pc", "book", "schema", "read"}
  BY DEF MigrationsInv, RunOK
<1>2. PICK y : y = [runs[r] EXCEPT !.pc = step]
  OBVIOUS
<1>3. runs' = [runs EXCEPT ![r] = y] /\ DOMAIN y = {"pc", "book", "schema", "read"} /\ y.pc = step
  BY <1>1, <1>2, Moved DEF Move
<1>4. RunOK(r, y, lock', book', dialect)
  BY <1>3 DEF RunOK, Terminal
<1>5. lock' \in Runners \cup {Nobody} /\ (lock \in {Nobody, r} \/ (lock' = lock /\ book' = book))
  BY DEF ReleasedBy, MigrationsInv
<1> QED
  BY <1>3, <1>4, <1>5, RunKeeps

\* A transaction begins with what is committed; on Postgres its runner took the lock.
LEMMA BeginKeeps ==
  ASSUME MigrationsInv, NEW r \in Runners, Begin(r, "verify"), UNCHANGED << dialect, book, schema >>,
         \/ lock = Nobody /\ lock' = r
         \/ dialect # "pg" /\ lock' = lock
  PROVE  MigrationsInv'
<1>1. PICK y : y = [pc |-> "verify", book |-> book, schema |-> schema, read |-> book]
  OBVIOUS
<1>2. runs' = [runs EXCEPT ![r] = y]
  BY <1>1 DEF Begin
<1>3. Range(schema) \subseteq Nat \ {0}
  <2>1. DOMAIN schema = 1..Len(schema) /\ \A i \in 1..Len(schema) : schema[i] \in Nat \ {0}
    BY LenProperties, ElementOfSeq DEF MigrationsInv
  <2> QED
    BY <2>1 DEF Range
<1>4. RunOK(r, y, lock', book', dialect)
  BY <1>1, <1>3 DEF RunOK, MigrationsInv, MigratesOnceInOrder
<1>5. lock' \in Runners \cup {Nobody}
  BY DEF MigrationsInv
<1> QED
  BY <1>2, <1>4, <1>5, RunKeeps

LEMMA AcquireKeeps ==
  ASSUME MigrationsInv, NEW r \in Runners,
         AcquireSessionLock(r) \/ LockTimeout(r) \/ TryTransactionLock(r) \/ BeginUnlocked(r)
  PROVE  MigrationsInv'
<1>1. CASE AcquireSessionLock(r)
  BY <1>1, BeginKeeps DEF AcquireSessionLock
<1>2. CASE LockTimeout(r)
  BY <1>2, EndKeeps DEF LockTimeout, Terminal
<1>3. CASE TryTransactionLock(r)
  BY <1>3, EndKeeps, BeginKeeps DEF TryTransactionLock, Terminal
<1>4. CASE BeginUnlocked(r)
  BY <1>4, BeginKeeps DEF BeginUnlocked
<1> QED
  BY <1>1, <1>2, <1>3, <1>4

LEMMA TakeWriteLockKeeps ==
  ASSUME MigrationsInv, NEW r \in Runners, TakeWriteLock(r) PROVE MigrationsInv'
<1>1. CASE lock' = r /\ lock = Nobody /\ book = runs[r].read /\ Move(r, "migrate")
  <2>1. RunOK(r, runs[r], lock, book, dialect) /\ runs[r].pc = "write"
    BY DEF MigrationsInv, TakeWriteLock
  <2>2. PICK y : y = [runs[r] EXCEPT !.pc = "migrate"]
    OBVIOUS
  <2>3. /\ runs' = [runs EXCEPT ![r] = y] /\ DOMAIN y = {"pc", "book", "schema", "read"} /\ y.pc = "migrate"
        /\ y.book = runs[r].book /\ y.schema = runs[r].schema /\ y.read = runs[r].read
    BY <1>1, <2>1, <2>2, Moved DEF Move, RunOK
  <2>4. RunOK(r, y, lock', book', dialect)
    BY <1>1, <2>1, <2>3 DEF RunOK, TakeWriteLock
  <2> QED
    BY <1>1, <2>3, <2>4, RunKeeps DEF TakeWriteLock
<1>2. CASE lock' = lock /\ (Move(r, "start") \/ Move(r, "locked"))
  BY <1>2, EndKeeps DEF TakeWriteLock, Terminal
<1> QED
  BY <1>1, <1>2 DEF TakeWriteLock

LEMMA VerifyKeeps == ASSUME MigrationsInv, NEW r \in Runners, Verify(r) PROVE MigrationsInv'
<1>1. CASE Consistent(r, runs[r].book)
  <2>1. RunOK(r, runs[r], lock, book, dialect) /\ runs[r].pc = "verify"
    BY DEF MigrationsInv, Verify
  <2>2. PICK step : step = (IF dialect = "pg" THEN "migrate" ELSE "write")
    OBVIOUS
  <2>3. PICK y : y = [runs[r] EXCEPT !.pc = step]
    OBVIOUS
  <2>4. /\ runs' = [runs EXCEPT ![r] = y] /\ DOMAIN y = {"pc", "book", "schema", "read"} /\ y.pc = step
        /\ y.book = runs[r].book /\ y.schema = runs[r].schema /\ y.read = runs[r].read
    BY <1>1, <2>1, <2>2, <2>3, Moved DEF Move, RunOK, Verify
  <2>5. UNCHANGED << lock, book, schema, dialect >>
    BY <1>1 DEF Verify
  <2>6. RunOK(r, y, lock', book', dialect)
    BY <1>1, <2>1, <2>2, <2>4, <2>5 DEF RunOK
  <2> QED
    BY <2>4, <2>5, <2>6, RunKeeps DEF MigrationsInv
<1>2. CASE ~Consistent(r, runs[r].book)
  BY <1>2, EndKeeps DEF Verify, Terminal
<1> QED
  BY <1>1, <1>2

\* The rows that are inserted come after every recorded one.
LEMMA MigrateKeeps == ASSUME MigrationsInv, NEW r \in Runners, Migrate(r) PROVE MigrationsInv'
<1> DEFINE rows == runs[r].book
           todo == Required(r, rows)
           all == [i \in DOMAIN rows \cup todo |-> IF i \in todo THEN NoSum ELSE rows[i]]
<1>1. CASE todo = {} /\ Pending(r, rows) # {}
  BY <1>1, EndKeeps DEF Migrate, Terminal
<1>2. CASE ~(todo = {} /\ Pending(r, rows) # {})
  <2>1. /\ RunOK(r, runs[r], lock, book, dialect) /\ runs[r].pc = "migrate"
        /\ runs' = [runs EXCEPT ![r].pc = "apply", ![r].book = all] /\ UNCHANGED << lock, dialect, book, schema >>
    BY <1>2 DEF MigrationsInv, Migrate
  <2>2. /\ \A i \in todo, j \in DOMAIN rows : i > j
        /\ todo \cap DOMAIN rows = {}
    BY DEF Required, Pending
  <2>3. DOMAIN all = DOMAIN rows \cup todo /\ (\A i \in DOMAIN rows : all[i] = rows[i]) /\ (\A i \in todo : all[i] = NoSum)
    BY <2>2
  <2> HIDE DEF all
  <2>4. PICK y : y = [runs[r] EXCEPT !.pc = "apply", !.book = all]
    OBVIOUS
  <2>5. /\ DOMAIN y = {"pc", "book", "schema", "read"} /\ y.pc = "apply" /\ y.book = all
        /\ y.schema = runs[r].schema /\ y.read = runs[r].read
    BY <2>1, <2>4 DEF RunOK
  <2>6. runs' = [runs EXCEPT ![r] = y]
    BY <2>1, <2>4
  <2>7. /\ runs[r].book = runs[r].read /\ DOMAIN rows = Range(runs[r].schema) /\ DOMAIN rows \subseteq Nat \ {0}
        /\ todo \subseteq Nat \ {0}
    BY <2>1, MigrationsAssumption DEF RunOK, Required, Pending, Ids
  <2>8. \A i \in Range(y.schema), j \in DOMAIN y.book \ Range(y.schema) : i < j
    BY <2>2, <2>3, <2>5, <2>7
  <2>9. RunOK(r, y, lock', book', dialect)
    <3> HIDE DEF todo, rows
    <3>1. todo = Required(r, runs[r].read)
      BY <2>7 DEF todo, rows
    <3> QED
      BY <2>1, <2>3, <2>5, <2>7, <2>8, <3>1 DEF RunOK, rows
  <2> QED
    BY <2>1, <2>6, <2>9, RunKeeps DEF MigrationsInv
<1> QED
  BY <1>1, <1>2

LEMMA ApplyNextKeeps == ASSUME MigrationsInv, NEW r \in Runners, ApplyNext(r) PROVE MigrationsInv'
<1>1. /\ RunOK(r, runs[r], lock, book, dialect) /\ runs[r].pc = "apply"
      /\ UNCHANGED << lock, dialect, book, schema >>
  BY DEF MigrationsInv, ApplyNext
<1>2. CASE Unapplied(r) = {}
  <2>1. PICK y : y = [runs[r] EXCEPT !.pc = "stamp"]
    OBVIOUS
  <2>2. /\ runs' = [runs EXCEPT ![r] = y] /\ DOMAIN y = {"pc", "book", "schema", "read"} /\ y.pc = "stamp"
        /\ y.book = runs[r].book /\ y.schema = runs[r].schema /\ y.read = runs[r].read
    BY <1>1, <1>2, <2>1, Moved DEF Move, RunOK, ApplyNext
  <2>3. RunOK(r, y, lock', book', dialect)
    BY <1>1, <1>2, <2>2 DEF RunOK, Unapplied
  <2> QED
    BY <1>1, <2>2, <2>3, RunKeeps DEF MigrationsInv
<1>3. ASSUME NEW i \in Unapplied(r), \A j \in Unapplied(r) : i <= j,
             runs' = [runs EXCEPT ![r].schema = Append(@, i)]
      PROVE  MigrationsInv'
  <2>1. i \in Nat \ {0} /\ \A j \in Unapplied(r) : j \in Nat
    BY <1>1, <1>3, MigrationsAssumption DEF Unapplied, RunOK, Required, Pending, Ids
  <2>2. PICK y : y = [runs[r] EXCEPT !.schema = Append(runs[r].schema, i)]
    OBVIOUS
  <2>3. /\ runs' = [runs EXCEPT ![r] = y] /\ DOMAIN y = {"pc", "book", "schema", "read"} /\ y.pc = "apply"
        /\ y.book = runs[r].book /\ y.schema = Append(runs[r].schema, i) /\ y.read = runs[r].read
    BY <1>1, <1>3, <2>2 DEF RunOK
  <2>4. /\ y.schema \in Seq(Nat \ {0}) /\ Range(y.schema) = Range(runs[r].schema) \cup {i} /\ InOrder(y.schema)
    BY <1>1, <1>3, <2>1, <2>3, RangeOfAppend DEF RunOK, Unapplied
  <2>5. /\ Range(y.schema) \subseteq DOMAIN y.book
        /\ \A k \in Range(y.schema), j \in DOMAIN y.book \ Range(y.schema) : k < j
    BY <1>1, <1>3, <2>1, <2>3, <2>4 DEF RunOK, Unapplied
  <2>6. RunOK(r, y, lock', book', dialect)
    BY <1>1, <2>3, <2>4, <2>5 DEF RunOK
  <2> QED
    BY <1>1, <2>3, <2>6, RunKeeps DEF MigrationsInv
<1> QED
  BY <1>2, <1>3 DEF ApplyNext

LEMMA CommitRunKeeps == ASSUME MigrationsInv, NEW r \in Runners, CommitRun(r) PROVE MigrationsInv'
<1>1. RunOK(r, runs[r], lock, book, dialect) /\ runs[r].pc = "stamp" /\ lock = r
  BY DEF MigrationsInv, CommitRun, RunOK
<1>2. schema' \in Seq(Nat \ {0}) /\ InOrder(schema') /\ DOMAIN book' = Range(schema')
  BY <1>1 DEF CommitRun, RunOK, Stamp
<1>3. PICK step \in {"unlock", "ok"} : Move(r, step) /\ dialect' = dialect
  BY DEF CommitRun
<1>4. PICK y : y = [runs[r] EXCEPT !.pc = step]
  OBVIOUS
<1>5. runs' = [runs EXCEPT ![r] = y] /\ DOMAIN y = {"pc", "book", "schema", "read"} /\ y.pc = step
  BY <1>1, <1>3, <1>4, Moved DEF Move, RunOK
<1>6. RunOK(r, y, lock', book', dialect)
  BY <1>3, <1>5 DEF RunOK
<1>7. lock' \in Runners \cup {Nobody}
  BY <1>1 DEF CommitRun, ReleasedBy
<1> QED
  BY <1>1, <1>2, <1>3, <1>5, <1>6, <1>7, RunKeeps

LEMMA MigrationsStart == ASSUME DeploymentInit PROVE MigrationsInv
<1>1. PICK d \in {"pg", "lite"}, applied \in Histories : MigrationsInit(d, applied)
  BY DEF DeploymentInit
<1>2. ASSUME NEW r \in Runners PROVE RunOK(r, runs[r], lock, book, dialect)
  BY <1>1 DEF MigrationsInit, RunOK
<1> QED
  BY <1>1, <1>2, MigrationsAssumption DEF MigrationsInit, MigrationsInv, MigratesOnceInOrder

LEMMA MigrationsStep == MigrationsInv /\ [DeploymentNext]_<<migrationVars, processVars>> => MigrationsInv'
<1> SUFFICES ASSUME MigrationsInv, [DeploymentNext]_<<migrationVars, processVars>> PROVE MigrationsInv'
  OBVIOUS
<1>1. CASE UNCHANGED migrationVars
  BY <1>1 DEF migrationVars, MigrationsInv, MigratesOnceInOrder
<1>2. ASSUME NEW r \in Runners, Abort(r) \/ Unlock(r) PROVE MigrationsInv'
  BY <1>2, EndKeeps DEF Abort, Unlock, Terminal
<1>3. ASSUME NEW r \in Runners, RunnerStep(r) PROVE MigrationsInv'
  BY <1>2, <1>3, AcquireKeeps, TakeWriteLockKeeps, VerifyKeeps, MigrateKeeps, ApplyNextKeeps, CommitRunKeeps DEF RunnerStep
<1> QED
  BY <1>1, <1>2, <1>3 DEF DeploymentNext, MigrationsNext

\* Builds whose migrations are only ever appended: what one build has and another, or the record of an old
\* deployment, lacks comes after everything that the other has.
AppendOnly ==
    /\ \A r, s \in Runners : \A i \in Ids(s) \ Ids(r), j \in Ids(r) : i > j
    /\ \A r \in Runners, h \in Histories : \A i \in Ids(r) \ Range(h), j \in Range(h) : i > j

\* Then what is recorded is never ahead of what a build has to run, and the rows that a green runner
\* leaves stay.
GreenInv ==
    /\ \A r \in Runners : \A i \in Ids(r) \ DOMAIN book, j \in DOMAIN book : i > j
    /\ \A r \in Runners : runs[r].pc \in {"unlock", "ok"} => \A i \in Ids(r) : i \in DOMAIN book /\ book[i] = Build[r][i]

\* Only a commit writes rows.
LEMMA OnlyCommitsWrite ==
  ASSUME MigrationsInv, GreenInv, MigrationsNext, \A r \in Runners : ~CommitRun(r)
  PROVE  GreenInv'
<1>1. PICK r \in Runners : RunnerStep(r) \/ Abort(r)
  BY DEF MigrationsNext
<1>2. book' = book
  BY <1>1 DEF RunnerStep, AcquireSessionLock, LockTimeout, TryTransactionLock, BeginUnlocked, TakeWriteLock, Verify,
              Migrate, ApplyNext, Unlock, Abort
<1>3. DOMAIN runs = Runners /\ DOMAIN runs[r] = {"pc", "book", "schema", "read"}
  BY DEF MigrationsInv, RunOK
<1>4. \A s \in Runners \ {r} : runs'[s] = runs[s]
  BY <1>1, <1>3 DEF RunnerStep, AcquireSessionLock, LockTimeout, TryTransactionLock, BeginUnlocked, TakeWriteLock,
                    Verify, Migrate, ApplyNext, Unlock, Abort, Move, Begin
<1>5. runs'[r].pc \in {"unlock", "ok"} => runs[r].pc \in {"unlock", "ok"}
  <2>1. ASSUME NEW step, Move(r, step) PROVE runs'[r].pc = step
    BY <1>3, <2>1, Moved DEF Move
  <2>2. ASSUME NEW step, Begin(r, step) PROVE runs'[r].pc = step
    BY <1>3, <2>2 DEF Begin
  <2>3. Unlock(r) => runs[r].pc = "unlock"
    BY DEF Unlock
  <2>4. Migrate(r) => runs'[r].pc \in {"locked", "apply"}
    BY <1>3, <2>1 DEF Migrate
  <2>5. ApplyNext(r) => runs'[r].pc \in {"stamp", "apply"}
    BY <1>3, <2>1 DEF ApplyNext
  <2>6. Verify(r) => runs'[r].pc \in {"migrate", "write", "bad-state"}
    BY <2>1 DEF Verify
  <2>7. TakeWriteLock(r) => runs'[r].pc \in {"migrate", "start", "locked"}
    BY <2>1 DEF TakeWriteLock
  <2>8. AcquireSessionLock(r) \/ LockTimeout(r) \/ TryTransactionLock(r) \/ BeginUnlocked(r) \/ Abort(r)
          => runs'[r].pc \in {"verify", "locked", "failed"}
    BY <2>1, <2>2 DEF AcquireSessionLock, LockTimeout, TryTransactionLock, BeginUnlocked, Abort
  <2> QED
    BY <1>1, <2>3, <2>4, <2>5, <2>6, <2>7, <2>8 DEF RunnerStep
<1> QED
  BY <1>2, <1>4, <1>5 DEF GreenInv

LEMMA CommitsAreGreen ==
  ASSUME AppendOnly, MigrationsInv, GreenInv, NEW r \in Runners, CommitRun(r)
  PROVE  GreenInv'
<1> DEFINE x == runs[r]
<1>1. /\ RunOK(r, x, lock, book, dialect) /\ x.pc = "stamp" /\ x.read = book
  BY DEF MigrationsInv, CommitRun, RunOK
<1>2. Required(r, book) = Ids(r) \ DOMAIN book
  BY DEF GreenInv, Required, Pending
<1>3. /\ DOMAIN x.book = DOMAIN book \cup Ids(r)
      /\ \A i \in DOMAIN book : x.book[i] = book[i]
      /\ \A i \in Ids(r) \ DOMAIN book : x.book[i] = NoSum
      /\ DOMAIN book \subseteq Ids(r) /\ \A i \in Ids(r) \cap DOMAIN book : book[i] \in {NoSum, Build[r][i]}
  BY <1>1, <1>2 DEF RunOK, Consistent, UnknownRows, Mismatched
<1>4. book' = Stamp(r, x.book)
  BY DEF CommitRun
<1>5. DOMAIN book' = DOMAIN book \cup Ids(r) /\ \A i \in Ids(r) : book'[i] = Build[r][i]
  BY <1>3, <1>4 DEF Stamp
<1>6. \A i \in DOMAIN book : book[i] # NoSum => book'[i] = book[i]
  BY <1>3, <1>4 DEF Stamp
<1>7. \A s \in Runners : \A i \in Ids(s) \ DOMAIN book', j \in DOMAIN book' : i > j
  BY <1>5 DEF AppendOnly, GreenInv
<1>8. ASSUME NEW s \in Runners \ {r}, runs'[s].pc \in {"unlock", "ok"}
      PROVE  \A i \in Ids(s) : i \in DOMAIN book' /\ book'[i] = Build[s][i]
  <2>1. runs'[s] = runs[s]
    BY DEF CommitRun, Move, MigrationsInv
  <2> QED
    BY <1>5, <1>6, <1>8, <2>1, MigrationsAssumption DEF GreenInv, Ids
<1> QED
  BY <1>5, <1>7, <1>8, Zenon DEF GreenInv, Ids

LEMMA GreenStep ==
  ASSUME AppendOnly, MigrationsInv, GreenInv, [DeploymentNext]_<<migrationVars, processVars>> PROVE GreenInv'
<1>1. CASE UNCHANGED migrationVars
  BY <1>1 DEF migrationVars, GreenInv
<1>2. CASE MigrationsNext
  BY <1>2, OnlyCommitsWrite, CommitsAreGreen
<1> QED
  BY <1>1, <1>2 DEF DeploymentNext

LEMMA GreenStart == ASSUME AppendOnly, DeploymentInit PROVE GreenInv
  BY DEF AppendOnly, DeploymentInit, MigrationsInit, GreenInv

LEMMA GreenIsReady == GreenInv => GreenMeansReady
<1> SUFFICES ASSUME GreenInv, NEW r \in Runners, runs[r].pc \in {"unlock", "ok"}
             PROVE  /\ \A i \in Ids(r) : i \in DOMAIN book /\ book[i] = Build[r][i]
                    /\ ProbeReady(r) \/ UnknownRows(r, book) # {}
  BY DEF GreenMeansReady
<1>1. \A i \in Ids(r) : i \in DOMAIN book /\ book[i] = Build[r][i]
  BY DEF GreenInv
<1>2. Pending(r, book) = {} /\ Mismatched(r, book) = {}
  BY <1>1 DEF Pending, Mismatched
<1> QED
  BY <1>1, <1>2 DEF ProbeReady, Consistent

-----------------------------------------------------------------------------
\* The life of a process.

Gone == {"ended", "failed", "interrupted"}

\* Whoever registers does so once; what was on time was registered before the drain was triggered.
RegisteredInv ==
    /\ registered \in Seq(Finalizers) /\ onTime \in Nat /\ onTime <= Len(registered)
    /\ started \in BOOLEAN /\ (~started => onTime = Len(registered))
    /\ \A i, j \in DOMAIN registered : registered[i] = registered[j] => i = j

\* The drain runs, from the last to the first, what was registered when it took the list.
ListsInv ==
    /\ taken \in Seq(Finalizers) /\ ran \in Seq(Finalizers) /\ Len(ran) <= Len(taken) /\ Len(taken) <= Len(registered)
    /\ \A i \in DOMAIN ran : ran[i] = taken[i]
    /\ \A i \in DOMAIN taken : taken[i] = registered[Len(taken) + 1 - i]

PhaseInv ==
    /\ drain \in {"idle", "unready", "take", "next", "running", "done"}
    /\ drain = "idle" <=> ~started
    /\ drain \in {"idle", "unready", "take"} => taken = <<>> /\ ran = <<>>
    /\ drain \in {"next", "running", "done"} => onTime <= Len(taken)
    /\ drain = "done" => Len(ran) = Len(taken)

DrainInv == ListsInv /\ PhaseInv

\* A program that ended or was interrupted did so after the drain, and the layers go down after the program.
EndInv ==
    /\ program \in {"starting", "serving"} \cup Gone
    /\ program \in {"ended", "interrupted"} => drain = "done"
    /\ main \in {"teardown", "grace", "closing", "down"} => program \in Gone
    /\ main \in {"grace", "closing", "down"} => ~ready
    /\ ~listening => main = "down"
    /\ exit = "0" => main = "down" /\ program # "failed"

GrpcInv ==
    /\ grpc \in [accepting : BOOLEAN, close : {"open", "grace", "closed"}]
    /\ grpc.accepting => grpc.close = "open"
    /\ grpc.close = "closed" => Active = {}

LifeInv == RegisteredInv /\ DrainInv /\ EndInv /\ GrpcInv

\* A registration lengthens the list.
LEMMA Registers ==
  ASSUME LifeInv, NEW f \in Finalizers, OnShutdown(f)
  PROVE  \E n \in Nat :
            /\ DOMAIN registered = 1..n /\ Len(registered) = n /\ DOMAIN registered' = 1..(n + 1) /\ Len(registered') = n + 1
            /\ registered' \in Seq(Finalizers) /\ registered'[n + 1] = f
            /\ \A i \in 1..n : registered'[i] = registered[i] /\ registered[i] # f
<1>1. /\ registered \in Seq(Finalizers) /\ Len(registered) \in Nat /\ DOMAIN registered = 1..Len(registered)
      /\ \A i \in DOMAIN registered : registered[i] # f
      /\ registered' = Append(registered, f)
  BY LenProperties DEF LifeInv, RegisteredInv, OnShutdown, Range
<1>2. /\ registered' \in Seq(Finalizers) /\ Len(registered') = Len(registered) + 1
      /\ registered'[Len(registered) + 1] = f
      /\ \A i \in 1..Len(registered) : registered'[i] = registered[i]
  BY <1>1, AppendProperties
<1>3. DOMAIN registered' = 1..(Len(registered) + 1)
  BY <1>2, LenProperties
<1> QED
  BY <1>1, <1>2, <1>3, Zenon

LEMMA RegisteredOnce ==
  ASSUME LifeInv, NEW f \in Finalizers, OnShutdown(f) PROVE RegisteredInv' /\ DrainInv'
<1>1. PICK n \in Nat :
            /\ DOMAIN registered = 1..n /\ Len(registered) = n /\ DOMAIN registered' = 1..(n + 1) /\ Len(registered') = n + 1
            /\ registered' \in Seq(Finalizers) /\ registered'[n + 1] = f
            /\ \A i \in 1..n : registered'[i] = registered[i] /\ registered[i] # f
  BY Registers
<1>2. /\ UNCHANGED << started, drain, taken, ran >> /\ onTime' = IF started THEN onTime ELSE onTime + 1
      /\ onTime \in Nat /\ onTime <= n /\ started \in BOOLEAN /\ (~started => onTime = n)
      /\ \A i, j \in 1..n : registered[i] = registered[j] => i = j
  BY <1>1 DEF LifeInv, RegisteredInv, OnShutdown
<1>3. onTime' \in Nat /\ onTime' <= n + 1 /\ (~started => onTime' = n + 1) /\ (started => onTime' = onTime)
  BY <1>2
<1>4. ASSUME NEW i \in 1..(n + 1), NEW j \in 1..(n + 1), registered'[i] = registered'[j] PROVE i = j
  BY <1>1, <1>2, <1>4
<1>5. RegisteredInv'
  BY <1>1, <1>2, <1>3, <1>4 DEF RegisteredInv
<1>6. ListsInv'
  <2>1. ListsInv /\ Len(taken) \in Nat /\ DOMAIN taken = 1..Len(taken)
    BY LenProperties DEF LifeInv, DrainInv, ListsInv
  <2>2. \A i \in DOMAIN taken : taken[i] = registered'[Len(taken) + 1 - i]
    BY <1>1, <2>1 DEF ListsInv
  <2>3. Len(taken) <= Len(registered')
    BY <1>1, <2>1 DEF ListsInv
  <2> QED
    BY <1>2, <2>1, <2>2, <2>3 DEF ListsInv
<1>7. PhaseInv'
  BY <1>2, <1>3 DEF LifeInv, DrainInv, PhaseInv
<1> QED
  BY <1>5, <1>6, <1>7 DEF DrainInv

LEMMA Unregistered ==
  ASSUME LifeInv, UNCHANGED << registered, onTime >>, started' \in {started, TRUE} PROVE RegisteredInv'
  BY DEF LifeInv, RegisteredInv

LEMMA Unlisted == ASSUME LifeInv, UNCHANGED << registered, taken, ran >> PROVE ListsInv'
  BY DEF LifeInv, DrainInv, ListsInv

LEMMA Undrained ==
  ASSUME LifeInv, UNCHANGED << registered, onTime, started, drain, taken, ran >> PROVE RegisteredInv' /\ DrainInv'
<1>1. PhaseInv'
  BY DEF LifeInv, DrainInv, PhaseInv
<1> QED
  BY <1>1, Unregistered, Unlisted DEF DrainInv

LEMMA Triggered ==
  ASSUME LifeInv, Trigger, UNCHANGED << registered, onTime, taken, ran >> PROVE RegisteredInv' /\ DrainInv'
<1>1. RegisteredInv'
  BY Unregistered DEF Trigger
<1>2. PhaseInv'
  BY DEF LifeInv, DrainInv, PhaseInv, Trigger
<1> QED
  BY <1>1, <1>2, Unlisted DEF DrainInv

\* The list is taken in reverse.
LEMMA Taken ==
  ASSUME LifeInv, taken' = TakeFinalizers(registered)
  PROVE  /\ taken' \in Seq(Finalizers) /\ Len(taken') = Len(registered) /\ DOMAIN taken' = 1..Len(registered)
         /\ \A i \in 1..Len(registered) : taken'[i] = registered[(Len(registered) + 1) - i]
<1>1. registered \in Seq(Finalizers) /\ Len(registered) \in Nat /\ DOMAIN registered = 1..Len(registered)
  BY LenProperties DEF LifeInv, RegisteredInv
<1>2. taken' = [i \in 1..Len(registered) |-> registered[(Len(registered) - i) + 1]]
  BY DEF TakeFinalizers, Reverse
<1>3. \A i \in 1..Len(registered) : registered[(Len(registered) - i) + 1] \in Finalizers
  BY <1>1, ElementOfSeq
<1>4. taken' \in Seq(Finalizers)
  BY <1>1, <1>2, <1>3, SeqDef
<1>5. DOMAIN taken' = 1..Len(registered) /\ DOMAIN taken' = 1..Len(taken') /\ Len(taken') \in Nat
  BY <1>2, <1>4, LenProperties
<1>6. Len(taken') = Len(registered)
  BY <1>1, <1>5
<1> QED
  BY <1>1, <1>2, <1>4, <1>5, <1>6

LEMMA TakeKeeps ==
  ASSUME LifeInv, drain = "take", taken' = TakeFinalizers(registered), drain' = "next",
         UNCHANGED << registered, onTime, started, ran >>
  PROVE  DrainInv'
<1>1. /\ ran = <<>> /\ onTime <= Len(registered) /\ started
  BY DEF LifeInv, DrainInv, PhaseInv, RegisteredInv
<1>2. ran' = <<>> /\ ran' \in Seq(Finalizers) /\ DOMAIN ran' = {} /\ Len(ran') = 0
  BY <1>1, EmptySeq
<1>3. registered \in Seq(Finalizers) /\ Len(registered) \in Nat
  BY LenProperties DEF LifeInv, RegisteredInv
<1>4. ListsInv'
  <2>1. \A i \in DOMAIN taken' : taken'[i] = registered[Len(taken') + 1 - i]
    BY Taken
  <2>2. Len(ran') <= Len(taken') /\ Len(taken') <= Len(registered) /\ \A i \in DOMAIN ran' : ran'[i] = taken'[i]
    BY <1>2, <1>3, Taken
  <2> QED
    BY <1>2, <2>1, <2>2, Taken, Zenon DEF ListsInv
<1>5. PhaseInv'
  BY <1>1, Taken DEF PhaseInv
<1> QED
  BY <1>4, <1>5 DEF DrainInv

\* The next one of the list runs.
LEMMA RunsNext ==
  ASSUME NEW S, NEW list \in Seq(S), NEW done \in Seq(S), Len(done) <= Len(list), Len(done) # Len(list),
         \A i \in DOMAIN done : done[i] = list[i],
         NEW more, more = Append(done, list[Len(done) + 1])
  PROVE  more \in Seq(S) /\ Len(more) <= Len(list) /\ \A i \in DOMAIN more : more[i] = list[i]
<1>1. /\ Len(list) \in Nat /\ DOMAIN list = 1..Len(list) /\ Len(done) \in Nat /\ DOMAIN done = 1..Len(done)
  BY LenProperties
<1>2. PICK m \in Nat, k \in Nat : m = Len(list) /\ k = Len(done) /\ k <= m /\ k # m
  BY <1>1, Zenon
<1>3. k + 1 \in 1..m
  BY ONLY <1>2
<1>4. PICK f \in S : f = list[k + 1]
  BY <1>2, <1>3, ElementOfSeq
<1>5. more = Append(done, f)
  BY <1>2, <1>4
<1>6. more \in Seq(S) /\ Len(more) = k + 1 /\ more[k + 1] = f /\ \A i \in 1..k : more[i] = done[i]
  BY ONLY <1>2, <1>4, <1>5, AppendProperties, done \in Seq(S)
<1>7. DOMAIN more = 1..(k + 1)
  BY ONLY <1>6, LenProperties
<1>8. \A i \in 1..(k + 1) : more[i] = list[i]
  <2>1. \A i \in 1..k : done[i] = list[i]
    BY <1>1, <1>2, Zenon
  <2>2. \A i \in 1..k : more[i] = list[i]
    BY <1>6, <2>1, Zenon
  <2>3. \A i \in 1..(k + 1) : i \in 1..k \/ i = k + 1
    BY ONLY <1>2
  <2> QED
    BY <1>4, <1>6, <2>2, <2>3, Zenon
<1>9. Len(more) <= Len(list)
  BY ONLY <1>2, <1>3, <1>6
<1> QED
  BY <1>6, <1>7, <1>8, <1>9

LEMMA RunNextKeeps ==
  ASSUME LifeInv, drain = "next", Len(ran) # Len(taken), drain' = "running", ran' = Append(ran, taken[Len(ran) + 1]),
         UNCHANGED << registered, onTime, started, taken >>
  PROVE  DrainInv'
<1>1. ListsInv
  BY DEF LifeInv, DrainInv
<1>2. ran' \in Seq(Finalizers) /\ Len(ran') <= Len(taken) /\ \A i \in DOMAIN ran' : ran'[i] = taken[i]
  BY <1>1, RunsNext DEF ListsInv
<1>3. ListsInv'
  BY <1>1, <1>2 DEF ListsInv
<1>4. PhaseInv'
  BY DEF LifeInv, DrainInv, PhaseInv
<1> QED
  BY <1>3, <1>4 DEF DrainInv

LEMMA DrainMoves ==
  ASSUME LifeInv, DrainBegins \/ RunFinalizer \/ FinalizerEnds \/ FinalizerCut PROVE RegisteredInv' /\ DrainInv'
<1>1. UNCHANGED << registered, onTime, started >> /\ RegisteredInv'
  BY Unregistered DEF DrainBegins, RunFinalizer, FinalizerEnds, FinalizerCut
<1>2. ASSUME UNCHANGED << taken, ran >>,
             \/ drain = "running" /\ drain' = "next"
             \/ drain = "unready" /\ drain' = "take"
             \/ drain = "next" /\ Len(ran) = Len(taken) /\ drain' = "done"
      PROVE  DrainInv'
  <2>1. PhaseInv'
    BY <1>1, <1>2 DEF LifeInv, DrainInv, PhaseInv
  <2> QED
    BY <1>1, <1>2, <2>1, Unlisted DEF DrainInv
<1>3. CASE FinalizerEnds \/ FinalizerCut
  BY <1>1, <1>2, <1>3 DEF FinalizerEnds, FinalizerCut
<1>4. CASE DrainBegins
  BY <1>1, <1>2, <1>4, TakeKeeps DEF DrainBegins
<1>5. CASE RunFinalizer
  BY <1>1, <1>2, <1>5, RunNextKeeps DEF RunFinalizer
<1> QED
  BY <1>1, <1>3, <1>4, <1>5

LEMMA DrainKeeps == ASSUME LifeInv, LifecycleNext PROVE RegisteredInv' /\ DrainInv'
<1>1. CASE \E f \in Finalizers : OnShutdown(f)
  BY <1>1, RegisteredOnce
<1>2. CASE DrainBegins \/ RunFinalizer \/ FinalizerEnds \/ FinalizerCut
  BY <1>2, DrainMoves
<1>3. CASE WatcherStops
  BY <1>3, Triggered, Undrained DEF WatcherStops
<1>4. CASE MainStops
  BY <1>4, Triggered, Undrained DEF MainStops
<1>5. CASE MainInterrupted \/ GrpcCloses \/ Teardown \/ Exit \/ SetReady \/ ProgramEnds \/ OsSignal
  BY <1>5, Undrained DEF MainInterrupted, GrpcCloses, Teardown, Exit, SetReady, ProgramEnds, OsSignal
<1>6. CASE \E c \in Calls : GrpcCall(c) \/ GrpcReturns(c)
  BY <1>6, Undrained DEF GrpcCall, GrpcReturns
<1> QED
  BY <1>1, <1>2, <1>3, <1>4, <1>5, <1>6 DEF LifecycleNext, LifeStep

LEMMA EndKept == ASSUME LifeInv, LifecycleNext PROVE EndInv'
<1> USE DEF LifeInv, DrainInv, PhaseInv, EndInv, Gone, Alive
<1>1. CASE \E f \in Finalizers : OnShutdown(f)
  BY <1>1 DEF OnShutdown
<1>2. CASE DrainBegins \/ RunFinalizer \/ FinalizerEnds \/ FinalizerCut
  BY <1>2 DEF DrainBegins, RunFinalizer, FinalizerEnds, FinalizerCut
<1>3. CASE WatcherStops
  BY <1>3 DEF WatcherStops, Trigger
<1>4. CASE MainStops
  <2>1. main \in {"join", "drain"} /\ main' \in {"drain", "teardown"} /\ UNCHANGED << ready, listening, exit >>
    BY <1>4 DEF MainStops
  <2>2. /\ main' = "teardown" => program' \in {"ended", "failed", "interrupted"} /\ drain' = drain
        /\ program' \in {"ended", "interrupted"} => drain' = "done"
    BY <1>4 DEF MainStops, Trigger
  <2> QED
    BY <1>4, <2>1, <2>2 DEF MainStops
<1>5. CASE MainInterrupted \/ GrpcCloses \/ SetReady \/ ProgramEnds \/ OsSignal
  BY <1>5 DEF MainInterrupted, GrpcCloses, SetReady, ProgramEnds, OsSignal
<1>6. CASE Teardown \/ Exit
  BY <1>6 DEF Teardown, Exit
<1>7. CASE \E c \in Calls : GrpcCall(c) \/ GrpcReturns(c)
  BY <1>7 DEF GrpcCall, GrpcReturns
<1> QED
  BY <1>1, <1>2, <1>3, <1>4, <1>5, <1>6, <1>7 DEF LifecycleNext, LifeStep

\* A closed server admits no call, and those it had were interrupted.
LEMMA Closing ==
  ASSUME LifeInv, grpc' = [accepting |-> FALSE, close |-> "grace"] PROVE GrpcInv'
  BY DEF GrpcInv

LEMMA GrpcKept == ASSUME LifeInv, LifecycleNext PROVE GrpcInv'
<1>1. CASE UNCHANGED << grpc, calls >>
  BY <1>1 DEF LifeInv, GrpcInv, Active
<1>2. CASE RunFinalizer
  <2>1. (grpc' = grpc \/ grpc' = [accepting |-> FALSE, close |-> "grace"]) /\ calls' = calls
    BY <1>2 DEF RunFinalizer
  <2> QED
    BY <1>1, <2>1, Closing
<1>3. CASE FinalizerCut
  BY <1>3 DEF LifeInv, GrpcInv, Active, FinalizerCut
<1>4. CASE GrpcCloses
  BY <1>4 DEF LifeInv, GrpcInv, Active, GrpcCloses
<1>5. CASE Teardown
  <2>1. (grpc' = grpc \/ grpc' = [accepting |-> FALSE, close |-> "grace"]) /\ calls' = calls
    BY <1>5 DEF Teardown
  <2> QED
    BY <1>1, <2>1, Closing
<1>6. ASSUME NEW c \in Calls, GrpcCall(c) \/ GrpcReturns(c) PROVE GrpcInv'
  <2>1. CASE grpc.close = "closed"
    BY <1>6, <2>1 DEF LifeInv, GrpcInv, Active, GrpcCall, GrpcReturns, Admits
  <2>2. CASE grpc.close # "closed"
    BY <1>6, <2>2 DEF LifeInv, GrpcInv, GrpcCall, GrpcReturns
  <2> QED
    BY <2>1, <2>2
<1>7. CASE \/ DrainBegins \/ FinalizerEnds \/ WatcherStops \/ MainStops \/ MainInterrupted \/ SetReady
           \/ ProgramEnds \/ OsSignal \/ Exit \/ \E f \in Finalizers : OnShutdown(f)
  BY <1>1, <1>7 DEF DrainBegins, FinalizerEnds, WatcherStops, MainStops, MainInterrupted, SetReady, ProgramEnds,
                    OsSignal, Exit, OnShutdown
<1> QED
  BY <1>2, <1>3, <1>4, <1>5, <1>6, <1>7 DEF LifecycleNext, LifeStep

LEMMA LifeStart == ASSUME DeploymentInit PROVE LifeInv
<1>1. LifecycleInit /\ <<>> \in Seq(Finalizers) /\ Len(<<>>) = 0 /\ DOMAIN <<>> = {}
  BY EmptySeq DEF DeploymentInit
<1>2. RegisteredInv
  <2>1. registered = <<>> /\ onTime = 0 /\ started = FALSE
    BY <1>1 DEF LifecycleInit
  <2>2. /\ Len(registered) = 0 /\ DOMAIN registered = {} /\ registered \in Seq(Finalizers)
        /\ onTime \in Nat /\ onTime <= 0
    BY ONLY <1>1, <2>1
  <2> QED
    BY <2>1, <2>2, Zenon DEF RegisteredInv
<1>3. DrainInv
  BY <1>1 DEF LifecycleInit, DrainInv, ListsInv, PhaseInv
<1>4. EndInv
  BY <1>1 DEF LifecycleInit, EndInv, Gone
<1>5. GrpcInv
  BY <1>1 DEF LifecycleInit, GrpcInv, Active
<1> QED
  BY <1>2, <1>3, <1>4, <1>5 DEF LifeInv

LEMMA LifeSteps == LifeInv /\ [DeploymentNext]_<<migrationVars, processVars>> => LifeInv'
<1>1. ASSUME LifeInv, UNCHANGED processVars PROVE LifeInv'
  BY <1>1, Undrained DEF processVars, LifeInv, EndInv, GrpcInv, Active
<1>2. ASSUME LifeInv, LifecycleNext PROVE LifeInv'
  BY <1>2, DrainKeeps, EndKept, GrpcKept DEF LifeInv
<1> QED
  BY <1>1, <1>2 DEF DeploymentNext

\* The drain that a clean exit waited for ran what was registered on time.
LEMMA LifeIsOrderly == LifeInv => CleanExitIsDrained /\ NothingRunsBehindClosedDoors
<1> SUFFICES ASSUME LifeInv PROVE CleanExitIsDrained /\ NothingRunsBehindClosedDoors
  OBVIOUS
<1>1. ASSUME exit = "0"
      PROVE  /\ drain = "done" /\ ran = taken
             /\ \A i \in 1..onTime : \E j \in DOMAIN ran : ran[j] = registered[i]
             /\ \A i, j \in DOMAIN ran : ran[i] = ran[j] => i = j
  <2>1. drain = "done"
    BY <1>1 DEF LifeInv, EndInv, Gone
  <2>2. /\ taken \in Seq(Finalizers) /\ ran \in Seq(Finalizers) /\ Len(ran) = Len(taken) /\ onTime <= Len(taken)
        /\ registered \in Seq(Finalizers) /\ Len(taken) <= Len(registered) /\ onTime \in Nat
        /\ \A i \in DOMAIN ran : ran[i] = taken[i]
        /\ \A i \in DOMAIN taken : taken[i] = registered[Len(taken) + 1 - i]
        /\ \A i, j \in DOMAIN registered : registered[i] = registered[j] => i = j
    BY <2>1 DEF LifeInv, DrainInv, ListsInv, PhaseInv, RegisteredInv
  <2>3. /\ Len(taken) \in Nat /\ DOMAIN ran = 1..Len(taken) /\ DOMAIN taken = 1..Len(taken)
        /\ Len(registered) \in Nat /\ DOMAIN registered = 1..Len(registered)
    BY <2>2, LenProperties
  <2>4. ran = taken
    BY <2>2, <2>3, SeqEqual
  <2>5. ASSUME NEW i \in 1..onTime PROVE \E j \in DOMAIN ran : ran[j] = registered[i]
    <3>1. Len(taken) + 1 - i \in DOMAIN ran /\ Len(taken) + 1 - (Len(taken) + 1 - i) = i
      BY <2>2, <2>3
    <3>2. ran[Len(taken) + 1 - i] = registered[Len(taken) + 1 - (Len(taken) + 1 - i)]
      BY <2>2, <2>3, <3>1
    <3> QED
      BY <3>1, <3>2
  <2>6. ASSUME NEW i \in DOMAIN ran, NEW j \in DOMAIN ran, ran[i] = ran[j] PROVE i = j
    <3>1. registered[Len(taken) + 1 - i] = registered[Len(taken) + 1 - j]
      BY <2>2, <2>3, <2>6
    <3>2. Len(taken) + 1 - i \in DOMAIN registered /\ Len(taken) + 1 - j \in DOMAIN registered
      BY <2>2, <2>3
    <3>3. Len(taken) + 1 - i = Len(taken) + 1 - j
      BY <2>2, <3>1, <3>2
    <3> QED
      BY <2>3, <3>3
  <2> QED
    BY <2>1, <2>4, <2>5, <2>6
<1>2. NothingRunsBehindClosedDoors
  BY DEF LifeInv, EndInv, GrpcInv, NothingRunsBehindClosedDoors, Gone
<1> QED
  BY <1>1, <1>2 DEF CleanExitIsDrained

\* However runners of both lock modes and of any builds overlap and die: every migration runs at most once
\* and in order, and where builds only append migrations a green runner leaves its build ready
\* (packages/migrations/src/run.ts); and whatever a process was asked to do when, an exit with 0 comes after
\* a complete drain and nothing is announced or runs behind closed listeners (packages/runtime/src/Shutdown.ts,
\* AppRuntime.ts, packages/grpc/src/server.ts).
THEOREM DeploymentsHold == ASSUME AppendOnly PROVE DeploymentSpec => []DeploymentsAreOrderly
<1> DEFINE AllInv == MigrationsInv /\ GreenInv /\ LifeInv
<1>1. DeploymentInit => AllInv
  BY MigrationsStart, GreenStart, LifeStart
<1>2. AllInv /\ [DeploymentNext]_<<migrationVars, processVars>> => AllInv'
  BY MigrationsStep, GreenStep, LifeSteps
<1>3. AllInv => DeploymentsAreOrderly
  BY GreenIsReady, LifeIsOrderly DEF MigrationsInv, DeploymentsAreOrderly
<1> QED
  BY <1>1, <1>2, <1>3, PTL DEF DeploymentSpec

\* Without that hypothesis: migrations run once and in order whatever the builds hold.
THEOREM MigrationsRunOnce == DeploymentSpec => []MigratesOnceInOrder
<1>1. MigrationsInv => MigratesOnceInOrder
  BY DEF MigrationsInv
<1> QED
  BY <1>1, MigrationsStart, MigrationsStep, PTL DEF DeploymentSpec

-----------------------------------------------------------------------------
\* Server streams of gRPC.

Statuses == [code : Codes, trailers : DOMAIN Failures \cup {Nothing}]
Packets == [message : Nat] \cup Statuses
Events == {"readable", "error", "end", "close"}

ServerType == [at : {"idle", "running", "over", "cut"}, sent : Nat, status : Causes \cup {Nothing}]
SourceType == [buffer : Seq(Nat), finished : BOOLEAN, error : Statuses, destroyed : BOOLEAN]
ReaderType == [at : {"idle", "busy", "waiting", "done"}, ended : BOOLEAN, failed : Statuses,
               received : Seq(Nat), result : Codes \cup DOMAIN Failures \cup {Nothing}]

GrpcTypes ==
    /\ server \in ServerType /\ source \in SourceType /\ reader \in ReaderType
    /\ network \in Seq(Packets) /\ emitted \in Seq(Events)

\* What is under way: the messages 1 .. sent are read, then buffered, then on the wire, with the status at the
\* end once the server is over.  A cut stands for all that was on the wire; a destroyed source reads no more.
ReadInOrder ==
    /\ \A i \in 1..Len(reader.received) : reader.received[i] = i
    /\ \A i \in 1..Len(source.buffer) : source.buffer[i] = Len(reader.received) + i

PlacesInv ==
    /\ reader.at = "idle" => server.at = "idle"
    /\ server.at = "idle" => reader.at \in {"idle", "done"} /\ network = <<>>
    /\ source.finished => network = <<>> /\ server.at \in {"over", "cut"}
    /\ source.destroyed => ~source.finished /\ source.buffer = <<>>
    /\ server.at = "over" => server.status \in Causes

OpenInv ==
    server.at \in {"idle", "running"} /\ ~source.destroyed =>
        /\ Len(reader.received) + Len(source.buffer) + Len(network) = server.sent
        /\ \A i \in 1..Len(network) : network[i] = Message(Len(reader.received) + Len(source.buffer) + i)

OverInv ==
    server.at = "over" /\ ~source.destroyed /\ ~source.finished =>
        /\ Len(reader.received) + Len(source.buffer) + Len(network) = server.sent + 1
        /\ Len(network) > 0 /\ network[Len(network)] = StatusOf(server.status)
        /\ \A i \in 1..(Len(network) - 1) : network[i] = Message(Len(reader.received) + Len(source.buffer) + i)

FinishedInv ==
    /\ server.at = "over" /\ source.finished =>
          /\ Len(reader.received) + Len(source.buffer) = server.sent
          /\ source.error = StatusOf(server.status)
    /\ server.at = "cut" /\ source.finished =>
          source.error.code \in {"UNAVAILABLE", "DEADLINE_EXCEEDED"} /\ source.error.trailers = Nothing

CutInv ==
    server.at = "cut" /\ ~source.finished =>
        \E code \in {"UNAVAILABLE", "DEADLINE_EXCEEDED"} : network = <<[code |-> code, trailers |-> Nothing]>>

FlowInv == ReadInOrder /\ PlacesInv /\ OpenInv /\ OverInv /\ FinishedInv /\ CutInv

\* What the reader remembers or will still hear of the end and of the failure.
HearInv ==
    /\ source.error # NoError => source.finished
    /\ reader.failed \in {NoError, source.error}
    /\ source.error # NoError => reader.failed = source.error \/ \E i \in DOMAIN emitted : emitted[i] = "error"
    /\ reader.ended \/ (\E i \in DOMAIN emitted : emitted[i] = "end") =>
          source.finished /\ source.error = NoError /\ source.buffer = <<>>
    /\ reader.at = "waiting" =>
          /\ ~reader.ended /\ reader.failed = NoError
          /\ emitted = <<>> => source.buffer = <<>> /\ ~source.destroyed /\ ~source.finished

ResultInv ==
    /\ reader.result = "OK" \/ reader.result \in DOMAIN Failures =>
          reader.at = "done" /\ server.at \in {"over", "cut"} /\ Len(reader.received) = server.sent
    /\ reader.result = "OK" => server.status = "end"
    /\ reader.result \in DOMAIN Failures =>
          server.status = reader.result /\ Failures[reader.result] <= MaxFailureBytes

StreamInv == GrpcTypes /\ FlowInv /\ HearInv /\ ResultInv

LEMMA StatusesTell ==
  ASSUME NEW cause \in Causes
  PROVE  /\ StatusOf(cause) \in Statuses /\ DOMAIN StatusOf(cause) = {"code", "trailers"}
         /\ StatusOf(cause).code \in {"OK", "INTERNAL", "NOT_FOUND", "FAILED_PRECONDITION"}
         /\ StatusOf(cause).code = "OK" <=> cause = "end"
         /\ cause = "end" => StatusOf(cause) = NoError
         /\ StatusOf(cause).trailers # Nothing =>
               /\ cause \in DOMAIN Failures /\ StatusOf(cause).trailers = cause /\ Failures[cause] <= MaxFailureBytes
<1>1. CASE cause \in DOMAIN Failures
  <2>1. cause \notin Codes \cup {"end", "defect", Nothing}
    BY <1>1, GrpcAssumption
  <2>2. StatusOf(cause) = [code |-> CodeOf(cause),
                           trailers |-> IF CodeOf(cause) = "FAILED_PRECONDITION" THEN cause ELSE Nothing]
    BY <1>1, <2>1 DEF StatusOf
  <2>3. CodeOf(cause) \in {"INTERNAL", "FAILED_PRECONDITION"}
        /\ (CodeOf(cause) = "FAILED_PRECONDITION" => Failures[cause] <= MaxFailureBytes)
    BY DEF CodeOf
  <2> QED
    BY <1>1, <2>1, <2>2, <2>3 DEF Statuses, Codes
<1>2. CASE cause \notin DOMAIN Failures
  <2>1. StatusOf(cause) = [code |-> CASE cause = "end" -> "OK" [] cause = "defect" -> "INTERNAL" [] OTHER -> cause,
                           trailers |-> Nothing]
    BY <1>2 DEF StatusOf
  <2>2. cause \in {"end", "NOT_FOUND", "FAILED_PRECONDITION", "defect"}
    BY <1>2 DEF Causes
  <2> QED
    BY <1>2, <2>1, <2>2 DEF Statuses, Codes, NoError
<1> QED
  BY <1>1, <1>2

LEMMA StreamStart == GrpcInit => StreamInv
<1> SUFFICES ASSUME GrpcInit PROVE StreamInv
  OBVIOUS
<1>1. /\ server = [at |-> "idle", sent |-> 0, status |-> Nothing]
      /\ network = << >> /\ emitted = << >>
      /\ source = [buffer |-> << >>, finished |-> FALSE, error |-> NoError, destroyed |-> FALSE]
      /\ reader = [at |-> "idle", ended |-> FALSE, failed |-> NoError, received |-> << >>, result |-> Nothing]
  BY DEF GrpcInit
<1>2. NoError \in Statuses
  BY DEF NoError, Statuses, Codes
<1>3. GrpcTypes
  <2>1. server \in ServerType
    BY <1>1 DEF ServerType
  <2>2. source \in SourceType
    BY <1>1, <1>2 DEF SourceType
  <2>3. reader \in ReaderType
    BY <1>1, <1>2 DEF ReaderType
  <2> QED
    BY <1>1, <2>1, <2>2, <2>3 DEF GrpcTypes
<1>4. FlowInv
  BY <1>1 DEF FlowInv, ReadInOrder, PlacesInv, OpenInv, OverInv, FinishedInv, CutInv
<1>5. HearInv
  BY <1>1 DEF HearInv
<1>6. ResultInv
  BY <1>1, GrpcAssumption DEF ResultInv, Nothing
<1> QED
  BY <1>3, <1>4, <1>5, <1>6 DEF StreamInv

\* A call that starts, or is refused, finds the wire as it was.
LEMMA CallKeeps ==
  ASSUME StreamInv, reader.at = "idle", server.at = "idle", network' = network, source' = source, emitted' = emitted,
         \/ server' = [server EXCEPT !.at = "running"] /\ reader' = [reader EXCEPT !.at = "busy"]
         \/ server' = server /\ reader' = [reader EXCEPT !.at = "done", !.result = "UNAVAILABLE"]
  PROVE  StreamInv'
<1>1. /\ reader'.received = reader.received /\ reader'.failed = reader.failed /\ reader'.ended = reader.ended
      /\ reader'.at \in {"busy", "done"} /\ server'.sent = server.sent /\ server'.status = server.status
      /\ server'.at \in {"idle", "running"} /\ (server'.at = "idle" => reader'.at = "done")
      /\ reader'.result \in {reader.result, "UNAVAILABLE"}
  <2>1. server \in ServerType /\ reader \in ReaderType
    BY DEF StreamInv, GrpcTypes
  <2>2. server'.sent = server.sent /\ server'.status = server.status
    BY <2>1 DEF ServerType
  <2>3. reader'.received = reader.received /\ reader'.failed = reader.failed /\ reader'.ended = reader.ended
    BY <2>1 DEF ReaderType
  <2> QED
    BY <2>1, <2>2, <2>3 DEF ServerType, ReaderType
<1>2. GrpcTypes'
  <2>1. server \in ServerType /\ reader \in ReaderType
    BY DEF StreamInv, GrpcTypes
  <2>2. server' \in ServerType
    BY <2>1 DEF ServerType
  <2>3. reader' \in ReaderType
    BY <2>1 DEF ReaderType, Codes
  <2> QED
    BY <2>2, <2>3 DEF StreamInv, GrpcTypes
<1>3. FlowInv'
  <2>1. PlacesInv'
    BY <1>1 DEF StreamInv, FlowInv, PlacesInv
  <2>2. ReadInOrder' /\ OpenInv'
    BY <1>1 DEF StreamInv, FlowInv, ReadInOrder, OpenInv
  <2>3. OverInv' /\ FinishedInv' /\ CutInv'
    BY <1>1 DEF OverInv, FinishedInv, CutInv
  <2> QED
    BY <2>1, <2>2, <2>3 DEF FlowInv
<1>4. HearInv'
  BY <1>1 DEF StreamInv, HearInv
<1>5. ResultInv'
  BY <1>1, GrpcAssumption DEF StreamInv, ResultInv, Codes
<1> QED
  BY <1>2, <1>3, <1>4, <1>5 DEF StreamInv

LEMMA CallStep == StreamInv /\ Call => StreamInv'
<1> SUFFICES ASSUME StreamInv, Call PROVE StreamInv'
  OBVIOUS
<1>0. reader.at = "idle" /\ server.at = "idle"
  BY DEF StreamInv, FlowInv, PlacesInv, Call
<1>a. CASE open
  <2>1. /\ server' = [server EXCEPT !.at = "running"] /\ reader' = [reader EXCEPT !.at = "busy"]
        /\ network' = network /\ source' = source /\ emitted' = emitted
    BY <1>a DEF Call
  <2> QED
    BY <1>0, <2>1, CallKeeps
<1>b. CASE ~open
  <2>1. /\ server' = server /\ reader' = [reader EXCEPT !.at = "done", !.result = "UNAVAILABLE"]
        /\ network' = network /\ source' = source /\ emitted' = emitted
    BY <1>b DEF Call
  <2> QED
    BY <1>0, <2>1, CallKeeps
<1> QED
  BY <1>a, <1>b

LEMMA WriteStep == StreamInv /\ ServerWrites => StreamInv'
<1> SUFFICES ASSUME StreamInv, ServerWrites PROVE StreamInv'
  OBVIOUS
<1>1. /\ server.at = "running" /\ server'.at = "running" /\ server'.sent = server.sent + 1
      /\ server'.status = server.status
      /\ network' = Append(network, Message(server.sent + 1))
      /\ reader' = reader /\ source' = source /\ emitted' = emitted
  BY DEF StreamInv, GrpcTypes, ServerType, SourceType, ReaderType, ServerWrites
<1>2. Message(server.sent + 1) \in Packets
  <2>1. server.sent + 1 \in Nat
    BY DEF StreamInv, GrpcTypes, ServerType
  <2> QED
    BY <2>1 DEF Message, Packets
<1>3. /\ network' \in Seq(Packets) /\ Len(network') = Len(network) + 1 /\ Len(network) \in Nat
      /\ \A i \in 1..Len(network) : network'[i] = network[i]
      /\ network'[Len(network) + 1] = Message(server.sent + 1)
  BY <1>1, <1>2, AppendProperties, LenProperties DEF StreamInv, GrpcTypes, ServerType, SourceType, ReaderType
<1>4. GrpcTypes'
  <2>1. server' = [server EXCEPT !.sent = server.sent + 1]
    BY DEF ServerWrites
  <2>a. server \in ServerType
    BY DEF StreamInv, GrpcTypes, ServerType, SourceType, ReaderType
  <2>2. server' \in ServerType
    BY ONLY <2>1, <2>a DEF ServerType
  <2> QED
    BY <1>1, <1>3, <2>2 DEF StreamInv, GrpcTypes, ServerType, SourceType, ReaderType
<1>5. Len(reader.received) \in Nat /\ Len(source.buffer) \in Nat /\ server.sent \in Nat
  BY LenProperties DEF StreamInv, GrpcTypes, ServerType, SourceType, ReaderType
<1>6. FlowInv'
  <2>1. /\ reader.at # "idle" /\ ~source.finished
        /\ source.destroyed => source.buffer = <<>>
    BY <1>1 DEF StreamInv, FlowInv, PlacesInv
  <2>2. ReadInOrder'
    BY <1>1 DEF StreamInv, FlowInv, ReadInOrder
  <2>3. PlacesInv'
    BY <1>1, <2>1 DEF PlacesInv
  <2>4. ASSUME ~source.destroyed
        PROVE  /\ Len(reader.received) + Len(source.buffer) + Len(network') = server.sent + 1
               /\ \A i \in 1..Len(network) : network'[i] = Message(Len(reader.received) + Len(source.buffer) + i)
               /\ server.sent + 1 = Len(reader.received) + Len(source.buffer) + (Len(network) + 1)
    <3>1. PICK n, b, w, m \in Nat : n = Len(reader.received) /\ b = Len(source.buffer) /\ w = Len(network) /\ m = server.sent
      BY <1>3, <1>5
    <3>2. n + b + w = m
      BY <1>1, <2>4, <3>1 DEF StreamInv, FlowInv, OpenInv
    <3>3. \A i \in 1..w : network'[i] = Message(n + b + i)
      BY <1>1, <1>3, <2>4, <3>1, Zenon DEF StreamInv, FlowInv, OpenInv
    <3>4. n + b + (w + 1) = m + 1
      BY ONLY <3>2, n \in Nat, b \in Nat, w \in Nat, m \in Nat
    <3>5. Len(network') = w + 1
      BY <1>3, <3>1
    <3> QED
      BY ONLY <3>1, <3>3, <3>4, <3>5
  <2>5. OpenInv'
    <3>1. SUFFICES ASSUME ~source.destroyed, NEW i \in 1..(Len(network) + 1)
                   PROVE  network'[i] = Message(Len(reader.received) + Len(source.buffer) + i)
      BY <1>1, <1>3, <2>4 DEF OpenInv
    <3>2. CASE i = Len(network) + 1
      BY <1>3, <2>4, <3>1, <3>2
    <3>3. CASE i # Len(network) + 1
      <4>1. i \in 1..Len(network)
        BY <1>3, <3>1, <3>3
      <4> QED
        BY <2>4, <3>1, <4>1
    <3> QED
      BY <3>2, <3>3
  <2>6. OverInv' /\ FinishedInv' /\ CutInv'
    BY <1>1 DEF OverInv, FinishedInv, CutInv
  <2> QED
    BY <2>2, <2>3, <2>5, <2>6 DEF FlowInv
<1>7. HearInv'
  BY <1>1 DEF StreamInv, HearInv
<1>8. ResultInv'
  BY <1>1 DEF StreamInv, ResultInv
<1> QED
  BY <1>4, <1>6, <1>7, <1>8 DEF StreamInv

LEMMA EndStep == StreamInv /\ ServerEnds => StreamInv'
<1> SUFFICES ASSUME StreamInv, ServerEnds PROVE StreamInv'
  OBVIOUS
<1>0. PICK cause \in Causes : /\ server' = [server EXCEPT !.at = "over", !.status = cause]
                              /\ network' = Append(network, StatusOf(cause))
  BY DEF ServerEnds
<1>1. /\ server.at = "running" /\ server'.at = "over" /\ server'.sent = server.sent /\ server'.status = cause
      /\ reader' = reader /\ source' = source /\ emitted' = emitted
  BY <1>0 DEF StreamInv, GrpcTypes, ServerType, SourceType, ReaderType, ServerEnds
<1>2. StatusOf(cause) \in Packets
  BY StatusesTell DEF Packets
<1>3. /\ network' \in Seq(Packets) /\ Len(network') = Len(network) + 1 /\ Len(network) \in Nat
      /\ \A i \in 1..Len(network) : network'[i] = network[i]
      /\ network'[Len(network) + 1] = StatusOf(cause)
  BY <1>0, <1>2, AppendProperties, LenProperties DEF StreamInv, GrpcTypes, ServerType, SourceType, ReaderType
<1>4. GrpcTypes'
  BY <1>0, <1>1, <1>3 DEF StreamInv, GrpcTypes, ServerType, SourceType, ReaderType
<1>5. Len(reader.received) \in Nat /\ Len(source.buffer) \in Nat /\ server.sent \in Nat
  BY LenProperties DEF StreamInv, GrpcTypes, ServerType, SourceType, ReaderType
<1>6. FlowInv'
  <2>1. /\ reader.at # "idle" /\ ~source.finished
        /\ source.destroyed => source.buffer = <<>>
    BY <1>1 DEF StreamInv, FlowInv, PlacesInv
  <2>2. ReadInOrder'
    BY <1>1 DEF StreamInv, FlowInv, ReadInOrder
  <2>3. PlacesInv'
    BY <1>1, <2>1 DEF PlacesInv
  <2>4. ASSUME ~source.destroyed
        PROVE  /\ Len(reader.received) + Len(source.buffer) + Len(network') = server.sent + 1
               /\ \A i \in 1..Len(network) : network'[i] = Message(Len(reader.received) + Len(source.buffer) + i)
               /\ server.sent + 1 = Len(reader.received) + Len(source.buffer) + (Len(network) + 1)
    <3>1. PICK n, b, w, m \in Nat : n = Len(reader.received) /\ b = Len(source.buffer) /\ w = Len(network) /\ m = server.sent
      BY <1>3, <1>5
    <3>2. n + b + w = m
      BY <1>1, <2>4, <3>1 DEF StreamInv, FlowInv, OpenInv
    <3>3. \A i \in 1..w : network'[i] = Message(n + b + i)
      BY <1>1, <1>3, <2>4, <3>1, Zenon DEF StreamInv, FlowInv, OpenInv
    <3>4. n + b + (w + 1) = m + 1
      BY ONLY <3>2, n \in Nat, b \in Nat, w \in Nat, m \in Nat
    <3>5. Len(network') = w + 1
      BY <1>3, <3>1
    <3> QED
      BY ONLY <3>1, <3>3, <3>4, <3>5
  <2>5. OverInv'
    <3>1. Len(network') - 1 = Len(network) /\ Len(network') > 0
      BY <1>3
    <3> QED
      BY <1>1, <1>3, <2>4, <3>1 DEF OverInv
  <2>6. OpenInv' /\ FinishedInv' /\ CutInv'
    BY <1>1, <2>1 DEF OpenInv, FinishedInv, CutInv
  <2> QED
    BY <2>2, <2>3, <2>5, <2>6 DEF FlowInv
<1>7. HearInv'
  BY <1>1 DEF StreamInv, HearInv
<1>8. ResultInv'
  BY <1>1 DEF StreamInv, ResultInv
<1> QED
  BY <1>4, <1>6, <1>7, <1>8 DEF StreamInv

LEMMA FailStep == StreamInv /\ TransportFails => StreamInv'
<1> SUFFICES ASSUME StreamInv, TransportFails PROVE StreamInv'
  OBVIOUS
<1>0. PICK code \in {"UNAVAILABLE", "DEADLINE_EXCEEDED"} : network' = << [code |-> code, trailers |-> Nothing] >>
  BY DEF TransportFails
<1>1. /\ server'.at = "cut" /\ server'.sent = server.sent /\ server'.status = server.status
      /\ reader' = reader /\ source' = source /\ emitted' = emitted
      /\ ~source.finished /\ reader.at \notin {"idle", "done"}
  BY DEF StreamInv, GrpcTypes, ServerType, SourceType, ReaderType, TransportFails
<1>2. [code |-> code, trailers |-> Nothing] \in Packets
  BY DEF Packets, Statuses, Codes
<1>3. network' \in Seq(Packets)
  BY <1>0, <1>2
<1>4. GrpcTypes'
  BY <1>1, <1>3 DEF StreamInv, GrpcTypes, ServerType, SourceType, ReaderType, TransportFails
<1>6. FlowInv'
  BY <1>0, <1>1 DEF StreamInv, FlowInv, ReadInOrder, PlacesInv, OpenInv, OverInv, FinishedInv, CutInv
<1>7. HearInv'
  BY <1>1 DEF StreamInv, HearInv
<1>8. ResultInv'
  BY <1>1 DEF StreamInv, ResultInv
<1> QED
  BY <1>4, <1>6, <1>7, <1>8 DEF StreamInv

LEMMA DestroyStep == StreamInv /\ Destroyed => StreamInv'
<1> SUFFICES ASSUME StreamInv, Destroyed PROVE StreamInv'
  OBVIOUS
<1>1. /\ source'.buffer = <<>> /\ source'.destroyed /\ ~source'.finished /\ source'.error = source.error
      /\ reader' = reader /\ server' = server /\ network' = network /\ emitted' = Append(emitted, "close")
      /\ ~source.finished /\ ~source.destroyed
  BY DEF StreamInv, GrpcTypes, ServerType, SourceType, ReaderType, Destroyed
<1>2. /\ emitted' \in Seq(Events) /\ Len(emitted') = Len(emitted) + 1 /\ Len(emitted) \in Nat
      /\ \A i \in 1..Len(emitted) : emitted'[i] = emitted[i]
      /\ emitted'[Len(emitted) + 1] = "close"
      /\ DOMAIN emitted = 1..Len(emitted) /\ DOMAIN emitted' = 1..(Len(emitted) + 1)
  <2>1. "close" \in Events /\ emitted \in Seq(Events)
    BY DEF Events, StreamInv, GrpcTypes
  <2> QED
    BY <1>1, <2>1, AppendProperties, LenProperties
<1>4. GrpcTypes'
  <2>1. source' = [source EXCEPT !.destroyed = TRUE, !.buffer = <<>>]
    BY DEF Destroyed
  <2>a. source \in SourceType /\ <<>> \in Seq(Nat)
    BY DEF StreamInv, GrpcTypes, ServerType, SourceType, ReaderType
  <2>2. source' \in SourceType
    BY ONLY <2>1, <2>a DEF SourceType
  <2> QED
    BY <1>1, <1>2, <2>2 DEF StreamInv, GrpcTypes, ServerType, SourceType, ReaderType
<1>6. FlowInv'
  <2>1. Len(source'.buffer) = 0
    BY <1>1
  <2> QED
    BY <1>1, <2>1 DEF StreamInv, FlowInv, ReadInOrder, PlacesInv, OpenInv, OverInv, FinishedInv, CutInv
<1>7. HearInv'
  <2>1. source.error = NoError /\ reader.failed = NoError /\ ~reader.ended /\ \A i \in DOMAIN emitted : emitted[i] # "end"
    BY <1>1 DEF StreamInv, HearInv
  <2>2. \A i \in DOMAIN emitted' : emitted'[i] # "end"
    BY <1>2, <2>1
  <2>3. emitted' # <<>>
    BY <1>2
  <2> QED
    BY <1>1, <2>1, <2>2, <2>3 DEF HearInv
<1>8. ResultInv'
  BY <1>1 DEF StreamInv, ResultInv
<1> QED
  BY <1>4, <1>6, <1>7, <1>8 DEF StreamInv

LEMMA Appended ==
  ASSUME NEW S, NEW s \in Seq(S), NEW x \in S
  PROVE  /\ Append(s, x) \in Seq(S) /\ Append(s, x) # <<>> /\ Len(s) \in Nat /\ Len(Append(s, x)) = Len(s) + 1
         /\ DOMAIN s = 1..Len(s) /\ DOMAIN Append(s, x) = 1..(Len(s) + 1)
         /\ \A i \in 1..Len(s) : Append(s, x)[i] = s[i]
         /\ Append(s, x)[Len(s) + 1] = x
<1>1. Append(s, x) \in Seq(S) /\ Len(s) \in Nat /\ Len(Append(s, x)) = Len(s) + 1
      /\ (\A i \in 1..Len(s) : Append(s, x)[i] = s[i]) /\ Append(s, x)[Len(s) + 1] = x
  BY AppendProperties, LenProperties
<1> QED
  BY <1>1, LenProperties

\* A packet that arrives is the next message, or the status, which is the last one.
LEMMA NextPacket ==
  ASSUME StreamInv, network # <<>>, ~source.destroyed,
         NEW n \in Nat, n = Len(reader.received), NEW b \in Nat, b = Len(source.buffer), NEW w \in Nat, Len(network) = w + 1
  PROVE  /\ server.at \in {"running", "over", "cut"} /\ ~source.finished
         /\ \/ /\ server.at \in {"running", "over"} /\ network[1] = Message(n + b + 1)
               /\ server.at = "over" => w > 0
            \/ w = 0 /\ server.at = "over" /\ network[1] = StatusOf(server.status)
            \/ /\ w = 0 /\ server.at = "cut"
               /\ network[1] \in Statuses /\ DOMAIN network[1] = {"code", "trailers"} /\ network[1].trailers = Nothing
               /\ network[1].code \in {"UNAVAILABLE", "DEADLINE_EXCEEDED"}
<1>1. server.at \in {"running", "over", "cut"} /\ ~source.finished
  BY DEF StreamInv, GrpcTypes, ServerType, FlowInv, PlacesInv
<1>2. CASE server.at = "running"
  <2>1. \A i \in 1..(w + 1) : network[i] = Message(n + b + i)
    BY <1>2 DEF StreamInv, FlowInv, OpenInv
  <2>2. 1 \in 1..(w + 1)
    OBVIOUS
  <2> QED
    BY <1>1, <1>2, <2>1, <2>2
<1>3. CASE server.at = "over"
  <2>1. /\ network[w + 1] = StatusOf(server.status)
        /\ \A i \in 1..((w + 1) - 1) : network[i] = Message(n + b + i)
    BY <1>1, <1>3 DEF StreamInv, FlowInv, OverInv
  <2>2. CASE w = 0
    BY <1>1, <1>3, <2>1, <2>2
  <2>3. CASE w # 0
    <3>1. 1 \in 1..((w + 1) - 1)
      BY <2>3
    <3> QED
      <4>1. network[1] = Message(n + b + 1)
        BY <2>1, <3>1
      <4>2. w > 0
        BY ONLY <2>3, w \in Nat
      <4> QED
        BY <1>1, <1>3, <4>1, <4>2
  <2> QED
    BY <2>2, <2>3
<1>4. CASE server.at = "cut"
  <2>1. PICK code \in {"UNAVAILABLE", "DEADLINE_EXCEEDED"} : network = <<[code |-> code, trailers |-> Nothing]>>
    BY <1>1, <1>4 DEF StreamInv, FlowInv, CutInv
  <2>2. network[1] = [code |-> code, trailers |-> Nothing] /\ Len(network) = 1
    BY <2>1
  <2> QED
    <3>1. network[1] \in Statuses /\ DOMAIN network[1] = {"code", "trailers"}
      BY <2>2 DEF Statuses, Codes
    <3>2. w = 0
      BY ONLY <2>2, Len(network) = w + 1, w \in Nat
    <3> QED
      BY <1>1, <1>4, <2>2, <3>1, <3>2
<1> QED
  BY <1>1, <1>2, <1>3, <1>4

LEMMA PacketStep == StreamInv /\ Arrives => StreamInv'
<1> SUFFICES ASSUME StreamInv, Arrives PROVE StreamInv'
  OBVIOUS
<1>1. /\ network # <<>> /\ ~source.destroyed /\ network' = Tail(network)
      /\ reader' = reader /\ server' = server
  BY DEF Arrives
<1>2. PICK w \in Nat : /\ Len(network) = w + 1 /\ Len(network') = w /\ Head(network) = network[1]
                       /\ \A i \in 1..w : network'[i] = network[i + 1]
                       /\ network' \in Seq(Packets)
  <2>1. network \in Seq(Packets) /\ Len(network) \in Nat \ {0} /\ Head(network) = network[1]
    BY <1>1, EmptySeq DEF StreamInv, GrpcTypes
  <2>2. PICK w \in Nat : Len(network) = w + 1
    BY <2>1
  <2> QED
    BY <1>1, <2>1, <2>2, HeadTailProperties
<1>3. PICK n, b, m \in Nat : n = Len(reader.received) /\ b = Len(source.buffer) /\ m = server.sent
  BY LenProperties DEF StreamInv, GrpcTypes, ServerType, SourceType, ReaderType
<1>4. source \in SourceType /\ emitted \in Seq(Events)
  BY DEF StreamInv, GrpcTypes
<1>5. CASE network[1] = Message(n + b + 1) /\ server.at \in {"running", "over"} /\ (server.at = "over" => w > 0)
  <2>1. "message" \in DOMAIN network[1] /\ network[1].message = n + b + 1
    BY <1>5 DEF Message
  <2>2. source' = [source EXCEPT !.buffer = Append(source.buffer, n + b + 1)] /\ emitted' = Append(emitted, "readable")
    BY <1>2, <2>1 DEF Arrives
  <2>3. source.buffer \in Seq(Nat) /\ n + b + 1 \in Nat /\ "readable" \in Events
    BY <1>4 DEF SourceType, Events
  <2>4. /\ source'.buffer = Append(source.buffer, n + b + 1) /\ source'.finished = source.finished
        /\ source'.error = source.error /\ source'.destroyed = source.destroyed
    BY <1>4, <2>2 DEF SourceType
  <2>5. /\ source'.buffer \in Seq(Nat) /\ Len(source'.buffer) = b + 1 /\ source'.buffer[b + 1] = n + b + 1
        /\ \A i \in 1..b : source'.buffer[i] = source.buffer[i]
    <3>1. PICK s \in Seq(Nat), x \in Nat : s = source.buffer /\ x = n + b + 1
      BY <2>3
    <3>2. Len(s) = b /\ source'.buffer = Append(s, x)
      BY <1>3, <2>4, <3>1
    <3> QED
      BY <3>1, <3>2, Appended
  <2>6. source' \in SourceType
    BY <1>4, <2>2, <2>4, <2>5 DEF SourceType
  <2>7. GrpcTypes'
    BY <1>1, <1>2, <1>4, <2>2, <2>3, <2>6, Appended DEF StreamInv, GrpcTypes
  <2>8. ~source.finished
    BY <1>1 DEF StreamInv, FlowInv, PlacesInv
  <2>9. ReadInOrder'
    <3>1. \A i \in 1..(b + 1) : source'.buffer[i] = n + i
      <4>1. \A i \in 1..b : source'.buffer[i] = n + i
        BY <1>3, <2>5 DEF StreamInv, FlowInv, ReadInOrder
      <4>2. n + b + 1 = n + (b + 1)
        OBVIOUS
      <4>3. \A i \in 1..(b + 1) : i = b + 1 \/ i \in 1..b
        OBVIOUS
      <4> QED
        BY ONLY <2>5, <4>1, <4>2, <4>3
    <3> QED
      BY <1>1, <1>3, <2>5, <3>1 DEF StreamInv, FlowInv, ReadInOrder
  <2>10. PlacesInv' /\ FinishedInv' /\ CutInv'
    BY <1>1, <1>5, <2>4, <2>8 DEF StreamInv, FlowInv, PlacesInv, FinishedInv, CutInv
  <2>11. \A i \in 1..w : i + 1 \in 1..(w + 1) /\ n + b + (i + 1) = n + (b + 1) + i
    OBVIOUS
  <2>12. OpenInv'
    <3>1. SUFFICES ASSUME server.at = "running"
                   PROVE  n + (b + 1) + w = m /\ \A i \in 1..w : network'[i] = Message(n + (b + 1) + i)
      BY <1>1, <1>2, <1>3, <1>5, <2>5 DEF OpenInv
    <3>2. n + b + (w + 1) = m /\ \A i \in 1..(w + 1) : network[i] = Message(n + b + i)
      BY <1>1, <1>2, <1>3, <3>1 DEF StreamInv, FlowInv, OpenInv
    <3>3. n + (b + 1) + w = m
      BY ONLY <3>2, n \in Nat, b \in Nat, w \in Nat, m \in Nat
    <3> QED
      BY ONLY <1>2, <2>11, <3>2, <3>3
  <2>13. OverInv'
    <3>1. SUFFICES ASSUME server.at = "over"
                   PROVE  /\ n + (b + 1) + w = m + 1 /\ w > 0 /\ network'[w] = StatusOf(server.status)
                          /\ \A i \in 1..(w - 1) : network'[i] = Message(n + (b + 1) + i)
      BY <1>1, <1>2, <1>3, <1>5, <2>5 DEF OverInv
    <3>2. /\ n + b + (w + 1) = m + 1 /\ network[w + 1] = StatusOf(server.status)
          /\ \A i \in 1..((w + 1) - 1) : network[i] = Message(n + b + i)
      BY <1>1, <1>2, <1>3, <2>8, <3>1 DEF StreamInv, FlowInv, OverInv
    <3>3. n + (b + 1) + w = m + 1 /\ w > 0
      BY ONLY <1>5, <3>1, <3>2, n \in Nat, b \in Nat, w \in Nat, m \in Nat
    <3>4. w \in 1..w /\ \A i \in 1..(w - 1) : i \in 1..w /\ i + 1 \in 1..((w + 1) - 1)
      BY <3>3
    <3> QED
      BY ONLY <1>2, <2>11, <3>2, <3>3, <3>4
  <2>14. HearInv'
    <3>1. source.error = NoError /\ reader.failed = NoError /\ ~reader.ended /\ \A i \in DOMAIN emitted : emitted[i] # "end"
      BY <2>8 DEF StreamInv, HearInv
    <3>2. emitted' # <<>> /\ \A i \in DOMAIN emitted' : emitted'[i] # "end"
      <4>1. DOMAIN emitted = 1..Len(emitted) /\ Len(emitted) \in Nat /\ DOMAIN emitted' = 1..(Len(emitted) + 1) /\ emitted' # <<>>
            /\ (\A i \in 1..Len(emitted) : emitted'[i] = emitted[i]) /\ emitted'[Len(emitted) + 1] = "readable"
        BY <1>4, <2>2, <2>3, Appended
      <4> QED
        BY <3>1, <4>1
    <3> QED
      BY <1>1, <2>4, <3>1, <3>2 DEF StreamInv, HearInv
  <2> QED
    BY <1>1, <2>7, <2>9, <2>10, <2>12, <2>13, <2>14 DEF StreamInv, FlowInv, ResultInv
<1>6. ASSUME w = 0, "message" \notin DOMAIN network[1], network[1] \in Statuses, server.at \in {"over", "cut"},
             server.at = "over" => network[1] = StatusOf(server.status),
             server.at = "cut" => network[1].code \in {"UNAVAILABLE", "DEADLINE_EXCEEDED"} /\ network[1].trailers = Nothing
      PROVE  StreamInv'
  <2>1. PICK p \in Statuses : p = network[1]
    BY <1>6
  <2>2. PICK e \in {"readable", "error"} : e = IF p.code = "OK" THEN "readable" ELSE "error"
    OBVIOUS
  <2>3. source' = [source EXCEPT !.finished = TRUE, !.error = p] /\ emitted' = Append(emitted, e)
    BY <1>2, <1>6, <2>1, <2>2 DEF Arrives
  <2>4. /\ source'.buffer = source.buffer /\ source'.finished /\ source'.error = p /\ ~source'.destroyed
        /\ source' \in SourceType
    BY <1>1, <1>4, <2>3 DEF SourceType
  <2>5. network' = <<>>
    BY <1>2, <1>6, EmptySeq
  <2>6. GrpcTypes'
    BY <1>1, <1>2, <1>4, <2>2, <2>3, <2>4, Appended DEF StreamInv, GrpcTypes, Events
  <2>7. ~source.finished /\ server.at # "idle"
    BY <1>1 DEF StreamInv, FlowInv, PlacesInv
  <2>8. ReadInOrder'
    BY <1>1, <2>4 DEF StreamInv, FlowInv, ReadInOrder
  <2>9. PlacesInv' /\ OpenInv' /\ OverInv' /\ CutInv'
    BY <1>1, <1>6, <2>4, <2>5, <2>7 DEF StreamInv, FlowInv, PlacesInv, OpenInv, OverInv, CutInv
  <2>10. FinishedInv'
    <3>1. server.at = "over" => n + b = m
      <4>a. Len(network) = 1
        BY <1>2, <1>6
      <4>b. server.at = "over" => Len(reader.received) + Len(source.buffer) + Len(network) = server.sent + 1
        BY <1>1, <2>7 DEF StreamInv, FlowInv, OverInv
      <4>1. server.at = "over" => n + b + 1 = m + 1
        BY <1>3, <4>a, <4>b
      <4> QED
        BY ONLY <4>1, n \in Nat, b \in Nat, m \in Nat
    <3> QED
      BY <1>1, <1>3, <1>6, <2>1, <2>4, <3>1 DEF FinishedInv
  <2>11. HearInv'
    <3>1. source.error = NoError /\ reader.failed = NoError /\ ~reader.ended /\ \A i \in DOMAIN emitted : emitted[i] # "end"
      BY <2>7 DEF StreamInv, HearInv
    <3>2. DOMAIN emitted = 1..Len(emitted) /\ Len(emitted) \in Nat /\ DOMAIN emitted' = 1..(Len(emitted) + 1) /\ emitted' # <<>>
          /\ (\A i \in 1..Len(emitted) : emitted'[i] = emitted[i]) /\ emitted'[Len(emitted) + 1] = e
      BY <1>4, <2>2, <2>3, Appended DEF Events
    <3>3. \A i \in DOMAIN emitted' : emitted'[i] # "end"
      BY <2>2, <3>1, <3>2
    <3>4. p # NoError => e = "error"
      <4>1. server.at = "over" /\ p.code = "OK" => p = NoError
        BY <1>6, <2>1, StatusesTell DEF StreamInv, FlowInv, PlacesInv
      <4>2. server.at = "cut" => p.code # "OK"
        BY <1>6, <2>1
      <4> QED
        BY <1>6, <2>2, <4>1, <4>2
    <3>5. p # NoError => \E i \in DOMAIN emitted' : emitted'[i] = "error"
      BY <3>2, <3>4
    <3> QED
      BY <1>1, <2>4, <3>1, <3>2, <3>3, <3>5 DEF StreamInv, HearInv
  <2> QED
    BY <1>1, <2>6, <2>8, <2>9, <2>10, <2>11 DEF StreamInv, FlowInv, ResultInv
<1>7. CASE w = 0 /\ server.at = "over" /\ network[1] = StatusOf(server.status)
  <2>1. server.status \in Causes
    BY <1>7 DEF StreamInv, FlowInv, PlacesInv
  <2> QED
    BY <1>6, <1>7, <2>1, StatusesTell
<1>8. CASE w = 0 /\ server.at = "cut" /\ network[1] \in Statuses /\ DOMAIN network[1] = {"code", "trailers"}
           /\ network[1].trailers = Nothing /\ network[1].code \in {"UNAVAILABLE", "DEADLINE_EXCEEDED"}
  BY <1>6, <1>8
<1>9. \/ /\ server.at \in {"running", "over"} /\ network[1] = Message(n + b + 1)
         /\ server.at = "over" => w > 0
      \/ w = 0 /\ server.at = "over" /\ network[1] = StatusOf(server.status)
      \/ /\ w = 0 /\ server.at = "cut"
         /\ network[1] \in Statuses /\ DOMAIN network[1] = {"code", "trailers"} /\ network[1].trailers = Nothing
         /\ network[1].code \in {"UNAVAILABLE", "DEADLINE_EXCEEDED"}
  <2>1. StreamInv /\ network # <<>> /\ ~source.destroyed
    BY <1>1
  <2>2. n = Len(reader.received) /\ b = Len(source.buffer) /\ Len(network) = w + 1
    BY <1>2, <1>3
  <2> QED
    BY ONLY <2>1, <2>2, n \in Nat, b \in Nat, w \in Nat, NextPacket
<1> QED
  BY <1>5, <1>7, <1>8, <1>9

\* What holds of a reader that has heard the events up to `em`, when it polls.
Listening(r, em) ==
    /\ r \in ReaderType /\ em \in Seq(Events)
    /\ reader.at \in {"busy", "waiting"} /\ r.received = reader.received /\ r.result = reader.result
    /\ r.failed \in {NoError, source.error}
    /\ source.error # NoError => r.failed = source.error \/ \E i \in DOMAIN em : em[i] = "error"
    /\ r.ended \/ (\E i \in DOMAIN em : em[i] = "end") => source.finished /\ source.error = NoError /\ source.buffer = <<>>

Polls(r, em) ==
    /\ reader' = Poll(r, source) /\ source' = Took(r, source) /\ emitted' = em \o Ends(source)
    /\ server' = server /\ network' = network

LEMMA PollTakes ==
  ASSUME StreamInv, NEW r, NEW em, Listening(r, em), Polls(r, em), source.buffer # <<>>
  PROVE  StreamInv'
<1>1. /\ reader' = [r EXCEPT !.at = "busy", !.received = Append(r.received, Head(source.buffer))]
      /\ source' = [source EXCEPT !.buffer = Tail(source.buffer)]
      /\ emitted' = em \o <<>>
  BY DEF Polls, Poll, Took, Ends
<1>2. emitted' = em /\ em \in Seq(Events)
  BY <1>1, ConcatEmptySeq DEF Listening
<1>3. source \in SourceType /\ r \in ReaderType /\ reader \in ReaderType
  BY DEF StreamInv, GrpcTypes, Listening
<1>4. source.buffer \in Seq(Nat) /\ reader.received \in Seq(Nat) /\ Len(source.buffer) \in Nat \ {0}
      /\ Head(source.buffer) = source.buffer[1]
  BY <1>3, EmptySeq DEF SourceType, ReaderType
<1>5. PICK n, b \in Nat : n = Len(reader.received) /\ Len(source.buffer) = b + 1
  <2>1. Len(reader.received) \in Nat
    BY <1>4, LenProperties
  <2>a. \A k \in Nat \ {0} : k - 1 \in Nat /\ k = (k - 1) + 1
    OBVIOUS
  <2>2. PICK b \in Nat : Len(source.buffer) = b + 1
    BY <1>4, <2>a, Zenon
  <2> QED
    BY <2>1, <2>2
<1>6. \A i \in 1..(b + 1) : source.buffer[i] = n + i
  BY <1>5 DEF StreamInv, FlowInv, ReadInOrder
<1>7. Head(source.buffer) = n + 1
  <2>1. 1 \in 1..(b + 1)
    OBVIOUS
  <2> QED
    BY <1>4, <1>6, <2>1
<1>8. /\ source'.buffer = Tail(source.buffer) /\ source'.finished = source.finished
      /\ source'.error = source.error /\ source'.destroyed = source.destroyed
  BY <1>1, <1>3 DEF SourceType
<1>9. /\ source'.buffer \in Seq(Nat) /\ Len(source'.buffer) = b /\ \A i \in 1..b : source'.buffer[i] = source.buffer[i + 1]
  BY <1>4, <1>5, <1>8, HeadTailProperties
<1>10. /\ reader'.at = "busy" /\ reader'.received = Append(reader.received, n + 1) /\ reader'.ended = r.ended
       /\ reader'.failed = r.failed /\ reader'.result = reader.result
  BY <1>1, <1>3, <1>7 DEF ReaderType, Listening
<1>11. /\ reader'.received \in Seq(Nat) /\ Len(reader'.received) = n + 1 /\ reader'.received[n + 1] = n + 1
       /\ \A i \in 1..n : reader'.received[i] = reader.received[i]
  <2>1. n + 1 \in Nat
    OBVIOUS
  <2> QED
    BY <1>4, <1>5, <1>10, <2>1, Appended
<1>12. GrpcTypes'
  <2>1. source' \in SourceType
    BY <1>1, <1>3, <1>8, <1>9 DEF SourceType
  <2>2. reader' \in ReaderType
    <3>1. PICK seq \in Seq(Nat) : seq = reader'.received
      BY <1>11
    <3>2. reader' = [r EXCEPT !.at = "busy", !.received = seq]
      BY <1>1, <1>7, <1>10, <3>1 DEF Listening
    <3> QED
      BY ONLY <1>3, <3>2, <3>1 DEF ReaderType
  <2> QED
    BY <1>2, <2>1, <2>2 DEF StreamInv, GrpcTypes, Polls
<1>13. ReadInOrder'
  <2>1. \A i \in 1..(n + 1) : reader'.received[i] = i
    <3>1. \A i \in 1..n : reader'.received[i] = i
      BY <1>5, <1>11 DEF StreamInv, FlowInv, ReadInOrder
    <3> QED
      BY <1>11, <3>1
  <2>2. \A i \in 1..b : source'.buffer[i] = (n + 1) + i
    <3>1. \A i \in 1..b : i + 1 \in 1..(b + 1) /\ n + (i + 1) = (n + 1) + i
      OBVIOUS
    <3> QED
      BY ONLY <1>6, <1>9, <3>1
  <2> QED
    BY <1>9, <1>11, <2>1, <2>2 DEF ReadInOrder
<1>14. server' = server /\ network' = network
  BY DEF Polls
<1>15. PICK t \in Nat : /\ t = Len(reader.received) + Len(source.buffer) /\ t = Len(reader'.received) + Len(source'.buffer)
  <2>1. n + (b + 1) \in Nat /\ n + (b + 1) = (n + 1) + b
    OBVIOUS
  <2> QED
    BY <1>5, <1>9, <1>11, <2>1
<1>16. PlacesInv'
  <2>1. ~source.destroyed
    BY DEF StreamInv, FlowInv, PlacesInv
  <2>2. server.at # "idle"
    BY DEF StreamInv, FlowInv, PlacesInv, Listening
  <2> QED
    BY <1>8, <1>10, <1>14, <2>1, <2>2 DEF StreamInv, FlowInv, PlacesInv
<1>17. OpenInv' /\ OverInv'
  BY <1>8, <1>14, <1>15 DEF StreamInv, FlowInv, OpenInv, OverInv
<1>18. FinishedInv' /\ CutInv'
  BY <1>8, <1>14, <1>15 DEF StreamInv, FlowInv, FinishedInv, CutInv
<1>19. HearInv'
  BY <1>2, <1>8, <1>10 DEF StreamInv, HearInv, Listening
<1>20. ResultInv'
  BY <1>10 DEF StreamInv, ResultInv, Listening
<1> QED
  BY <1>12, <1>13, <1>16, <1>17, <1>18, <1>19, <1>20 DEF StreamInv, FlowInv

\* A failure that reached the reader, or the end, tells what the server said.
LEMMA ResultsTell ==
  ASSUME StreamInv, NEW r, NEW em, Listening(r, em), source.buffer = <<>>,
         NEW res, \/ r.failed # NoError /\ res = DecodeError(r.failed)
                  \/ r.failed = NoError /\ r.ended /\ res = "OK"
  PROVE  /\ res \in Codes \cup DOMAIN Failures
         /\ res = "OK" \/ res \in DOMAIN Failures => server.at \in {"over", "cut"} /\ Len(reader.received) = server.sent
         /\ res = "OK" => server.status = "end"
         /\ res \in DOMAIN Failures => server.status = res /\ Failures[res] <= MaxFailureBytes
<1>1. source.finished /\ (r.failed # NoError => r.failed = source.error)
  BY DEF StreamInv, HearInv, Listening
<1>2. server.at \in {"over", "cut"}
  BY <1>1 DEF StreamInv, FlowInv, PlacesInv
<1>3. server.at = "over" => server.status \in Causes /\ source.error = StatusOf(server.status) /\ Len(reader.received) = server.sent
  <2>1. Len(source.buffer) = 0 /\ Len(reader.received) \in Nat
    BY LenProperties DEF StreamInv, GrpcTypes, ReaderType
  <2> QED
    BY <1>1, <2>1 DEF StreamInv, FlowInv, PlacesInv, FinishedInv
<1>4. server.at = "cut" => source.error.code \in {"UNAVAILABLE", "DEADLINE_EXCEEDED"}
  BY <1>1 DEF StreamInv, FlowInv, FinishedInv
<1>5. \A c \in Codes : c \notin DOMAIN Failures
  BY GrpcAssumption
<1>6. ASSUME r.failed # NoError, res = DecodeError(r.failed)
      PROVE  /\ res \in Codes \/ (server.at = "over" /\ res = source.error.trailers /\ source.error.trailers # Nothing)
             /\ res # "OK"
  <2>1. source.error \in Statuses /\ r.failed = source.error
    BY <1>1, <1>6 DEF StreamInv, GrpcTypes, SourceType
  <2>2. source.error.code # "OK"
    BY <1>1, <1>2, <1>3, <1>4, <1>6, StatusesTell
  <2>3. source.error.code \in Codes
    BY <2>1 DEF Statuses
  <2>4. CASE source.error.code # "FAILED_PRECONDITION" \/ ~contract
    BY <1>6, <2>1, <2>2, <2>3, <2>4 DEF DecodeError, RemoteCode
  <2>5. CASE source.error.code = "FAILED_PRECONDITION" /\ contract
    <3>1. res = IF source.error.trailers = Nothing THEN "INTERNAL" ELSE source.error.trailers
      BY <1>6, <2>1, <2>5 DEF DecodeError, RemoteCode
    <3>2. server.at = "over"
      BY <1>2, <1>4, <2>5
    <3>3. "INTERNAL" \in Codes /\ "OK" \in Codes
      BY DEF Codes
    <3>4. source.error.trailers # Nothing => source.error.trailers \in DOMAIN Failures
      BY <1>3, <3>2, StatusesTell
    <3> QED
      BY <1>5, <3>1, <3>2, <3>3, <3>4
  <2> QED
    BY <2>4, <2>5
<1>7. CASE r.failed # NoError /\ res = DecodeError(r.failed)
  BY <1>2, <1>3, <1>5, <1>6, <1>7, StatusesTell
<1>8. CASE r.failed = NoError /\ r.ended /\ res = "OK"
  <2>1. source.error = NoError
    BY <1>8 DEF Listening
  <2>2. server.at = "over"
    BY <1>2, <1>4, <2>1 DEF NoError
  <2>3. server.status = "end"
    BY <1>3, <2>1, <2>2, StatusesTell DEF NoError
  <2>4. "OK" \in Codes
    BY DEF Codes
  <2> QED
    BY <1>3, <1>5, <1>8, <2>2, <2>3, <2>4
<1> QED
  BY <1>7, <1>8

LEMMA PollFindsNothing ==
  ASSUME StreamInv, NEW r, NEW em, Listening(r, em), Polls(r, em), source.buffer = <<>>
  PROVE  StreamInv'
<1>1. source' = source /\ server' = server /\ network' = network
  <2>1. source' = [source EXCEPT !.buffer = source.buffer]
    BY DEF Polls, Took
  <2>2. source \in SourceType
    BY DEF StreamInv, GrpcTypes
  <2>3. [source EXCEPT !.buffer = source.buffer] = source
    BY <2>2 DEF SourceType
  <2> QED
    BY <2>1, <2>3 DEF Polls
<1>2. r \in ReaderType /\ reader \in ReaderType /\ em \in Seq(Events) /\ Ends(source) \in Seq(Events)
  <2>1. <<"end">> \in Seq(Events) /\ <<>> \in Seq(Events)
    BY DEF Events
  <2>2. Ends(source) \in {<<"end">>, <<>>}
    BY DEF Ends
  <2> QED
    BY <2>1, <2>2 DEF StreamInv, GrpcTypes, Listening
<1>3. PICK at \in {"done", "waiting"}, res \in Codes \cup DOMAIN Failures \cup {Nothing} :
        /\ reader' = [r EXCEPT !.at = at, !.result = res]
        /\ at = "waiting" => r.failed = NoError /\ ~r.ended /\ ~source.destroyed /\ res = r.result
        /\ at = "done" => \/ r.failed # NoError /\ res = DecodeError(r.failed)
                          \/ r.failed = NoError /\ r.ended /\ res = "OK"
                          \/ res = "CANCELLED"
  <2>1. CASE r.failed # NoError
    <3>1. reader' = [r EXCEPT !.at = "done", !.result = DecodeError(r.failed)]
      BY <2>1 DEF Polls, Poll
    <3>2. DecodeError(r.failed) \in Codes \cup DOMAIN Failures
      BY <2>1, ResultsTell
    <3> QED
      BY <2>1, <3>1, <3>2
  <2>2. CASE r.failed = NoError /\ r.ended
    <3>1. reader' = [r EXCEPT !.at = "done", !.result = "OK"]
      BY <2>2 DEF Polls, Poll
    <3> QED
      BY <2>2, <3>1 DEF Codes
  <2>3. CASE r.failed = NoError /\ ~r.ended /\ source.destroyed
    <3>1. reader' = [r EXCEPT !.at = "done", !.result = "CANCELLED"]
      BY <2>3 DEF Polls, Poll
    <3> QED
      BY <2>3, <3>1 DEF Codes
  <2>4. CASE r.failed = NoError /\ ~r.ended /\ ~source.destroyed
    <3>1. reader' = [r EXCEPT !.at = "waiting"]
      BY <2>4 DEF Polls, Poll
    <3>2. reader' = [r EXCEPT !.at = "waiting", !.result = r.result]
      BY <1>2, <3>1 DEF ReaderType
    <3>3. r.result \in Codes \cup DOMAIN Failures \cup {Nothing}
      BY <1>2 DEF ReaderType
    <3> QED
      BY <2>4, <3>2, <3>3
  <2> QED
    BY <2>1, <2>2, <2>3, <2>4
<1>4. /\ reader'.at = at /\ reader'.result = res /\ reader'.received = reader.received
      /\ reader'.ended = r.ended /\ reader'.failed = r.failed /\ reader' \in ReaderType
  BY <1>2, <1>3 DEF ReaderType, Listening
<1>5. emitted' \in Seq(Events) /\ DOMAIN emitted' = 1..(Len(em) + Len(Ends(source))) /\ Len(em) \in Nat /\ DOMAIN em = 1..Len(em)
      /\ Len(Ends(source)) \in Nat /\ Len(emitted') = Len(em) + Len(Ends(source))
      /\ \A i \in 1..(Len(em) + Len(Ends(source))) : emitted'[i] = IF i <= Len(em) THEN em[i] ELSE Ends(source)[i - Len(em)]
  <2>1. emitted' = em \o Ends(source)
    BY DEF Polls
  <2> QED
    BY <1>2, <2>1, ConcatProperties, LenProperties
<1>6. GrpcTypes'
  BY <1>1, <1>4, <1>5 DEF StreamInv, GrpcTypes
<1>7. server.at # "idle"
  BY DEF StreamInv, FlowInv, PlacesInv, Listening
<1>8. FlowInv'
  <2>1. PlacesInv'
    BY <1>1, <1>3, <1>4, <1>7 DEF StreamInv, FlowInv, PlacesInv
  <2>2. ReadInOrder' /\ OpenInv' /\ OverInv'
    BY <1>1, <1>4 DEF StreamInv, FlowInv, ReadInOrder, OpenInv, OverInv
  <2>3. FinishedInv' /\ CutInv'
    BY <1>1, <1>4 DEF StreamInv, FlowInv, FinishedInv, CutInv
  <2> QED
    BY <2>1, <2>2, <2>3 DEF FlowInv
<1>9. HearInv'
  <2>1. \A i \in DOMAIN em : i \in DOMAIN emitted' /\ emitted'[i] = em[i]
    BY <1>5
  <2>2. (\E i \in DOMAIN emitted' : emitted'[i] = "end") =>
           (\E i \in DOMAIN em : em[i] = "end") \/ (source.finished /\ source.error = NoError)
    <3>1. CASE source.finished /\ source.error = NoError
      BY <3>1
    <3>2. CASE ~(source.finished /\ source.error = NoError)
      <4>1. Ends(source) = <<>>
        BY <3>2 DEF Ends
      <4>2. emitted' = em
        BY <1>2, <4>1, ConcatEmptySeq DEF Polls
      <4> QED
        BY <4>2
    <3> QED
      BY <3>1, <3>2
  <2>3. source.finished /\ source.error = NoError => emitted' # <<>>
    <3>1. SUFFICES ASSUME source.finished, source.error = NoError PROVE emitted' # <<>>
      OBVIOUS
    <3>2. Ends(source) = <<"end">>
      BY <3>1 DEF Ends
    <3>3. Len(Ends(source)) = 1
      BY <3>2
    <3>4. Len(emitted') # 0
      BY <1>5, <3>3
    <3> QED
      BY <3>4, EmptySeq
  <2>4. source.error # NoError => source.finished
    BY DEF StreamInv, HearInv
  <2>5. /\ source.error # NoError => r.failed = source.error \/ \E i \in DOMAIN emitted' : emitted'[i] = "error"
        /\ r.ended \/ (\E i \in DOMAIN emitted' : emitted'[i] = "end") => source.finished /\ source.error = NoError
    BY <2>1, <2>2 DEF Listening
  <2>6. at = "waiting" /\ emitted' = <<>> => ~source.finished
    <3>1. SUFFICES ASSUME at = "waiting", emitted' = <<>>, source.finished PROVE FALSE
      OBVIOUS
    <3>2. source.error # NoError
      BY <2>3, <3>1
    <3>3. r.failed # source.error
      BY <1>3, <3>1, <3>2
    <3>4. PICK i \in DOMAIN emitted' : emitted'[i] = "error"
      BY <2>5, <3>2, <3>3
    <3>5. Len(emitted') = 0
      BY <3>1
    <3> QED
      BY <1>5, <3>4, <3>5
  <2> QED
    BY <1>1, <1>3, <1>4, <2>4, <2>5, <2>6 DEF HearInv, Listening
<1>10. ResultInv'
  <2>1. reader.result # "OK" /\ reader.result \notin DOMAIN Failures
    BY DEF StreamInv, ResultInv, Listening
  <2>2. CASE at = "waiting"
    BY <1>3, <1>4, <2>1, <2>2 DEF ResultInv, Listening
  <2>3. CASE at = "done" /\ res = "CANCELLED"
    <3>1. res # "OK" /\ res \notin DOMAIN Failures
      BY <2>3, GrpcAssumption DEF Codes
    <3> QED
      BY <1>4, <3>1 DEF ResultInv
  <2>4. CASE at = "done" /\ res # "CANCELLED"
    <3>1. \/ r.failed # NoError /\ res = DecodeError(r.failed)
          \/ r.failed = NoError /\ r.ended /\ res = "OK"
      BY <1>3, <2>4
    <3>2. /\ res = "OK" \/ res \in DOMAIN Failures => server.at \in {"over", "cut"} /\ Len(reader.received) = server.sent
          /\ res = "OK" => server.status = "end"
          /\ res \in DOMAIN Failures => server.status = res /\ Failures[res] <= MaxFailureBytes
      BY <3>1, ResultsTell
    <3> QED
      BY <1>1, <1>4, <2>4, <3>2 DEF ResultInv
  <2> QED
    BY <1>3, <2>2, <2>3, <2>4
<1> QED
  BY <1>6, <1>8, <1>9, <1>10 DEF StreamInv

LEMMA PullStep == StreamInv /\ Pull => StreamInv'
<1> SUFFICES ASSUME StreamInv, Pull PROVE StreamInv'
  OBVIOUS
<1>1. Polls(reader, emitted)
  BY DEF Polls, Pull
<1>2. Listening(reader, emitted)
  BY DEF Listening, Pull, StreamInv, GrpcTypes, HearInv
<1> QED
  BY <1>1, <1>2, PollTakes, PollFindsNothing

LEMMA DispatchStep == StreamInv /\ Dispatch => StreamInv'
<1> SUFFICES ASSUME StreamInv, Dispatch PROVE StreamInv'
  OBVIOUS
<1>1. emitted # <<>> /\ emitted \in Seq(Events) /\ reader \in ReaderType /\ server' = server /\ network' = network
  BY DEF Dispatch, StreamInv, GrpcTypes
<1>2. PICK r : r = Heard(Head(emitted))
  OBVIOUS
<1>3. PICK em : em = Tail(emitted)
  OBVIOUS
<1>4. PICK w \in Nat : Len(emitted) = w + 1 /\ DOMAIN emitted = 1..(w + 1) /\ DOMAIN em = 1..w /\ em \in Seq(Events)
                       /\ Head(emitted) = emitted[1] /\ \A i \in 1..w : em[i] = emitted[i + 1]
  <2>1. Len(emitted) \in Nat \ {0} /\ Head(emitted) = emitted[1] /\ DOMAIN emitted = 1..Len(emitted)
    BY <1>1, EmptySeq, LenProperties
  <2>a. \A k \in Nat \ {0} : k - 1 \in Nat /\ k = (k - 1) + 1
    OBVIOUS
  <2>2. PICK w \in Nat : Len(emitted) = w + 1
    BY <2>1, <2>a, Zenon
  <2>3. em \in Seq(Events) /\ Len(em) = w /\ \A i \in 1..w : em[i] = emitted[i + 1]
    BY <1>1, <1>3, <2>2, HeadTailProperties
  <2>4. DOMAIN em = 1..w
    BY <2>3, LenProperties
  <2> QED
    BY <2>1, <2>2, <2>3, <2>4
<1>5. 1 \in DOMAIN emitted /\ (\A i \in DOMAIN em : i + 1 \in DOMAIN emitted /\ em[i] = emitted[i + 1])
      /\ (\A i \in DOMAIN emitted : i = 1 \/ (i - 1 \in DOMAIN em /\ em[i - 1] = emitted[i]))
  BY <1>4
<1>6. /\ r \in ReaderType /\ r.at = reader.at /\ r.received = reader.received /\ r.result = reader.result
      /\ r.ended = (reader.ended \/ emitted[1] = "end")
      /\ r.failed = IF emitted[1] = "error" THEN source.error ELSE reader.failed
  <2>1. r = [reader EXCEPT !.ended = (reader.ended \/ emitted[1] = "end"),
                           !.failed = IF emitted[1] = "error" THEN source.error ELSE reader.failed]
    BY <1>2, <1>4 DEF Heard
  <2>2. source.error \in Statuses /\ reader.failed \in Statuses
    BY <1>1 DEF StreamInv, GrpcTypes, SourceType, ReaderType
  <2> QED
    BY <1>1, <2>1, <2>2 DEF ReaderType
<1>7. /\ r.failed \in {NoError, source.error}
      /\ source.error # NoError => r.failed = source.error \/ \E i \in DOMAIN em : em[i] = "error"
      /\ r.ended \/ (\E i \in DOMAIN em : em[i] = "end") => source.finished /\ source.error = NoError /\ source.buffer = <<>>
  <2>1. /\ reader.failed \in {NoError, source.error}
        /\ source.error # NoError => reader.failed = source.error \/ \E i \in DOMAIN emitted : emitted[i] = "error"
        /\ reader.ended \/ (\E i \in DOMAIN emitted : emitted[i] = "end") =>
              source.finished /\ source.error = NoError /\ source.buffer = <<>>
    BY DEF StreamInv, HearInv
  <2>2. (\E i \in DOMAIN emitted : emitted[i] = "error") => emitted[1] = "error" \/ \E i \in DOMAIN em : em[i] = "error"
    BY <1>5
  <2>3. (\E i \in DOMAIN em : em[i] = "end") \/ emitted[1] = "end" => \E i \in DOMAIN emitted : emitted[i] = "end"
    BY <1>5
  <2> QED
    BY <1>6, <2>1, <2>2, <2>3
<1>8. CASE reader.at = "waiting"
  <2>1. Polls(r, em)
    BY <1>1, <1>2, <1>3, <1>8 DEF Dispatch, Polls
  <2>2. Listening(r, em)
    BY <1>4, <1>6, <1>7, <1>8 DEF Listening
  <2> QED
    BY <2>1, <2>2, PollTakes, PollFindsNothing
<1>9. CASE reader.at # "waiting"
  <2>1. reader' = r /\ emitted' = em /\ source' = source
    BY <1>2, <1>3, <1>9 DEF Dispatch
  <2>2. GrpcTypes'
    BY <1>1, <1>4, <1>6, <2>1 DEF StreamInv, GrpcTypes
  <2>3. FlowInv'
    <3>1. PlacesInv'
      BY <1>1, <1>6, <2>1 DEF StreamInv, FlowInv, PlacesInv
    <3>2. ReadInOrder' /\ OpenInv' /\ OverInv'
      BY <1>1, <1>6, <2>1 DEF StreamInv, FlowInv, ReadInOrder, OpenInv, OverInv
    <3>3. FinishedInv' /\ CutInv'
      BY <1>1, <1>6, <2>1 DEF StreamInv, FlowInv, FinishedInv, CutInv
    <3> QED
      BY <3>1, <3>2, <3>3 DEF FlowInv
  <2>4. HearInv'
    BY <1>6, <1>7, <1>9, <2>1 DEF StreamInv, HearInv
  <2>5. ResultInv'
    BY <1>1, <1>6, <2>1 DEF StreamInv, ResultInv
  <2> QED
    BY <2>2, <2>3, <2>4, <2>5 DEF StreamInv
<1> QED
  BY <1>8, <1>9

LEMMA StreamSteps ==
  ASSUME StreamInv, [GrpcNext]_grpcVars PROVE StreamInv'
<1>1. CASE UNCHANGED <<server, network, source, emitted, reader>>
  <2>1. GrpcTypes' /\ HearInv' /\ ResultInv'
    BY <1>1 DEF StreamInv, GrpcTypes, HearInv, ResultInv
  <2>2. ReadInOrder' /\ PlacesInv' /\ OpenInv'
    BY <1>1 DEF StreamInv, FlowInv, ReadInOrder, PlacesInv, OpenInv
  <2>3. OverInv' /\ FinishedInv' /\ CutInv'
    BY <1>1 DEF StreamInv, FlowInv, OverInv, FinishedInv, CutInv
  <2> QED
    BY <2>1, <2>2, <2>3 DEF StreamInv, FlowInv
<1>2. CASE CloseChannel \/ UNCHANGED grpcVars
  BY <1>1, <1>2 DEF CloseChannel, grpcVars
<1> QED
  <2>1. \/ CloseChannel \/ UNCHANGED grpcVars
        \/ Call \/ ServerWrites \/ ServerEnds \/ TransportFails \/ Arrives \/ Destroyed \/ Pull \/ Dispatch
    BY Zenon DEF GrpcNext
  <2>2. StreamInv
    OBVIOUS
  <2> QED
    BY ONLY <1>2, <2>1, <2>2, CallStep, WriteStep, EndStep, FailStep, PacketStep, DestroyStep, PullStep, DispatchStep, Zenon

LEMMA StreamMeans == StreamInv => ClientHearsTheServer
<1> SUFFICES ASSUME StreamInv PROVE ClientHearsTheServer
  OBVIOUS
<1>1. reader.received = [i \in 1 .. Len(reader.received) |-> i]
  <2>1. reader.received \in Seq(Nat)
    BY DEF StreamInv, GrpcTypes, ServerType, SourceType, ReaderType
  <2>2. reader.received = [i \in 1 .. Len(reader.received) |-> reader.received[i]]
    BY <2>1, SeqDef
  <2> QED
    BY <2>2 DEF StreamInv, FlowInv, ReadInOrder
<1>2. reader.at = "waiting" /\ emitted = << >> => ~source.destroyed /\ (network # << >> \/ server.at = "running")
  <2> SUFFICES ASSUME reader.at = "waiting", emitted = << >>, network = << >>, server.at # "running" PROVE FALSE
    BY DEF StreamInv, HearInv
  <2>1. ~source.destroyed /\ ~source.finished /\ server.at # "idle"
    BY DEF StreamInv, HearInv, FlowInv, PlacesInv
  <2> QED
    <3>1. server.at \in {"over", "cut"} /\ Len(network) = 0
      BY <2>1 DEF StreamInv, GrpcTypes, ServerType
    <3> QED
      BY <2>1, <3>1 DEF StreamInv, FlowInv, OverInv, CutInv
<1> QED
  BY <1>1, <1>2 DEF StreamInv, ResultInv, ClientHearsTheServer

\* The client hears what its server said: messages in order, none skipped, all of them before a normal end or
\* a business failure, and a read that waits is woken (grpc internal.ts readRaw, server.ts, client.ts).
THEOREM StreamsAreHeard == GrpcSpec => []ClientHearsTheServer
  BY StreamStart, StreamSteps, StreamMeans, PTL DEF GrpcSpec

-----------------------------------------------------------------------------
\* Mail.

\* The dialogue with a relay, and the part of it behind the policy of `start`.
Cleared == {"plain", "login", "authenticating", "mail", "rcpt", "data", "body"}
Dialogue == Cleared \cup {"greeting", "ehlo", "starttls", "upgrade", "policy"}
MailType ==
    [stage : Dialogue \cup {"new", "request", "capture", "quit", "done"}, secure : BOOLEAN,
     auth : SUBSET {"PLAIN", "LOGIN"}, starttls : BOOLEAN, rcpt : Nat, attempt : Nat, accepted : Nat,
     clear : SUBSET {"credentials", "message"}, outcome : {"none", "failed", "rejected", "sent"}]

\* Who composed the mailer named a loopback relay, or asked for plaintext.
HostAllows ==
    \/ setup.dsn = {} /\ (setup.allowPlaintext \/ setup.loopback)
    \/ \E d \in setup.dsn : d.allowPlaintext \/ d.loopback

DriverIsHonest ==
    /\ driver.kind \in {"invalid", "smtp", "api", "capture"}
    /\ driver.kind = "invalid" => driver = NoDriver
    /\ driver.kind = "api" => driver.url /= "http"
    /\ driver.kind = "smtp" /\ PlaintextAllowed(driver) => HostAllows

\* Behind the policy the session is secure or may do without, and an attempt is accepted once.
DialogueInv ==
    /\ mail.stage \in Dialogue => driver.kind = "smtp"
    /\ mail.stage \in Cleared => SecureEnough
    /\ mail.clear /= {} => driver.kind = "smtp" /\ PlaintextAllowed(driver)
AttemptsInv ==
    /\ mail.attempt <= Attempts /\ mail.accepted <= mail.attempt
    /\ mail.stage = "new" => mail.attempt < Attempts
    /\ mail.stage \notin {"new", "quit", "done"} => mail.accepted < mail.attempt
    /\ mail.stage = "quit" \/ mail.outcome = "sent" => mail.accepted > 0

MailInv == mail \in MailType /\ DriverIsHonest /\ DialogueInv /\ AttemptsInv

LEMMA ProviderIsHonest == ASSUME NEW key, NEW url, driver = Provider(key, url) PROVE DriverIsHonest
<1>1. CASE driver = NoDriver
  BY <1>1 DEF NoDriver, DriverIsHonest
<1>2. CASE driver = [kind |-> "api", url |-> url] /\ url \in {"default", "https", "http loopback"}
  <2>1. driver.kind = "api" /\ driver.url = url
    BY ONLY <1>2
  <2>2. url /= "http"
    BY <1>2
  <2> QED
    BY <2>1, <2>2 DEF DriverIsHonest
<1> QED
  BY <1>1, <1>2 DEF Provider

LEMMA SmtpIsHonest ==
  ASSUME NEW user, NEW mode, NEW loopback, NEW allow, driver = Smtp(user, mode, loopback, allow), allow \/ loopback => HostAllows
  PROVE  DriverIsHonest
  BY DEF Smtp, DriverIsHonest, PlaintextAllowed

\* However a mailer is composed: an accepted DSN or setting makes a driver that is honest.
LEMMA ComposedDriver == ASSUME setup \in Setups, driver = DriverOf(setup) PROVE DriverIsHonest
<1>1. CASE driver = NoDriver
  BY <1>1 DEF NoDriver, DriverIsHonest
<1>2. CASE setup.dsn = {} /\ driver = Smtp(setup.user, setup.mode, setup.loopback, setup.allowPlaintext)
  BY <1>2, SmtpIsHonest DEF HostAllows
<1>3. CASE ~setup.direct /\ setup.dsn = {} /\ driver # NoDriver
  <2>1. driver = FromSettings(setup) /\ setup.driver \in {"capture", "smtp", "resend", "brevo"}
    BY <1>3, MailerAssumption DEF DriverOf
  <2>2. CASE setup.driver = "capture"
    <3>1. driver = [kind |-> "capture"]
      BY <1>3, <2>1, <2>2 DEF FromSettings
    <3> QED
      BY <3>1 DEF DriverIsHonest
  <2>3. CASE setup.driver \in {"resend", "brevo"}
    <3>1. driver = Provider(setup.key, setup.url)
      BY <1>3, <2>1, <2>3 DEF FromSettings
    <3> QED
      BY <3>1, ProviderIsHonest
  <2>4. CASE setup.driver = "smtp"
    BY <1>2, <1>3, <2>1, <2>4 DEF FromSettings
  <2> QED
    BY <2>1, <2>2, <2>3, <2>4
<1>4. CASE ~setup.direct /\ setup.dsn /= {} /\ driver # NoDriver
  <2>1. PICK d \in setup.dsn : driver = FromDsn(d)
    BY <1>4 DEF DriverOf, FromSettings
  <2>2. CASE driver = Provider(d.user, d.url)
    BY <2>2, ProviderIsHonest
  <2>3. ASSUME NEW mode, driver = Smtp(d.user, mode, d.loopback, d.allowPlaintext) PROVE DriverIsHonest
    BY <2>3, SmtpIsHonest DEF HostAllows
  <2> QED
    BY <1>4, <2>1, <2>2, <2>3 DEF FromDsn
<1> QED
  BY <1>1, <1>2, <1>3, <1>4, MailerAssumption DEF DriverOf

LEMMA MailStart == MailInit => MailInv
<1> SUFFICES ASSUME MailInit PROVE MailInv
  OBVIOUS
<1>1. mail = NoMail /\ DriverIsHonest
  BY ComposedDriver DEF MailInit
<1>2. mail \in MailType /\ DialogueInv /\ AttemptsInv
  BY <1>1, MailerAssumption DEF NoMail, MailType, Dialogue, Cleared, DialogueInv, AttemptsInv
<1> QED
  BY <1>1, <1>2 DEF MailInv

\* What a driver is does not change under a step of the dialogue.
LEMMA DriverStays == ASSUME DriverIsHonest, UNCHANGED <<driver, setup>> PROVE DriverIsHonest'
  BY DEF DriverIsHonest, PlaintextAllowed, HostAllows

LEMMA FailedStep ==
  ASSUME MailInv, UNCHANGED <<driver, setup>>, NEW permanent, Failed(permanent),
         mail.stage \notin {"quit", "done", "new"}
  PROVE  MailInv'
<1>1. DriverIsHonest'
  BY DriverStays DEF MailInv
<1>2. mail' \in MailType
  BY DEF MailInv, Failed, Transient, MailType
<1>3. DialogueInv'
  BY DEF MailInv, MailType, Failed, Transient, DialogueInv, Dialogue, Cleared, SecureEnough, PlaintextAllowed
<1>4. AttemptsInv'
  BY DEF MailInv, MailType, Failed, Transient, AttemptsInv
<1> QED
  BY <1>1, <1>2, <1>3, <1>4 DEF MailInv

LEMMA AcceptsStep ==
  ASSUME MailInv, UNCHANGED <<driver, setup>>, NEW replies \in BOOLEAN, Accepts(replies),
         mail.stage \notin {"quit", "done", "new"}
  PROVE  MailInv'
<1>1. DriverIsHonest'
  BY DriverStays DEF MailInv
<1>2. mail' \in MailType
  <2> DEFINE held == [mail EXCEPT !.accepted = @ + 1]
  <2>1. mail \in MailType /\ mail.accepted + 1 \in Nat
    BY DEF MailInv, MailType
  <2>2. held \in MailType
    BY <2>1 DEF MailType
  <2>3. mail' \in {[held EXCEPT !.stage = "quit"], [held EXCEPT !.stage = "new"], [held EXCEPT !.stage = "done", !.outcome = "failed"]}
    BY DEF Accepts, Transient
  <2> HIDE DEF held
  <2>4. CASE mail' = [held EXCEPT !.stage = "quit"]
    BY <2>2, <2>4 DEF MailType
  <2>5. CASE mail' = [held EXCEPT !.stage = "new"]
    BY <2>2, <2>5 DEF MailType
  <2>6. CASE mail' = [held EXCEPT !.stage = "done", !.outcome = "failed"]
    BY <2>2, <2>6 DEF MailType
  <2> QED
    BY <2>3, <2>4, <2>5, <2>6
<1>3. DialogueInv'
  BY DEF MailInv, MailType, Accepts, Transient, DialogueInv, Dialogue, Cleared, SecureEnough, PlaintextAllowed
<1>4. AttemptsInv'
  BY DEF MailInv, MailType, Accepts, Transient, AttemptsInv
<1> QED
  BY <1>1, <1>2, <1>3, <1>4 DEF MailInv

\* A step of the dialogue that goes on with this attempt; behind the policy it stays there, or the policy allowed it.
LEMMA DialogueStep ==
  ASSUME MailInv, UNCHANGED <<driver, setup>>, mail.stage \in Dialogue, mail' \in MailType,
         mail'.stage \in Dialogue, mail'.attempt = mail.attempt, mail'.accepted = mail.accepted, mail'.outcome = mail.outcome,
         mail.secure => mail'.secure,
         mail'.stage \in Cleared => mail.stage \in Cleared \/ SecureEnough,
         mail'.clear = mail.clear \/ (mail.stage \in Cleared /\ ~mail.secure)
  PROVE  MailInv'
<1>1. DriverIsHonest'
  BY DriverStays DEF MailInv
<1>2. DialogueInv'
  BY DEF MailInv, DialogueInv, SecureEnough, PlaintextAllowed
<1>3. AttemptsInv'
  BY DEF MailInv, AttemptsInv, Dialogue, Cleared
<1> QED
  BY <1>1, <1>2, <1>3 DEF MailInv

LEMMA GoesStep ==
  ASSUME MailInv, UNCHANGED <<driver, setup>>, mail.stage \in Dialogue, NEW stage \in Dialogue, Goes(stage),
         stage \in Cleared => mail.stage \in Cleared \/ SecureEnough
  PROVE  MailInv'
<1>1. mail' = [mail EXCEPT !.stage = stage] /\ mail \in MailType
  BY DEF Goes, MailInv
<1>2. mail' \in MailType
  BY <1>1 DEF MailType
<1> QED
  BY <1>1, <1>2, DialogueStep DEF MailType

LEMMA WritesStep ==
  ASSUME MailInv, UNCHANGED <<driver, setup>>, mail.stage \in Cleared, NEW what \in {"credentials", "message"},
         NEW stage \in Cleared, Writes(what, stage)
  PROVE  MailInv'
<1>1. mail' = [mail EXCEPT !.stage = stage, !.clear = IF mail.secure THEN @ ELSE @ \cup {what}] /\ mail \in MailType
  BY DEF Writes, MailInv
<1>2. mail' \in MailType
  BY <1>1 DEF MailType, Dialogue
<1> QED
  BY <1>1, <1>2, DialogueStep DEF MailType, Dialogue

\* Every command may be answered by something else.
LEMMA UnexpectedStep ==
  ASSUME MailInv, UNCHANGED <<driver, setup>>, mail.stage \in Dialogue, Unexpected PROVE MailInv'
<1>1. mail.stage \notin {"quit", "done", "new"}
  BY DEF Dialogue, Cleared
<1> QED
  BY <1>1, FailedStep DEF Unexpected

LEMMA AttemptStep == ASSUME MailInv, Attempt PROVE MailInv'
<1>1. DriverIsHonest'
  BY DriverStays DEF MailInv, Attempt
<1>2. driver.kind \in {"smtp", "api", "capture"}
  BY DEF MailInv, DriverIsHonest, Attempt
<1>3. mail' \in MailType
  <2>1. mail \in MailType /\ mail.attempt + 1 \in Nat
    BY DEF MailInv, MailType
  <2>2. PICK stage \in {"greeting", "request", "capture"}, secure \in BOOLEAN :
          mail' = [mail EXCEPT !.stage = stage, !.attempt = @ + 1, !.auth = {}, !.starttls = FALSE, !.rcpt = 0, !.secure = secure]
    <3>1. (driver.kind = "smtp" /\ driver.mode = "implicit") \in BOOLEAN
      OBVIOUS
    <3> QED
      BY <1>2, <3>1 DEF Attempt
  <2>3. stage \in Dialogue \cup {"new", "request", "capture", "quit", "done"}
    BY DEF Dialogue
  <2> QED
    BY <2>1, <2>2, <2>3 DEF MailType
<1>4. DialogueInv'
  BY <1>2 DEF MailInv, MailType, Attempt, DialogueInv, Dialogue, Cleared, PlaintextAllowed
<1>5. AttemptsInv'
  BY <1>2, MailerAssumption DEF MailInv, MailType, Attempt, AttemptsInv
<1> QED
  BY <1>1, <1>3, <1>4, <1>5 DEF MailInv

LEMMA EhloStep == ASSUME MailInv, Ehlo PROVE MailInv'
<1>1. mail.stage = "ehlo" /\ mail.stage \in Dialogue /\ UNCHANGED <<driver, setup>> /\ mail \in MailType
  BY DEF Ehlo, Command, Dialogue, MailInv
<1>2. CASE Unexpected
  BY <1>1, <1>2, UnexpectedStep
<1>3. ASSUME NEW starttls \in BOOLEAN, NEW auth \in SUBSET {"PLAIN", "LOGIN"},
             mail' = [mail EXCEPT !.starttls = starttls, !.auth = auth,
                                  !.stage = IF driver.mode = "starttls" /\ starttls /\ ~mail.secure THEN "starttls" ELSE "policy"]
      PROVE  MailInv'
  <2>1. mail' \in MailType /\ mail'.stage \in {"starttls", "policy"}
    BY <1>1, <1>3 DEF MailType, Dialogue
  <2>2. mail'.stage \in Dialogue /\ mail'.stage \notin Cleared
    BY <2>1 DEF Dialogue, Cleared
  <2>3. /\ mail'.attempt = mail.attempt /\ mail'.accepted = mail.accepted /\ mail'.outcome = mail.outcome
        /\ mail'.secure = mail.secure /\ mail'.clear = mail.clear
    BY <1>1, <1>3 DEF MailType
  <2> QED
    BY <1>1, <2>1, <2>2, <2>3, DialogueStep
<1> QED
  BY <1>2, <1>3 DEF Ehlo, Command

LEMMA UpgradeStep == ASSUME MailInv, UpgradeTls PROVE MailInv'
<1>1. mail.stage = "upgrade" /\ mail.stage \in Dialogue /\ UNCHANGED <<driver, setup>> /\ mail \in MailType
  BY DEF UpgradeTls, Dialogue, MailInv
<1>2. CASE Failed(FALSE)
  BY <1>1, <1>2, FailedStep
<1>3. CASE mail' = [mail EXCEPT !.secure = TRUE, !.stage = "ehlo"]
  <2>1. mail' \in MailType /\ mail'.stage \in Dialogue /\ mail'.stage \notin Cleared
    BY <1>1, <1>3 DEF MailType, Dialogue, Cleared
  <2>2. /\ mail'.attempt = mail.attempt /\ mail'.accepted = mail.accepted /\ mail'.outcome = mail.outcome
        /\ mail'.secure /\ mail'.clear = mail.clear
    BY <1>1, <1>3 DEF MailType
  <2> QED
    BY <1>1, <2>1, <2>2, DialogueStep
<1> QED
  BY <1>2, <1>3 DEF UpgradeTls

LEMMA RcptStep == ASSUME MailInv, RcptTo PROVE MailInv'
<1>1. mail.stage = "rcpt" /\ mail.stage \in Dialogue /\ mail.stage \in Cleared /\ UNCHANGED <<driver, setup>> /\ mail \in MailType
  BY DEF RcptTo, Command, Dialogue, Cleared, MailInv
<1>2. CASE Unexpected
  BY <1>1, <1>2, UnexpectedStep
<1>3. CASE mail' = [mail EXCEPT !.rcpt = @ + 1, !.stage = IF mail.rcpt + 1 = Recipients THEN "data" ELSE "rcpt"]
  <2>1. mail' \in MailType /\ mail'.stage \in Dialogue
    <3>1. mail.rcpt + 1 \in Nat /\ "data" \in Dialogue /\ "rcpt" \in Dialogue
      BY <1>1 DEF MailType, Dialogue, Cleared
    <3> QED
      BY <1>1, <1>3, <3>1 DEF MailType
  <2>2. /\ mail'.attempt = mail.attempt /\ mail'.accepted = mail.accepted /\ mail'.outcome = mail.outcome
        /\ mail'.secure = mail.secure /\ mail'.clear = mail.clear
    BY <1>1, <1>3 DEF MailType
  <2> QED
    BY <1>1, <2>1, <2>2, DialogueStep
<1> QED
  BY <1>2, <1>3 DEF RcptTo, Command

LEMMA QuitStep == ASSUME MailInv, Quit PROVE MailInv'
<1>1. DriverIsHonest'
  BY DriverStays DEF MailInv, Quit
<1>2. mail' \in MailType
  BY DEF MailInv, Quit, Sent, MailType
<1>3. DialogueInv'
  BY DEF MailInv, MailType, Quit, Sent, DialogueInv, Dialogue, Cleared, PlaintextAllowed
<1>4. AttemptsInv'
  BY DEF MailInv, MailType, Quit, Sent, AttemptsInv
<1> QED
  BY <1>1, <1>2, <1>3, <1>4 DEF MailInv

LEMMA PolicyStep == ASSUME MailInv, Policy PROVE MailInv'
<1>1. mail.stage = "policy" /\ mail.stage \in Dialogue /\ UNCHANGED <<driver, setup>>
  BY DEF Policy, Dialogue
<1>2. CASE Failed(TRUE)
  BY <1>1, <1>2, FailedStep
<1>3. CASE SecureEnough /\ \E stage \in {"mail", "plain", "login"} : Goes(stage)
  <2>1. {"mail", "plain", "login"} \subseteq Dialogue
    BY DEF Dialogue, Cleared
  <2> QED
    BY <1>1, <1>3, <2>1, GoesStep
<1> QED
  BY <1>2, <1>3 DEF Policy

\* A command whose expected reply leads on.
LEMMA CommandGoes ==
  ASSUME MailInv, NEW from \in Dialogue, NEW to \in Dialogue, to \in Cleared => from \in Cleared, Command(from, Goes(to))
  PROVE  MailInv'
  BY GoesStep, UnexpectedStep DEF Command

\* And one whose expected reply lets the next thing be written.
LEMMA CommandWrites ==
  ASSUME MailInv, NEW from \in Cleared, NEW what \in {"credentials", "message"}, NEW to \in Cleared, Command(from, Writes(what, to))
  PROVE  MailInv'
<1>1. from \in Dialogue
  BY DEF Dialogue
<1> QED
  BY <1>1, WritesStep, UnexpectedStep DEF Command

LEMMA MailSteps == ASSUME MailInv, [MailNext]_mailVars PROVE MailInv'
<1>1. CASE Greeting \/ StartTls \/ Authenticated \/ MailFrom
  BY <1>1, CommandGoes DEF Greeting, StartTls, Authenticated, MailFrom, Dialogue, Cleared
<1>2. CASE AuthPlain \/ AuthLogin \/ Data
  <2>1. {"plain", "login", "data", "authenticating", "body"} \subseteq Cleared
    BY DEF Cleared
  <2>2. CASE AuthPlain
    BY <2>1, <2>2, WritesStep DEF AuthPlain
  <2>3. CASE AuthLogin
    BY <2>1, <2>3, CommandWrites DEF AuthLogin
  <2>4. CASE Data
    BY <2>1, <2>4, CommandWrites DEF Data
  <2> QED
    BY <1>2, <2>2, <2>3, <2>4
<1>3. CASE Body \/ ApiRequest \/ Capture
  <2>1. ASSUME mail.stage \in {"body", "request", "capture"}, UNCHANGED <<driver, setup>>, NEW replies \in BOOLEAN, Accepts(replies)
        PROVE  MailInv'
    BY <2>1, AcceptsStep
  <2>2. ASSUME mail.stage \in {"body", "request"}, UNCHANGED <<driver, setup>>, NEW permanent, Failed(permanent) PROVE MailInv'
    BY <2>2, FailedStep
  <2>3. CASE Body
    BY <2>1, <2>2, <2>3 DEF Body, Unexpected
  <2>4. CASE ApiRequest
    BY <2>1, <2>2, <2>4 DEF ApiRequest
  <2>5. CASE Capture
    BY <2>1, <2>5 DEF Capture
  <2> QED
    BY <1>3, <2>3, <2>4, <2>5
<1>4. CASE UNCHANGED mailVars
  BY <1>4, DriverStays DEF mailVars, MailInv, DialogueInv, AttemptsInv, SecureEnough, PlaintextAllowed
<1> QED
  BY <1>1, <1>2, <1>3, <1>4, AttemptStep, EhloStep, UpgradeStep, PolicyStep, RcptStep, QuitStep DEF MailNext

LEMMA MailMeans == MailInv => MailIsDiscreetAndHonest
  BY DEF MailInv, DriverIsHonest, DialogueInv, AttemptsInv, HostAllows, MailIsDiscreetAndHonest

\* Discretion and honesty of a mailer: neither credentials nor a message go over the wire in the clear unless the
\* host allowed it, no key over http, a mail reported as sent was accepted, and no more often than it was tried
\* (mailer settings.ts, dsn.ts, smtp.ts, mailer.ts).
THEOREM MailHolds == MailSpec => []MailIsDiscreetAndHonest
  BY MailStart, MailSteps, MailMeans, PTL DEF MailSpec
=============================================================================
