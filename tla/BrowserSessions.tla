--------------------------- MODULE BrowserSessions ---------------------------
(***************************************************************************)
(* The HTTP side of packages/auth: the compiled route table (http.ts), the *)
(* session slots of one browser (session-slots.ts) and the routes that     *)
(* read and write session cookies.  Requests of several tabs carry the     *)
(* cookies of the moment they are sent, and their answers come back in any *)
(* order.  What the routes do to accounts is modelled in AuthService.      *)
(***************************************************************************)
EXTENDS Integers, Sequences, FiniteSets

CONSTANTS Users,        \* subjects, whose ids are the valid slots
          Requests,     \* the requests the browser may have under way
          MaxSessions,  \* bound: sessions ever opened
          BasePath,     \* segments
          Overrides,    \* candidates for AuthHandlerOptions.routes: route id -> segments, <<>> if malformed
          Providers,
          None

VARIABLES routes,      \* the compiled table, or Refused
          jar,         \* cookie -> token: the usual cookie and one per slot
          sessions,    \* token -> [user, live, cookie]
          underway

browserVars == <<routes, jar, sessions, underway>>

Param == ":provider"
Refused == <<"InvalidAuthRoutes">>

-----------------------------------------------------------------------------
(* compileRoutes, matchRoute                                               *)

RouteSuffixes == [registerPassword |-> <<"POST", <<"register", "password">>>>, verifyEmail |-> <<"POST", <<"verify-email">>>>,
                  requestEmailVerification |-> <<"POST", <<"email-verification", "request">>>>,
                  requestPasswordReset |-> <<"POST", <<"password", "reset", "request">>>>,
                  requestMagicLink |-> <<"POST", <<"magic-link", "request">>>>,
                  passkeyRegisterOptions |-> <<"POST", <<"passkeys", "register", "options">>>>,
                  passkeyAuthenticateOptions |-> <<"POST", <<"passkeys", "authenticate", "options">>>>,
                  signInPassword |-> <<"POST", <<"sign-in", "password">>>>, signOut |-> <<"POST", <<"sign-out">>>>,
                  getSession |-> <<"GET", <<"session">>>>, changePassword |-> <<"POST", <<"password", "change">>>>,
                  resetPassword |-> <<"POST", <<"password", "reset", "complete">>>>,
                  consumeMagicLink |-> <<"POST", <<"magic-link", "consume">>>>,
                  oauthStart |-> <<"POST", <<"oauth", Param, "start">>>>, oauthCallback |-> <<"GET", <<"oauth", Param, "callback">>>>,
                  passkeyRegisterVerify |-> <<"POST", <<"passkeys", "register", "verify">>>>,
                  passkeyAuthenticateVerify |-> <<"POST", <<"passkeys", "authenticate", "verify">>>>]
RouteIds == DOMAIN RouteSuffixes

\* An override is a literal path; the two OAuth routes hold exactly one provider segment
ValidOverride(id, path) ==
    /\ id \in RouteIds /\ path /= <<>>
    /\ Cardinality({i \in DOMAIN path : path[i] = Param}) = IF id \in {"oauthStart", "oauthCallback"} THEN 1 ELSE 0

PatternsOverlap(a, b) == Len(a) = Len(b) /\ \A i \in DOMAIN a : a[i] = b[i] \/ Param \in {a[i], b[i]}

CompileRoutes(overrides) ==
    LET table == [id \in RouteIds |-> [method |-> RouteSuffixes[id][1],
                                       segments |-> IF id \in DOMAIN overrides THEN overrides[id] ELSE BasePath \o RouteSuffixes[id][2]]] IN
    IF /\ \A id \in DOMAIN overrides : ValidOverride(id, overrides[id])
       /\ \A a, b \in RouteIds : a /= b /\ table[a].method = table[b].method =>
                                    ~PatternsOverlap(table[a].segments, table[b].segments)
    THEN table ELSE Refused

\* The routes matchRoute may answer with: it takes the first in its own order
Matches(method, path) ==
    {id \in RouteIds : /\ routes[id].method = method /\ Len(routes[id].segments) = Len(path)
                       /\ \A i \in DOMAIN path : routes[id].segments[i] \in {Param, path[i]}}

PathForRoute(id, provider) ==
    [i \in DOMAIN routes[id].segments |-> IF routes[id].segments[i] = Param THEN provider ELSE routes[id].segments[i]]

-----------------------------------------------------------------------------
(* Slots                                                                   *)

Invalid == "invalid"
Usual == "usual"      \* names the usual cookie: no slot

\* requestedSlot: the header, or the query on GET; what disagrees or is no slot is invalid
RequestedSlot(method, header, query) ==
    LET queried == IF method = "GET" THEN query ELSE {}
        named == (IF header = None THEN {} ELSE {header}) \cup queried IN
    IF named = {} THEN Usual
    ELSE IF Cardinality(named) > 1 \/ named \ Users /= {} THEN Invalid ELSE CHOOSE s \in named : TRUE

\* What a request may ask for: a header that is a slot or not, and any queries
RequestedSlots(method) ==
    {RequestedSlot(method, asked.header, asked.query) :
        asked \in [header : Users \cup {None, Invalid}, query : SUBSET Users]}

Live(token) == token \in DOMAIN sessions /\ sessions[token].live

\* sessionTokenFromCookie: the cookie of the slot alone, or the usual one alone
Presented(slot) == jar[slot]

\* Mutant: a slot serves whoever's session its cookie holds.
SessionTokenAny(slot, presented) == presented

\* The session held in slot S serves subject S or nobody; a dead token stays what it is
SessionToken(slot, presented) ==
    IF slot /= Usual /\ presented /= None /\ Live(presented) /\ sessions[presented].user /= slot THEN None ELSE presented

-----------------------------------------------------------------------------
(* The browser and the handler                                             *)

ASSUME BrowserAssumption ==
    /\ None \notin Users \cup Nat \cup {Usual, Invalid} /\ Users \cap {Usual, Invalid} = {}
    /\ BasePath \in Seq(STRING) /\ Providers \subseteq STRING
    /\ \A overrides \in Overrides : \A id \in DOMAIN overrides : overrides[id] \in Seq(STRING)

NoRequest == [stage |-> "none", route |-> None, slot |-> None, usual |-> None, token |-> None,
              acted |-> None, cookie |-> <<>>, status |-> 0]

BrowserInit ==
    /\ \E overrides \in Overrides : routes = CompileRoutes(overrides)
    /\ jar = [name \in Users \cup {Usual} |-> None] /\ sessions = <<>>
    /\ underway = [r \in Requests |-> NoRequest]

Set(r, record) == underway' = [underway EXCEPT ![r] = record]
Reply(r, record, status) ==
    Set(r, [record EXCEPT !.stage = "answered", !.status = status, !.route = None, !.token = None])

Resolved(id, slot) ==
    [stage |-> "resolved", route |-> id, slot |-> slot, usual |-> IF slot = Usual THEN jar[Usual] ELSE None,
     token |-> SessionToken(slot, Presented(slot)), acted |-> None, cookie |-> <<>>, status |-> 0]

\* A tab's request arrives with the cookies the browser held, for a route and maybe a slot.  Before
\* the route: the origin of a write, the slot, and the session that the slot's cookie holds
Arrive(r) ==
    /\ routes /= Refused /\ underway[r].stage = "none"
    /\ \E id \in {"signInPassword", "signOut", "getSession", "changePassword", "oauthCallback", "passkeyRegisterVerify"} :
       \E slot \in RequestedSlots(routes[id].method), origin \in BOOLEAN :
          IF (routes[id].method = "POST" /\ ~origin) \/ slot = Invalid THEN Reply(r, NoRequest, 400)
          ELSE Set(r, Resolved(id, slot))
    /\ UNCHANGED <<routes, jar, sessions>>

\* A session is opened for `user`, and the answer sets the cookie of the slot
Open(r, record, user, kept) ==
    /\ Len(kept) < MaxSessions
    /\ sessions' = Append(kept, [user |-> user, live |-> TRUE, cookie |-> record.slot])
    /\ Reply(r, [record EXCEPT !.cookie = <<Len(kept) + 1>>], 200)

Revoked(which) == [t \in DOMAIN sessions |-> [sessions[t] EXCEPT !.live = @ /\ t \notin which]]

Holder(request) == IF Live(request.token) THEN sessions[request.token].user ELSE None
ActingFor(r) == [underway[r] EXCEPT !.acted = Holder(underway[r])]
At(r, route) == underway[r].stage = "resolved" /\ underway[r].route = route /\ UNCHANGED <<routes, jar>>

\* signInPassword, and so resetPassword, consumeMagicLink and passkeyAuthenticateVerify: whoever
\* signs in, the session goes into the cookie of the slot that was named
SignIn(r) == At(r, "signInPassword") /\ \E user \in Users : Open(r, underway[r], user, sessions)

SignOut(r) ==
    /\ At(r, "signOut")
    /\ sessions' = Revoked({underway[r].token})
    /\ Reply(r, [ActingFor(r) EXCEPT !.cookie = <<None>>], 200)

GetSession(r) ==
    /\ At(r, "getSession")
    /\ Reply(r, ActingFor(r), IF underway[r].token = None \/ Holder(underway[r]) /= None THEN 200 ELSE 401)
    /\ UNCHANGED sessions

ChangePassword(r) ==
    LET user == Holder(underway[r]) IN
    /\ At(r, "changePassword")
    /\ IF user = None THEN Reply(r, underway[r], 401) /\ UNCHANGED sessions
       ELSE Open(r, ActingFor(r), user, Revoked({t \in DOMAIN sessions : sessions[t].user = user}))

RegisterPasskey(r) ==
    /\ At(r, "passkeyRegisterVerify")
    /\ Reply(r, ActingFor(r), IF Holder(underway[r]) = None THEN 401 ELSE 200)
    /\ UNCHANGED sessions

\* The provider's identity belongs to `user`, or is linked to the caller
OauthCallback(r) ==
    LET caller == Holder(underway[r]) IN
    /\ At(r, "oauthCallback")
    /\ \E user \in Users :
          IF caller = None /\ underway[r].token /= None THEN Reply(r, underway[r], 401) /\ UNCHANGED sessions
          ELSE IF caller \notin {None, user} THEN Reply(r, underway[r], 403) /\ UNCHANGED sessions
          ELSE Open(r, ActingFor(r), user, sessions)

Act(r) == SignIn(r) \/ SignOut(r) \/ GetSession(r) \/ ChangePassword(r) \/ RegisterPasskey(r) \/ OauthCallback(r)

\* The answer reaches the browser, which applies its set-cookie, or the tab is gone
Receive(r) ==
    /\ underway[r].stage = "answered"
    /\ Set(r, NoRequest)
    /\ \/ jar' = IF underway[r].cookie = <<>> THEN jar ELSE [jar EXCEPT ![underway[r].slot] = underway[r].cookie[1]]
       \/ underway[r].cookie /= <<>> /\ UNCHANGED jar
    /\ UNCHANGED <<routes, sessions>>

BrowserNext == \E r \in Requests : Arrive(r) \/ Act(r) \/ Receive(r)

BrowserSpec == BrowserInit /\ [][BrowserNext]_browserVars

-----------------------------------------------------------------------------
(* Properties                                                              *)

\* Slots keep the users of one browser apart, whatever tabs send at once and in whatever order the
\* answers arrive: a request that names slot S acts for subject S or nobody, also when a sign-in put
\* another subject's session into S; one that names none acts for the holder of the usual cookie it
\* sent; a refused one acts for nobody and sets no cookie; and a cookie holds a session that was
\* opened under its own name.
SlotsAreIsolated ==
    /\ \A r \in Requests : LET request == underway[r] IN
          /\ request.slot \in Users => request.acted \in {None, request.slot}
          /\ request.slot = Usual /\ request.acted /= None =>
                request.acted = sessions[request.usual].user
          /\ request.status \in {400, 401, 403} => request.acted = None /\ request.cookie = <<>>
    /\ \A name \in DOMAIN jar : jar[name] /= None => sessions[jar[name]].cookie = name

\* Whatever overrides are accepted, every route answers at its own path, for every provider, and no
\* other route does: the order in which matchRoute tries them never matters.  (The table is compiled
\* once, so the states before the first session show it.)
RoutesResolve ==
    routes /= Refused /\ sessions = <<>> => \A id \in RouteIds, provider \in Providers :
                            Matches(routes[id].method, PathForRoute(id, provider)) = {id}

\* However the tabs of one browser sign in and out at once, a request that names a slot acts for that
\* slot's user or nobody, and in a route table that compiles each path is answered by one route
\* (auth http.ts, session-slots.ts).
SessionsStayApart == SlotsAreIsolated /\ RoutesResolve
=============================================================================
