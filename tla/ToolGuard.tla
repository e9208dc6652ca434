------------------------------ MODULE ToolGuard ------------------------------
(***************************************************************************)
(* Who may run a handler: the MCP server (packages/mcp: the bearer guard   *)
(* of auth.ts, the scope registry, the check of tool.ts before a handler,  *)
(* the bridge to the command bus), the route guards of                     *)
(* packages/authorization/src/http.ts, and the authorizer that             *)
(* authorization/src/cqrs.ts gives the bus.  Tools are registered while    *)
(* the server already answers.                                             *)
(***************************************************************************)
EXTENDS Access

CONSTANTS Tools,          \* tool -> [scopes, tag]; scopes is Undefined when it declares none,
                          \* tag is the message it is bridged to, or Undefined
          Rules,          \* message tag -> [public, permission, ofPayload]
          UnmappedAllowed,\* CqrsAuthorizationOptions.unmapped = "allow"
          DefaultScopes,  \* McpAuthOptions.defaultScopes
          Tokens,         \* the tokens that verify: token -> [principal, scopes]
          Bearers,        \* what the Authorization header may hold: a token, or Undefined
          Actors,         \* actor id -> principal, or Undefined: resolvePrincipal
          Batches,        \* the tools/call messages a body may hold: sequences of tools
          Payloads,       \* [scope, facts]: what a rule reads of the payload
          Calls,
          ServedDefinition

VARIABLES transport,     \* "guarded": HTTP with auth; "open": stdio, or HTTP without
          defaults,      \* ToolScopes: the scopes of tools that declare none
          declared,      \* ToolScopes: tool -> scopes
          registration,  \* tool -> "none", "declared" or "added" to the server
          calls

guardVars == <<transport, defaults, declared, registration, calls>>
idle == <<accessVars, transport, defaults>>

NoCall == [kind |-> "none", stage |-> "none", mcp |-> Undefined, principal |-> Undefined, actor |-> Undefined,
           todo |-> {}, payload |-> Undefined, guard |-> Undefined, settled |-> FALSE,
           ran |-> {}, refused |-> {}, answer |-> Undefined]

\* guardedProtocol sets the default scopes and then mounts the route; open transports never set them
GuardInit ==
    /\ definition = ServedDefinition /\ policy = Resolved(ServedDefinition)
    /\ transport \in {"guarded", "open"}
    /\ defaults = IF transport = "guarded" /\ DefaultScopes /= Undefined THEN DefaultScopes ELSE {}
    /\ declared = <<>> /\ registration = [t \in DOMAIN Tools |-> "none"]
    /\ calls = [c \in Calls |-> NoCall]

Become(c, record) == calls' = [calls EXCEPT ![c] = record]

-----------------------------------------------------------------------------
(* Registration: register                                                  *)

\* ToolScopes.register
DeclareScopes(t) ==
    /\ registration[t] = "none"
    /\ registration' = [registration EXCEPT ![t] = "declared"]
    /\ declared' = IF Tools[t].scopes = Undefined THEN Restrict(declared, DOMAIN declared \ {t})
                   ELSE [u \in DOMAIN declared \cup {t} |-> IF u = t THEN Tools[t].scopes ELSE declared[u]]
    /\ UNCHANGED <<idle, calls>>

\* server.addTool, after its scopes are known
AddTool(t) ==
    /\ registration[t] = "declared"
    /\ registration' = [registration EXCEPT ![t] = "added"]
    /\ UNCHANGED <<idle, declared, calls>>

RequiredFor(t) == IF t \in DOMAIN declared THEN declared[t] ELSE defaults

-----------------------------------------------------------------------------
(* Calls                                                                   *)

\* A request reaches the MCP route; without the guard a local caller may have been attached
Arrive(c) ==
    /\ calls[c].stage = "none"
    /\ \E batch \in Batches, payload \in Payloads, bearer \in IF transport = "guarded" THEN Bearers ELSE DOMAIN Tokens \cup {Undefined} :
          LET call == [NoCall EXCEPT !.kind = "mcp", !.todo = batch, !.payload = payload] IN
          Become(c, CASE transport = "guarded" /\ bearer = Undefined -> [call EXCEPT !.stage = "done", !.answer = "401"]
                      [] transport = "guarded" /\ bearer /= Undefined -> [call EXCEPT !.stage = "verifying", !.actor = bearer]
                      [] transport = "open" -> [call EXCEPT !.stage = "running", !.mcp = IF bearer = Undefined THEN bearer ELSE Tokens[bearer]])
    /\ UNCHANGED <<idle, declared, registration>>

Lacks(grant, t) == RequiredFor(t) \ (IF grant = Undefined THEN {} ELSE grant.scopes)

\* requestedTools: every tools/call of the body
RequestedTools(call) == call.todo

\* guard, once the verifier has answered: 401, or 403 before any message of the batch runs, or the
\* whole request on behalf of the principal (the `within` hook attaches it to the policy's fiber too)
Guard(c) ==
    /\ calls[c].stage = "verifying"
    /\ LET call == [calls[c] EXCEPT !.actor = Undefined, !.settled = \A t \in DOMAIN Tools : registration[t] = "added"] IN
       IF calls[c].actor \notin DOMAIN Tokens THEN Become(c, [call EXCEPT !.stage = "done", !.answer = "401"])
       ELSE LET grant == Tokens[calls[c].actor] IN
            Become(c, IF \E t \in RequestedTools(call) : Lacks(grant, t) /= {}
                      THEN [call EXCEPT !.stage = "done", !.answer = "403", !.mcp = grant]
                      ELSE [call EXCEPT !.stage = "running", !.mcp = grant, !.principal = grant.principal])
    /\ UNCHANGED <<idle, declared, registration>>

\* The bus asks its authorizer: no rule, a public rule, or the rule's permission for the fiber's
\* principal, else for the one the actor resolves to
PrincipalFor(call) ==
    IF call.principal /= Undefined THEN call.principal
    ELSE IF call.actor \in DOMAIN Actors THEN Actors[call.actor] ELSE Undefined

Authorize(call, tag) ==
    IF tag \notin DOMAIN Rules THEN UnmappedAllowed
    ELSE \/ Rules[tag].public
         \/ /\ PrincipalFor(call) /= Undefined
            /\ IF Rules[tag].ofPayload
               THEN Decide(PrincipalFor(call), Rules[tag].permission, call.payload.scope, call.payload.facts)
               ELSE Decide(PrincipalFor(call), Rules[tag].permission, Undefined, <<>>)

\* A message of the batch is handled (in any order): authorize, then the handler, which for a bridged
\* tool is the dispatch.  Every failure is a tool error; a tool the server does not know is one too.
ToolHandles(c, t) ==
    /\ calls[c].stage = "running" /\ t \in calls[c].todo
    /\ LET call == [calls[c] EXCEPT !.todo = @ \ {t}, !.stage = IF calls[c].todo = {t} THEN "done" ELSE @]
           runs == /\ registration[t] = "added"
                   /\ Lacks(call.mcp, t) = {}
                   /\ Tools[t].tag /= Undefined => Authorize(call, Tools[t].tag) IN
       Become(c, IF runs THEN [call EXCEPT !.ran = @ \cup {t}] ELSE [call EXCEPT !.refused = @ \cup {t}])
    /\ UNCHANGED <<idle, declared, registration>>

\* A job runner dispatches a message on behalf of an actor
JobDispatch(c, tag) ==
    /\ calls[c].stage = "none"
    /\ \E actor \in DOMAIN Actors \cup {Undefined}, payload \in Payloads :
          LET call == [NoCall EXCEPT !.kind = "job", !.stage = "done", !.actor = actor, !.payload = payload] IN
          Become(c, IF Authorize(call, tag) THEN [call EXCEPT !.ran = {tag}] ELSE [call EXCEPT !.refused = {tag}])
    /\ UNCHANGED <<idle, declared, registration>>

\* An HTTP route under the `principal` middleware and one of the guards requirePermission,
\* requireRole, requireAuthenticated; a request without a usable bearer has no principal
RouteCall(c, guard) ==
    /\ calls[c].stage = "none"
    /\ \E bearer \in Bearers, payload \in Payloads :
          LET principal == IF bearer \in DOMAIN Tokens THEN Tokens[bearer].principal ELSE Undefined
              verdict == CASE guard.kind = "permission" -> Check(principal, guard.on, payload.scope, payload.facts)
                           [] guard.kind = "role" -> RequireRole(principal, guard.on, payload.scope)
                           [] guard.kind = "authenticated" -> Required(principal) IN
          Become(c, [NoCall EXCEPT !.kind = "route", !.stage = "done", !.principal = principal, !.payload = payload,
                                   !.guard = guard, !.answer = verdict])
    /\ UNCHANGED <<idle, declared, registration>>

Guards == {[kind |-> "permission", on |-> p] : p \in Permissions} \cup {[kind |-> "role", on |-> r] : r \in Roles}
          \cup {[kind |-> "authenticated", on |-> Undefined]}

GuardNext ==
    \/ \E t \in DOMAIN Tools : DeclareScopes(t) \/ AddTool(t)
    \/ \E c \in Calls : Arrive(c) \/ Guard(c)
    \/ \E c \in Calls, t \in DOMAIN Tools : ToolHandles(c, t)
    \/ \E c \in Calls, tag \in {Tools[t].tag : t \in DOMAIN Tools} \ {Undefined} : JobDispatch(c, tag)
    \/ \E c \in Calls, guard \in Guards : RouteCall(c, guard)

-----------------------------------------------------------------------------
(* Properties                                                              *)

\* The definition, not the resolved map, allows this principal the permission
Entitled(principal, permission, scope, facts) ==
    /\ principal /= Undefined
    /\ \E role \in RolesIn(principal, scope) \cap Roles : GrantedBy(role, permission, principal, facts)

EntitledTo(call, tag) ==
    IF tag \notin DOMAIN Rules THEN UnmappedAllowed
    ELSE ~Rules[tag].public =>
            Entitled(PrincipalFor(call), Rules[tag].permission,
                     IF Rules[tag].ofPayload THEN call.payload.scope ELSE Undefined,
                     IF Rules[tag].ofPayload THEN call.payload.facts ELSE <<>>)

ScopesOf(t) == IF Tools[t].scopes = Undefined THEN defaults ELSE Tools[t].scopes
Held(call) == IF call.mcp = Undefined THEN {} ELSE call.mcp.scopes

\* Nobody runs what was not granted, whatever guard stands in front: a tool ran only with all the
\* scopes it declares (or the default ones), also when its registration overtook the guard, and its
\* message only if the policy's definition entitles the principal; a request refused with 401 or 403
\* ran no tool of its batch; and with every tool registered the guard's verdict is the tools' own, so
\* that no call of an admitted batch is refused for its scopes.
OnlyTheGrantedRun ==
    \A c \in Calls : LET call == calls[c] IN
        CASE call.kind = "mcp" ->
                /\ \A t \in call.ran : /\ ScopesOf(t) \subseteq Held(call)
                                       /\ Tools[t].tag /= Undefined => EntitledTo(call, Tools[t].tag)
                /\ call.answer \in {"401", "403"} => call.ran = {}
                /\ call.settled => \A t \in call.refused : ScopesOf(t) \subseteq Held(call)
          [] call.kind = "job" -> \A tag \in call.ran : EntitledTo(call, tag)
          [] call.kind = "route" ->
                LET entitled == CASE call.guard.kind = "permission" ->
                                        Entitled(call.principal, call.guard.on, call.payload.scope, call.payload.facts)
                                  [] call.guard.kind = "role" ->
                                        call.principal /= Undefined /\ \E a \in call.principal.roles :
                                            a.role = call.guard.on /\ a.scope \in {Undefined, call.payload.scope}
                                  [] OTHER -> call.principal /= Undefined /\ call.principal.kind /= "anonymous" IN
                /\ (call.answer = "ok") = entitled
                /\ call.answer = "PermissionDenied" => call.principal /= Undefined /\ call.principal.kind /= "anonymous"
          [] OTHER -> TRUE
=============================================================================
