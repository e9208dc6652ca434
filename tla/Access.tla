------------------------------- MODULE Access -------------------------------
(***************************************************************************)
(* packages/authorization: policies (policy.ts), principals, conditions    *)
(* and the rules of the command bus (cqrs.ts).  A definition is validated  *)
(* and its roles are resolved once; the decisions work on the resolved map.*)
(***************************************************************************)
EXTENDS Integers, SequencesExt, FiniteSetsExt, Folds, Functions

CONSTANTS Resources,     \* resource -> set of its actions
          Conditions,    \* condition name -> condition
          Definitions,   \* candidates: role -> [inherits, grants]
          Principals,    \* records [id, kind, tenant, roles, attributes]
          Facts,         \* attributes of the instance a check is about
          Scopes,        \* the scopes checks name; Undefined: none
          Undefined

VARIABLES definition, policy

accessVars == <<definition, policy>>

Permissions == UNION {{<<r, a>> : a \in Resources[r]} : r \in DOMAIN Resources}
Roles == DOMAIN definition
Invalid == <<"invalid">>
Unbuilt == <<"unbuilt">>

AccessInit == definition \in Definitions /\ policy = Unbuilt

-----------------------------------------------------------------------------
(* validate                                                                *)

UnknownNames(roles) ==
    \E r \in DOMAIN roles :
        \/ \E i \in DOMAIN roles[r].inherits : roles[r].inherits[i] \notin DOMAIN roles
        \/ \E i \in DOMAIN roles[r].grants : LET g == roles[r].grants[i] IN
              \/ g.resource /= "*" /\ g.resource \notin DOMAIN Resources
              \/ g.resource \in DOMAIN Resources /\ g.action \notin Resources[g.resource] \cup {"*"}
              \/ g.when \notin DOMAIN Conditions \cup {"always"}

\* visit: depth first over the parents; a parent that is being visited closes a cycle
RECURSIVE Visit(_, _, _, _)
Visit(roles, role, path, walk) ==
    IF role \in walk.done THEN walk
    ELSE IF role \in walk.visiting
    THEN [walk EXCEPT !.cycles = @ \cup {SubSeq(path, SelectInSeq(path, LAMBDA r : r = role), Len(path))}]
    ELSE LET entered == [walk EXCEPT !.visiting = @ \cup {role}]
             left == FoldLeft(LAMBDA w, parent : IF parent \in DOMAIN roles
                                                 THEN Visit(roles, parent, Append(path, role), w) ELSE w,
                              entered, roles[role].inherits) IN
         [left EXCEPT !.visiting = @ \ {role}, !.done = @ \cup {role}]

Cycles(roles) ==
    FoldLeft(LAMBDA walk, role : Visit(roles, role, <<>>, walk),
             [visiting |-> {}, done |-> {}, cycles |-> {}], SetToSeq(DOMAIN roles)).cycles

-----------------------------------------------------------------------------
(* resolveRoles                                                            *)

Covers(grant) == {p \in Permissions : grant.resource \in {"*", p[1]} /\ grant.action \in {"*", p[2]}}

\* Mutant: a conditional grant replaces an unconditional one.
MergeLast(held, permission, conditions) ==
    [p \in DOMAIN held \cup {permission} |-> IF p /= permission THEN held[p] ELSE conditions]

\* merge: an unconditional grant wins, conditions are alternatives
Merge(held, permission, conditions) ==
    LET known == IF permission \in DOMAIN held THEN held[permission] ELSE {} IN
    [p \in DOMAIN held \cup {permission} |->
        IF p /= permission THEN held[p] ELSE IF "always" \in known \cup conditions THEN {"always"} ELSE known \cup conditions]

MergeAll(held, map) == FoldLeft(LAMBDA h, p : Merge(h, p, map[p]), held, SetToSeq(DOMAIN map))

\* What parents hold, then what the role is granted itself
Resolved(roles) ==
    LET resolve[role \in DOMAIN roles] ==
            LET inherited == FoldLeft(LAMBDA held, parent : MergeAll(held, resolve[parent]), <<>>, roles[role].inherits) IN
            FoldLeft(LAMBDA held, grant : MergeAll(held, [p \in Covers(grant) |-> {grant.when}]), inherited, roles[role].grants) IN
    resolve

\* Policy.make: every inconsistency is refused before anything is resolved
Make ==
    /\ policy = Unbuilt
    /\ policy' = IF UnknownNames(definition) \/ Cycles(definition) /= {} THEN Invalid ELSE Resolved(definition)
    /\ UNCHANGED definition

-----------------------------------------------------------------------------
(* Decisions                                                               *)

AttributeOf(facts, key) == IF key \in DOMAIN facts THEN facts[key] ELSE Undefined

RECURSIVE Holds(_, _, _)
Holds(condition, principal, facts) ==
    CASE condition.kind = "owner" -> AttributeOf(facts, "ownerId") = principal.id
      [] condition.kind = "sameTenant" -> principal.tenant /= Undefined /\ AttributeOf(facts, "tenantId") = principal.tenant
      [] condition.kind = "attributeIn" -> AttributeOf(facts, condition.key) \in condition.values
      [] condition.kind = "principalAttribute" -> AttributeOf(principal.attributes, condition.key) = condition.value
      [] condition.kind = "all" -> \A c \in condition.of : Holds(c, principal, facts)
      [] condition.kind = "any" -> \E c \in condition.of : Holds(c, principal, facts)
      [] condition.kind = "not" -> ~Holds(condition.of, principal, facts)

\* rolesIn: the global assignments, and those of exactly this scope
RolesIn(principal, scope) == {a.role : a \in {b \in principal.roles : b.scope \in {Undefined, scope}}}

\* decide on the resolved map: the first known role whose entry is unconditional or holds
Decide(principal, permission, scope, facts) ==
    /\ permission \in Permissions
    /\ \E role \in RolesIn(principal, scope) \cap DOMAIN policy :
          /\ permission \in DOMAIN policy[role]
          /\ \/ policy[role][permission] = {"always"}
             \/ \E name \in policy[role][permission] \ {"always"} : Holds(Conditions[name], principal, facts)

\* matrix: a cell of the role-permission table
Cell(role, permission) ==
    CASE permission \notin DOMAIN policy[role] -> "denied"
      [] permission \in DOMAIN policy[role] /\ policy[role][permission] = {"always"} -> "granted"
      [] OTHER -> "conditional"

\* How a refusal is reported to the fiber's principal
Refusal(principal) == IF principal = Undefined \/ principal.kind = "anonymous" THEN "Unauthenticated" ELSE "PermissionDenied"

Check(principal, permission, scope, facts) ==
    IF principal /= Undefined /\ Decide(principal, permission, scope, facts) THEN "ok" ELSE Refusal(principal)

RequireRole(principal, role, scope) ==
    IF principal /= Undefined /\ role \in RolesIn(principal, scope) THEN "ok" ELSE Refusal(principal)

\* The guards are about whoever is attached; `required` asks for anyone but the anonymous
Required(principal) == IF principal /= Undefined /\ principal.kind /= "anonymous" THEN "ok" ELSE "Unauthenticated"

AccessNext == Make

-----------------------------------------------------------------------------
(* Properties                                                              *)

\* What the definition says: the roles that `role` inherits from, over any number of steps
Parents(roles, some) == UNION {{p \in DOMAIN roles : Contains(roles[r].inherits, p)} : r \in some}
Inherits(roles, role) ==
    FoldFunction(LAMBDA r, found : found \cup Parents(roles, found), Parents(roles, {role}), roles)

GrantedBy(role, permission, principal, facts) ==
    \E from \in {role} \cup Inherits(definition, role) :
        \E i \in DOMAIN definition[from].grants : LET g == definition[from].grants[i] IN
            permission \in Covers(g) /\ (g.when = "always" \/ Holds(Conditions[g.when], principal, facts))

\* For every definition: it is refused exactly when it names something unknown or its inheritance
\* has a cycle, also one that only roles reach that were visited before; and otherwise a decision on
\* the resolved and merged map is the one of the definition: some active role has, or inherits over
\* any number of steps, a grant that covers the permission and whose condition holds.  The matrix
\* shows a cell as granted or denied only if no condition could change the decision.
PolicyMeansDefinition ==
    /\ policy = Invalid => UnknownNames(definition) \/ \E r \in Roles : r \in Inherits(definition, r)
    /\ policy \notin {Unbuilt, Invalid} =>
        /\ \A r \in Roles : r \notin Inherits(definition, r)
        /\ \A principal \in Principals, permission \in Permissions, scope \in Scopes, facts \in Facts :
              Decide(principal, permission, scope, facts) =
              \E role \in RolesIn(principal, scope) \cap Roles : GrantedBy(role, permission, principal, facts)
        /\ \A role \in Roles, permission \in Permissions, principal \in Principals, facts \in Facts :
              /\ Cell(role, permission) = "granted" => GrantedBy(role, permission, principal, facts)
              /\ Cell(role, permission) = "denied" => ~GrantedBy(role, permission, principal, facts)
=============================================================================
