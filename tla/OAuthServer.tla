---------------------------- MODULE OAuthServer ----------------------------
(***************************************************************************)
(* The OAuth 2.1 authorization server of packages/auth (oauth-server.ts)   *)
(* over its store: client registration, consent, the authorization code    *)
(* grant, refresh-token rotation with token families, revocation,          *)
(* introspection and end-session hints.                                    *)
(*                                                                         *)
(* A call is a sequence of store operations; each of them is atomic (one   *)
(* synchronous map update in memory, one SQL statement in the adapters)    *)
(* and calls interleave between them.  `calls[p]` is the call in slot p:   *)
(* what it holds between two operations.  A call may fail at any of them   *)
(* (a store or a crypto error, a crash of the process): Fail.              *)
(*                                                                         *)
(* One tenant: every key of the store starts with the tenant id.  Secrets, *)
(* hashes and PKCE verifiers are reduced to "the right one" or not.  Time  *)
(* is reduced to the expiry of single records.                             *)
(***************************************************************************)
EXTENDS Integers, Sequences, FiniteSets

CONSTANTS Calls,        \* slots for concurrent calls
          Clients, Users, Scopes,
          MaxCodes, MaxIssued,  \* bounds on what is issued
          Open,         \* registration.anonymous or .signedIn of the options
          OAuthMixes     \* records of operations and scopes; a behaviour uses one of them

ASSUME OAuthAssumption ==
    /\ MaxCodes \in Nat /\ MaxIssued \in Nat /\ Open \in BOOLEAN
    /\ \A m \in OAuthMixes : m.scopes \subseteq Scopes

VARIABLES mix,       \* the operations and the scopes this behaviour uses
          clients,   \* client id -> its vocabulary of scopes, {} when not registered
          consents,  \* <<client, user>> -> scope of the last consent
          codes,     \* authorization codes, in order of issue
          tokens,    \* token records, in order of issue
          families,  \* families[f]: the code whose exchange started family f
          hints,     \* end-session hints, in order of issue
          exchanges, \* what each call is doing
          held,      \* history: ids of the tokens some answer disclosed
          agreed,    \* history: every consent ever given
          reused,    \* history: families in which a reuse was answered
          audits     \* history: families for which a reuse was audited

oauthVars == <<mix, clients, consents, codes, tokens, families, hints, exchanges, held, agreed, reused, audits>>

Idle == [pc |-> "idle"]

\* OAuthTokenRecord
TokenRecord == [kind : {"access", "refresh"}, client : Clients, user : Users, scope : SUBSET Scopes,
                family : Nat, revoked : BOOLEAN, rotated : BOOLEAN, expired : BOOLEAN]

\* AuthorizationCodeRecord
CodeRecord == [client : Clients, user : Users, scope : SUBSET Scopes, consumed : BOOLEAN, expired : BOOLEAN]

\* The store is empty at first
OAuthInit ==
    /\ mix \in OAuthMixes
    /\ clients = [c \in Clients |-> {}]
    /\ consents = [cu \in Clients \X Users |-> {}]
    /\ codes = <<>> /\ tokens = <<>> /\ families = <<>> /\ hints = <<>>
    /\ exchanges = [p \in Calls |-> Idle]
    /\ held = {} /\ agreed = {} /\ reused = {} /\ audits = {}

-----------------------------------------------------------------------------
(* Store operations: each is one atomic update                             *)

\* putClient and putConsent: upserts on the client, and on the client and the user
PutClient(c, scopes) == [clients EXCEPT ![c] = scopes]
PutConsent(c, u, scope) == [consents EXCEPT ![<<c, u>>] = scope]

\* putAuthorizationCode and putToken: inserts under fresh random ids
PutCode(c, u, scope) == Append(codes, [client |-> c, user |-> u, scope |-> scope,
                                       consumed |-> FALSE, expired |-> FALSE])
PutTokenRecord(kind, c, u, scope, f) == Append(tokens, [kind |-> kind, client |-> c, user |-> u, scope |-> scope,
                                                  family |-> f, revoked |-> FALSE, rotated |-> FALSE,
                                                  expired |-> FALSE])

\* consumeAuthorizationCode finds a record only while it is unconsumed and unexpired
CodeIsLive(k) == ~codes[k].consumed /\ ~codes[k].expired

\* Mutant: the record is returned and not marked.
ConsumeUnmarked(k) == codes

Consume(k) == [codes EXCEPT ![k].consumed = TRUE]

\* revokeToken: unconditional, a rotated token stays marked as rotated
RevokeToken(t) == [tokens EXCEPT ![t].revoked = TRUE]

\* rotateToken: lands on a token that is not revoked, and only there
RotateToken(t) == [tokens EXCEPT ![t].revoked = TRUE, ![t].rotated = TRUE]

\* What a conditional UPDATE ... WHERE family_id = f AND revoked_at IS NULL touches
LiveOf(f) == {t \in DOMAIN tokens : tokens[t].family = f /\ ~tokens[t].revoked}

\* revokeFamily: every live token of the family, access and refresh alike
RevokeFamily(f) == [t \in DOMAIN tokens |-> IF t \in LiveOf(f) THEN [tokens[t] EXCEPT !.revoked = TRUE]
                                                               ELSE tokens[t]]

-----------------------------------------------------------------------------
(* Clients and consent                                                     *)

\* registerClient: a gate must be open and the vocabulary must not be empty; the id is fresh
RegisterClient(c, scopes) ==
    /\ Open /\ clients[c] = {} /\ scopes /= {}
    /\ clients' = PutClient(c, scopes)
    /\ UNCHANGED <<mix, consents, codes, tokens, families, hints, exchanges, held, agreed, reused, audits>>

\* grantConsent: replaces the earlier consent of this user to this client
GrantConsent(c, u, scope) ==
    /\ "consent" \in mix.ops \/ agreed = {}
    /\ clients[c] /= {} /\ scope \subseteq clients[c]
    /\ consents' = PutConsent(c, u, scope)
    /\ agreed' = agreed \cup {<<c, u, scope>>}
    /\ UNCHANGED <<mix, clients, codes, tokens, families, hints, exchanges, held, reused, audits>>

\* A requested scope is inside the client's vocabulary and inside the consent on record
ScopesCovered(c, u, scope) == scope \subseteq clients[c] /\ scope \subseteq consents[<<c, u>>]

\* authenticateClient: known, with its secret if it is confidential; a refusal changes nothing
AuthenticateClient(c) == clients[c] /= {}

\* authorize, up to findConsent: without a consent that covers the request there is no code
AuthorizeBegin(p, c, u, scope) ==
    /\ exchanges[p] = Idle /\ Len(codes) < MaxCodes
    /\ clients[c] /= {} /\ scope /= {} /\ ScopesCovered(c, u, scope)
    /\ exchanges' = [exchanges EXCEPT ![p] = [pc |-> "code", client |-> c, user |-> u, scope |-> scope]]
    /\ UNCHANGED <<mix, clients, consents, codes, tokens, families, hints, held, agreed, reused, audits>>

\* authorize: putAuthorizationCode and the redirect
AuthorizeStore(p) ==
    /\ exchanges[p].pc = "code" /\ Len(codes) < MaxCodes
    /\ codes' = PutCode(exchanges[p].client, exchanges[p].user, exchanges[p].scope)
    /\ exchanges' = [exchanges EXCEPT ![p] = Idle]
    /\ UNCHANGED <<mix, clients, consents, tokens, families, hints, held, agreed, reused, audits>>

-----------------------------------------------------------------------------
(* issueTokens: the access token's record, then the refresh token's        *)

Mint(p, kind) == PutTokenRecord(kind, exchanges[p].client, exchanges[p].user, exchanges[p].scope, exchanges[p].family)

PutAccess(p) ==
    /\ exchanges[p].pc = "access" /\ Len(tokens) < MaxIssued
    /\ tokens' = Mint(p, "access")
    /\ exchanges' = [exchanges EXCEPT ![p].pc = "refresh", ![p].pair = {Len(tokens) + 1}]
    /\ UNCHANGED <<mix, clients, consents, codes, families, hints, held, agreed, reused, audits>>

\* The pair is complete: an exchange answers with it, a refresh goes on to rotate
PutRefresh(p) ==
    /\ exchanges[p].pc = "refresh" /\ Len(tokens) < MaxIssued
    /\ tokens' = Mint(p, "refresh")
    /\ LET pair == exchanges[p].pair \cup {Len(tokens) + 1} IN
       IF exchanges[p].old = 0
       THEN exchanges' = [exchanges EXCEPT ![p] = Idle] /\ held' = held \cup pair
       ELSE exchanges' = [exchanges EXCEPT ![p].pc = "rotate", ![p].pair = pair] /\ UNCHANGED held
    /\ UNCHANGED <<mix, clients, consents, codes, families, hints, agreed, reused, audits>>

\* exchangeCode: the code is spent whether or not the rest of the request matches it
ExchangeCode(p, c, k, matches) ==
    /\ exchanges[p] = Idle /\ AuthenticateClient(c) /\ k \in DOMAIN codes /\ CodeIsLive(k)
    /\ codes' = Consume(k)
    /\ IF matches /\ codes[k].client = c
       THEN /\ families' = Append(families, k)
            /\ exchanges' = [exchanges EXCEPT ![p] = [pc |-> "access", client |-> c, user |-> codes[k].user,
                                              scope |-> codes[k].scope, family |-> Len(families) + 1,
                                              old |-> 0, pair |-> {}]]
       ELSE UNCHANGED <<families, exchanges>>
    /\ UNCHANGED <<mix, clients, consents, tokens, hints, held, agreed, reused, audits>>

-----------------------------------------------------------------------------
(* refresh                                                                 *)

\* A refresh token that one of the answers disclosed, presented by its client
Presentable(c, t) == t \in held /\ tokens[t].kind = "refresh" /\ tokens[t].client = c /\ ~tokens[t].expired

\* refresh, up to the read of the record: rotated away is reuse, revoked otherwise is refused
Refresh(p, c, t) ==
    /\ "refresh" \in mix.ops /\ exchanges[p] = Idle /\ AuthenticateClient(c) /\ Presentable(c, t)
    /\ tokens[t].revoked => tokens[t].rotated
    /\ exchanges' = [exchanges EXCEPT ![p] =
           [pc |-> IF tokens[t].revoked THEN "reuse" ELSE "access", client |-> c,
            user |-> tokens[t].user, scope |-> tokens[t].scope, family |-> tokens[t].family,
            old |-> t, pair |-> {}]]
    /\ UNCHANGED <<mix, clients, consents, codes, tokens, families, hints, held, agreed, reused, audits>>

\* The family dies; audited when the sweep took something
Sweep(p, isReuse) ==
    LET f == exchanges[p].family IN
    /\ tokens' = RevokeFamily(f)
    /\ reused' = IF isReuse THEN reused \cup {f} ELSE reused
    /\ audits' = IF isReuse /\ LiveOf(f) /= {} THEN audits \cup {f} ELSE audits
    /\ exchanges' = [exchanges EXCEPT ![p] = Idle]
    /\ UNCHANGED <<mix, clients, consents, codes, families, hints, held, agreed>>

ReuseDetected(p) == exchanges[p].pc = "reuse" /\ Sweep(p, TRUE)

\* Mutant: the rotation is not conditional.
RotateAlways(p) ==
    /\ exchanges[p].pc = "rotate"
    /\ exchanges' = [exchanges EXCEPT ![p].pc = "check"] /\ tokens' = RotateToken(exchanges[p].old)
    /\ UNCHANGED <<mix, clients, consents, codes, families, hints, held, agreed, reused, audits>>

\* rotateToken, after the new pair is stored
Rotate(p) ==
    /\ exchanges[p].pc = "rotate"
    /\ LET t == exchanges[p].old IN
       IF tokens[t].revoked
       THEN exchanges' = [exchanges EXCEPT ![p].pc = "lost"] /\ UNCHANGED tokens
       ELSE exchanges' = [exchanges EXCEPT ![p].pc = "check"] /\ tokens' = RotateToken(t)
    /\ UNCHANGED <<mix, clients, consents, codes, families, hints, held, agreed, reused, audits>>

\* Another presenter, or a revocation, got there first: this presenter's pair goes with the family
LostRotation(p) == exchanges[p].pc = "lost" /\ Sweep(p, tokens[exchanges[p].old].rotated)

\* The rotation landed: answer with the pair unless a sweep has taken it meanwhile
CheckFresh(p) ==
    /\ exchanges[p].pc = "check"
    /\ IF \E t \in exchanges[p].pair : tokens[t].kind = "refresh" /\ tokens[t].revoked
       THEN exchanges' = [exchanges EXCEPT ![p].pc = "swept"] /\ UNCHANGED held
       ELSE exchanges' = [exchanges EXCEPT ![p] = Idle] /\ held' = held \cup exchanges[p].pair
    /\ UNCHANGED <<mix, clients, consents, codes, tokens, families, hints, agreed, reused, audits>>

RefuseSwept(p) == exchanges[p].pc = "swept" /\ Sweep(p, FALSE)

-----------------------------------------------------------------------------
(* The rest of the surface, failures and time                              *)

\* revoke: any client, any token it can present; an access token is found by its jti
Revoke(t) ==
    /\ "revoke" \in mix.ops /\ t \in held
    /\ tokens' = RevokeToken(t)
    /\ UNCHANGED <<mix, clients, consents, codes, families, hints, exchanges, held, agreed, reused, audits>>

\* introspect and verifyAccessToken: the record decides, never the claims alone
Active(t) == ~tokens[t].revoked /\ ~tokens[t].expired
VerifyAccessToken(t) == tokens[t].kind = "access" /\ Active(t)

StartEndSession ==
    /\ "hints" \in mix.ops /\ Len(hints) < MaxCodes
    /\ hints' = Append(hints, [consumed |-> FALSE, expired |-> FALSE, completed |-> 0])
    /\ UNCHANGED <<mix, clients, consents, codes, tokens, families, exchanges, held, agreed, reused, audits>>

\* completeEndSession: consumeEndSessionHint is one conditional update
CompleteEndSession(h) ==
    /\ ~hints[h].consumed /\ ~hints[h].expired
    /\ hints' = [hints EXCEPT ![h] = [consumed |-> TRUE, expired |-> FALSE,
                                      completed |-> hints[h].completed + 1]]
    /\ UNCHANGED <<mix, clients, consents, codes, tokens, families, exchanges, held, agreed, reused, audits>>

\* A store or crypto operation fails, or the process dies: what is stored stays
CallFails(p) ==
    /\ "fail" \in mix.ops /\ exchanges[p] /= Idle
    /\ exchanges' = [exchanges EXCEPT ![p] = Idle]
    /\ UNCHANGED <<mix, clients, consents, codes, tokens, families, hints, held, agreed, reused, audits>>

RecordsExpire ==
    /\ "expire" \in mix.ops
    /\ \/ \E k \in DOMAIN codes : ~codes[k].expired /\ codes' = [codes EXCEPT ![k].expired = TRUE]
                                  /\ UNCHANGED <<tokens, hints>>
       \/ \E t \in DOMAIN tokens : ~tokens[t].expired /\ tokens' = [tokens EXCEPT ![t].expired = TRUE]
                                   /\ UNCHANGED <<codes, hints>>
       \/ \E h \in DOMAIN hints : ~hints[h].expired /\ hints' = [hints EXCEPT ![h].expired = TRUE]
                                  /\ UNCHANGED <<codes, tokens>>
    /\ UNCHANGED <<mix, clients, consents, families, exchanges, held, agreed, reused, audits>>

CallStep(p) == PutAccess(p) \/ PutRefresh(p) \/ ReuseDetected(p) \/ Rotate(p) \/ LostRotation(p)
           \/ CheckFresh(p) \/ RefuseSwept(p) \/ AuthorizeStore(p)

OAuthNext ==
    \/ \E c \in Clients, s \in SUBSET mix.scopes : RegisterClient(c, s)
    \/ \E c \in Clients, u \in Users, s \in SUBSET mix.scopes : GrantConsent(c, u, s)
    \/ \E p \in Calls, c \in Clients, u \in Users, s \in SUBSET mix.scopes : AuthorizeBegin(p, c, u, s)
    \/ \E p \in Calls, c \in Clients, k \in DOMAIN codes, m \in BOOLEAN : ExchangeCode(p, c, k, m)
    \/ \E p \in Calls, c \in Clients, t \in DOMAIN tokens : Refresh(p, c, t)
    \/ \E p \in Calls : CallStep(p) \/ CallFails(p)
    \/ \E t \in DOMAIN tokens : Revoke(t)
    \/ StartEndSession
    \/ \E h \in DOMAIN hints : CompleteEndSession(h)
    \/ RecordsExpire

OAuthSpec == OAuthInit /\ [][OAuthNext]_oauthVars
-----------------------------------------------------------------------------
(* Properties                                                              *)

\* The store holds well-formed records and the histories name issued tokens and families.
OAuthTypeOK ==
    /\ \A k \in DOMAIN codes : codes[k] \in CodeRecord
    /\ \A t \in DOMAIN tokens : tokens[t] \in TokenRecord
    /\ held \subseteq DOMAIN tokens /\ reused \cup audits \subseteq DOMAIN families

\* A code and an end-session hint work once, whoever races for them: no two grants (token
\* families) descend from one authorization code and no hint completes two logouts
\* (consumeAuthorizationCode and consumeEndSessionHint mark and return in one step).
SingleUse ==
    /\ \A f, g \in DOMAIN families : families[f] = families[g] => f = g
    /\ \A h \in DOMAIN hints : hints[h].completed <= 1

\* The scope of a token is one its user agreed to for this client, in one consent: the scope
\* goes through the code and every refresh unchanged, and a consent narrowed while an
\* authorization is between its two store operations does not widen it.
ScopeWasConsented ==
    \A t \in DOMAIN tokens : \E a \in agreed :
        a[1] = tokens[t].client /\ a[2] = tokens[t].user /\ tokens[t].scope \subseteq a[3]

\* A code and a hint work once, and a token's scope is one its user agreed to, in one consent
\* (oauth-server.ts authorize, exchangeCode, completeEndSession).
GrantsAreConsented == OAuthTypeOK /\ SingleUse /\ ScopeWasConsented

\* Of the refresh tokens of one family that clients hold, at most one still works, however many
\* presenters of one token race (mint, rotate, check).
OneRefreshWorks ==
    \A t, u \in held :
        (/\ tokens[t].kind = "refresh" /\ tokens[u].kind = "refresh"
         /\ tokens[t].family = tokens[u].family /\ Active(t) /\ Active(u)) => t = u

\* Once a reuse of a rotated-away refresh token has been answered, nothing of that family that
\* any client holds works again, at a resource server or at the token endpoint: the presenter
\* that was refreshing meanwhile loses its fresh pair too, in every order of mint, rotation,
\* sweep and check, failures included.
ReuseKillsTheFamily ==
    \A t \in held : tokens[t].family \in reused => ~Active(t) /\ ~VerifyAccessToken(t)

\* However many presenters of refresh tokens race, one refresh token of a grant works at a time,
\* and a reuse that was answered leaves nothing of the grant that works (oauth-server.ts refresh).
RefreshIsLinear == OneRefreshWorks /\ ReuseKillsTheFamily
=============================================================================
