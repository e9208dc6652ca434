----------------------------- MODULE MCIdentity ------------------------------
(***************************************************************************)
(* Identity, a small instance of each part: the authentication service in  *)
(* several mixes of operations, the OAuth authorization server, API keys   *)
(* in a rotation of peppers, and logins through external providers.  The   *)
(* parts share no state: `part` says which one a behaviour is about, and   *)
(* the others stay where they start.                                       *)
(***************************************************************************)
EXTENDS AuthService, OAuthServer, ApiKeys, Providers, TLC

CONSTANTS p1, p2, e1, e2, none, g1, q1, q2, q3, client, user, v1, v2

VARIABLE part

\* A member with a password and one session; a member enrolled long ago, whose secret is stored in
\* the clear, with two sessions that wait for their code
Member == InsertSession(SetEmailVerified(CreatePasswordUser(EmptyStore, e1, 1), 1), 1, FALSE)

Enrolled(recovery, last) ==
    [InsertSession(InsertSession(SetEmailVerified(CreatePasswordUser(EmptyStore, e1, 1), 1), 1, TRUE), 1, TRUE)
        EXCEPT !.totp[1] = [NoTotp EXCEPT !.secret = 1, !.sealed = FALSE, !.confirmed = TRUE,
                                          !.codes = recovery, !.last = last]]

\* A member with a passkey whose counter has moved, and a session still to be opened with it
Keyed == AddPasskey(SetEmailVerified(CreatePasswordUser(EmptyStore, e1, 1), 1), 0, 1, 1)

Mixes ==
    { [ops |-> {"register", "mail", "signin"},         start |-> EmptyStore],
      [ops |-> {"register", "magic", "expire"},        start |-> EmptyStore],
      [ops |-> {"register", "oauth"},                  start |-> EmptyStore],
      [ops |-> {"magic", "oauth"},                     start |-> EmptyStore],
      [ops |-> {"signin", "reset", "signout", "fail"}, start |-> Member],
      [ops |-> {"signin", "change", "expire"},         start |-> Member],
      [ops |-> {"oauth", "unlink", "signout"},         start |-> Member],
      [ops |-> {"passkeys"},                           start |-> Member],
      [ops |-> {"passkeys", "signout"},                start |-> Keyed],
      [ops |-> {"enroll", "verify"},                   start |-> Member],
      [ops |-> {"verify", "signout"},                  start |-> Enrolled({}, 0)],
      [ops |-> {"verify", "operator"},                 start |-> Enrolled({<<1, 1>>, <<1, 2>>}, 2)],
      [ops |-> {"unenroll", "operator"},               start |-> Enrolled({<<1, 1>>, <<1, 2>>}, 1)] }

\* Presenters of refresh tokens race and are revoked, or fail; consents change while codes are issued and
\* redeemed; the clock and the end-session hints
ServerMixes ==
    { [ops |-> {"refresh", "revoke"}, scopes |-> {"read"}],
      [ops |-> {"refresh", "fail"}, scopes |-> {"read"}],
      [ops |-> {"consent", "fail"}, scopes |-> {"read", "write"}],
      [ops |-> {"expire", "hints"}, scopes |-> {"read"}] }

\* A rolling rotation: the old replica still mints under version 1, the new one under 2
RollingPepper == [old |-> 1, new |-> 2]
BothPeppers == [old |-> {1, 2}, new |-> {1, 2}]

\* Three key sets in turn; tokens signed under them, expired, for another audience or malformed
Key(kid, alg, kty) == [kid |-> kid, alg |-> alg, kty |-> kty]
KeyRotation == << <<Key("k1", "RS256", "RSA")>>,
                  <<Key("k1", "RS256", "RSA"), Key("k2", "none", "EC")>>,
                  <<Key("k3", "ES256", "EC"), Key("k4", "none", "OKP")>> >>
IdTokens ==
    [wellFormed : {TRUE}, kid : {"none", "k1", "k2", "k4"}, alg : {"RS256", "ES256", "HS256"},
     iss : {"configured", "document"}, aud : {{"client", "other"}, {"other"}}, exp : {1, 2},
     sub : {g1}, email : {e1}, flag : {"true", "text"}]
    \cup {[wellFormed |-> FALSE, kid |-> "none", alg |-> "RS256", iss |-> "document", aud |-> {}, exp |-> 0,
           sub |-> none, email |-> none, flag |-> "false"]}

Symmetry == Permutations(Slots) \cup Permutations(Calls)

-----------------------------------------------------------------------------
IdentityInit ==
    /\ part \in {"auth", "server", "keys", "provider"}
    /\ Init /\ OAuthInit /\ ApiKeyInit /\ ProvidersInit
    /\ part # "auth" => scenario = [ops |-> {"magic", "oauth"}, start |-> EmptyStore]
    /\ part # "server" => "consent" \in mix.ops

IdentityNext ==
    /\ UNCHANGED part
    /\ \/ part = "auth" /\ Next /\ UNCHANGED <<oauthVars, keyVars, providerVars>>
       \/ part = "server" /\ OAuthNext /\ UNCHANGED <<authVars, keyVars, providerVars>>
       \/ part = "keys" /\ ApiKeyNext /\ UNCHANGED <<authVars, oauthVars, providerVars>>
       \/ part = "provider" /\ ProvidersNext /\ UNCHANGED <<authVars, oauthVars, keyVars>>

IdentitySpec == IdentityInit /\ [][IdentityNext]_<<part, authVars, oauthVars, keyVars, providerVars>>

=============================================================================
