----------------------------- MODULE Providers -----------------------------
(***************************************************************************)
(* How a provider's answers become an identity: the code exchange, the     *)
(* profile fetched from the built-in providers (packages/auth/src/oauth.ts)*)
(* and, for a discovered OpenID provider, the ID token validated against   *)
(* its key set (packages/auth/src/oidc.ts).  Everything is a sequence of   *)
(* HTTP calls to a party that may answer with anything and that rotates    *)
(* its keys meanwhile.                                                     *)
(***************************************************************************)
EXTENDS Naturals, Sequences

CONSTANTS Configured,   \* the built-in providers the tenant has credentials for
          KnownSubjects, MailAddresses, NoMail,
          Tokens,       \* the ID tokens the token endpoint may return
          KeySets,      \* the key sets the provider publishes, in turn
          MaxAddresses, MaxClock, MaxLogins    \* bounds

VARIABLES issuer,       \* the issuer discovery settled on, "none" before
          published,    \* which of KeySets is served now
          login,        \* the login under way
          now, logins

providerVars == << issuer, published, login, now, logins >>

KeySetsServed == {KeySets[n] : n \in DOMAIN KeySets}

ASSUME ProvidersAssumption ==
    /\ KeySets \in Seq(KeySetsServed) /\ KeySets # << >>
    /\ \A keys \in KeySetsServed : DOMAIN keys \subseteq Nat
    /\ \A t \in Tokens : t.iss # "none" /\ t.wellFormed \in BOOLEAN /\ t.email \in MailAddresses \cup {NoMail}
    /\ MaxAddresses \in Nat

BuiltIns == {"google", "github", "x", "linkedin"}
Flags == {"true", "text", "false"}      \* true, any other truthy value, anything else
Fresh == [pc |-> "idle", provider |-> "none", token |-> "none", fetched |-> << >>, subject |-> "none",
          email |-> NoMail, emailVerified |-> FALSE, vouched |-> {}, validated |-> 0, why |-> "none"]
Client == "client"

ProvidersInit == /\ issuer = "none" /\ published = 1 /\ login = Fresh
                 /\ now = 0 /\ logins = 0

\* builtInOAuthProvider: nothing without credentials.
Resolves(provider) == \/ provider \in Configured \cap BuiltIns
                      \/ provider = "oidc" /\ issuer # "none"

\* discoverOidc: every endpoint must be named; a document without an issuer means the configured one.
Discover ==
    /\ issuer = "none" /\ login.pc = "idle"
    /\ \E named \in BOOLEAN, said \in {"configured", "document", ""} :
         issuer' = IF ~named THEN "none" ELSE IF said = "" THEN "configured" ELSE said
    /\ UNCHANGED << published, login, now, logins >>

FirstFetch(provider) == CASE provider \in {"google", "linkedin"} -> "userinfo"
                          [] provider = "github" -> "user"
                          [] provider = "x" -> "xuser"
                          [] provider = "oidc" -> "jwks"

\* fetchProfile of a discovered provider needs the ID token.
IdTokenMissing(provider, hasIdToken) == provider = "oidc" /\ ~hasIdToken

(***************************************************************************)
(* exchangeOAuthCode: the answer must hold an access token; the ID token   *)
(* is optional, and only the discovered provider needs one.                *)
(***************************************************************************)
Exchange ==
    /\ login.pc = "idle" /\ logins < MaxLogins /\ logins' = logins + 1
    /\ \E p \in BuiltIns \cup {"oidc"}, t \in Tokens, hasIdToken \in BOOLEAN :
         /\ Resolves(p)
         /\ p # "oidc" => t = CHOOSE x \in Tokens : TRUE
         /\ login' = IF IdTokenMissing(p, hasIdToken)
                     THEN [Fresh EXCEPT !.pc = "failed", !.provider = p, !.why = "id-token-missing"]
                     ELSE [Fresh EXCEPT !.pc = FirstFetch(p), !.provider = p, !.token = t]
    /\ UNCHANGED << issuer, published, now >>

\* Every call may fail: refused, too large, not JSON, not the shape expected.
Calling == login.pc \in {"userinfo", "user", "emails", "xuser", "jwks", "jwksAgain"}

FetchFails == /\ Calling /\ login' = [login EXCEPT !.pc = "failed", !.why = "provider"]
              /\ UNCHANGED << issuer, published, now, logins >>

Vouches(flag) == flag = "true"

\* oidcProfile: the userinfo endpoint of Google and LinkedIn.
UserInfo ==
    /\ login.pc = "userinfo"
    /\ \E s \in KnownSubjects, e \in MailAddresses \cup {NoMail}, f \in Flags :
         login' = [login EXCEPT !.pc = "done", !.subject = s, !.email = e, !.emailVerified = Vouches(f),
                                !.vouched = IF f = "true" THEN {e} ELSE {}]
    /\ UNCHANGED << issuer, published, now, logins >>

\* githubProfile: the public address of the user, then the list of addresses.
GithubUser ==
    /\ login.pc = "user"
    /\ \E s \in KnownSubjects, e \in MailAddresses \cup {NoMail} :
         login' = [login EXCEPT !.pc = "emails", !.subject = s, !.email = e]
    /\ UNCHANGED << issuer, published, now, logins >>

GithubAddresses == [email : MailAddresses, primary : BOOLEAN, verified : BOOLEAN]

\* What find answers with: the first of the positions that fit.
FirstOf(positions) == CHOOSE i \in positions : \A j \in positions : i <= j

Selected(list) == {i \in DOMAIN list : list[i].primary /\ list[i].verified}

GithubEmails ==
    /\ login.pc = "emails"
    /\ \E n \in 0 .. MaxAddresses : \E list \in [1 .. n -> GithubAddresses] :
         LET s == Selected(list) IN
         login' = [login EXCEPT !.pc = "done",
                                !.email = IF s = {} THEN login.email ELSE list[FirstOf(s)].email,
                                !.emailVerified = s # {},
                                !.vouched = {list[i].email : i \in {j \in DOMAIN list : list[j].verified}}]
    /\ UNCHANGED << issuer, published, now, logins >>

\* xProfile: no address at all.
XUser ==
    /\ login.pc = "xuser"
    /\ \E s \in KnownSubjects :
         login' = [login EXCEPT !.pc = "done", !.subject = s, !.email = NoMail, !.emailVerified = FALSE]
    /\ UNCHANGED << issuer, published, now, logins >>

-----------------------------------------------------------------------------
\* keys.find: by kid, or by algorithm when the token names no kid.
Matching(keys, t) ==
    {i \in DOMAIN keys : IF t.kid = "none" THEN keys[i].alg = t.alg ELSE keys[i].kid = t.kid}

\* importVerificationKey: RSA and P-256 only.
Importable(k) == k.kty \in {"RSA", "EC"}

\* verifySignature: false when WebCrypto throws (a key of the other family); the Boolean that a
\* call which returns answers with is not looked at.
VerifySignature(k, t) == (t.alg = "RS256" /\ k.kty = "RSA") \/ (t.alg = "ES256" /\ k.kty = "EC")

(***************************************************************************)
(* validateWith: the checks in their order; the first that fails names the *)
(* error, "valid" says that none does.                                     *)
(***************************************************************************)
Checks(keys, t) ==
    LET m == Matching(keys, t)
        key == keys[FirstOf(m)] IN
    << << t.wellFormed, "id-token-shape" >>,
       << t.alg \in {"RS256", "ES256"}, "id-token-alg" >>,
       << m # {}, "id-token-unknown-kid" >>,
       << m # {} /\ Importable(key), "jwk-import" >>,
       << m # {} /\ VerifySignature(key, t), "id-token-signature" >>,
       << t.iss = issuer, "id-token-issuer" >>,
       << Client \in t.aud, "id-token-audience" >>,
       << t.exp > now, "id-token-expired" >>,
       << t.sub \in KnownSubjects, "id-token-subject" >> >>

ValidateWith(keys, t) ==
    LET checks == Checks(keys, t)
        failing == {i \in DOMAIN checks : ~checks[i][1]} IN
    IF failing = {} THEN "valid" ELSE checks[FirstOf(failing)][2]

ClaimedBy(seen) ==
    LET t == seen.token IN
    [seen EXCEPT !.pc = "done", !.subject = t.sub, !.email = t.email, !.emailVerified = Vouches(t.flag),
                 !.validated = now, !.vouched = IF t.flag = "true" THEN {t.email} ELSE {}]

\* The key set is fetched; an unknown kid fetches it once more, any other error is final.
RefetchNever(why) == FALSE
Refetch(why) == why = "id-token-unknown-kid"

Jwks ==
    /\ login.pc \in {"jwks", "jwksAgain"}
    /\ LET keys == KeySets[published]
           why == ValidateWith(keys, login.token)
           seen == [login EXCEPT !.fetched = Append(@, keys)] IN
       login' = IF why = "valid" THEN ClaimedBy(seen)
                ELSE IF login.pc = "jwks" /\ Refetch(why) THEN [seen EXCEPT !.pc = "jwksAgain"]
                ELSE [seen EXCEPT !.pc = "failed", !.why = why]
    /\ UNCHANGED << issuer, published, now, logins >>

\* External: the provider rotates its keys, time passes, the caller takes the result.
RotateKeySet == /\ published < Len(KeySets) /\ published' = published + 1
                /\ UNCHANGED << issuer, login, now, logins >>
Tick == now < MaxClock /\ now' = now + 1 /\ UNCHANGED << issuer, published, login, logins >>
Leave == /\ login.pc \in {"done", "failed"} /\ login' = Fresh
         /\ UNCHANGED << issuer, published, now, logins >>

ProvidersNext == \/ Discover \/ Exchange \/ FetchFails \/ UserInfo \/ GithubUser \/ GithubEmails
                 \/ XUser \/ Jwks \/ RotateKeySet \/ Tick \/ Leave

ProvidersSpec == ProvidersInit /\ [][ProvidersNext]_providerVars

-----------------------------------------------------------------------------
(***************************************************************************)
(* An identity rests on what the provider said in this very login: an      *)
(* address counts as verified only when the provider vouched for that      *)
(* address; an ID token is accepted only from the discovered issuer, for   *)
(* this client, unexpired when it was validated, under a key that it names *)
(* in the set fetched last; and a token is turned away for its kid only    *)
(* when two fetches missed it, so a rotation between signing and           *)
(* validation costs no login (packages/auth/src/oauth.ts fetchProfile,     *)
(* oidc.ts validateIdToken).                                               *)
(***************************************************************************)
IdentityIsVouchedFor ==
    /\ login.pc = "done" =>
         /\ login.emailVerified => login.email \in login.vouched
         /\ login.provider = "oidc" =>
              LET t == login.token
                  keys == login.fetched[Len(login.fetched)] IN
              /\ t.iss = issuer /\ Client \in t.aud /\ t.exp > login.validated
              /\ \E k \in Matching(keys, t) : Importable(keys[k]) /\ VerifySignature(keys[k], t)
    /\ login.pc = "failed" /\ login.why = "id-token-unknown-kid" =>
         /\ Len(login.fetched) = 2
         /\ \A i \in 1 .. 2 : Matching(login.fetched[i], login.token) = {}
=============================================================================
