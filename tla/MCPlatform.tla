----------------------------- MODULE MCPlatform ------------------------------
(***************************************************************************)
(* The edges of the platform, a small instance of each part: rate limits,  *)
(* access policies and the tools they guard, sessions in a browser, the    *)
(* HTTP server with its static files, the mailer, object storage and gRPC  *)
(* streams.  The parts share no state but the policy, which the tools and  *)
(* the policies have in common: `part` says which one a behaviour is       *)
(* about, and the others stay where they start.                            *)
(***************************************************************************)
EXTENDS BrowserSessions, GrpcStreams, Mailer, TLC

CONSTANTS Undefined, Undecodable, q1, q2

VARIABLES part,
    clock, configured, traffic, entries, lru, longestWindow, lastSweep, zset, blockKey, requests, granted,
    leaked, promised, disagreed, evicted,
    definition, policy, transport, defaults, declared, registration, calls,
    request, disk,
    storageDriver, object, uploads, data, meta, call, settled

-----------------------------------------------------------------------------
(* Rate limits: two keys for one request, a wall whose block is longer     *)
(* than its window, and a key without points; two requests at a time, or   *)
(* one at a time of more keys than the memory store holds.                 *)
LimitRules == [a |-> [points |-> 2, window |-> 3, block |-> 1], b |-> [points |-> 1, window |-> 2, block |-> 0],
               c |-> [points |-> 1, window |-> 1, block |-> 2], z |-> [points |-> 0, window |-> 1, block |-> 0]]
PairOfKeys == [keys |-> <<"a", "b">>, wall |-> FALSE]
Wall == [keys |-> <<"c">>, wall |-> TRUE]
NoPoints == [keys |-> <<"z">>, wall |-> FALSE]
OneKey == [keys |-> <<"b">>, wall |-> FALSE]
OneRequest == [atOnce |-> 1, groups |-> {OneKey, Wall, NoPoints}]
LimitTraffic == {OneRequest, [atOnce |-> 2, groups |-> {Wall}], [atOnce |-> 2, groups |-> {PairOfKeys}]}
Limiter == INSTANCE RateLimit WITH
    Groups <- {PairOfKeys, OneKey, Wall, NoPoints}, Slots <- {q1, q2}, Traffic <- LimitTraffic, RuleOf <- LimitRules,
    MaxKeys <- 2, SweepInterval <- 2, OnStoreError <- TRUE, LastInstant <- 4

-----------------------------------------------------------------------------
(* Policies: every definition of three roles that inherits from the others,*)
(* itself or nobody known, with grants that overlap, wildcards and unknown *)
(* actions; and one policy behind the tools.                               *)
Of(kind, conditions) == [kind |-> kind, of |-> conditions]
PolicyResources == [doc |-> {"read", "edit"}, job |-> {"run"}]
PolicyConditions ==
    [own |-> Of("any", {[kind |-> "owner"],
                        Of("all", {[kind |-> "attributeIn", key |-> "tenantId", values |-> {"t", "s"}],
                                   [kind |-> "principalAttribute", key |-> "vip", value |-> "yes"]})}),
     ten |-> Of("all", {[kind |-> "sameTenant"], Of("not", [kind |-> "owner"])})]
Grant(r, a, w) == [resource |-> r, action |-> a, when |-> w]
PolicyDefinitions ==
    [{"a", "b", "c"} ->
        [inherits : {<<>>, <<"a">>, <<"b">>, <<"c", "b">>, <<"ghost">>},
         grants : {<<>>, <<Grant("doc", "*", "own"), Grant("doc", "edit", "always")>>,
                   <<Grant("*", "*", "ten"), Grant("doc", "read", "own")>>, <<Grant("doc", "fly", "always")>>}]]
Held(r, s) == [role |-> r, scope |-> s]
Member == [id |-> "u", kind |-> "user", attributes |-> [vip |-> "yes"], tenant |-> "t",
           roles |-> {Held("a", Undefined), Held("b", "s1")}]
Guest == [id |-> "v", kind |-> "user", attributes |-> <<>>, tenant |-> Undefined,
          roles |-> {Held("c", "s1"), Held("ghost", Undefined)}]
Anonymous == [id |-> "anonymous", kind |-> "anonymous", attributes |-> <<>>, tenant |-> Undefined, roles |-> {}]
OwnDoc == [ownerId |-> "u", tenantId |-> "t"]
PolicyFacts == {<<>>, OwnDoc, [ownerId |-> "x", tenantId |-> "t"]}
Policies == INSTANCE Access WITH
    Resources <- PolicyResources, Conditions <- PolicyConditions, Definitions <- PolicyDefinitions,
    Principals <- {Member, Guest}, Facts <- PolicyFacts, Scopes <- {Undefined, "s1"}

ServedPolicy == [a |-> [inherits |-> <<"b">>, grants |-> <<Grant("doc", "*", "own")>>],
                 b |-> [inherits |-> <<>>, grants |-> <<Grant("job", "run", "always")>>]]
ToolSet == [edit |-> [scopes |-> {"w"}, tag |-> "Edit"], run |-> [scopes |-> Undefined, tag |-> "Run"],
            ping |-> [scopes |-> {}, tag |-> Undefined], look |-> [scopes |-> Undefined, tag |-> "Look"],
            lost |-> [scopes |-> {"r"}, tag |-> "Lost"]]
ToolRules == [Edit |-> [public |-> FALSE, permission |-> <<"doc", "edit">>, ofPayload |-> TRUE],
              Run |-> [public |-> FALSE, permission |-> <<"job", "run">>, ofPayload |-> FALSE],
              Look |-> [public |-> TRUE, permission |-> Undefined, ofPayload |-> FALSE]]
Runner == [Guest EXCEPT !.roles = {Held("b", "s1"), Held("ghost", Undefined)}]
Bearer == [full |-> [principal |-> Member, scopes |-> {"w", "r"}], part |-> [principal |-> Runner, scopes |-> {"r"}],
           guest |-> [principal |-> Anonymous, scopes |-> {"w"}]]
Guard == INSTANCE ToolGuard WITH
    Resources <- PolicyResources, Conditions <- PolicyConditions, Definitions <- {}, Principals <- {Member, Runner},
    Facts <- {<<>>, OwnDoc}, Scopes <- {Undefined, "s1"}, Tools <- ToolSet, Rules <- ToolRules,
    UnmappedAllowed <- FALSE, DefaultScopes <- {"r"}, Tokens <- Bearer,
    Bearers <- {Undefined, "full", "part", "guest", "expired"}, Actors <- [u |-> Member, gone |-> Undefined],
    Batches <- {{"edit", "run"}, {"ping"}, {"look"}, {"lost"}},
    Payloads <- {[scope |-> "s1", facts |-> OwnDoc], [scope |-> Undefined, facts |-> <<>>]},
    Calls <- {"c1"}, ServedDefinition <- ServedPolicy

-----------------------------------------------------------------------------
(* A browser with two users, and route tables that collide or do not.      *)
RouteOverrides ==
    {[oauthCallback |-> p] : p \in {<<"auth", "session">>, <<>>, <<"x">>}}
    \cup {[oauthCallback |-> <<"cb", ":provider">>, getSession |-> <<"cb", "gh">>],
          [oauthCallback |-> <<"cb", ":provider">>, getSession |-> <<"cc", "gh">>],
          [signOut |-> <<"auth", "oauth", "gh", "start">>]}
BrowserUsers == {"u", "v"}
AuthPath == <<"auth">>
TwoProviders == {"gh", "goo"}

-----------------------------------------------------------------------------
(* The HTTP server: nested mounts, endpoints that declare failures, and a  *)
(* static directory with links in and out of it, siblings and a fallback.  *)
HttpEndpoints ==
    {[method |-> "POST", path |-> <<"orders", ":p">>, bridged |-> TRUE, declared |-> {"OutOfStock", "NotFound"}],
     [method |-> "GET", path |-> <<"orders", ":p">>, bridged |-> FALSE, declared |-> {"OutOfStock", "NotFound"}],
     [method |-> "GET", path |-> <<"auth", "me">>, bridged |-> FALSE, declared |-> {}]}
Target(m, p, h, e, i) == [method |-> m, path |-> p, html |-> h, encodings |-> e, id |-> i]
HttpTargets ==
    {Target("POST", <<"orders", "1">>, FALSE, {}, "good"), Target("GET", <<"orders", "1">>, FALSE, {}, "bad"),
     Target("GET", <<"auth", "me">>, FALSE, {}, "good"), Target("GET", <<"auth", "admin", "x">>, FALSE, {}, None),
     Target("GET", <<"app">>, TRUE, {"br", "gzip"}, "good"), Target("GET", <<"app.js">>, FALSE, {"br"}, "bad"),
     Target("GET", <<"app.js">>, FALSE, {"gzip"}, None), Target("PUT", <<"app.js">>, FALSE, {"gzip"}, None),
     Target("GET", <<"up%2Fsecret">>, FALSE, {}, None), Target("GET", <<"%zz">>, TRUE, {}, None),
     Target("GET", <<"out", "secret">>, TRUE, {}, None), Target("GET", <<"in">>, TRUE, {"gzip"}, None),
     Target("GET", <<"nowhere">>, FALSE, {}, None)}
PlainSegments == {"orders", "1", "auth", "me", "admin", "x", "app", "app.js", "out", "secret", "in", "nowhere"}
SegmentDecoding == [s \in PlainSegments |-> <<s>>] @@ "%zz" :> Undecodable @@ "up%2Fsecret" :> <<"..", "secret">>
SiteRoot == <<"srv">>
InSite(name) == Append(SiteRoot, name)
SiteFiles ==
    [p \in {SiteRoot, InSite("app"), <<"etc">>} |-> [kind |-> "dir"]]
    @@ [p \in {InSite("app.js"), InSite("app.js.br"), InSite("index.html"), <<"srv", "app", "index.html">>,
               <<"secret">>, <<"etc", "secret">>} |-> [kind |-> "file"]]
    @@ InSite("out") :> [kind |-> "link", to |-> <<"etc">>]
    @@ InSite("in") :> [kind |-> "link", to |-> InSite("app.js")]
Compressed(suffixed) == [n \in {"app.js", "index.html", "secret"} |-> IF n = "app.js" THEN suffixed ELSE "none"]
SiteSiblings == [br |-> Compressed("app.js.br"), gzip |-> Compressed("app.js.gz")]
Http == INSTANCE HttpServer WITH
    Mounts <- {<<"auth">>, <<"auth", "admin">>}, Endpoints <- HttpEndpoints, Targets <- HttpTargets,
    Decoding <- SegmentDecoding, Hidden <- {".."}, Root <- SiteRoot, Fallback <- <<"index.html">>,
    Files <- SiteFiles, Sibling <- SiteSiblings,
    Deployable <- {InSite("app.js"), InSite("app.js.br"), InSite("app.js.gz"), InSite("index.html"),
                   <<"srv", "app", "index.html">>},
    IncomingIds <- "sanitize", SafeIds <- {"good"}

-----------------------------------------------------------------------------
(* Mailers composed from options and from DSNs.                            *)
SmtpSettings ==
        [direct |-> FALSE, dsn |-> {}, driver |-> "smtp", host |-> TRUE, user |-> TRUE, mode |-> "starttls",
         loopback |-> FALSE, allowPlaintext |-> FALSE, key |-> TRUE, url |-> "default"]
Dsns == [scheme : {"smtp", "smtps", "resend+api", "gopher"}, user : BOOLEAN, password : BOOLEAN,
         loopback : BOOLEAN, allowPlaintext : BOOLEAN, url : {"default", "http"}]
MailSetups ==
    {[SmtpSettings EXCEPT !.direct = d, !.user = u, !.mode = m, !.loopback = l, !.allowPlaintext = a] :
        d \in BOOLEAN, u \in BOOLEAN, m \in {"starttls", "implicit", "none"}, l \in BOOLEAN, a \in BOOLEAN}
    \cup {[SmtpSettings EXCEPT !.driver = d, !.key = k, !.url = u] :
            d \in {"capture", "resend", "brevo"}, k \in BOOLEAN, u \in {"default", "https", "http", "http loopback"}}
    \cup {[SmtpSettings EXCEPT !.mode = "none", !.allowPlaintext = TRUE, !.dsn = {dsn}] : dsn \in Dsns}

Storage == INSTANCE ObjectStorage WITH
    Drivers <- {"s3", "local"}, Writers <- {q1, q2}, Sizes <- {0, 2, 5}, PartSize <- 2, ChunkSize <- 3, MaxTries <- 2

\* gRPC streams: a failure that fits the trailers and one that does not
StreamFailures == [small |-> 10, large |-> 9000]

Symmetry == Permutations({q1, q2})

-----------------------------------------------------------------------------
limitVars == <<clock, configured, traffic, entries, lru, longestWindow, lastSweep, zset, blockKey, requests,
               granted, leaked, promised, disagreed, evicted>>
accessVars == <<definition, policy>>
guardVars == <<transport, defaults, declared, registration, calls>>
httpVars == <<request, disk>>
storageVars == <<storageDriver, object, uploads, data, meta, call, settled>>

PlatformInit ==
    /\ part \in {"limits", "policy", "tools", "browser", "http", "mail", "storage", "grpc"}
    /\ part # "limits" => configured = "memory" /\ traffic = OneRequest
    /\ part \notin {"policy", "tools"} => transport = "open"
    /\ part # "browser" => routes = Refused
    /\ part # "mail" => setup = SmtpSettings
    /\ part # "storage" => storageDriver = "s3"
    /\ part # "grpc" => contract = TRUE
    /\ \E s \in {"memory", "redis"} : Limiter!RateLimitInit(s)
    /\ BrowserInit /\ Http!HttpInit /\ MailInit /\ Storage!StorageInit /\ GrpcInit
    /\ IF part = "policy"
       THEN /\ Policies!AccessInit /\ transport = "open" /\ defaults = {} /\ declared = <<>>
            /\ registration = <<>> /\ calls = <<>>
       ELSE Guard!GuardInit

PlatformNext ==
    /\ UNCHANGED part
    /\ \/ /\ part = "limits" /\ Limiter!RateLimitNext
          /\ UNCHANGED <<accessVars, guardVars, browserVars, httpVars, mailVars, storageVars, grpcVars>>
       \/ /\ part = "policy" /\ Policies!AccessNext
          /\ UNCHANGED <<limitVars, guardVars, browserVars, httpVars, mailVars, storageVars, grpcVars>>
       \/ /\ part = "tools" /\ Guard!GuardNext
          /\ UNCHANGED <<limitVars, browserVars, httpVars, mailVars, storageVars, grpcVars>>
       \/ /\ part = "browser" /\ BrowserNext
          /\ UNCHANGED <<limitVars, accessVars, guardVars, httpVars, mailVars, storageVars, grpcVars>>
       \/ /\ part = "http" /\ Http!HttpNext
          /\ UNCHANGED <<limitVars, accessVars, guardVars, browserVars, mailVars, storageVars, grpcVars>>
       \/ /\ part = "mail" /\ MailNext
          /\ UNCHANGED <<limitVars, accessVars, guardVars, browserVars, httpVars, storageVars, grpcVars>>
       \/ /\ part = "storage" /\ Storage!StorageNext
          /\ UNCHANGED <<limitVars, accessVars, guardVars, browserVars, httpVars, mailVars, grpcVars>>
       \/ /\ part = "grpc" /\ GrpcNext
          /\ UNCHANGED <<limitVars, accessVars, guardVars, browserVars, httpVars, mailVars, storageVars>>

PlatformSpec ==
    PlatformInit /\ [][PlatformNext]_<<part, limitVars, accessVars, guardVars, browserVars, httpVars, mailVars,
                                       storageVars, grpcVars>>

-----------------------------------------------------------------------------
\* However requests interleave with the sweep and the eviction of keys, no window of a key sees more
\* grants than its points, a key stays refused until the Retry-After it announced and is restored from
\* its reset on, and the in-memory and the Redis store decide alike (http rateLimit.ts).
LimitsHold == part = "limits" => Limiter!BudgetsHold /\ Limiter!PromisesHold /\ Limiter!StoresAgree

\* A compiled policy decides what its definition means, inheritance, wildcards and overlapping grants
\* included, and a tool runs only for a caller whom the transport's scopes and the policy both admit,
\* also while the tools are still being registered (authorization policy.ts, evaluate.ts, mcp).
AccessIsAsDefined ==
    /\ part = "policy" => Policies!PolicyMeansDefinition
    /\ part = "tools" => Guard!OnlyTheGrantedRun

\* Outcomes are honest: an HTTP client gets a declared failure as that failure, any other as its problem and
\* no file from outside the site; a mailer that may not use plaintext sends no credential or message in
\* the clear and reports what the server said; and an object that was stored is whole, whichever puts,
\* deletes and crashes it met (http errors.ts, static.ts, mounts.ts, mailer smtp.ts, storage-s3, storage local).
OutcomesAreHonest ==
    /\ part = "http" => Http!AnswersAreSound
    /\ part = "mail" => MailIsDiscreetAndHonest
    /\ part = "storage" => Storage!StoredMeansWhole
=============================================================================
