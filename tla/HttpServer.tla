----------------------------- MODULE HttpServer -----------------------------
(***************************************************************************)
(* packages/http: what `serve` composes.  A request passes the middleware  *)
(* (route label, correlation, problem mapping: middleware.ts, errors.ts),  *)
(* the mounts (mounts.ts), the router and its handlers with the bridge to  *)
(* the command bus (cqrs.ts), and at last the static files (static.ts),    *)
(* which a deployment may replace while they are being looked up.          *)
(***************************************************************************)
EXTENDS Integers, SequencesExt, FiniteSets

CONSTANTS Mounts,       \* prefixes: sequences of segments
          Endpoints,    \* [method, path, bridged, declared]: path may hold ":p";
                        \* declared: tags of the failures its schema declares
          Targets,      \* the requests: [method, path, html, encodings, id]
          Decoding,     \* segment -> the segments it decodes to, or Undecodable
          Hidden,       \* segments that start with a dot
          Root,         \* the real root of the static directory
          Fallback,     \* spaFallback: segments, or None
          Files,        \* initial disk: path -> node
          Sibling,      \* encoding -> file name -> the name of its precompressed sibling
          Deployable,   \* paths that a deployment writes and removes
          IncomingIds,  \* "sanitize" or "reject"
          SafeIds,      \* ids that isSafeId accepts
          Undecodable, None

VARIABLES request, disk

httpVars == <<request, disk>>

NoRequest == [stage |-> "none", target |-> None, label |-> None, id |-> None, cause |-> None,
              looked |-> {}, segments |-> <<>>, file |-> None, encoding |-> None, by |-> None, status |-> 0, bodyId |-> None]
HttpInit == request = NoRequest /\ disk = Files

-----------------------------------------------------------------------------
(* Middleware                                                              *)

\* resolveId: an incoming id that is safe, unless none is trusted; else a fresh one
ResolveId(incoming) == IF IncomingIds = "sanitize" /\ incoming \in SafeIds THEN incoming ELSE "fresh"

\* compileTemplate: ":p" is one segment, "*" the rest
FitsTemplate(template, path) ==
    IF template /= <<>> /\ Last(template) = "*"
    THEN Len(path) >= Len(template) /\ \A i \in 1..Len(template) - 1 : template[i] \in {":p", path[i]}
    ELSE Len(path) = Len(template) /\ \A i \in DOMAIN path : template[i] \in {":p", path[i]}

MountTemplates == {m \in Mounts : m /= <<>>} \cup {Append(m, "*") : m \in {n \in Mounts : n /= <<>>}}

\* matchRoute: an endpoint of the method, else the prefix of a mount, else "(unmatched)"
RouteLabel(method, path) ==
    LET ofMethod == {e.path : e \in {f \in Endpoints : f.method = method /\ FitsTemplate(f.path, path)}}
        ofMount == {t \in MountTemplates : FitsTemplate(t, path)} IN
    IF ofMethod /= {} THEN CHOOSE t \in ofMethod : TRUE
    ELSE IF ofMount /= {} THEN CHOOSE t \in ofMount : TRUE ELSE <<"(unmatched)">>

\* toProblem by tag: the shape was validated, a tag alone is not enough
ToProblem(error) ==
    IF ~error.shaped THEN 500
    ELSE CASE error.tag \in {"ValidationFailed", "HttpApiDecodeError"} -> 400
           [] error.tag = "Unauthenticated" -> 401
           [] error.tag \in {"Unauthorized", "PermissionDenied"} -> 403
           [] error.tag \in {"NotFound", "RouteNotFound"} -> 404
           [] error.tag \in {"ConcurrencyConflict", "IdempotencyMismatch", "IdempotencyInFlight"} -> 409
           [] error.tag = "DispatchTimeout" -> 504
           [] OTHER -> 500

IsKnownError(error) ==
    error.shaped /\ error.tag \in {"ValidationFailed", "HttpApiDecodeError", "Unauthenticated", "Unauthorized", "PermissionDenied",
        "NotFound", "RouteNotFound", "ConcurrencyConflict", "IdempotencyMismatch", "IdempotencyInFlight", "DispatchTimeout",
        "InvariantViolation", "HandlerNotFound", "Problem"}

\* problems, and what the platform then makes of an error that the boundary leaves alone: the status
\* of the endpoint's schema, or 500.  499 stands for no answer: the request was interrupted.
Problems(cause) ==
    CASE cause.kind = "interrupt" -> 499
      [] cause.kind = "defect" -> 500
      [] cause.kind = "failure" -> IF cause.error.marked THEN 422
                                   ELSE IF cause.error.tag = "Problem" THEN cause.error.status
                                   ELSE IF IsKnownError(cause.error) THEN ToProblem(cause.error)
                                   ELSE IF cause.error.declared THEN 422 ELSE 500

\* The response carries the request's own id, whatever produced it, and so does a problem's body
Answer(by, status) ==
    request' = [request EXCEPT !.stage = "answered", !.by = by, !.status = status, !.looked = {}, !.segments = <<>>,
                               !.bodyId = IF status >= 400 /\ status \notin {422, 499} THEN request.id ELSE None]

Fail(by, cause) == Answer(by, Problems(cause))

-----------------------------------------------------------------------------
(* dispatch: mounts, router, static files                                  *)

UnderPrefix(prefix, path) == IsPrefix(prefix, path)

\* compileMounts orders the prefixes, longest first: the first match is the most specific
MatchMount(path) ==
    LET under == {m \in Mounts : UnderPrefix(m, path)} IN
    IF under = {} THEN None ELSE CHOOSE m \in under : \A n \in under : Len(n) <= Len(m)

Routed(target) == {e \in Endpoints : e.method = target.method /\ FitsTemplate(e.path, target.path)}

Arrive ==
    /\ request.stage = "none"
    /\ \E target \in Targets :
          request' = [NoRequest EXCEPT !.stage = IF MatchMount(target.path) /= None THEN "mounted"
                                                 ELSE IF Routed(target) /= {} THEN "routed" ELSE "unrouted",
                                       !.target = target, !.label = RouteLabel(target.method, target.path),
                                       !.id = ResolveId(target.id)]
    /\ UNCHANGED disk

\* The handler of a mount answers; a rejection is logged and answered with the 500 problem
MountAnswers ==
    /\ request.stage = "mounted"
    /\ \E status \in {200, 500} : Answer("mount", status)
    /\ UNCHANGED disk

Error(tag, shaped, status) == [tag |-> tag, shaped |-> shaped, status |-> status, marked |-> FALSE, declared |-> FALSE]
Tags == {"ValidationFailed", "Unauthenticated", "PermissionDenied", "NotFound", "ConcurrencyConflict", "DispatchTimeout",
         "InvariantViolation", "OutOfStock"}

\* dispatchErrors: a failure that the definition declares is marked, everything else is a problem
Bridged(endpoint, error) ==
    IF error.tag \in endpoint.declared THEN [error EXCEPT !.marked = TRUE]
    ELSE [Error("Problem", TRUE, ToProblem(error)) EXCEPT !.declared = FALSE]

\* What an endpoint's handler comes to: a value, a failure, a defect, an interruption
HandlerEnds ==
    /\ request.stage = "routed"
    /\ \E endpoint \in Routed(request.target) :
          \/ Answer("handler", 200)
          \/ \E kind \in {"defect", "interrupt"} : Fail("handler", [kind |-> kind])
          \/ \E tag \in Tags, shaped \in BOOLEAN :
                LET raised == Error(tag, shaped, 0)
                    error == IF endpoint.bridged THEN Bridged(endpoint, raised)
                             ELSE [raised EXCEPT !.declared = tag \in endpoint.declared] IN
                /\ request' = [request EXCEPT !.stage = "failed",
                                 !.cause = [kind |-> "failure", error |-> error, raised |-> raised, endpoint |-> endpoint]]
    /\ UNCHANGED disk

HandlerFailed == request.stage = "failed" /\ Fail("handler", request.cause) /\ UNCHANGED disk

-----------------------------------------------------------------------------
(* Static files                                                            *)

Follow(path) ==
    FoldLeft(LAMBDA at, segment : LET next == IF segment = ".." THEN Front(at) ELSE Append(at, segment) IN
                 IF next \in DOMAIN disk /\ disk[next].kind = "link" THEN disk[next].to ELSE next, <<>>, path)
KindOf(path) == IF Follow(path) \in DOMAIN disk THEN disk[Follow(path)].kind ELSE None

\* safeSegments: decoded first, then split, then checked
SafeSegments(path) ==
    LET decoded == FoldLeft(LAMBDA all, segment : all \o Decoding[segment], <<>>, path) IN
    IF (\E i \in DOMAIN path : Decoding[path[i]] = Undecodable) \/ Range(decoded) \cap Hidden /= {} THEN None ELSE decoded

NotFound == Fail("router", [kind |-> "failure", error |-> Error("RouteNotFound", TRUE, 404)])

StaticBegins ==
    /\ request.stage = "unrouted"
    /\ LET segments == IF \E i \in DOMAIN request.target.path : Decoding[request.target.path[i]] = Undecodable THEN None
                       ELSE SafeSegments(request.target.path) IN
       IF request.target.method \notin {"GET", "HEAD"} \/ segments = None THEN NotFound
       ELSE request' = [request EXCEPT !.stage = "locate", !.segments = segments]
    /\ UNCHANGED disk

\* Nothing there: once more with the fallback for a navigation, else the router's 404
Miss ==
    IF Fallback /= None /\ request.target.html /\ "fallback" \notin request.looked
    THEN request' = [request EXCEPT !.stage = "locate", !.segments = Fallback, !.file = None, !.looked = {"fallback"}]
    ELSE NotFound

\* locate: a directory stands for its index.html
Locate ==
    /\ request.stage = "locate"
    /\ LET candidate == Root \o request.segments IN
       request' = [request EXCEPT !.stage = "stat", !.file = IF KindOf(candidate) = "dir" THEN Append(candidate, "index.html") ELSE candidate]
    /\ UNCHANGED disk

StatFile ==
    /\ request.stage = "stat"
    /\ IF KindOf(request.file) = "file" THEN request' = [request EXCEPT !.stage = "real"] ELSE Miss
    /\ UNCHANGED disk

\* The real path must lie inside the real root
RealPath ==
    /\ request.stage = "real"
    /\ IF KindOf(request.file) /= None /\ IsPrefix(Root, Follow(request.file))
       THEN request' = [request EXCEPT !.stage = "br", !.file = Follow(request.file)] ELSE Miss
    /\ UNCHANGED disk

\* pickVariant: a precompressed sibling the client accepts, else the file; gone by now, it is a 404.
\* respond: 304 if the client's copy is this one
PickVariant ==
    /\ request.stage \in {"br", "gzip", "plain"}
    /\ LET variant == IF request.stage = "plain" THEN request.file ELSE Append(Front(request.file), Sibling[request.stage][Last(request.file)])
           there == KindOf(variant) = "file" IN
       IF there /\ request.stage \in request.target.encodings \cup {"plain"}
       THEN \E status \in {200, 304} :
               request' = [request EXCEPT !.stage = "answered", !.by = "static", !.status = status, !.encoding = request.stage,
                                          !.looked = {}, !.segments = <<>>]
       ELSE IF request.stage = "plain" THEN NotFound
       ELSE request' = [request EXCEPT !.stage = IF request.stage = "br" THEN "gzip" ELSE "plain"]
    /\ UNCHANGED disk

\* A read that fails otherwise than by a missing file
ReadFails == request.stage \in {"locate", "stat", "real", "br", "gzip", "plain"} /\ Answer("disk", 500) /\ UNCHANGED disk

\* A deployment writes or removes a file while requests are served
Deploy(path) ==
    /\ disk' = IF path \in DOMAIN disk THEN [p \in DOMAIN disk \ {path} |-> disk[p]]
               ELSE [p \in DOMAIN disk \cup {path} |-> IF p = path THEN [kind |-> "file"] ELSE disk[p]]
    /\ UNCHANGED request

HttpNext ==
    \/ Arrive \/ MountAnswers \/ HandlerEnds \/ HandlerFailed
    \/ StaticBegins \/ Locate \/ StatFile \/ RealPath \/ PickVariant \/ ReadFails
    \/ \E path \in Deployable : Deploy(path)
    \/ request.stage = "answered" /\ request' = NoRequest /\ UNCHANGED disk

-----------------------------------------------------------------------------
(* Properties                                                              *)

\* Whatever way a request takes, through a deployment too: the file it is served from lies under the
\* real root, although its path was decoded and links were followed; a mount hides the routes below
\* it and a route hides the files; a failure that an endpoint declares reaches the client as that
\* failure, even if its tag is one of the framework's, and no other error shows more than its
\* problem; the ids are safe, the same in header and body; and no label holds what a caller wrote.
AnswersAreSound ==
    /\ request.by = "static" => /\ IsPrefix(Root, request.file)
                                /\ Len(request.file) > Len(Root)
                                /\ MatchMount(request.target.path) = None /\ Routed(request.target) = {}
    /\ request.by = "handler" => MatchMount(request.target.path) = None
    /\ request.stage = "answered" /\ request.by = "handler" /\ request.cause /= None =>
          LET raised == request.cause.raised IN
          request.status = IF raised.tag \in request.cause.endpoint.declared /\ (request.cause.endpoint.bridged \/ ~IsKnownError(raised))
                           THEN 422 ELSE ToProblem(raised)
    /\ request.id \in SafeIds \cup {"fresh", None}
    /\ request.bodyId \in {None, request.id}
    /\ request.label \in {None, <<"(unmatched)">>} \cup MountTemplates \cup {e.path : e \in Endpoints}
=============================================================================
