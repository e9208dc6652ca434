----------------------------- MODULE RateLimit -----------------------------
(***************************************************************************)
(* Rate limiting of packages/http: the middleware (rateLimit), and the two *)
(* sliding-window stores behind it, in memory (makeInMemoryStore) and in   *)
(* Redis (the Lua scripts of rateLimitRedis).  Both stores get every call; *)
(* the middleware follows the answer of the one that is configured.        *)
(* A group with `wall` has a consumeWhen: it is peeked before the handler  *)
(* and charged after it.                                                   *)
(***************************************************************************)
EXTENDS Integers, SequencesExt, FiniteSetsExt

CONSTANTS Groups,        \* records [keys, wall]; the keys carry the label of the group
          Slots,         \* the requests that may be under way
          Traffic,       \* records [atOnce, groups]: how many requests at a time, of which groups
          RuleOf,        \* key -> [points, window, block]
          MaxKeys, SweepInterval,
          OnStoreError,  \* TRUE: let the request through
          LastInstant    \* bound of the clock

VARIABLES clock, configured, traffic,
          entries, lru,            \* the Map of the memory store: its values, and its keys in order
          longestWindow, lastSweep,
          zset, blockKey,          \* Redis: ZSET <prefix>:w, string <prefix>:b
          requests,                \* slot -> [pc, group, todo, refused]
          granted, leaked, promised, disagreed, evicted   \* observed

storeVars == <<entries, lru, longestWindow, lastSweep, zset, blockKey>>
limitVars == <<clock, configured, traffic, storeVars, requests, granted, leaked, promised, disagreed, evicted>>

Keys == DOMAIN RuleOf
Walled(key) == \E g \in Groups : g.wall /\ Contains(g.keys, key)
NoEntry == [hits |-> <<>>, blockedUntil |-> 0]
Never == -1
Idle == [pc |-> "idle", group |-> CHOOSE g \in Groups : TRUE, todo |-> <<>>, refused |-> FALSE]

RateLimitInit(store) ==
    /\ clock = 1 /\ configured = store /\ traffic \in Traffic
    /\ entries = <<>> /\ lru = <<>> /\ longestWindow = 0 /\ lastSweep = Never
    /\ zset = [k \in Keys |-> <<>>] /\ blockKey = [k \in Keys |-> 0]
    /\ requests = [r \in Slots |-> Idle]
    /\ granted = [k \in Keys |-> <<>>] /\ leaked = [k \in Keys |-> 0]
    /\ promised = [k \in Keys |-> [retryAt |-> 0, resetAt |-> 0]]
    /\ disagreed = {} /\ evicted = {}

-----------------------------------------------------------------------------
(* Decisions                                                               *)

Granted(remaining, reset) == [allowed |-> TRUE, retryAfter |-> 0, remaining |-> remaining, reset |-> reset]
Denied(retry, reset) == [allowed |-> FALSE, retryAfter |-> retry, remaining |-> 0, reset |-> reset]

InWindow(hits, window) == SelectSeq(hits, LAMBDA h : h > clock - window)

\* resetOf: every hit out of the window, any block lifted
ResetOf(hits, blockedUntil, rule) ==
    Max({0, blockedUntil - clock} \cup (IF hits = <<>> THEN {} ELSE {Last(hits) + rule.window - clock}))

\* A full window is refused until its oldest hit leaves, and never for 0
UntilOldestLeaves(hits, rule) == Max({1, IF hits = <<>> THEN rule.window ELSE Head(hits) + rule.window - clock})

-----------------------------------------------------------------------------
(* The memory store                                                        *)

\* sweep: the entries without a block whose hits are older than the longest window seen
Stale(window) ==
    {k \in DOMAIN entries : /\ entries[k].blockedUntil <= clock
                            /\ \A i \in DOMAIN entries[k].hits : entries[k].hits[i] <= clock - window}

\* remember: key becomes the most recent; a new key past the cap evicts the oldest
Evicts(keys, key) == IF Contains(keys, key) \/ Len(keys) < MaxKeys THEN {} ELSE {Head(keys)}

WindowOf(key, swept) ==
    LET entry == IF key \in DOMAIN entries \ swept THEN entries[key] ELSE NoEntry IN
    [entry EXCEPT !.hits = InWindow(@, RuleOf[key].window)]

\* consume: what the entry becomes, and the answer
MemoryConsume(key, swept) ==
    LET rule == RuleOf[key]
        seen == WindowOf(key, swept) IN
    CASE seen.blockedUntil > clock ->
            [entry |-> seen,
             answer |-> Denied(seen.blockedUntil - clock, ResetOf(seen.hits, seen.blockedUntil, rule))]
      [] seen.blockedUntil <= clock /\ Len(seen.hits) >= rule.points ->
            LET until == clock + rule.block
                retry == IF rule.block > 0 THEN rule.block ELSE UntilOldestLeaves(seen.hits, rule) IN
            [entry |-> [seen EXCEPT !.blockedUntil = until],
             answer |-> Denied(retry, Max({retry, ResetOf(seen.hits, until, rule)}))]
      [] OTHER ->
            [entry |-> [hits |-> Append(seen.hits, clock), blockedUntil |-> 0],
             answer |-> Granted(rule.points - Len(seen.hits) - 1, rule.window)]

\* peek: the same question, nothing spent, no block, no recency
MemoryPeek(key) ==
    LET rule == RuleOf[key]
        seen == WindowOf(key, {})
        reset == ResetOf(seen.hits, seen.blockedUntil, rule)
        retry == UntilOldestLeaves(seen.hits, rule) IN
    CASE seen.blockedUntil > clock -> Denied(seen.blockedUntil - clock, reset)
      [] seen.blockedUntil <= clock /\ Len(seen.hits) >= rule.points -> Denied(retry, Max({retry, reset}))
      [] OTHER -> Granted(rule.points - Len(seen.hits), reset)

-----------------------------------------------------------------------------
(* The Redis store: one script is one step.  ZREMRANGEBYSCORE prunes; PX   *)
(* and PEXPIRE drop keys at the instant their content has lost its effect  *)

\* Mutant: the script prunes one instant too late.
PrunedLate(key) == SelectSeq(zset[key], LAMBDA h : h >= clock - RuleOf[key].window)

Pruned(key) == InWindow(zset[key], RuleOf[key].window)

WindowReset(key) == IF Pruned(key) = <<>> THEN 0 ELSE Last(Pruned(key)) + RuleOf[key].window - clock

\* The part both scripts share: blocked, or full
ScriptDenies(key, retryWhenFull) ==
    IF blockKey[key] > clock
    THEN Denied(blockKey[key] - clock, Max({blockKey[key] - clock, WindowReset(key)}))
    ELSE Denied(retryWhenFull, Max({retryWhenFull, WindowReset(key)}))

ScriptRefuses(key) == blockKey[key] > clock \/ Len(Pruned(key)) >= RuleOf[key].points

ConsumeScript(key) ==
    LET rule == RuleOf[key] IN
    IF ScriptRefuses(key)
    THEN ScriptDenies(key, IF rule.block > 0 THEN rule.block ELSE UntilOldestLeaves(Pruned(key), rule))
    ELSE Granted(rule.points - Len(Pruned(key)) - 1, rule.window)

PeekScript(key) ==
    IF ScriptRefuses(key) THEN ScriptDenies(key, UntilOldestLeaves(Pruned(key), RuleOf[key]))
    ELSE Granted(RuleOf[key].points - Len(Pruned(key)), WindowReset(key))

-----------------------------------------------------------------------------
(* One call of the port, in both stores                                    *)

SweepIsDue == lastSweep = Never \/ clock - lastSweep >= SweepInterval
Swept(key) == IF SweepIsDue THEN Stale(Max({longestWindow, RuleOf[key].window})) ELSE {}

Answer(key) == IF configured = "memory" THEN MemoryConsume(key, Swept(key)).answer ELSE ConsumeScript(key)

Consume(key) ==
    LET swept == Swept(key)
        answer == Answer(key)
        kept == SelectSeq(lru, LAMBDA k : k \notin swept)
        out == Evicts(kept, key)
        result == MemoryConsume(key, swept)
        script == ConsumeScript(key) IN
    /\ longestWindow' = Max({longestWindow, RuleOf[key].window})
    /\ lastSweep' = IF SweepIsDue THEN clock ELSE lastSweep
    /\ lru' = Append(SelectSeq(kept, LAMBDA k : k \notin out \cup {key}), key)
    /\ entries' = [k \in Range(lru') |-> IF k = key THEN result.entry ELSE entries[k]]
    /\ zset' = [zset EXCEPT ![key] = IF script.allowed THEN Append(Pruned(key), clock) ELSE Pruned(key)]
    /\ blockKey' = [blockKey EXCEPT ![key] = IF ~script.allowed /\ @ <= clock /\ RuleOf[key].block > 0
                                             THEN clock + RuleOf[key].block ELSE @]
    /\ evicted' = evicted \cup out
    /\ disagreed' = IF result.answer = script THEN disagreed ELSE disagreed \cup {key}
    /\ granted' = [k \in Keys |-> IF k \in out /\ configured = "memory" THEN <<>>
                                  ELSE IF k = key /\ answer.allowed THEN Append(SelectSeq(granted[k], LAMBDA t : t + RuleOf[k].window > clock), clock) ELSE granted[k]]
    /\ leaked' = [leaked EXCEPT ![key] = IF answer.allowed \/ configured = "redis" \/ ~Walled(key) THEN 0 ELSE @ + 1]
    /\ promised' = [promised EXCEPT ![key] = [retryAt |-> clock + answer.retryAfter, resetAt |-> clock + answer.reset]]

Peek(key) == IF configured = "memory" THEN MemoryPeek(key) ELSE PeekScript(key)

-----------------------------------------------------------------------------
(* The middleware                                                          *)

\* A request of a group: its keys are asked one by one
Arrive(r, g) ==
    /\ requests[r].pc = "idle" /\ Cardinality({q \in Slots : requests[q].pc /= "idle"}) < traffic.atOnce
    /\ requests' = [requests EXCEPT ![r] = [pc |-> "before", group |-> g, todo |-> g.keys, refused |-> FALSE]]
    /\ UNCHANGED <<clock, configured, traffic, storeVars, granted, leaked, promised, disagreed, evicted>>

\* forKeys: every key is called, also after one has refused.  combine: a refusal by any key is a
\* 429, otherwise the handler runs; the answer to a charge only goes into the quota headers
Told(r, allowed) ==
    LET request == requests[r]
        refused == request.refused \/ ~allowed IN
    requests' = [requests EXCEPT ![r] =
        CASE Len(request.todo) > 1 -> [request EXCEPT !.todo = Tail(@), !.refused = refused]
          [] Len(request.todo) = 1 /\ (refused \/ request.pc = "after") -> Idle
          [] OTHER -> [request EXCEPT !.pc = "handler", !.todo = <<>>]]

AskKey(r) ==
    /\ requests[r].pc \in {"before", "after"} /\ requests[r].todo /= <<>>
    /\ LET key == Head(requests[r].todo) IN
       IF requests[r].pc = "before" /\ requests[r].group.wall
       THEN Told(r, Peek(key).allowed) /\ UNCHANGED <<storeVars, granted, leaked, promised, disagreed, evicted>>
       ELSE Told(r, Answer(key).allowed) /\ Consume(key)
    /\ UNCHANGED <<clock, configured, traffic>>

\* The store is unreachable: the configured fallback, per key
StoreFails(r) ==
    /\ configured = "redis" /\ requests[r].pc \in {"before", "after"} /\ requests[r].todo /= <<>>
    /\ Told(r, OnStoreError)
    /\ UNCHANGED <<clock, configured, traffic, storeVars, granted, leaked, promised, disagreed, evicted>>

\* The handler answers or fails; a wall charges the responses its predicate selects
HandlerEnds(r) ==
    /\ requests[r].pc = "handler"
    /\ \/ requests' = [requests EXCEPT ![r] = Idle]
       \/ /\ requests[r].group.wall
          /\ requests' = [requests EXCEPT ![r].pc = "after", ![r].todo = requests[r].group.keys]
    /\ UNCHANGED <<clock, configured, traffic, storeVars, granted, leaked, promised, disagreed, evicted>>

Tick ==
    /\ clock < LastInstant
    /\ clock' = clock + 1
    /\ UNCHANGED <<configured, traffic, storeVars, requests, granted, leaked, promised, disagreed, evicted>>

RateLimitNext ==
    \/ \E r \in Slots :
          \/ \E g \in traffic.groups : Arrive(r, g)
          \/ AskKey(r) \/ StoreFails(r) \/ HandlerEnds(r)
    \/ Tick

-----------------------------------------------------------------------------
(* Properties                                                              *)

\* Consume-and-check is atomic and sweeping is harmless: since a key was last evicted, no span as
\* long as its window saw more than `points` grants; and the refusals a wall counts in a row come
\* from the requests that were in flight when it filled, whatever the store forgot meanwhile.
BudgetsHold ==
    /\ \A k \in Keys : Len(granted[k]) <= RuleOf[k].points
    /\ configured = "memory" => \A k \in Keys : leaked[k] < traffic.atOnce
    /\ Len(lru) <= MaxKeys /\ DOMAIN entries = Range(lru)

\* What the last decision on a key told its caller (Retry-After, RateLimit-Reset) is what the store
\* then does: refused until the one, fully restored from the other on, and never the one after the
\* other.  Eviction forgives.
PromisesHold ==
    \A k \in Keys : (configured = "redis" \/ k \in DOMAIN entries) =>
        /\ promised[k].retryAt <= promised[k].resetAt
        /\ clock < promised[k].retryAt => ~Peek(k).allowed
        /\ clock >= promised[k].resetAt => Peek(k).remaining = RuleOf[k].points

\* The scripts and the memory store are one algorithm: on a key that was never evicted they answer
\* every consume alike, retry and reset times included, and a peek now would be answered alike too.
StoresAgree ==
    \A k \in Keys \ evicted : k \notin disagreed /\ MemoryPeek(k) = PeekScript(k)
=============================================================================
