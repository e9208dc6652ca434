---------------------------- MODULE Idempotency -----------------------------
(***************************************************************************)
(* Command dispatch under an idempotency key: `makeDispatch` and           *)
(* `idempotent` of packages/cqrs/src/bus.ts over the in-memory store and   *)
(* over the PostgreSQL store of packages/eventsourcing-pg.                 *)
(*                                                                         *)
(* Records of different (tag, actor, key) never meet, so one record is     *)
(* modelled.  A payload stands for its hash (stable JSON under SHA-256),   *)
(* and a result for the dispatch whose handler produced it.                *)
(***************************************************************************)
EXTENDS Integers, FiniteSets

CONSTANTS
    Dispatches,     \* command dispatches with this key, in any order
    Payloads,
    PayloadOf,      \* [Dispatches -> Payloads]
    NoRecord, NoResult,
    Stores,         \* those to look at: "memory", "postgres"
    Ttl,            \* idempotencyTtl, in ticks
    MaxInterrupts,  \* bound: dispatches cut short from outside
    Prompt          \* no dispatch outlives the record it claimed

Record == [state : {"claimed", "completed"}, payload : Payloads,
           result : Dispatches \union {NoResult}, ttl : 0..Ttl]

\* What a caller is told instead of a result.
Refusals == {"denied", "inFlight", "mismatch", "failed", "error"}

ASSUME DispatchAssumption ==
    /\ PayloadOf \in [Dispatches -> Payloads]
    /\ NoResult \notin Dispatches \union Refusals /\ NoRecord \notin Record
    /\ Dispatches \intersect Refusals = {}
    /\ Stores \subseteq {"memory", "postgres"}
    /\ Ttl \in Nat \ {0} /\ MaxInterrupts \in Nat
    /\ Prompt \in BOOLEAN

VARIABLES
    store,          \* the IdempotencyStore in use
    record,         \* the row of the key
    progress, answer, \* [Dispatches -> ...] step and what its caller was told
    succeeded,      \* dispatches whose handler succeeded
    interrupts

dispatchVars == <<store, record, progress, answer, succeeded, interrupts>>

DispatchTypeOK ==
    /\ record \in Record \union {NoRecord}
    /\ record # NoRecord => (record.state = "completed" <=> record.result # NoResult)
    /\ progress \in [Dispatches -> {"start", "begin", "look", "handler", "complete", "release",
                              "done"}]
    /\ answer \in [Dispatches -> Dispatches \union Refusals \union {NoResult}]
    /\ succeeded \subseteq Dispatches
    /\ interrupts \in 0..MaxInterrupts

DispatchInit ==
    /\ store \in Stores
    /\ record = NoRecord
    /\ progress = [d \in Dispatches |-> "start"]
    /\ answer = [d \in Dispatches |-> NoResult]
    /\ succeeded = {}
    /\ interrupts = 0

\* The caller is told a, and the dispatch is over.
Answer(d, a) ==
    /\ progress' = [progress EXCEPT ![d] = "done"]
    /\ answer' = [answer EXCEPT ![d] = a]

Goto(d, step) ==
    /\ progress' = [progress EXCEPT ![d] = step]
    /\ UNCHANGED answer

-----------------------------------------------------------------------------
\* Validation and authorization come before the key is looked at.
Admit(d) ==
    /\ progress[d] = "start"
    /\ \/ Goto(d, "begin")
       \/ Answer(d, "denied")
    /\ UNCHANGED <<store, record, succeeded, interrupts>>

\* Mutant: a claim somebody holds is taken over.
VacantUnlessCompleted == IF record = NoRecord THEN TRUE ELSE record.state = "claimed"

\* Nothing recorded, or (PostgreSQL) what is recorded has expired.
Vacant == IF record = NoRecord THEN TRUE ELSE store = "postgres" /\ record.ttl = 0

Claimed(d) == [state |-> "claimed", payload |-> PayloadOf[d], result |-> NoResult, ttl |-> Ttl]

\* What a record that is already there answers.  On PostgreSQL it may be gone
\* again by the time it is read.
Found(d) ==
    IF record = NoRecord THEN "inFlight"
    ELSE IF record.payload # PayloadOf[d] THEN "mismatch"
    ELSE IF record.state = "claimed" THEN "inFlight"
    ELSE record.result

\* begin: claim the key, or report the record; PostgreSQL reads it back with a
\* second statement.
BeginKey(d) ==
    /\ progress[d] = "begin"
    /\ \/ /\ Vacant
          /\ record' = Claimed(d)
          /\ Goto(d, "handler")
       \/ /\ ~Vacant
          /\ IF store = "postgres" THEN Goto(d, "look") ELSE Answer(d, Found(d))
          /\ UNCHANGED record
    /\ UNCHANGED <<store, succeeded, interrupts>>

Look(d) ==
    /\ progress[d] = "look"
    /\ Answer(d, Found(d))
    /\ UNCHANGED <<store, record, succeeded, interrupts>>

\* The handler succeeds, or fails or times out.
HandleCommand(d) ==
    /\ progress[d] = "handler"
    /\ \/ Goto(d, "complete") /\ succeeded' = succeeded \union {d}
       \/ Goto(d, "release") /\ UNCHANGED succeeded
    /\ UNCHANGED <<store, record, interrupts>>

\* complete: PostgreSQL updates the row of the key if there is one, whoever
\* claimed it and with whatever payload; the map entry is simply set.
Complete(d) ==
    /\ progress[d] = "complete"
    /\ record' =
          IF store = "memory"
          THEN [Claimed(d) EXCEPT !.state = "completed", !.result = d]
          ELSE IF record = NoRecord THEN NoRecord
          ELSE [record EXCEPT !.state = "completed", !.result = d, !.ttl = Ttl]
    /\ Answer(d, d)
    /\ UNCHANGED <<store, succeeded, interrupts>>

\* release: a claim on the key is dropped, a completed record is kept.
ReleaseKey(d) ==
    /\ progress[d] = "release"
    /\ record' = IF record # NoRecord /\ record.state = "claimed" THEN NoRecord ELSE record
    /\ Answer(d, "failed")
    /\ UNCHANGED <<store, succeeded, interrupts>>

\* PostgreSQL does not answer complete or release: the claim stays.
StoreFails(d) ==
    /\ store = "postgres"
    /\ progress[d] \in {"complete", "release"}
    /\ Answer(d, "error")
    /\ UNCHANGED <<store, record, succeeded, interrupts>>

\* The dispatching fiber is interrupted, or its process dies.  An interrupted
\* fiber runs no catchAllCause handler, so the claim is not released.
Interrupt(d) ==
    /\ interrupts < MaxInterrupts
    /\ progress[d] \in {"look", "handler", "complete"}
    /\ interrupts' = interrupts + 1
    /\ Answer(d, "error")
    /\ UNCHANGED <<store, record, succeeded>>

Holds(d) == progress[d] \in {"handler", "complete", "release"}

\* One unit of time; only PostgreSQL records expire.
ClaimAges ==
    /\ store = "postgres"
    /\ record # NoRecord /\ record.ttl > 0
    /\ Prompt => record.ttl > 1 \/ ~\E d \in Dispatches : Holds(d)
    /\ record' = [record EXCEPT !.ttl = @ - 1]
    /\ UNCHANGED <<store, progress, answer, succeeded, interrupts>>

\* purgeExpiredIdempotency.
Purge ==
    /\ store = "postgres"
    /\ record # NoRecord /\ record.ttl = 0
    /\ record' = NoRecord
    /\ UNCHANGED <<store, progress, answer, succeeded, interrupts>>

DispatchNext ==
    \/ \E d \in Dispatches :
          \/ Admit(d) \/ BeginKey(d) \/ Look(d) \/ HandleCommand(d)
          \/ Complete(d) \/ ReleaseKey(d) \/ StoreFails(d) \/ Interrupt(d)
    \/ ClaimAges \/ Purge

DispatchSpec == DispatchInit /\ [][DispatchNext]_dispatchVars

-----------------------------------------------------------------------------
\* "This bus suppresses replays and duplicate concurrent runs of one key"
\* (IdempotencyStore): at most one dispatch is between its claim and its
\* settlement.
OneRunAtATime ==
    \A d, e \in Dispatches : Holds(d) /\ Holds(e) => d = e

\* "A replay by the same actor with the same payload returns the cached
\* success" (DispatchOptions.idempotencyKey): a caller told of a success gets
\* the result of a handler that succeeded on the caller's own payload.
ReplayIsFaithful ==
    \A d, run \in Dispatches :
        answer[d] = run => run \in succeeded /\ PayloadOf[run] = PayloadOf[d]

\* "... without running the handler again": with records that do not expire,
\* the handler succeeds once at most, whatever retries and races there are.
SucceedsOnce == store = "memory" => Cardinality(succeeded) <= 1

\* Commands under one idempotency key (cqrs bus.ts): handlers never run side by
\* side, one succeeds, and every other caller gets its result or a refusal,
\* over interrupts and expiring claims.
DispatchesOnce == DispatchTypeOK /\ OneRunAtATime /\ ReplayIsFaithful /\ SucceedsOnce
=============================================================================
