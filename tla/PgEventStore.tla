---------------------------- MODULE PgEventStore ----------------------------
(***************************************************************************)
(* The PostgreSQL event store (packages/eventsourcing-pg/src/EventStore.ts)*)
(* as its transactions see it.  A writer is one database session running a *)
(* unit of work: a transaction of one or more appends, each in its own     *)
(* SAVEPOINT, or the transaction of one stream erasure.  What a            *)
(* transaction wrote is invisible until it commits; its advisory locks are *)
(* released when it ends, or when the savepoint they were taken under is   *)
(* rolled back; a position drawn from the sequence is never given back.    *)
(*                                                                         *)
(* Readers are the consumers of `readAll`: each remembers the last         *)
(* position it was handed and asks for what follows it.                    *)
(***************************************************************************)
EXTENDS EventRows, TLC

CONSTANTS
    Writers,        \* database sessions that write
    Readers,        \* consumers of the global feed
    Messages,       \* ids of outbox messages
    NoOne,          \* a free lock; also "no message"
    MaxPosition,    \* MAXVALUE of the position sequence
    MaxEvents,      \* most events one append is asked to write
    MaxAppends,     \* most appends in one unit of work
    BatchSize       \* batchSize of readAll

ASSUME ConstantsAssumption ==
    /\ NoOne \notin Writers
    /\ NoOne \notin Messages
    /\ MaxPosition \in Nat
    /\ MaxEvents \in Nat
    /\ MaxAppends \in Nat \ {0}
    /\ BatchSize \in Nat \ {0}

VARIABLES
    events,         \* committed rows of `events`
    ledger,         \* committed rows of `erased_streams`
    outbox,         \* committed message ids of `outbox`
    snapshots,      \* streams with a row in `snapshots`
    seq,            \* last value drawn from the position sequence
    streamLock,     \* [Streams -> holder of the per-stream advisory lock]
    orderLock,      \* holder of the per-table advisory lock
    tableLocked,    \* `events` is held IN EXCLUSIVE MODE by an importer
    pc,             \* where each writer's transaction is
    req,            \* the call in progress
    written,        \* rows inserted and not yet committed
    staged,         \* message ids inserted and not yet committed
    savepoint,      \* what the writer held when its current append began
    appends,        \* appends begun in the current unit of work
    cursor,         \* last position each reader was handed
    delivered       \* positions each reader was handed

txVars == <<streamLock, orderLock, pc, req, written, staged, savepoint, appends>>
tableVars == <<events, ledger, outbox, snapshots>>
readerVars == <<cursor, delivered>>
vars == <<tableVars, seq, tableLocked, txVars, readerVars>>

-----------------------------------------------------------------------------
Request == [op : {"append", "erase"}, stream : Streams, expected : Nat,
            left : 0..MaxEvents, next : Nat \ {0}, message : Messages \union {NoOne}]

NoSavepoint == [rows |-> {}, streams |-> {}, order |-> FALSE]

\* The savepoint's record of what to keep when it is rolled back.
Savepoint == [rows : SUBSET Row, streams : SUBSET Streams, order : BOOLEAN]

\* Phases in which an append's own statements run.
Appending == {"lockStream", "check", "lockOrder", "insert", "stage"}

TypeOK ==
    /\ events \subseteq Row
    /\ ledger \in [Streams -> Nat \union {NotErased}]
    /\ outbox \subseteq Messages
    /\ snapshots \subseteq Streams
    /\ seq \in 0..MaxPosition
    /\ streamLock \in [Streams -> Writers \union {NoOne}]
    /\ orderLock \in Writers \union {NoOne}
    /\ tableLocked \in BOOLEAN
    /\ pc \in [Writers -> {"idle", "open", "tombstone"} \union Appending]
    /\ req \in [Writers -> Request \union {NoOne}]
    /\ \A w \in Writers : pc[w] \notin {"idle", "open"} => req[w] \in Request
    /\ written \in [Writers -> SUBSET Row]
    /\ staged \in [Writers -> SUBSET Messages]
    /\ savepoint \in [Writers -> Savepoint]
    /\ appends \in [Writers -> 0..MaxAppends]
    /\ cursor \in [Readers -> Nat]
    /\ delivered \in [Readers -> SUBSET Nat]

Init ==
    /\ events = {} /\ outbox = {} /\ snapshots = {}
    /\ ledger = [s \in Streams |-> NotErased]
    /\ seq = 0
    /\ streamLock = [s \in Streams |-> NoOne]
    /\ orderLock = NoOne
    /\ tableLocked = FALSE
    /\ pc = [w \in Writers |-> "idle"]
    /\ req = [w \in Writers |-> NoOne]
    /\ written = [w \in Writers |-> {}]
    /\ staged = [w \in Writers |-> {}]
    /\ savepoint = [w \in Writers |-> NoSavepoint]
    /\ appends = [w \in Writers |-> 0]
    /\ cursor = [r \in Readers |-> 0]
    /\ delivered = [r \in Readers |-> {}]

-----------------------------------------------------------------------------
\* How a transaction, or one of its savepoints, ends.

\* Mutant: session-level locks (pg_advisory_lock), which outlive COMMIT.
ReleaseLocksNever(w, keepStreams, keepOrder) ==
    UNCHANGED <<streamLock, orderLock>>

\* Free w's stream locks, and its commit-order lock, except the ones kept.
ReleaseLocks(w, keepStreams, keepOrder) ==
    /\ streamLock' = [s \in Streams |->
          IF streamLock[s] = w /\ s \notin keepStreams THEN NoOne ELSE streamLock[s]]
    /\ orderLock' = IF orderLock = w /\ ~keepOrder THEN NoOne ELSE orderLock

\* The transaction is over, one way or the other.
EndTransaction(w) ==
    /\ ReleaseLocks(w, {}, FALSE)
    /\ pc' = [pc EXCEPT ![w] = "idle"]
    /\ req' = [req EXCEPT ![w] = NoOne]
    /\ written' = [written EXCEPT ![w] = {}]
    /\ staged' = [staged EXCEPT ![w] = {}]
    /\ savepoint' = [savepoint EXCEPT ![w] = NoSavepoint]
    /\ appends' = [appends EXCEPT ![w] = 0]

\* Mutant: a failed append drops every lock of its unit of work.
FailAppendDropsLocks(w) ==
    /\ ReleaseLocks(w, {}, FALSE)
    /\ pc' = [pc EXCEPT ![w] = "open"]
    /\ req' = [req EXCEPT ![w] = NoOne]
    /\ written' = [written EXCEPT ![w] = savepoint[w].rows]
    /\ savepoint' = [savepoint EXCEPT ![w] = NoSavepoint]
    /\ UNCHANGED <<staged, appends>>

\* Mutant: the failure is swallowed and the append goes on without a request.
FailAppendGoesOn(w) ==
    /\ ReleaseLocks(w, savepoint[w].streams, savepoint[w].order)
    /\ req' = [req EXCEPT ![w] = NoOne]
    /\ written' = [written EXCEPT ![w] = savepoint[w].rows]
    /\ savepoint' = [savepoint EXCEPT ![w] = NoSavepoint]
    /\ UNCHANGED <<pc, staged, appends>>

\* ROLLBACK TO SAVEPOINT: the failed append's rows and locks go, the rest of
\* the unit of work stays; the caller sees the failure and decides.
FailAppend(w) ==
    /\ ReleaseLocks(w, savepoint[w].streams, savepoint[w].order)
    /\ pc' = [pc EXCEPT ![w] = "open"]
    /\ req' = [req EXCEPT ![w] = NoOne]
    /\ written' = [written EXCEPT ![w] = savepoint[w].rows]
    /\ savepoint' = [savepoint EXCEPT ![w] = NoSavepoint]
    /\ UNCHANGED <<staged, appends>>

\* The unit of work fails or is interrupted, or its connection is lost:
\* nothing it wrote is kept.
Rollback(w) ==
    /\ pc[w] # "idle"
    /\ EndTransaction(w)
    /\ UNCHANGED <<tableVars, seq, tableLocked, readerVars>>

\* COMMIT: rows and messages become visible together, then the locks go.
Commit(w) ==
    /\ pc[w] = "open"
    /\ events' = events \union written[w]
    /\ outbox' = outbox \union staged[w]
    /\ EndTransaction(w)
    /\ UNCHANGED <<ledger, snapshots, seq, tableLocked, readerVars>>

-----------------------------------------------------------------------------
\* appendTransaction, statement by statement.

\* A caller appends n events (and perhaps a message) to a stream it observed
\* at version v.  The stream may have moved on since, or v may be a version
\* its own rolled-back unit of work had reached.
StartAppend(w, s, v, n, m) ==
    /\ pc[w] \in {"idle", "open"}
    /\ appends[w] < MaxAppends
    /\ v <= CurrentVersion(events \union written[w], s) + 1
    /\ pc' = [pc EXCEPT ![w] = "lockStream"]
    /\ req' = [req EXCEPT ![w] = [op |-> "append", stream |-> s, expected |-> v,
                                  left |-> n, next |-> v + 1, message |-> m]]
    /\ appends' = [appends EXCEPT ![w] = @ + 1]
    /\ savepoint' = [savepoint EXCEPT ![w] =
          [rows |-> written[w],
           streams |-> {t \in Streams : streamLock[t] = w},
           order |-> orderLock = w]]
    /\ UNCHANGED <<tableVars, seq, tableLocked, streamLock, orderLock,
                   written, staged, readerVars>>

\* lockStream, the first statement of an append and of an erasure.
LockStream(w) ==
    /\ pc[w] = "lockStream"
    /\ streamLock[req[w].stream] \in {NoOne, w}
    /\ streamLock' = [streamLock EXCEPT ![req[w].stream] = w]
    /\ pc' = [pc EXCEPT ![w] = "check"]
    /\ UNCHANGED <<tableVars, seq, tableLocked, orderLock, req, written,
                   staged, savepoint, appends, readerVars>>

\* Under READ COMMITTED the check sees what is committed, and its own writes.
AppendConflicts(w) ==
    \/ ledger[req[w].stream] # NotErased
    \/ CurrentVersion(events \union written[w], req[w].stream) # req[w].expected

\* The ledger and version checks; an empty append takes no order lock.
CheckAppend(w) ==
    /\ pc[w] = "check"
    /\ req[w].op = "append"
    /\ \/ /\ AppendConflicts(w)
          /\ FailAppend(w)
       \/ /\ ~AppendConflicts(w)
          /\ pc' = [pc EXCEPT ![w] = IF req[w].left > 0 THEN "lockOrder" ELSE "stage"]
          /\ UNCHANGED <<streamLock, orderLock, req, written, staged, savepoint, appends>>
    /\ UNCHANGED <<tableVars, seq, tableLocked, readerVars>>

\* Mutant: positions are drawn without the order lock.
LockOrderSkipped(w) ==
    /\ pc[w] = "lockOrder"
    /\ pc' = [pc EXCEPT ![w] = "insert"]
    /\ UNCHANGED <<tableVars, seq, tableLocked, orderLock, streamLock, req,
                   written, staged, savepoint, appends, readerVars>>

\* serializeCommitOrder.
LockOrder(w) ==
    /\ pc[w] = "lockOrder"
    /\ orderLock \in {NoOne, w}
    /\ orderLock' = w
    /\ pc' = [pc EXCEPT ![w] = "insert"]
    /\ UNCHANGED <<tableVars, seq, tableLocked, streamLock, req, written,
                   staged, savepoint, appends, readerVars>>

\* The row INSERT would write once the sequence has given its position.
NewRow(w) == [position |-> seq + 1, stream |-> req[w].stream,
              version |-> req[w].next, erased |-> FALSE]

\* PRIMARY KEY (position) or UNIQUE (stream_name, version) is already taken.
UniqueViolation(row, rows) ==
    \E e \in rows : \/ e.position = row.position
                    \/ e.stream = row.stream /\ e.version = row.version

\* One INSERT of insertEvents.  The position is drawn even if the row is then
\* refused; an exhausted sequence is an SqlError.
InsertEvent(w) ==
    /\ pc[w] = "insert"
    /\ ~tableLocked
    /\ seq' = IF seq < MaxPosition THEN seq + 1 ELSE seq
    /\ \/ /\ seq = MaxPosition \/ UniqueViolation(NewRow(w), events \union written[w])
          /\ FailAppend(w)
       \/ /\ seq < MaxPosition
          /\ ~UniqueViolation(NewRow(w), events \union written[w])
          /\ written' = [written EXCEPT ![w] = @ \union {NewRow(w)}]
          /\ req' = [req EXCEPT ![w].left = @ - 1, ![w].next = @ + 1]
          /\ pc' = [pc EXCEPT ![w] = IF req[w].left = 1 THEN "stage" ELSE "insert"]
          /\ UNCHANGED <<streamLock, orderLock, staged, savepoint, appends>>
    /\ UNCHANGED <<tableVars, tableLocked, readerVars>>

\* insertMessages: a plain INSERT waits for another transaction that holds
\* the same id, then fails the append if the id is taken.
StageMessages(w) ==
    /\ pc[w] = "stage"
    /\ \A x \in Writers \ {w} : req[w].message \notin staged[x]
    /\ \/ /\ req[w].message \in outbox \union staged[w]
          /\ FailAppend(w)
       \/ /\ req[w].message \notin outbox \union staged[w]
          /\ staged' = [staged EXCEPT ![w] = @ \union ({req[w].message} \ {NoOne})]
          /\ pc' = [pc EXCEPT ![w] = "open"]
          /\ req' = [req EXCEPT ![w] = NoOne]
          /\ savepoint' = [savepoint EXCEPT ![w] = NoSavepoint]
          /\ UNCHANGED <<streamLock, orderLock, written, appends>>
    /\ UNCHANGED <<tableVars, seq, tableLocked, readerVars>>

\* Any statement of an append may fail (a deadlock victim, a timeout, a JSON
\* payload that does not encode): only its savepoint is rolled back.
SqlFailure(w) ==
    /\ pc[w] \in Appending
    /\ req[w].op = "append"
    /\ FailAppend(w)
    /\ UNCHANGED <<tableVars, seq, tableLocked, readerVars>>

-----------------------------------------------------------------------------
\* eraseStream: one transaction of its own.

StartErase(w, s, v) ==
    /\ pc[w] = "idle"
    /\ v <= CurrentVersion(events, s)
    /\ pc' = [pc EXCEPT ![w] = "lockStream"]
    /\ req' = [req EXCEPT ![w] = [op |-> "erase", stream |-> s, expected |-> v,
                                  left |-> 0, next |-> v + 1, message |-> NoOne]]
    /\ UNCHANGED <<tableVars, seq, tableLocked, streamLock, orderLock, written,
                   staged, savepoint, appends, readerVars>>

\* A recorded erasure is answered from the ledger and a version that moved is
\* refused: either way the transaction ends having changed nothing.
EraseWritesNothing(w) ==
    \/ ledger[req[w].stream] # NotErased
    \/ CurrentVersion(events, req[w].stream) # req[w].expected

\* The tombstone UPDATEs, one per version, wait while an importer holds the
\* table; erasing an empty stream has none.
CheckErase(w) ==
    /\ pc[w] = "check"
    /\ req[w].op = "erase"
    /\ \/ /\ EraseWritesNothing(w)
          /\ EndTransaction(w)
       \/ /\ ~EraseWritesNothing(w)
          /\ req[w].expected > 0 => ~tableLocked
          /\ pc' = [pc EXCEPT ![w] = "tombstone"]
          /\ UNCHANGED <<streamLock, orderLock, req, written, staged, savepoint, appends>>
    /\ UNCHANGED <<tableVars, seq, tableLocked, readerVars>>

\* COMMIT of the tombstones, the snapshot's removal and the ledger row.
CommitErase(w) ==
    /\ pc[w] = "tombstone"
    /\ events' = Tombstoned(events, req[w].stream, req[w].expected)
    /\ snapshots' = snapshots \ {req[w].stream}
    /\ ledger' = [ledger EXCEPT ![req[w].stream] = req[w].expected]
    /\ EndTransaction(w)
    /\ UNCHANGED <<outbox, seq, tableLocked, readerVars>>

-----------------------------------------------------------------------------
\* SnapshotStore.save, one upsert by whoever loaded the stream.
SaveSnapshot(s) ==
    /\ VersionsOf(events, s) # {}
    /\ snapshots' = snapshots \union {s}
    /\ UNCHANGED <<events, ledger, outbox, seq, tableLocked, txVars, readerVars>>

\* readAll from the position after the last one seen: the next rows in
\* position order, at most BatchSize of them.
Read(r) ==
    LET later == {e \in events : e.position > cursor[r]}
    IN  \E batch \in SUBSET later :
          /\ \A e \in batch, f \in later \ batch : e.position < f.position
          /\ \/ Cardinality(batch) = BatchSize
             \/ batch = later /\ Cardinality(batch) < BatchSize
          /\ \E last \in batch :
                /\ \A e \in batch : e.position <= last.position
                /\ cursor' = [cursor EXCEPT ![r] = last.position]
          /\ delivered' = [delivered EXCEPT ![r] = @ \union {e.position : e \in batch}]
          /\ UNCHANGED <<tableVars, seq, tableLocked, txVars>>

-----------------------------------------------------------------------------
WriterNext(w) ==
    \/ \E s \in Streams, v \in 0..MaxPosition, n \in 0..MaxEvents,
          m \in Messages \union {NoOne} : StartAppend(w, s, v, n, m)
    \/ \E s \in Streams, v \in 0..MaxPosition : StartErase(w, s, v)
    \/ LockStream(w)
    \/ CheckAppend(w)
    \/ LockOrder(w)
    \/ InsertEvent(w)
    \/ StageMessages(w)
    \/ SqlFailure(w)
    \/ CheckErase(w)
    \/ CommitErase(w)
    \/ Commit(w)
    \/ Rollback(w)

Next ==
    \/ \E w \in Writers : WriterNext(w)
    \/ \E s \in Streams : SaveSnapshot(s)
    \/ \E r \in Readers : Read(r)

Spec == Init /\ [][Next]_vars

\* PostgreSQL queues lock requests first come first served, so a session that
\* waits for a lock that keeps being released is granted it; the statements
\* of a running transaction, and its COMMIT, are executed.  Nothing is
\* assumed of callers, of failures or of readers.
Fairness ==
    \A w \in Writers :
        /\ SF_vars(LockStream(w)) /\ SF_vars(LockOrder(w))
        /\ SF_vars(InsertEvent(w)) /\ SF_vars(StageMessages(w))
        /\ WF_vars(CheckAppend(w)) /\ WF_vars(CheckErase(w))
        /\ WF_vars(CommitErase(w)) /\ WF_vars(Commit(w))

FairSpec == Spec /\ Fairness

\* Sessions and streams are interchangeable.
Interchangeable == Permutations(Writers) \union Permutations(Streams)

-----------------------------------------------------------------------------
(* Properties.                                                             *)

\* "Once the feed has yielded position N, every committed event at a lower
\* position was already visible" (EventStoreService.readAll): no reader's
\* cursor ever passes a committed event it was not handed.
NoSkippedEvent ==
    \A r \in Readers : \A e \in events :
        e.position <= cursor[r] => e.position \in delivered[r]

\* Positions become visible in the order they were drawn: whatever a commit
\* adds lies beyond everything already visible (serializeCommitOrder).
CommitsInPositionOrder ==
    [][\A e \in events, n \in events' :
          (\A f \in events : f.position # n.position) => e.position < n.position]_events

\* Optimistic concurrency over racing transactions: each stream's versions
\* are 1, 2, 3, ... with one row each, in position order (appendTransaction).
StreamsAreGapless ==
    /\ \A s \in Streams : VersionsOf(events, s) = 1..CurrentVersion(events, s)
    /\ \A e, f \in events : e.position = f.position => e = f
    /\ \A e, f \in events : e.stream = f.stream =>
            (e.version < f.version <=> e.position < f.position)

\* w is waiting for x to end.
WaitsFor(w, x) ==
    /\ w # x
    /\ \/ pc[w] = "lockStream" /\ streamLock[req[w].stream] = x
       \/ pc[w] = "lockOrder" /\ orderLock = x
       \/ pc[w] = "stage" /\ req[w].message \in staged[x]

\* Transactions in their first append never wait for each other in a circle:
\* stream lock, order lock and message id are always taken in that order, and a
\* transaction that ends lets go of them (appendTransaction, eraseStream).
NoLockCycle ==
    \A waiting \in SUBSET {w \in Writers : appends[w] <= 1} : waiting # {} =>
        \E w \in waiting : \A x \in waiting : ~WaitsFor(w, x)

\* No append or erasure is left waiting for ever by racing ones that succeed,
\* conflict, fail or lose their connection: every call is answered.
EveryCallReturns ==
    \A w \in Writers : pc[w] # "idle" ~> pc[w] = "idle"

\* The store implements the event log every port user relies on.
Log == INSTANCE EventLog
ImplementsLog == Log!Spec
=============================================================================
