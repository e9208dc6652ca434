----------------------------- MODULE Aggregates -----------------------------
(***************************************************************************)
(* The event-sourced runtime of one aggregate: `load`, `execute` and       *)
(* `executeWithRetry` of packages/eventsourcing/src/AggregateStore.ts over *)
(* an event store, a snapshot store and a stream eraser.                   *)
(*                                                                         *)
(* An event records which command wrote it and on which version it was     *)
(* decided; the state is the sequence of events folded into it, so that    *)
(* two states are equal exactly when they fold the same history.           *)
(***************************************************************************)
EXTENDS Integers, Sequences

CONSTANTS
    Commands,           \* one execution of executeWithRetry each
    MaxEmitted,         \* most events a command emits
    SnapshotEvery,      \* options.snapshotEvery
    Times,              \* retryOptions.times
    MaxErasures,        \* bound: calls of eraseStream
    NoSnapshot,
    Adapters            \* those to look at: "sql", "memory"

ASSUME AggregateAssumption ==
    /\ MaxEmitted \in Nat \ {0} /\ SnapshotEvery \in Nat \ {0}
    /\ Times \in Nat /\ MaxErasures \in Nat
    /\ Adapters \subseteq {"sql", "memory"}

VARIABLES
    adapter,            \* the adapter in use
    log,                \* events of the stream
    erased,             \* the stream is tombstoned and pinned
    snapshot,           \* NoSnapshot or a folded state and its version
    step, loaded, tries, \* [Commands -> ...] step, what was loaded, retries used
    emitted,            \* number of events decide returned
    eraser, erasures    \* step of the eraser, calls made

clientVars == <<step, loaded, tries, emitted>>
eraserVars == <<adapter, eraser, erasures>>
aggregateVars == <<log, erased, snapshot, clientVars, eraserVars>>

Event == [by : Commands, base : Nat, nth : 1..MaxEmitted]
Fold == [version : Nat, state : Seq(Event)]
Initial == [version |-> 0, state |-> <<>>, from |-> 0]

AggregateTypeOK ==
    /\ log \in Seq(Event)
    /\ erased \in BOOLEAN
    /\ snapshot = NoSnapshot \/ snapshot \in Fold
    /\ step \in [Commands -> {"load", "read", "decide", "append", "save", "done", "failed"}]
    /\ \A c \in Commands : [version |-> loaded[c].version, state |-> loaded[c].state] \in Fold
    /\ tries \in [Commands -> 0..Times]
    /\ emitted \in [Commands -> 0..MaxEmitted]
    /\ eraser \in {"idle", "remove"} /\ erasures \in 0..MaxErasures

AggregateInit ==
    /\ adapter \in Adapters
    /\ log = <<>> /\ erased = FALSE /\ snapshot = NoSnapshot
    /\ step = [c \in Commands |-> "load"]
    /\ loaded = [c \in Commands |-> Initial]
    /\ tries = [c \in Commands |-> 0]
    /\ emitted = [c \in Commands |-> 0]
    /\ eraser = "idle" /\ erasures = 0

Goto(c, next) == step' = [step EXCEPT ![c] = next]

-----------------------------------------------------------------------------
\* loadFrom: the latest snapshot, if there is one ...
LoadSnapshot(c) ==
    /\ step[c] = "load"
    /\ loaded' = [loaded EXCEPT ![c] =
          IF snapshot = NoSnapshot THEN Initial
          ELSE [version |-> snapshot.version, state |-> snapshot.state,
                from |-> snapshot.version]]
    /\ Goto(c, "read")
    /\ UNCHANGED <<log, erased, snapshot, tries, emitted, eraserVars>>

\* ... and the events after it.  A tombstone does not decode.
ReadEvents(c) ==
    LET from == loaded[c].version IN
    /\ step[c] = "read"
    /\ \/ /\ erased /\ from < Len(log)
          /\ Goto(c, "failed")
          /\ UNCHANGED loaded
       \/ /\ ~(erased /\ from < Len(log))
          /\ loaded' = [loaded EXCEPT ![c] =
                [version |-> Len(log), from |-> loaded[c].from,
                 state |-> loaded[c].state \o SubSeq(log, from + 1, Len(log))]]
          /\ Goto(c, "decide")
    /\ UNCHANGED <<log, erased, snapshot, tries, emitted, eraserVars>>

\* decide: a domain error, nothing to do, or some events.
Decide(c) ==
    /\ step[c] = "decide"
    /\ \/ Goto(c, "failed") /\ UNCHANGED emitted
       \/ Goto(c, "done") /\ UNCHANGED emitted
       \/ /\ Goto(c, "append")
          /\ \E n \in 1..MaxEmitted : emitted' = [emitted EXCEPT ![c] = n]
    /\ UNCHANGED <<log, erased, snapshot, loaded, tries, eraserVars>>

NewEvents(c) ==
    [i \in 1..emitted[c] |-> [by |-> c, base |-> loaded[c].version, nth |-> i]]

\* The append's expected version, and the pin of an erased stream.
Conflicts(c) == erased \/ Len(log) # loaded[c].version

\* Mutant: conflicts are retried for ever.
AppendRetriesForever(c) ==
    /\ step[c] = "append"
    /\ \/ /\ ~Conflicts(c)
          /\ log' = log \o NewEvents(c)
          /\ Goto(c, "save")
       \/ /\ Conflicts(c)
          /\ Goto(c, "load")
          /\ UNCHANGED log
    /\ UNCHANGED <<erased, snapshot, loaded, tries, emitted, eraserVars>>

\* append answers: written; conflict, and the command starts over while it has
\* retries; or a persistence error, which is not retried and leaves open
\* whether the events were written.
AppendEvents(c) ==
    /\ step[c] = "append"
    /\ \/ /\ ~Conflicts(c)
          /\ log' = log \o NewEvents(c)
          /\ Goto(c, IF Len(log) + emitted[c] - loaded[c].from >= SnapshotEvery
                     THEN "save" ELSE "done")
          /\ UNCHANGED tries
       \/ /\ Conflicts(c) /\ tries[c] < Times
          /\ tries' = [tries EXCEPT ![c] = @ + 1]
          /\ Goto(c, "load")
          /\ UNCHANGED log
       \/ /\ Conflicts(c) /\ tries[c] = Times
          /\ Goto(c, "failed")
          /\ UNCHANGED <<log, tries>>
       \/ /\ \E written \in BOOLEAN :
                /\ written => ~Conflicts(c)
                /\ log' = IF written THEN log \o NewEvents(c) ELSE log
          /\ Goto(c, "failed")
          /\ UNCHANGED tries
    /\ UNCHANGED <<erased, snapshot, loaded, emitted, eraserVars>>

\* Mutant: the state before the command is saved as the state after it.
KeepOldState(c) ==
    /\ step[c] = "save"
    /\ snapshot' = [version |-> loaded[c].version + emitted[c], state |-> loaded[c].state]
    /\ Goto(c, "done")
    /\ UNCHANGED <<log, erased, loaded, tries, emitted, eraserVars>>

\* The snapshot of the new state replaces whatever there is, or is not written.
KeepSnapshot(c) ==
    /\ step[c] = "save"
    /\ \/ /\ snapshot' = [version |-> loaded[c].version + emitted[c],
                          state |-> loaded[c].state \o NewEvents(c)]
          /\ Goto(c, "done")
       \/ Goto(c, "failed") /\ UNCHANGED snapshot
    /\ UNCHANGED <<log, erased, loaded, tries, emitted, eraserVars>>

-----------------------------------------------------------------------------
\* eraseStream with the version the caller expects to erase: the ledger row,
\* the tombstones and, in the SQL adapters' one transaction, the snapshot.
\* Erasing again changes nothing there; in memory it removes the snapshot again.
Erase ==
    /\ eraser = "idle"
    /\ erasures < MaxErasures
    /\ erasures' = erasures + 1
    /\ erased' = TRUE
    /\ snapshot' = IF adapter = "sql" /\ ~erased THEN NoSnapshot ELSE snapshot
    /\ eraser' = IF adapter = "memory" THEN "remove" ELSE "idle"
    /\ UNCHANGED <<adapter, log, clientVars>>

\* In memory the snapshot goes in a step of its own.
RemoveSnapshot ==
    /\ eraser = "remove"
    /\ snapshot' = NoSnapshot
    /\ eraser' = "idle"
    /\ UNCHANGED <<adapter, log, erased, clientVars, erasures>>

Execute(c) ==
    LoadSnapshot(c) \/ ReadEvents(c) \/ Decide(c) \/ AppendEvents(c) \/ KeepSnapshot(c)

AggregateNext == (\E c \in Commands : Execute(c)) \/ Erase \/ RemoveSnapshot

AggregateSpec == AggregateInit /\ [][AggregateNext]_aggregateVars

\* Every command goes on with its steps.
FairAggregateSpec == AggregateSpec /\ \A c \in Commands : WF_aggregateVars(Execute(c))

-----------------------------------------------------------------------------
\* "Snapshots are a pure cache of the event stream" (Snapshot): while the
\* stream is live a snapshot is the fold of exactly the events it covers,
\* whichever of several writers saved it last.
SnapshotIsPrefix ==
    snapshot # NoSnapshot /\ ~erased =>
        /\ snapshot.version <= Len(log)
        /\ snapshot.state = SubSeq(log, 1, snapshot.version)

\* "A concurrent writer surfaces as ConcurrencyConflict and nothing is
\* written" (execute): every event of the stream was decided on the state
\* made of all the events before its command.
DecisionsAreSerial ==
    \A i \in DOMAIN log : log[i].base + log[i].nth = i

\* A decision sees a state that is the fold of the history up to the version
\* it will append at, snapshot or not.
DecidesOnHistory ==
    \A c \in Commands : step[c] \in {"decide", "append"} /\ ~erased =>
        loaded[c].state = SubSeq(log, 1, loaded[c].version)

\* Retries never write a command twice: only conflicts, which wrote nothing,
\* are retried (executeWithRetry).
WrittenOnce ==
    \A i, k \in DOMAIN log : log[i].by = log[k].by => log[i].base = log[k].base

\* Commands that race on an aggregate, with retries, snapshots and an erasure: every event was decided
\* on the fold of all events before it, whichever snapshot it was loaded from, and none was written
\* twice (AggregateStore.ts execute, executeWithRetry).
CommandsAreSerial == SnapshotIsPrefix /\ DecidesOnHistory /\ DecisionsAreSerial /\ WrittenOnce

\* Every execution ends, and loses no more races than it may.
EveryCommandEnds ==
    \A c \in Commands : <>(step[c] \in {"done", "failed"})

\* "Event content is irreversibly destroyed", erasure "removes the stream's
\* snapshot" (StreamEraserService): an erased stream keeps no snapshot.
ErasedContentIsGone ==
    erased /\ eraser = "idle" => snapshot = NoSnapshot
=============================================================================
