----------------------------- MODULE MCEventLogs -----------------------------
(***************************************************************************)
(* The log and what reads and writes it, a small instance of each part:    *)
(* the history import of the PostgreSQL store, the in-memory and SQLite    *)
(* stores, the Nisshi store and its wire client, aggregates, the event     *)
(* codec in a rolling deployment, and view models.  The parts share no     *)
(* state: `part` says which one a behaviour is about, and the others stay  *)
(* where they start.                                                       *)
(***************************************************************************)
EXTENDS PgHistoryImport, Aggregates, LocalLogs, NisshiLog, NisshiClient, TLC

CONSTANTS s1, s2, c1, c2, c3, p1, opener, r1, r2, Null, Absent

VARIABLES part,
    release, stored, position, applied, halted,
    dialect, feed, table, checkpoint, hydration, crashes

\* Three events of two streams to import, in two batches
SourceHistory == <<s1, s2, s1>>

Frozen(p, s, v) == [position |-> p, stream |-> s, version |-> v, erased |-> FALSE]
FrozenBatches == << <<Frozen(1, s1, 1)>>, <<Frozen(2, s2, 1), Frozen(3, s1, 2)>> >>

\* An append of one event and one of two to one stream
NisshiSizes == [a |-> 1, c |-> 2]

\* Three releases: one event type goes from version 1 to 2 and then to 4, another appears
Entry(v, upcasters) == [version |-> v, upcasters |-> upcasters]
Codec == INSTANCE EventCodec WITH
    Replicas <- {r1, r2}, MaxStored <- 3,
    Releases <- << ("Opened" :> Entry(1, {})),
                   ("Opened" :> Entry(2, {1}) @@ "Closed" :> Entry(1, {})),
                   ("Opened" :> Entry(4, {1, 2, 3}) @@ "Closed" :> Entry(2, {1})) >>

\* A view with a column of each storage class, and events that put, patch and drop its rows
ViewFields == [name |-> [members |-> {"string"}, null |-> FALSE, optional |-> FALSE],
               size |-> [members |-> {"int"}, null |-> TRUE, optional |-> FALSE],
               open |-> [members |-> {"boolean"}, null |-> TRUE, optional |-> TRUE],
               tags |-> [members |-> {"number", "string"}, null |-> FALSE, optional |-> TRUE]]
Str(v) == [type |-> "string", value |-> v]
Num(v) == [type |-> "number", value |-> v]
Flag(v) == [type |-> "boolean", value |-> v]
ViewFeed ==
    { [kind |-> "put", id |-> "a", row |-> [name |-> Str("x"), size |-> Num(0), open |-> Flag(FALSE), tags |-> Num(1)]],
      [kind |-> "put", id |-> "a", row |-> [name |-> Str("y"), size |-> Null, open |-> Null, tags |-> Absent]],
      [kind |-> "put", id |-> "b", row |-> [name |-> Str("x"), size |-> Null, open |-> Absent, tags |-> Str("1")]],
      [kind |-> "patch", id |-> "a", row |-> [open |-> Flag(TRUE), size |-> Absent]],
      [kind |-> "patch", id |-> "a", row |-> [name |-> Str("x"), size |-> Num(1)]],
      [kind |-> "drop", id |-> "a"] }
View == INSTANCE ViewModels WITH
    Fields <- ViewFields, Dialects <- {"sqlite", "pg"}, Feed <- ViewFeed,
    MaxEvents <- 4, BatchSize <- 2, MaxCrashes <- 1

-----------------------------------------------------------------------------
codecVars == <<release, stored, position, applied, halted>>
viewVars == <<dialect, feed, table, checkpoint, hydration, crashes>>

LogsInit ==
    /\ part \in {"import", "local", "nisshi", "wire", "aggregate", "codec", "view"}
    /\ ImportInit /\ LocalInit /\ NisshiInit /\ NisshiClientInit
    /\ AggregateInit /\ Codec!CodecInit /\ View!ViewInit
    /\ part # "local" => backend = "memory"
    /\ part # "aggregate" => adapter = "memory"
    /\ part # "view" => dialect = "pg"

LogsNext ==
    /\ UNCHANGED part
    /\ \/ /\ part = "import" /\ ImportNext
          /\ UNCHANGED <<localVars, nisshiVars, wireVars, aggregateVars, codecVars, viewVars>>
       \/ /\ part = "local" /\ LocalNext
          /\ UNCHANGED <<allVars, nisshiVars, wireVars, aggregateVars, codecVars, viewVars>>
       \/ /\ part = "nisshi" /\ NisshiNext
          /\ UNCHANGED <<allVars, localVars, wireVars, aggregateVars, codecVars, viewVars>>
       \/ /\ part = "wire" /\ NisshiClientNext
          /\ UNCHANGED <<allVars, localVars, nisshiVars, aggregateVars, codecVars, viewVars>>
       \/ /\ part = "aggregate" /\ AggregateNext
          /\ UNCHANGED <<allVars, localVars, nisshiVars, wireVars, codecVars, viewVars>>
       \/ /\ part = "codec" /\ Codec!CodecNext
          /\ UNCHANGED <<allVars, localVars, nisshiVars, wireVars, aggregateVars, viewVars>>
       \/ /\ part = "view" /\ View!ViewNext
          /\ UNCHANGED <<allVars, localVars, nisshiVars, wireVars, aggregateVars, codecVars>>

logsVars == <<part, allVars, localVars, nisshiVars, wireVars, aggregateVars, codecVars, viewVars>>

LogsSpec == LogsInit /\ [][LogsNext]_logsVars

-----------------------------------------------------------------------------
\* In a deployment replica by replica a reader applies every event once, in order, in a shape its
\* release knows, and stands still only on events of a release it does not run yet (codec.ts decode).
ReadAsWritten == part = "codec" => Codec!ReadAsWritten

\* Redelivered batches, crashes and rebuilds leave a table whose decoded rows are the fold of the feed
\* up to the checkpoint (viewmodel hydration.ts, ViewStore.ts).
QueriesFoldTheFeed == part = "view" => View!QueriesFoldTheFeed
=============================================================================
