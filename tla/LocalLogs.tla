----------------------------- MODULE LocalLogs -----------------------------
(***************************************************************************)
(* The two event stores that need no server: the in-memory store           *)
(* (packages/eventsourcing, memory.ts), whose operations run under the lock*)
(* of a SynchronizedRef, and the SQLite store (eventsourcing-sqlite), whose*)
(* transactions begin with a read and find the database BUSY at their first*)
(* write when another process has written since.  Both promise EventLog.   *)
(***************************************************************************)
EXTENDS EventRows, Sequences

CONSTANTS Processes,    \* those that open the database
          MaxEnd, MessageIds,
          Batches,      \* the batches of a frozen history: sequence of sequences of rows
          NoMessage

\* prepareHistoryImportBatch refuses a batch without events
ASSUME LocalAssumption ==
    /\ MaxEnd \in Nat
    /\ Batches \in Seq(Seq(Row))
    /\ \A b \in DOMAIN Batches : Len(Batches[b]) > 0 /\ \A i \in DOMAIN Batches[b] : ~Batches[b][i].erased

VARIABLES backend,      \* "memory" or "sqlite"
          rows, erasureRows, messages,
          imported,     \* batches of the history imported so far
          writers       \* process -> what its transaction has read, or NoTransaction

localVars == <<backend, rows, erasureRows, messages, imported, writers>>

NoTransaction == [op |-> "none"]

LocalInit ==
    /\ backend \in {"memory", "sqlite"}
    /\ rows = {} /\ erasureRows = [s \in Streams |-> NotErased] /\ messages = {} /\ imported = 0
    /\ writers = [w \in Processes |-> NoTransaction]

End == Max({0} \cup {e.position : e \in rows})

\* `count` events for stream s, behind the end of the log and of the stream
NewRows(s, expected, count) ==
    {[position |-> End + i, stream |-> s, version |-> expected + i, erased |-> FALSE] : i \in 1..count}

\* Mutant: an erased stream takes events again.
VersionConflictUnpinned(s, expected) == CurrentVersion(rows, s) /= expected

\* The ledger pins an erased stream; otherwise the versions must agree
VersionConflict(s, expected) == erasureRows[s] /= NotErased \/ CurrentVersion(rows, s) /= expected

-----------------------------------------------------------------------------
(* In memory                                                               *)

\* append: one Ref.modify; a conflict, or no events, changes nothing
MemoryAppend(s, expected, count) ==
    /\ backend = "memory" /\ End + count <= MaxEnd
    /\ ~VersionConflict(s, expected)
    /\ rows' = rows \cup NewRows(s, expected, count)
    /\ UNCHANGED <<backend, erasureRows, messages, imported, writers>>

\* eraseStream under modifyEffect; an erasure that was recorded answers without a change
MemoryErase(s, expected) ==
    /\ backend = "memory"
    /\ ~VersionConflict(s, expected)
    /\ rows' = Tombstoned(rows, s, expected)
    /\ erasureRows' = [erasureRows EXCEPT ![s] = expected]
    /\ UNCHANGED <<backend, messages, imported, writers>>

\* validateHistoryImportContinuation: positions and versions follow the target's
ContinuesLog(batch) ==
    /\ \A i \in DOMAIN batch : batch[i].position = End + i
    /\ \A i \in DOMAIN batch :
          batch[i].version = CurrentVersion(rows \cup {batch[j] : j \in 1..(i - 1)}, batch[i].stream) + 1

\* importBatch: the resume token of batch b names batch b - 1.  A batch that was imported answers
\* "unchanged"; the target must be as the last batch left it, and without erasures
ImportBatch(b) ==
    /\ backend = "memory"
    /\ \A s \in Streams : erasureRows[s] = NotErased
    /\ b = imported + 1
    /\ End = IF b = 1 THEN 0 ELSE Batches[b - 1][Len(Batches[b - 1])].position
    /\ ContinuesLog(Batches[b])
    /\ rows' = rows \cup {Batches[b][i] : i \in DOMAIN Batches[b]}
    /\ imported' = b
    /\ UNCHANGED <<backend, erasureRows, messages, writers>>

-----------------------------------------------------------------------------
(* SQLite                                                                  *)

\* appendTransaction and eraseStream begin: the ledger and the version are read, a conflict ends it
BeginTransaction(w, op, s, expected, count, message) ==
    /\ backend = "sqlite" /\ writers[w] = NoTransaction
    /\ ~VersionConflict(s, expected)
    /\ writers' = [writers EXCEPT ![w] = [op |-> op, stream |-> s, expected |-> expected, count |-> count,
                                          message |-> message, read |-> <<rows, erasureRows, messages>>]]
    /\ UNCHANGED <<backend, rows, erasureRows, messages, imported>>

\* Nobody has committed since: otherwise the first write is refused (BUSY) and the call fails
StillAsRead(w) == writers[w].read = <<rows, erasureRows, messages>>

\* The inserts and the commit.  A message id that exists fails the whole transaction
CommitAppend(w) ==
    /\ writers[w].op = "append" /\ StillAsRead(w) /\ writers[w].message \notin messages
    /\ End + writers[w].count <= MaxEnd
    /\ rows' = rows \cup NewRows(writers[w].stream, writers[w].expected, writers[w].count)
    /\ messages' = messages \cup ({writers[w].message} \ {NoMessage})
    /\ writers' = [writers EXCEPT ![w] = NoTransaction]
    /\ UNCHANGED <<backend, erasureRows, imported>>

\* One UPDATE per version, the snapshot's DELETE, the ledger's INSERT, and the commit
CommitErasure(w) ==
    /\ writers[w].op = "erase" /\ StillAsRead(w)
    /\ rows' = Tombstoned(rows, writers[w].stream, writers[w].expected)
    /\ erasureRows' = [erasureRows EXCEPT ![writers[w].stream] = writers[w].expected]
    /\ writers' = [writers EXCEPT ![w] = NoTransaction]
    /\ UNCHANGED <<backend, messages, imported>>

\* BUSY, a unique violation, a duplicate message, a crash: nothing of the transaction stays
RollBack(w) ==
    /\ writers[w] /= NoTransaction
    /\ writers' = [writers EXCEPT ![w] = NoTransaction]
    /\ UNCHANGED <<backend, rows, erasureRows, messages, imported>>

LocalNext ==
    \/ \E s \in Streams, v \in 0..MaxEnd :
          \/ \E n \in 1..2 : MemoryAppend(s, v, n)
          \/ MemoryErase(s, v)
          \/ \E w \in Processes :
                \/ \E n \in 1..2, m \in MessageIds \cup {NoMessage} : BeginTransaction(w, "append", s, v, n, m)
                \/ BeginTransaction(w, "erase", s, v, 0, NoMessage)
    \/ \E b \in DOMAIN Batches : ImportBatch(b)
    \/ \E w \in Processes : CommitAppend(w) \/ CommitErasure(w) \/ RollBack(w)

-----------------------------------------------------------------------------
(* Properties                                                              *)

LocalSpec == LocalInit /\ [][LocalNext]_localVars

Port == INSTANCE EventLog WITH events <- rows, ledger <- erasureRows, outbox <- messages

\* The in-memory and the SQLite store, imports of a frozen history included, implement the port's
\* promise as the PostgreSQL store does: appends extend the log at its end without a gap, atomically
\* with their messages, and an erased stream is closed for ever.
LocalStoresAreLogs == Port!Spec
=============================================================================
