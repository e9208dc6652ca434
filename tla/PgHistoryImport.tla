-------------------------- MODULE PgHistoryImport --------------------------
(***************************************************************************)
(* HistoryImporter.importBatch on PostgreSQL, beside the live store.  One  *)
(* call is: the import transaction under EXCLUSIVE table locks, then, in a *)
(* second step outside that transaction, setval on the position sequence.  *)
(* A call may be lost between the two.                                     *)
(*                                                                         *)
(* The frozen source history is a sequence of stream names, its versions   *)
(* counted per stream, cut into batches of BatchLen events.  A resume      *)
(* token names the batch it was returned for; 0 is the absent token.       *)
(***************************************************************************)
EXTENDS PgEventStore, Sequences

CONSTANTS
    Importers,      \* concurrent importBatch calls (a client and its retries)
    History,        \* the source: stream of the event at each global position
    BatchLen,       \* events per batch
    RetryWhenLive   \* whether a batch may be sent again after going live

ASSUME ImportAssumption ==
    /\ History \in Seq(Streams) /\ Len(History) > 0
    /\ BatchLen \in Nat \ {0}
    /\ RetryWhenLive \in BOOLEAN

VARIABLES
    session,        \* row of `history_imports`
    batches,        \* rows of `history_import_batches`
    ipc,            \* where each importBatch call is
    ireq,           \* the batch it was called with
    returned,       \* batches whose call has returned to the operator
    live            \* the operator has enabled the writers

importVars == <<session, batches, ipc, ireq, returned, live>>
allVars == <<vars, importVars>>

\* The shortest source there is, to look at a retry beside live writers.
OneEvent == << CHOOSE s \in Streams : TRUE >>

-----------------------------------------------------------------------------
LastBatch == (Len(History) + BatchLen - 1) \div BatchLen

SourceVersion(p) == Cardinality({q \in 1..p : History[q] = History[p]})

SourceRow(p) == [position |-> p, stream |-> History[p],
                 version |-> SourceVersion(p), erased |-> FALSE]

FirstPosition(b) == (b - 1) * BatchLen + 1
LastPosition(b) == IF b * BatchLen < Len(History) THEN b * BatchLen ELSE Len(History)

BatchRows(b) == {SourceRow(p) : p \in FirstPosition(b)..LastPosition(b)}

MaxPositionOf(rows) == Max({0} \union {e.position : e \in rows})

NoSession == [token |-> 0, last |-> 0, complete |-> FALSE]

\* A transaction holding ROW EXCLUSIVE on `events`.
WritesEvents(w) ==
    \/ written[w] # {}
    \/ pc[w] = "tombstone" /\ req[w].expected > 0

ImportInit ==
    /\ Init
    /\ session = NoSession
    /\ batches = {}
    /\ ipc = [i \in Importers |-> "idle"]
    /\ ireq = [i \in Importers |-> [batch |-> 0, token |-> 0]]
    /\ returned = {}
    /\ live = FALSE

-----------------------------------------------------------------------------
\* The row `history_import_batches` has for this batch, if any.
Recorded(b) == {r \in batches : r.batch = b}

\* Refusals of a batch that is not yet recorded: a target that is not the
\* import's own, a closed import, a token that does not resume it.
Refused(t) ==
    \/ session = NoSession /\ MaxPositionOf(events) > 0
    \/ session = NoSession /\ t # 0
    \/ session # NoSession /\ session.complete
    \/ session # NoSession /\ t # session.token
    \/ session # NoSession /\ MaxPositionOf(events) # session.last

\* Mutant: the batch is not compared with the target's last position.
ContinuesUnchecked(b) == TRUE

\* validateHistoryImportContinuation: positions and versions follow on.
Continues(b) ==
    /\ FirstPosition(b) = MaxPositionOf(events) + 1
    /\ \A e \in BatchRows(b) :
          e.version = CurrentVersion(events, e.stream)
                        + Cardinality({f \in BatchRows(b) :
                              f.stream = e.stream /\ f.position <= e.position})

\* LOCK TABLE ... IN EXCLUSIVE MODE is granted: nobody else writes `events`.
TableFree == ~tableLocked /\ \A w \in Writers : ~WritesEvents(w)

\* A target with an erased stream is refused outright.
ErasedAny == \E s \in Streams : ledger[s] # NotErased

\* The batch was committed before, with this token: the transaction answers
\* "unchanged" and the call goes on to setval all the same.
ImportUnchanged(i, b, t) ==
    /\ ipc[i] = "idle"
    /\ TableFree
    /\ ~ErasedAny
    /\ [batch |-> b, token |-> t] \in batches
    /\ ireq' = [ireq EXCEPT ![i] = [batch |-> b, token |-> t]]
    /\ ipc' = [ipc EXCEPT ![i] = "setval"]
    /\ UNCHANGED <<vars, session, batches, returned, live>>

\* Every check passes under the table lock, which is then held until COMMIT.
\* A batch that fails one of them, or is recorded with another token, ends
\* its transaction with nothing written: no step of this model.
ImportAccepted(i, b, t) ==
    /\ ipc[i] = "idle"
    /\ TableFree
    /\ ~ErasedAny
    /\ Recorded(b) = {}
    /\ ~Refused(t)
    /\ Continues(b)
    /\ ireq' = [ireq EXCEPT ![i] = [batch |-> b, token |-> t]]
    /\ ipc' = [ipc EXCEPT ![i] = "insert"]
    /\ tableLocked' = TRUE
    /\ UNCHANGED <<tableVars, seq, txVars, readerVars, session, batches,
                   returned, live>>

\* The inserts, the session and batch rows, and COMMIT.
ImportCommit(i) ==
    LET b == ireq[i].batch IN
    /\ ipc[i] = "insert"
    /\ events' = events \union BatchRows(b)
    /\ session' = [token |-> b, last |-> LastPosition(b), complete |-> b = LastBatch]
    /\ batches' = batches \union {ireq[i]}
    /\ tableLocked' = FALSE
    /\ ipc' = [ipc EXCEPT ![i] = "setval"]
    /\ UNCHANGED <<ledger, outbox, snapshots, seq, txVars, readerVars, ireq,
                   returned, live>>

\* SELECT setval(sequence, max(position)), on its own, then the call returns.
ImportSetval(i) ==
    /\ ipc[i] = "setval"
    /\ seq' = MaxPositionOf(events)
    /\ ipc' = [ipc EXCEPT ![i] = "idle"]
    /\ returned' = returned \union {ireq[i].batch}
    /\ UNCHANGED <<tableVars, tableLocked, txVars, readerVars, session, batches,
                   ireq, live>>

\* The call dies: its transaction rolls back, or its setval never runs.
ImportLost(i) ==
    /\ ipc[i] # "idle"
    /\ tableLocked' = IF ipc[i] = "insert" THEN FALSE ELSE tableLocked
    /\ ipc' = [ipc EXCEPT ![i] = "idle"]
    /\ UNCHANGED <<tableVars, seq, txVars, readerVars, session, batches, ireq,
                   returned, live>>

\* The operator's procedure: writers start once every batch has returned.
EnableWriters ==
    /\ ~live
    /\ returned = 1..LastBatch
    /\ \A i \in Importers : ipc[i] = "idle"
    /\ live' = TRUE
    /\ UNCHANGED <<vars, session, batches, ipc, ireq, returned>>

ImportNext ==
    \/ \E i \in Importers, b \in 1..LastBatch, t \in 0..LastBatch :
          /\ live => RetryWhenLive
          /\ ImportUnchanged(i, b, t) \/ ImportAccepted(i, b, t)
    \/ \E i \in Importers : ImportCommit(i) \/ ImportSetval(i) \/ ImportLost(i)
    \/ EnableWriters
    \/ live /\ (\E w \in Writers : WriterNext(w)) /\ UNCHANGED importVars
    \/ (\E r \in Readers : Read(r)) /\ UNCHANGED importVars

ImportSpec == ImportInit /\ [][ImportNext]_allVars

-----------------------------------------------------------------------------
\* Batches are atomic, resumable and idempotent: whatever calls were lost,
\* repeated or sent out of order, the target holds exactly the source's rows
\* up to the last committed batch, and a complete import holds all of them.
ImportIsExactPrefix ==
    LET done == {e \in events : e.position <= Len(History)} IN
    /\ {[e EXCEPT !.erased = FALSE] : e \in done} = {SourceRow(p) : p \in 1..session.last}
    /\ session.complete => session.last = Len(History)

\* "A normal append after completion continues from the imported global
\* position": a live append is never handed a position already taken.
LivePositionsAreFree ==
    live => \A e \in events : e.position <= seq

\* HistoryImporter.importBatch: however batches are lost, repeated, reordered or raced, the target
\* holds exactly the source's rows up to the last committed batch, no live append is handed a
\* position already taken, and streams stay gapless.
ImportIsExact == ImportIsExactPrefix /\ LivePositionsAreFree /\ StreamsAreGapless
=============================================================================
