------------------------- MODULE PgEventStoreProofs -------------------------
(***************************************************************************)
(* Proofs about PgEventStore, for any number of writers, readers, streams  *)
(* and messages and any bounds.                                            *)
(***************************************************************************)
EXTENDS PgEventStore, TLAPS

\* What the two kinds of advisory lock guarantee to the transaction that holds
\* them, its savepoint included.
LockInv ==
    \A w \in Writers :
        /\ pc[w] = "idle" => written[w] = {}
        /\ written[w] # {} => orderLock = w
        /\ pc[w] = "insert" => orderLock = w
        /\ pc[w] \in {"lockOrder", "insert"} => req[w].left > 0
        /\ savepoint[w].rows \subseteq written[w]
        /\ savepoint[w].rows # {} => savepoint[w].order

\* Rows not yet committed lie beyond everything visible, and beyond every
\* reader's cursor.
PositionInv ==
    /\ \A e \in events : e.position <= seq
    /\ \A w \in Writers : \A n \in written[w] :
          /\ n.position <= seq
          /\ \A e \in events : e.position < n.position
          /\ \A r \in Readers : cursor[r] < n.position
    /\ \A r \in Readers : cursor[r] <= seq

IInv == TypeOK /\ LockInv /\ PositionInv /\ NoSkippedEvent

\* A transaction in its first append holds only what it took so far.
HeldInv ==
    \A w \in Writers :
        /\ pc[w] \in {"lockOrder", "insert", "stage"} => req[w].op = "append"
        /\ pc[w] = "open" \/ (pc[w] \in Appending /\ req[w].op = "append") => appends[w] >= 1
        /\ pc[w] = "idle" \/ (appends[w] <= 1 /\ pc[w] = "lockStream") =>
              \A s \in Streams : streamLock[s] # w
        /\ pc[w] = "idle" \/ (appends[w] <= 1 /\ pc[w] \in {"lockStream", "check", "lockOrder"}) =>
              orderLock # w
        /\ pc[w] = "idle" \/ (appends[w] <= 1 /\ pc[w] # "open") => staged[w] = {}

\* A stream's versions are 1, 2, 3, ...
Gapless(rows, s) == \E n \in Nat : VersionsOf(rows, s) = 1..n

\* The rows a transaction has not committed yet continue streams it holds.
RowsInv(w) ==
    /\ \A n \in written[w] :
          /\ streamLock[n.stream] = w
          /\ ledger[n.stream] = NotErased
          /\ ~n.erased
          /\ \A e \in events : e.stream = n.stream => e.version < n.version
    /\ \A n, m \in written[w] : n.position = m.position => n = m
    /\ \A n, m \in written[w] :
          n.stream = m.stream => (n.version < m.version <=> n.position < m.position)
    /\ \A s \in Streams : Gapless(events \union written[w], s)

\* What a rollback to the savepoint leaves behind is as sound.
SavepointInv(w) ==
    /\ \A n \in savepoint[w].rows : n.stream \in savepoint[w].streams
    /\ \A s \in savepoint[w].streams : streamLock[s] = w
    /\ \A s \in Streams : Gapless(events \union savepoint[w].rows, s)

\* What the checks of an append or an erasure found still holds.
CheckedInv(w) ==
    /\ pc[w] \in {"lockStream", "check"} => req[w].next = req[w].expected + 1
    /\ pc[w] \in {"check", "lockOrder", "insert", "tombstone"} =>
          streamLock[req[w].stream] = w
    /\ pc[w] \in {"lockOrder", "insert", "tombstone"} => ledger[req[w].stream] = NotErased
    /\ pc[w] \in {"lockOrder", "insert"} =>
          VersionsOf(events \union written[w], req[w].stream) = 1..(req[w].next - 1)
    /\ pc[w] = "tombstone" => VersionsOf(events, req[w].stream) = 1..req[w].expected

StreamInv ==
    /\ \A s \in Streams : Gapless(events, s)
    /\ \A w \in Writers : RowsInv(w) /\ SavepointInv(w) /\ CheckedInv(w)

-----------------------------------------------------------------------------
\* Ending a transaction keeps the types of everything it touches.
LEMMA EndTransactionType ==
    ASSUME TypeOK, NEW w \in Writers, EndTransaction(w)
    PROVE  /\ streamLock' \in [Streams -> Writers \union {NoOne}]
           /\ orderLock' \in Writers \union {NoOne}
           /\ pc' \in [Writers -> {"idle", "open", "tombstone"} \union Appending]
           /\ req' \in [Writers -> Request \union {NoOne}]
           /\ \A x \in Writers : pc'[x] \notin {"idle", "open"} => req'[x] \in Request
           /\ written' \in [Writers -> SUBSET Row]
           /\ staged' \in [Writers -> SUBSET Messages]
           /\ savepoint' \in [Writers -> Savepoint]
           /\ appends' \in [Writers -> 0..MaxAppends]
  <1>1. NoSavepoint \in Savepoint
    BY DEF NoSavepoint, Savepoint
  <1>2. 0 \in 0..MaxAppends
    BY ConstantsAssumption
  <1> QED
    BY <1>1, <1>2 DEF TypeOK, EndTransaction, ReleaseLocks

\* So does rolling back to a savepoint.
LEMMA FailAppendType ==
    ASSUME TypeOK, NEW w \in Writers, FailAppend(w)
    PROVE  /\ streamLock' \in [Streams -> Writers \union {NoOne}]
           /\ orderLock' \in Writers \union {NoOne}
           /\ pc' \in [Writers -> {"idle", "open", "tombstone"} \union Appending]
           /\ req' \in [Writers -> Request \union {NoOne}]
           /\ \A x \in Writers : pc'[x] \notin {"idle", "open"} => req'[x] \in Request
           /\ written' \in [Writers -> SUBSET Row]
           /\ staged' \in [Writers -> SUBSET Messages]
           /\ savepoint' \in [Writers -> Savepoint]
           /\ appends' \in [Writers -> 0..MaxAppends]
  <1>1. NoSavepoint \in Savepoint
    BY DEF NoSavepoint, Savepoint
  <1>2. savepoint[w].rows \in SUBSET Row
    BY DEF TypeOK, Savepoint
  <1> QED
    BY <1>1, <1>2 DEF TypeOK, FailAppend, ReleaseLocks

\* Tombstones are rows, at the positions and versions the events had.
LEMMA TombstonedRows ==
    ASSUME NEW rows \in SUBSET Row, NEW s, NEW v
    PROVE  /\ Tombstoned(rows, s, v) \subseteq Row
           /\ \A n \in Tombstoned(rows, s, v) : \E e \in rows :
                 e.position = n.position /\ e.stream = n.stream /\ e.version = n.version
           /\ \A e \in rows : \E n \in Tombstoned(rows, s, v) :
                 e.position = n.position /\ e.stream = n.stream /\ e.version = n.version
  <1> DEFINE T(e) == IF e.stream = s /\ e.version <= v
                     THEN [e EXCEPT !.erased = TRUE] ELSE e
  <1>1. \A e \in rows : /\ T(e) \in Row
                        /\ e.position = T(e).position
                        /\ e.stream = T(e).stream
                        /\ e.version = T(e).version
    BY DEF Row
  <1>2. Tombstoned(rows, s, v) = {T(e) : e \in rows}
    BY DEF Tombstoned
  <1> HIDE DEF T
  <1> QED
    BY <1>1, <1>2

LEMMA InitInv == Init => IInv
  <1> SUFFICES ASSUME Init PROVE IInv
    OBVIOUS
  <1>1. NoSavepoint \in Savepoint
    BY DEF NoSavepoint, Savepoint
  <1>2. TypeOK
    <2>1. ledger \in [Streams -> Nat \union {NotErased}]
      BY DEF Init
    <2>2. 0 \in 0..MaxPosition /\ 0 \in 0..MaxAppends
      BY ConstantsAssumption
    <2>3. pc \in [Writers -> {"idle", "open", "tombstone"} \union Appending]
      BY DEF Init
    <2> QED
      BY <1>1, <2>1, <2>2, <2>3 DEF Init, TypeOK
  <1>3. LockInv /\ PositionInv /\ NoSkippedEvent
    BY DEF Init, LockInv, PositionInv, NoSkippedEvent, NoSavepoint
  <1> QED
    BY <1>2, <1>3 DEF IInv

-----------------------------------------------------------------------------
\* Every step keeps the types.
LEMMA TypeStep ==
    ASSUME TypeOK, LockInv, [Next]_vars
    PROVE  TypeOK'
  <1> USE DEF txVars, tableVars, readerVars
  <1>1. ASSUME NEW w \in Writers, NEW s \in Streams, NEW v \in 0..MaxPosition,
               NEW n \in 0..MaxEvents, NEW m \in Messages \union {NoOne},
               StartAppend(w, s, v, n, m)
        PROVE  TypeOK'
    <2>1. [op |-> "append", stream |-> s, expected |-> v, left |-> n,
           next |-> v + 1, message |-> m] \in Request
      BY DEF Request
    <2>2. [rows |-> written[w], streams |-> {t \in Streams : streamLock[t] = w},
           order |-> orderLock = w] \in Savepoint
      BY DEF TypeOK, Savepoint
    <2>3. appends[w] + 1 \in 0..MaxAppends
      BY <1>1, ConstantsAssumption DEF TypeOK, StartAppend
    <2> QED
      BY <1>1, <2>1, <2>2, <2>3 DEF TypeOK, StartAppend, Appending
  <1>2. ASSUME NEW w \in Writers, NEW s \in Streams, NEW v \in 0..MaxPosition,
               StartErase(w, s, v)
        PROVE  TypeOK'
    <2>1. [op |-> "erase", stream |-> s, expected |-> v, left |-> 0,
           next |-> v + 1, message |-> NoOne] \in Request
      BY ConstantsAssumption DEF Request
    <2> QED
      BY <1>2, <2>1 DEF TypeOK, StartErase, Appending
  <1>3. ASSUME NEW w \in Writers, LockStream(w)
        PROVE  TypeOK'
    BY <1>3 DEF TypeOK, LockStream, Appending, Request
  <1>4. ASSUME NEW w \in Writers, CheckAppend(w)
        PROVE  TypeOK'
    <2>1. CASE FailAppend(w)
      BY <1>4, <2>1, FailAppendType DEF TypeOK, CheckAppend
    <2>2. CASE ~FailAppend(w)
      BY <1>4, <2>2 DEF TypeOK, CheckAppend, Appending
    <2> QED
      BY <2>1, <2>2
  <1>5. ASSUME NEW w \in Writers, LockOrder(w)
        PROVE  TypeOK'
    BY <1>5 DEF TypeOK, LockOrder, Appending
  <1>6. ASSUME NEW w \in Writers, InsertEvent(w)
        PROVE  TypeOK'
    <2>1. seq' \in 0..MaxPosition
      BY <1>6, ConstantsAssumption DEF TypeOK, InsertEvent
    <2>2. CASE FailAppend(w)
      BY <1>6, <2>1, <2>2, FailAppendType DEF TypeOK, InsertEvent
    <2>3. CASE ~FailAppend(w)
      <3>1. req[w] \in Request /\ req[w].left > 0
        BY <1>6 DEF TypeOK, InsertEvent, LockInv
      <3>2. [req[w] EXCEPT !.left = @ - 1, !.next = @ + 1] \in Request
        <4>1. req[w].left - 1 \in 0..MaxEvents /\ req[w].next + 1 \in Nat \ {0}
          BY <3>1, ConstantsAssumption DEF Request
        <4>2. \A q \in Request, a \in 0..MaxEvents, b \in Nat \ {0} :
                 [q EXCEPT !.left = a, !.next = b] \in Request
          BY DEF Request
        <4> QED
          BY <3>1, <4>1, <4>2
      <3>3. NewRow(w) \in Row
        BY <3>1 DEF NewRow, Row, Request, TypeOK
      <3>4. req' = [req EXCEPT ![w] = [req[w] EXCEPT !.left = @ - 1, !.next = @ + 1]]
        BY <1>6, <2>3 DEF InsertEvent, TypeOK
      <3>5. req' \in [Writers -> Request \union {NoOne}]
        BY <3>2, <3>4 DEF TypeOK
      <3>6. pc' = [pc EXCEPT ![w] = IF req[w].left = 1 THEN "stage" ELSE "insert"]
        BY <1>6, <2>3 DEF InsertEvent
      <3>7. \A x \in Writers : pc'[x] \notin {"idle", "open"} => req'[x] \in Request
        BY <3>2, <3>4, <3>6 DEF TypeOK
      <3>8. pc' \in [Writers -> {"idle", "open", "tombstone"} \union Appending]
        BY <3>6 DEF TypeOK, Appending
      <3> QED
        BY <1>6, <2>1, <2>3, <3>3, <3>5, <3>7, <3>8 DEF TypeOK, InsertEvent
    <2> QED
      BY <2>2, <2>3
  <1>7. ASSUME NEW w \in Writers, StageMessages(w)
        PROVE  TypeOK'
    <2>1. CASE FailAppend(w)
      BY <1>7, <2>1, FailAppendType DEF TypeOK, StageMessages
    <2>2. CASE ~FailAppend(w)
      <3>1. NoSavepoint \in Savepoint
        BY DEF NoSavepoint, Savepoint
      <3>2. {req[w].message} \ {NoOne} \subseteq Messages
        BY <1>7 DEF TypeOK, StageMessages, Request
      <3> QED
        BY <1>7, <2>2, <3>1, <3>2 DEF TypeOK, StageMessages
    <2> QED
      BY <2>1, <2>2
  <1>8. ASSUME NEW w \in Writers, SqlFailure(w)
        PROVE  TypeOK'
    BY <1>8, FailAppendType DEF TypeOK, SqlFailure
  <1>9. ASSUME NEW w \in Writers, CheckErase(w)
        PROVE  TypeOK'
    <2>1. CASE EndTransaction(w)
      BY <1>9, <2>1, EndTransactionType DEF TypeOK, CheckErase
    <2>2. CASE ~EndTransaction(w)
      BY <1>9, <2>2 DEF TypeOK, CheckErase
    <2> QED
      BY <2>1, <2>2
  <1>10. ASSUME NEW w \in Writers, CommitErase(w)
         PROVE  TypeOK'
    <2>1. req[w] \in Request
      BY <1>10 DEF TypeOK, CommitErase
    <2>2. events' \subseteq Row
      BY <1>10, TombstonedRows DEF TypeOK, CommitErase
    <2>3. ledger' \in [Streams -> Nat \union {NotErased}]
      BY <1>10, <2>1 DEF TypeOK, CommitErase, Request
    <2> QED
      BY <1>10, <2>2, <2>3, EndTransactionType DEF TypeOK, CommitErase
  <1>11. ASSUME NEW w \in Writers, Commit(w)
         PROVE  TypeOK'
    BY <1>11, EndTransactionType DEF TypeOK, Commit
  <1>12. ASSUME NEW w \in Writers, Rollback(w)
         PROVE  TypeOK'
    BY <1>12, EndTransactionType DEF TypeOK, Rollback
  <1>13. ASSUME NEW s \in Streams, SaveSnapshot(s)
         PROVE  TypeOK'
    BY <1>13 DEF TypeOK, SaveSnapshot
  <1>14. ASSUME NEW r \in Readers, Read(r)
         PROVE  TypeOK'
    <2>1. PICK batch \in SUBSET events, last \in events :
             /\ last \in batch
             /\ cursor' = [cursor EXCEPT ![r] = last.position]
             /\ delivered' = [delivered EXCEPT ![r] = @ \union {e.position : e \in batch}]
             /\ UNCHANGED <<tableVars, seq, tableLocked, txVars>>
      BY <1>14 DEF Read
    <2>2. last.position \in Nat /\ {e.position : e \in batch} \subseteq Nat
      BY DEF TypeOK, Row
    <2> QED
      BY <2>1, <2>2 DEF TypeOK
  <1>15. CASE UNCHANGED vars
    BY <1>15 DEF TypeOK, vars
  <1> QED
    BY <1>1, <1>2, <1>3, <1>4, <1>5, <1>6, <1>7, <1>8, <1>9, <1>10, <1>11,
       <1>12, <1>13, <1>14, <1>15 DEF Next, WriterNext

-----------------------------------------------------------------------------
\* What EndTransaction and FailAppend leave to the other transactions.
LEMMA EndTransactionLocks ==
    ASSUME TypeOK, LockInv, NEW w \in Writers, EndTransaction(w)
    PROVE  LockInv'
  BY ConstantsAssumption
  DEF TypeOK, LockInv, EndTransaction, ReleaseLocks, NoSavepoint

LEMMA FailAppendLocks ==
    ASSUME TypeOK, LockInv, NEW w \in Writers, FailAppend(w)
    PROVE  LockInv'
  BY ConstantsAssumption
  DEF TypeOK, LockInv, FailAppend, ReleaseLocks, NoSavepoint

\* Every step keeps the commit-order lock with whoever wrote rows.
LEMMA LockStep ==
    ASSUME TypeOK, LockInv, [Next]_vars
    PROVE  LockInv'
  <1> USE DEF txVars, tableVars, readerVars
  <1>1. ASSUME NEW w \in Writers, NEW s \in Streams, NEW v \in 0..MaxPosition,
               NEW n \in 0..MaxEvents, NEW m \in Messages \union {NoOne},
               StartAppend(w, s, v, n, m)
        PROVE  LockInv'
    BY <1>1 DEF TypeOK, LockInv, StartAppend
  <1>2. ASSUME NEW w \in Writers, NEW s \in Streams, NEW v \in 0..MaxPosition,
               StartErase(w, s, v)
        PROVE  LockInv'
    BY <1>2 DEF TypeOK, LockInv, StartErase
  <1>3. ASSUME NEW w \in Writers, LockStream(w)
        PROVE  LockInv'
    BY <1>3 DEF TypeOK, LockInv, LockStream
  <1>4. ASSUME NEW w \in Writers, CheckAppend(w)
        PROVE  LockInv'
    <2>1. CASE FailAppend(w)
      BY <2>1, FailAppendLocks
    <2>2. CASE ~FailAppend(w)
      BY <1>4, <2>2 DEF TypeOK, LockInv, CheckAppend
    <2> QED
      BY <2>1, <2>2
  <1>5. ASSUME NEW w \in Writers, LockOrder(w)
        PROVE  LockInv'
    BY <1>5, ConstantsAssumption DEF TypeOK, LockInv, LockOrder
  <1>6. ASSUME NEW w \in Writers, InsertEvent(w)
        PROVE  LockInv'
    <2>1. CASE FailAppend(w)
      BY <2>1, FailAppendLocks
    <2>2. CASE ~FailAppend(w)
      <3>1. req[w] \in Request /\ req[w].left > 0
        BY <1>6 DEF TypeOK, InsertEvent, LockInv
      <3>2. req'[w].left = req[w].left - 1
        BY <1>6, <2>2, <3>1 DEF InsertEvent, TypeOK, Request
      <3>3. pc'[w] = "insert" => req'[w].left > 0
        BY <1>6, <2>2, <3>1, <3>2, ConstantsAssumption DEF InsertEvent, TypeOK, Request
      <3>4. pc'[w] \in {"insert", "stage"}
        BY <1>6, <2>2 DEF InsertEvent, TypeOK
      <3>5. \A x \in Writers \ {w} : pc'[x] = pc[x] /\ req'[x] = req[x]
                                    /\ written'[x] = written[x]
        BY <1>6, <2>2 DEF InsertEvent, TypeOK
      <3>6. written[w] \subseteq written'[w] /\ orderLock' = orderLock
             /\ savepoint' = savepoint /\ orderLock = w
        BY <1>6, <2>2 DEF InsertEvent, TypeOK, LockInv
      <3> QED
        BY <3>3, <3>4, <3>5, <3>6 DEF LockInv
    <2> QED
      BY <2>1, <2>2
  <1>7. ASSUME NEW w \in Writers, StageMessages(w)
        PROVE  LockInv'
    <2>1. CASE FailAppend(w)
      BY <2>1, FailAppendLocks
    <2>2. CASE ~FailAppend(w)
      BY <1>7, <2>2 DEF TypeOK, LockInv, StageMessages, NoSavepoint
    <2> QED
      BY <2>1, <2>2
  <1>8. ASSUME NEW w \in Writers, SqlFailure(w)
        PROVE  LockInv'
    BY <1>8, FailAppendLocks DEF SqlFailure
  <1>9. ASSUME NEW w \in Writers, CheckErase(w)
        PROVE  LockInv'
    <2>1. CASE EndTransaction(w)
      BY <2>1, EndTransactionLocks
    <2>2. CASE ~EndTransaction(w)
      BY <1>9, <2>2 DEF TypeOK, LockInv, CheckErase
    <2> QED
      BY <2>1, <2>2
  <1>10. ASSUME NEW w \in Writers, CommitErase(w) \/ Commit(w) \/ Rollback(w)
         PROVE  LockInv'
    BY <1>10, EndTransactionLocks DEF CommitErase, Commit, Rollback
  <1>11. ASSUME NEW s \in Streams, SaveSnapshot(s)
         PROVE  LockInv'
    BY <1>11 DEF LockInv, SaveSnapshot
  <1>12. ASSUME NEW r \in Readers, Read(r)
         PROVE  LockInv'
    <2>1. UNCHANGED txVars
      BY <1>12 DEF Read
    <2> QED
      BY <2>1 DEF LockInv
  <1>13. CASE UNCHANGED vars
    BY <1>13 DEF LockInv, vars
  <1> QED
    BY <1>1, <1>2, <1>3, <1>4, <1>5, <1>6, <1>7, <1>8, <1>9, <1>10, <1>11,
       <1>12, <1>13 DEF Next, WriterNext

-----------------------------------------------------------------------------
\* A step that publishes nothing, writes no row and moves no reader: the
\* sequence may advance, uncommitted rows may be thrown away.
Quiet ==
    /\ UNCHANGED <<events, cursor, delivered>>
    /\ seq' \in Nat /\ seq <= seq'
    /\ \A x \in Writers : written'[x] \subseteq written[x]

LEMMA QuietStep ==
    ASSUME IInv, Quiet
    PROVE  PositionInv' /\ NoSkippedEvent'
  <1>1. \A e \in events : e.position \in Nat
    BY DEF IInv, TypeOK, Row
  <1>2. \A x \in Writers : \A n \in written[x] : n.position \in Nat
    BY DEF IInv, TypeOK, Row
  <1>3. seq \in Nat /\ \A r \in Readers : cursor[r] \in Nat
    BY DEF IInv, TypeOK
  <1> QED
    BY <1>1, <1>2, <1>3 DEF IInv, PositionInv, NoSkippedEvent, Quiet

\* The steps that are quiet.
LEMMA QuietActions ==
    ASSUME IInv, [Next]_vars
    PROVE  \/ Quiet
           \/ \E w \in Writers : InsertEvent(w) /\ ~FailAppend(w)
           \/ \E w \in Writers : Commit(w) \/ CommitErase(w)
           \/ \E r \in Readers : Read(r)
  <1> USE DEF txVars, tableVars, readerVars
  <1>1. \A w \in Writers : FailAppend(w) => \A x \in Writers : written'[x] \subseteq written[x]
    BY DEF IInv, TypeOK, LockInv, FailAppend
  <1>2. \A w \in Writers : EndTransaction(w) => \A x \in Writers : written'[x] \subseteq written[x]
    BY DEF IInv, TypeOK, EndTransaction
  <1>3. seq \in Nat
    BY DEF IInv, TypeOK
  <1>4. ASSUME NEW w \in Writers, NEW s \in Streams, NEW v \in 0..MaxPosition,
               NEW n \in 0..MaxEvents, NEW m \in Messages \union {NoOne},
               StartAppend(w, s, v, n, m) \/ StartErase(w, s, v)
        PROVE  Quiet
    BY <1>3, <1>4 DEF Quiet, StartAppend, StartErase
  <1>5. ASSUME NEW w \in Writers,
               \/ LockStream(w) \/ CheckAppend(w) \/ LockOrder(w)
               \/ InsertEvent(w) /\ FailAppend(w)
               \/ SqlFailure(w) \/ CheckErase(w) \/ Rollback(w)
        PROVE  Quiet
    <2>1. CASE LockStream(w) \/ LockOrder(w)
      BY <1>3, <2>1 DEF Quiet, LockStream, LockOrder
    <2>2. CASE CheckAppend(w)
      BY <1>1, <1>3, <2>2 DEF Quiet, CheckAppend
    <2>3. CASE InsertEvent(w) /\ FailAppend(w)
      BY <1>1, <1>3, <2>3 DEF Quiet, InsertEvent
    <2>4. CASE SqlFailure(w)
      BY <1>1, <1>3, <2>4 DEF Quiet, SqlFailure
    <2>5. CASE CheckErase(w)
      BY <1>2, <1>3, <2>5 DEF Quiet, CheckErase
    <2>6. CASE Rollback(w)
      BY <1>2, <1>3, <2>6 DEF Quiet, Rollback
    <2> QED
      BY <1>5, <2>1, <2>2, <2>3, <2>4, <2>5, <2>6
  <1>6. ASSUME NEW w \in Writers, StageMessages(w)
        PROVE  Quiet
    BY <1>1, <1>3, <1>6 DEF Quiet, StageMessages
  <1>7. ASSUME NEW s \in Streams, SaveSnapshot(s)
        PROVE  Quiet
    BY <1>3, <1>7 DEF Quiet, SaveSnapshot
  <1>8. CASE UNCHANGED vars
    BY <1>3, <1>8 DEF Quiet, vars
  <1>9. ASSUME NEW w \in Writers, NEW s \in Streams, NEW v \in 0..MaxPosition,
               StartErase(w, s, v)
        PROVE  Quiet
    BY <1>3, <1>9 DEF Quiet, StartErase
  <1> QED
    BY <1>4, <1>5, <1>6, <1>7, <1>8, <1>9 DEF Next, WriterNext

\* Whoever commits rows is the only one that has any.
LEMMA OneWriterHasRows ==
    ASSUME LockInv, NEW w \in Writers, NEW x \in Writers,
           written[w] # {}, written[x] # {}
    PROVE  w = x
  BY DEF LockInv

LEMMA PositionStep ==
    ASSUME IInv, [Next]_vars
    PROVE  PositionInv' /\ NoSkippedEvent'
  <1> USE DEF txVars, tableVars, readerVars
  <1>1. \A e \in events : e \in Row /\ e.position \in Nat
    BY DEF IInv, TypeOK, Row
  <1>2. \A x \in Writers : \A n \in written[x] : n \in Row /\ n.position \in Nat
    BY DEF IInv, TypeOK, Row
  <1>3. seq \in Nat /\ \A r \in Readers : cursor[r] \in Nat
    BY DEF IInv, TypeOK
  <1>4. CASE Quiet
    BY <1>4, QuietStep
  <1>5. ASSUME NEW w \in Writers, InsertEvent(w), ~FailAppend(w)
        PROVE  PositionInv' /\ NoSkippedEvent'
    <2>1. /\ seq' = seq + 1
          /\ written' = [written EXCEPT ![w] = @ \union {NewRow(w)}]
          /\ UNCHANGED <<events, cursor, delivered>>
      BY <1>5, <1>3 DEF InsertEvent
    <2>2. NewRow(w).position = seq + 1
      BY DEF NewRow
    <2>3. NoSkippedEvent'
      BY <2>1 DEF IInv, NoSkippedEvent
    <2>4. \A x \in Writers : \A n \in written'[x] : n \in written[x] \/ n = NewRow(w)
      BY <2>1 DEF IInv, TypeOK
    <2> QED
      BY <1>1, <1>2, <1>3, <2>1, <2>2, <2>3, <2>4 DEF IInv, PositionInv
  <1>6. ASSUME NEW w \in Writers, Commit(w)
        PROVE  PositionInv' /\ NoSkippedEvent'
    <2>1. /\ events' = events \union written[w]
          /\ UNCHANGED <<seq, cursor, delivered>>
          /\ written' = [written EXCEPT ![w] = {}]
      BY <1>6 DEF Commit, EndTransaction
    <2>2. \A x \in Writers : written[w] # {} => written'[x] = {}
      BY <2>1, OneWriterHasRows DEF IInv, TypeOK
    <2>3. \A x \in Writers : written'[x] \subseteq written[x]
      BY <2>1 DEF IInv, TypeOK
    <2>4. PositionInv'
      <3>1. \A e \in events' : e.position <= seq'
        BY <2>1 DEF IInv, PositionInv
      <3>2. \A x \in Writers : \A n \in written'[x] : events' = events
        BY <2>1, <2>2
      <3> QED
        BY <2>1, <2>3, <3>1, <3>2 DEF IInv, PositionInv
    <2>5. NoSkippedEvent'
      BY <1>1, <1>2, <1>3, <2>1 DEF IInv, PositionInv, NoSkippedEvent
    <2> QED
      BY <2>4, <2>5
  <1>7. ASSUME NEW w \in Writers, CommitErase(w)
        PROVE  PositionInv' /\ NoSkippedEvent'
    <2>1. /\ events' = Tombstoned(events, req[w].stream, req[w].expected)
          /\ UNCHANGED <<seq, cursor, delivered>>
          /\ \A x \in Writers : written'[x] \subseteq written[x]
      BY <1>7 DEF CommitErase, EndTransaction, IInv, TypeOK
    <2>2. \A n \in events' : \E e \in events : e.position = n.position
      BY <2>1, TombstonedRows DEF IInv, TypeOK
    <2> QED
      BY <2>1, <2>2 DEF IInv, PositionInv, NoSkippedEvent
  <1>8. ASSUME NEW r \in Readers, Read(r)
        PROVE  PositionInv' /\ NoSkippedEvent'
    <2> DEFINE later == {e \in events : e.position > cursor[r]}
    <2>1. PICK batch \in SUBSET later, last \in later :
             /\ last \in batch
             /\ \A e \in batch, f \in later \ batch : e.position < f.position
             /\ \A e \in batch : e.position <= last.position
             /\ cursor' = [cursor EXCEPT ![r] = last.position]
             /\ delivered' = [delivered EXCEPT ![r] = @ \union {e.position : e \in batch}]
             /\ UNCHANGED <<events, seq, written>>
      BY <1>8 DEF Read
    <2>2. PositionInv'
      BY <2>1, <1>1, <1>2, <1>3 DEF IInv, PositionInv, TypeOK
    <2>3. ASSUME NEW e \in events, e.position <= last.position
          PROVE  e.position \in delivered'[r]
      <3>1. CASE e.position <= cursor[r]
        BY <2>1, <3>1 DEF IInv, NoSkippedEvent, TypeOK
      <3>2. CASE e.position > cursor[r]
        BY <1>1, <2>1, <2>3, <3>2 DEF IInv, TypeOK
      <3> QED
        BY <1>1, <1>3, <3>1, <3>2
    <2>4. NoSkippedEvent'
      BY <2>1, <2>3 DEF IInv, NoSkippedEvent, TypeOK
    <2> QED
      BY <2>2, <2>4
  <1> QED
    BY <1>4, <1>5, <1>6, <1>7, <1>8, QuietActions

\* IInv is inductive.
LEMMA StepInv ==
    ASSUME IInv, [Next]_vars
    PROVE  IInv'
  BY TypeStep, LockStep, PositionStep DEF IInv

LEMMA Invariance == Spec => []IInv
  BY InitInv, StepInv, PTL DEF Spec

\* The variables of the PostgreSQL event store keep their types.
THEOREM TypeCorrect == Spec => []TypeOK
  <1>1. IInv => TypeOK
    BY DEF IInv
  <1> QED
    BY <1>1, Invariance, PTL

\* The feed's promise (EventStoreService.readAll), for every number of racing
\* writers, units of work, failures and erasures: a consumer that checkpoints
\* at the last position it saw never loses an event committed later.
THEOREM FeedIsComplete == Spec => []NoSkippedEvent
  <1>1. IInv => NoSkippedEvent
    BY DEF IInv
  <1> QED
    BY <1>1, Invariance, PTL

\* serializeCommitOrder does what its comment says: every commit lands beyond
\* all positions visible before it.
THEOREM CommitOrder == Spec => CommitsInPositionOrder
  <1> DEFINE InOrder == \A e \in events, n \in events' :
                (\A f \in events : f.position # n.position) => e.position < n.position
  <1>1. ASSUME IInv, [Next]_vars
        PROVE  [InOrder]_events
    <2>1. CASE events' = events
      BY <2>1
    <2>2. ASSUME NEW w \in Writers, Commit(w)
          PROVE  InOrder
      BY <1>1, <2>2 DEF Commit, IInv, PositionInv
    <2>3. ASSUME NEW w \in Writers, CommitErase(w)
          PROVE  InOrder
      BY <1>1, <2>3, TombstonedRows DEF CommitErase, IInv, TypeOK
    <2>4. ASSUME NEW w \in Writers, InsertEvent(w)
          PROVE  events' = events
      BY <2>4 DEF InsertEvent, tableVars
    <2>5. ASSUME NEW r \in Readers, Read(r)
          PROVE  events' = events
      BY <2>5 DEF Read, tableVars
    <2>6. Quiet => events' = events
      BY DEF Quiet
    <2> QED
      BY <1>1, <2>1, <2>2, <2>3, <2>4, <2>5, <2>6, QuietActions
  <1> QED
    BY <1>1, Invariance, PTL DEF Spec, CommitsInPositionOrder

-----------------------------------------------------------------------------
\* A transaction that ends, or rolls back to a savepoint, holds no more than
\* before, and the others hold what they held.
LEMMA EndTransactionHeld ==
    ASSUME TypeOK, HeldInv, NEW w \in Writers, EndTransaction(w)
    PROVE  HeldInv'
  <1>1. /\ pc'[w] = "idle" /\ staged'[w] = {} /\ orderLock' # w
        /\ \A s \in Streams : streamLock'[s] # w
    BY ConstantsAssumption DEF TypeOK, EndTransaction, ReleaseLocks
  <1>2. ASSUME NEW x \in Writers \ {w}
        PROVE  /\ pc'[x] = pc[x] /\ req'[x] = req[x] /\ staged'[x] = staged[x]
               /\ appends'[x] = appends[x]
               /\ orderLock' = x => orderLock = x
               /\ \A s \in Streams : streamLock'[s] = x => streamLock[s] = x
    BY ConstantsAssumption DEF TypeOK, EndTransaction, ReleaseLocks
  <1>3. "idle" \notin Appending
    BY DEF Appending
  <1> QED
    BY <1>1, <1>2, <1>3 DEF HeldInv

LEMMA FailAppendHeld ==
    ASSUME TypeOK, HeldInv, NEW w \in Writers, FailAppend(w), appends[w] >= 1
    PROVE  HeldInv'
  BY ConstantsAssumption DEF TypeOK, HeldInv, FailAppend, ReleaseLocks

\* Every step keeps the order in which an append takes its locks.
LEMMA HeldStep ==
    ASSUME TypeOK, HeldInv, [Next]_vars
    PROVE  HeldInv'
  <1> USE DEF txVars, tableVars, readerVars
  <1>1. ASSUME NEW w \in Writers, NEW s \in Streams, NEW v \in 0..MaxPosition,
               NEW n \in 0..MaxEvents, NEW m \in Messages \union {NoOne},
               StartAppend(w, s, v, n, m)
        PROVE  HeldInv'
    BY <1>1, ConstantsAssumption DEF TypeOK, HeldInv, StartAppend, Appending
  <1>2. ASSUME NEW w \in Writers, NEW s \in Streams, NEW v \in 0..MaxPosition,
               StartErase(w, s, v)
        PROVE  HeldInv'
    BY <1>2 DEF TypeOK, HeldInv, StartErase, Appending
  <1>3. ASSUME NEW w \in Writers, LockStream(w)
        PROVE  HeldInv'
    BY <1>3, ConstantsAssumption DEF TypeOK, HeldInv, LockStream, Appending
  <1>4. ASSUME NEW w \in Writers, CheckAppend(w)
        PROVE  HeldInv'
    <2>1. CASE FailAppend(w)
      BY <1>4, <2>1, FailAppendHeld DEF HeldInv, CheckAppend, Appending
    <2>2. CASE ~FailAppend(w)
      BY <1>4, <2>2 DEF TypeOK, HeldInv, CheckAppend, Appending
    <2> QED
      BY <2>1, <2>2
  <1>5. ASSUME NEW w \in Writers, LockOrder(w)
        PROVE  HeldInv'
    BY <1>5, ConstantsAssumption DEF TypeOK, HeldInv, LockOrder, Appending
  <1>6. ASSUME NEW w \in Writers, InsertEvent(w)
        PROVE  HeldInv'
    <2>1. CASE FailAppend(w)
      BY <1>6, <2>1, FailAppendHeld DEF HeldInv, InsertEvent, Appending
    <2>2. CASE ~FailAppend(w)
      <3>1. /\ pc' = [pc EXCEPT ![w] = IF req[w].left = 1 THEN "stage" ELSE "insert"]
            /\ UNCHANGED <<streamLock, orderLock, staged, appends>>
        BY <1>6, <2>2 DEF InsertEvent
      <3>2. \A x \in Writers : req'[x].op = req[x].op
        <4>1. req' = [req EXCEPT ![w] = [req[w] EXCEPT !.left = @ - 1, !.next = @ + 1]]
          BY <1>6, <2>2 DEF InsertEvent, TypeOK
        <4>2. req[w] \in Request
          BY <1>6 DEF InsertEvent, TypeOK
        <4> QED
          BY <4>1, <4>2 DEF TypeOK, Request
      <3> QED
        BY <1>6, <3>1, <3>2 DEF TypeOK, HeldInv, InsertEvent, Appending
    <2> QED
      BY <2>1, <2>2
  <1>7. ASSUME NEW w \in Writers, StageMessages(w)
        PROVE  HeldInv'
    <2>1. CASE FailAppend(w)
      BY <1>7, <2>1, FailAppendHeld DEF HeldInv, StageMessages, Appending
    <2>2. CASE ~FailAppend(w)
      BY <1>7, <2>2 DEF TypeOK, HeldInv, StageMessages, Appending
    <2> QED
      BY <2>1, <2>2
  <1>8. ASSUME NEW w \in Writers, SqlFailure(w)
        PROVE  HeldInv'
    BY <1>8, FailAppendHeld DEF HeldInv, SqlFailure
  <1>9. ASSUME NEW w \in Writers, CheckErase(w)
        PROVE  HeldInv'
    <2>1. CASE EndTransaction(w)
      BY <2>1, EndTransactionHeld
    <2>2. CASE ~EndTransaction(w)
      BY <1>9, <2>2 DEF TypeOK, HeldInv, CheckErase, Appending
    <2> QED
      BY <2>1, <2>2
  <1>10. ASSUME NEW w \in Writers, CommitErase(w) \/ Commit(w) \/ Rollback(w)
         PROVE  HeldInv'
    BY <1>10, EndTransactionHeld DEF CommitErase, Commit, Rollback
  <1>11. CASE UNCHANGED txVars
    BY <1>11 DEF HeldInv
  <1>12. (\E s \in Streams : SaveSnapshot(s)) \/ (\E r \in Readers : Read(r))
            \/ UNCHANGED vars => UNCHANGED txVars
    BY DEF SaveSnapshot, Read, vars
  <1> QED
    BY <1>1, <1>2, <1>3, <1>4, <1>5, <1>6, <1>7, <1>8, <1>9, <1>10, <1>11,
       <1>12 DEF Next, WriterNext

LEMMA HeldInvariance == Spec => []HeldInv
  <1>1. Init => HeldInv
    BY ConstantsAssumption DEF Init, HeldInv, Appending
  <1>2. IInv => TypeOK
    BY DEF IInv
  <1> QED
    BY <1>1, <1>2, HeldStep, Invariance, PTL DEF Spec

\* Single appends and erasures never deadlock, however many sessions race:
\* the stream lock, the commit-order lock and the message ids are taken in
\* that order (appendTransaction, eraseStream).
THEOREM LocksAreOrdered == Spec => []NoLockCycle
  <1>1. ASSUME TypeOK, HeldInv
        PROVE  NoLockCycle
    <2> SUFFICES ASSUME NEW waiting \in SUBSET {w \in Writers : appends[w] <= 1},
                        \A w \in waiting : \E x \in waiting : WaitsFor(w, x)
                 PROVE  waiting = {}
      BY DEF NoLockCycle
    <2>1. \A w \in waiting : w \in Writers /\ appends[w] <= 1
                             /\ pc[w] \in {"lockStream", "lockOrder", "stage"}
      BY DEF WaitsFor
    <2>2. \A w \in waiting : staged[w] = {}
      BY <1>1, <2>1 DEF HeldInv
    <2>3. \A w \in waiting : pc[w] # "stage"
      BY <2>2 DEF WaitsFor
    <2>4. \A w \in waiting : orderLock # w
      BY <1>1, <2>1, <2>3 DEF HeldInv
    <2>5. \A w \in waiting : pc[w] = "lockStream"
      BY <2>1, <2>3, <2>4 DEF WaitsFor
    <2>6. \A w \in waiting : \A s \in Streams : streamLock[s] # w
      BY <1>1, <2>1, <2>5 DEF HeldInv
    <2>7. \A w \in waiting : req[w].stream \in Streams
      BY <1>1, <2>1, <2>5 DEF TypeOK, Request
    <2> QED
      BY <2>3, <2>4, <2>5, <2>6, <2>7 DEF WaitsFor
  <1>2. IInv => TypeOK
    BY DEF IInv
  <1> QED
    BY <1>1, <1>2, Invariance, HeldInvariance, PTL

-----------------------------------------------------------------------------
\* The version arithmetic of streams.
LEMMA GaplessCurrent ==
    ASSUME NEW rows, NEW s, NEW n \in Nat, VersionsOf(rows, s) = 1..n
    PROVE  CurrentVersion(rows, s) = n
  <1>1. n \in 0..n /\ \A v \in 0..n : n >= v
    OBVIOUS
  <1>2. {0} \union VersionsOf(rows, s) = 0..n
    OBVIOUS
  <1>3. \A m \in 0..n : (\A v \in 0..n : m >= v) => m = n
    OBVIOUS
  <1> QED
    BY <1>1, <1>2, <1>3 DEF CurrentVersion, Max

LEMMA GaplessVersions ==
    ASSUME NEW rows, NEW s, Gapless(rows, s)
    PROVE  /\ CurrentVersion(rows, s) \in Nat
           /\ VersionsOf(rows, s) = 1..CurrentVersion(rows, s)
  BY GaplessCurrent DEF Gapless

LEMMA VersionsUnion ==
    ASSUME NEW a, NEW b, NEW s
    PROVE  VersionsOf(a \union b, s) = VersionsOf(a, s) \union VersionsOf(b, s)
  BY DEF VersionsOf

\* Rows of other streams do not count.
LEMMA OtherStreams ==
    ASSUME NEW a, NEW b, NEW s, \A n \in b : n.stream # s
    PROVE  VersionsOf(a \union b, s) = VersionsOf(a, s)
  BY DEF VersionsOf

\* A tombstone keeps its stream and version.
LEMMA VersionsTombstoned ==
    ASSUME NEW rows \in SUBSET Row, NEW s, NEW v, NEW t
    PROVE  VersionsOf(Tombstoned(rows, s, v), t) = VersionsOf(rows, t)
  BY TombstonedRows DEF VersionsOf

-----------------------------------------------------------------------------
\* A transaction is undisturbed: its own state is as it was, and it still
\* holds the streams it held.
Undisturbed(x) ==
    /\ UNCHANGED <<written[x], savepoint[x], pc[x], req[x]>>
    /\ \A s \in Streams : streamLock[s] = x => streamLock'[s] = x

LEMMA UndisturbedStream ==
    ASSUME TypeOK, StreamInv, NEW x \in Writers, Undisturbed(x),
           UNCHANGED <<events, ledger>>
    PROVE  RowsInv(x)' /\ SavepointInv(x)' /\ CheckedInv(x)'
  <1>1. \A n \in written[x] : n.stream \in Streams
    BY DEF TypeOK, Row
  <1>2. savepoint[x].streams \subseteq Streams
    BY DEF TypeOK, Savepoint
  <1>3. pc[x] \notin {"idle", "open"} => req[x].stream \in Streams
    BY DEF TypeOK, Request
  <1>4. RowsInv(x)'
    <2>1. written'[x] = written[x] /\ events' = events /\ ledger' = ledger
      BY DEF Undisturbed
    <2>2. \A s \in Streams : Gapless(events' \union written'[x], s)
      BY <2>1 DEF StreamInv, RowsInv
    <2>3. \A n \in written[x] : streamLock'[n.stream] = x
      BY <1>1 DEF StreamInv, RowsInv, Undisturbed
    <2>4. /\ \A n \in written[x] :
                /\ ledger[n.stream] = NotErased
                /\ ~n.erased
                /\ \A e \in events : e.stream = n.stream => e.version < n.version
          /\ \A n, m \in written[x] : n.position = m.position => n = m
          /\ \A n, m \in written[x] :
                n.stream = m.stream => (n.version < m.version <=> n.position < m.position)
      BY DEF StreamInv, RowsInv
    <2> QED
      BY <2>1, <2>2, <2>3, <2>4 DEF RowsInv
  <1>5. SavepointInv(x)'
    <2>1. savepoint'[x] = savepoint[x] /\ events' = events
      BY DEF Undisturbed
    <2>2. \A s \in Streams : Gapless(events' \union savepoint'[x].rows, s)
      BY <2>1 DEF StreamInv, SavepointInv
    <2> QED
      BY <1>2, <2>1, <2>2 DEF StreamInv, SavepointInv, Undisturbed
  <1>6. CheckedInv(x)'
    BY <1>3 DEF StreamInv, CheckedInv, Undisturbed
  <1> QED
    BY <1>4, <1>5, <1>6

\* A transaction without rows, outside every append and erasure.
LEMMA EmptyStream ==
    ASSUME StreamInv, NEW x \in Writers, written'[x] = {}, savepoint'[x] = NoSavepoint,
           pc'[x] = "idle", UNCHANGED events
    PROVE  RowsInv(x)' /\ SavepointInv(x)' /\ CheckedInv(x)'
  BY DEF StreamInv, RowsInv, SavepointInv, CheckedInv, NoSavepoint, Gapless

LEMMA EndTransactionStream ==
    ASSUME TypeOK, StreamInv, NEW w \in Writers, EndTransaction(w),
           UNCHANGED <<events, ledger>>
    PROVE  StreamInv'
  <1>1. written'[w] = {} /\ savepoint'[w] = NoSavepoint /\ pc'[w] = "idle"
    BY DEF TypeOK, EndTransaction
  <1>2. \A x \in Writers \ {w} : Undisturbed(x)
    BY DEF TypeOK, EndTransaction, ReleaseLocks, Undisturbed
  <1>3. \A x \in Writers : RowsInv(x)' /\ SavepointInv(x)' /\ CheckedInv(x)'
    BY <1>1, <1>2, UndisturbedStream, EmptyStream
  <1>4. \A s \in Streams : Gapless(events', s)
    BY DEF StreamInv
  <1> QED
    BY <1>3, <1>4 DEF StreamInv, Gapless

LEMMA FailAppendStream ==
    ASSUME TypeOK, LockInv, StreamInv, NEW w \in Writers, FailAppend(w),
           UNCHANGED <<events, ledger>>
    PROVE  StreamInv'
  <1>1. written'[w] = savepoint[w].rows /\ savepoint'[w] = NoSavepoint /\ pc'[w] = "open"
    BY DEF TypeOK, FailAppend
  <1>2. \A x \in Writers \ {w} : Undisturbed(x)
    BY DEF TypeOK, FailAppend, ReleaseLocks, Undisturbed
  <1>3. \A s \in savepoint[w].streams : s \in Streams /\ streamLock'[s] = w
    BY DEF TypeOK, Savepoint, FailAppend, ReleaseLocks, StreamInv, SavepointInv
  <1>4. savepoint[w].rows \subseteq written[w]
    BY DEF LockInv
  <1>5. RowsInv(w)'
    <2>1. \A s \in Streams : Gapless(events \union written[w], s)'
      <3>1. \A s \in Streams : Gapless(events \union savepoint[w].rows, s)
        BY DEF StreamInv, SavepointInv
      <3>2. events' \union written'[w] = events \union savepoint[w].rows
        BY <1>1
      <3> QED
        BY <3>1, <3>2 DEF Gapless
    <2>2. \A n \in written[w] : n \in Row
      BY DEF TypeOK
    <2> QED
      BY <1>1, <1>3, <1>4, <2>1, <2>2 DEF StreamInv, RowsInv, SavepointInv
  <1>6. SavepointInv(w)' /\ CheckedInv(w)'
    BY <1>1 DEF StreamInv, SavepointInv, CheckedInv, NoSavepoint, Gapless
  <1>7. \A x \in Writers : RowsInv(x)' /\ SavepointInv(x)' /\ CheckedInv(x)'
    BY <1>2, <1>5, <1>6, UndisturbedStream
  <1> QED
    BY <1>7 DEF StreamInv, Gapless

\* A step of w that writes no row, drops no lock and takes no savepoint.
LEMMA AdvanceStream ==
    ASSUME TypeOK, StreamInv, NEW w \in Writers,
           UNCHANGED <<events, ledger, written, savepoint>>,
           \A x \in Writers \ {w} : pc'[x] = pc[x] /\ req'[x] = req[x],
           \A s \in Streams : streamLock[s] # NoOne => streamLock'[s] = streamLock[s],
           CheckedInv(w)'
    PROVE  StreamInv'
  <1>1. \A x \in Writers \ {w} : Undisturbed(x)
    BY ConstantsAssumption DEF TypeOK, Undisturbed
  <1>2. RowsInv(w)'
    <2>1. \A n \in written[w] : streamLock'[n.stream] = w
      <3>1. \A n \in written[w] : n.stream \in Streams
        BY DEF TypeOK, Row
      <3>2. \A n \in written[w] : streamLock[n.stream] = w
        BY DEF StreamInv, RowsInv
      <3>3. w # NoOne
        BY ConstantsAssumption
      <3>4. SUFFICES ASSUME NEW n \in written[w] PROVE streamLock'[n.stream] = w
        OBVIOUS
      <3>5. n.stream \in Streams /\ streamLock[n.stream] = w
        BY <3>1, <3>2, <3>4
      <3> QED
        BY <3>3, <3>5
    <2>2. written'[w] = written[w] /\ events' = events /\ ledger' = ledger
      OBVIOUS
    <2>3. RowsInv(w)
      BY DEF StreamInv
    <2>4. (\A s \in Streams : Gapless(events \union written[w], s))'
      BY <2>2, <2>3 DEF RowsInv, Gapless
    <2> QED
      BY <2>1, <2>2, <2>3, <2>4 DEF RowsInv
  <1>3. SavepointInv(w)'
    <2>1. \A s \in savepoint[w].streams : streamLock'[s] = w
      <3>1. \A s \in savepoint[w].streams : s \in Streams /\ streamLock[s] = w
        BY DEF TypeOK, Savepoint, StreamInv, SavepointInv
      <3> QED
        BY <3>1, ConstantsAssumption
    <2>2. savepoint' = savepoint /\ events' = events
      OBVIOUS
    <2> QED
      BY <2>1, <2>2 DEF StreamInv, SavepointInv
  <1>4. \A x \in Writers : RowsInv(x)' /\ SavepointInv(x)' /\ CheckedInv(x)'
    BY <1>1, <1>2, <1>3, UndisturbedStream
  <1> QED
    BY <1>4 DEF StreamInv, Gapless

\* An inserted row continues its stream.
LEMMA InsertStream ==
    ASSUME IInv, StreamInv, NEW w \in Writers, InsertEvent(w), ~FailAppend(w)
    PROVE  StreamInv'
  <1> DEFINE r == NewRow(w)
             s == req[w].stream
  <1>1. /\ written' = [written EXCEPT ![w] = @ \union {r}]
        /\ req' = [req EXCEPT ![w] = [req[w] EXCEPT !.left = @ - 1, !.next = @ + 1]]
        /\ pc' = [pc EXCEPT ![w] = IF req[w].left = 1 THEN "stage" ELSE "insert"]
        /\ UNCHANGED <<events, ledger, streamLock, savepoint>>
        /\ pc[w] = "insert"
    BY DEF InsertEvent, tableVars, IInv, TypeOK
  <1>2. req[w] \in Request /\ s \in Streams /\ req[w].next \in Nat \ {0}
    BY <1>1 DEF IInv, TypeOK, Request
  <1>3. req'[w].stream = s /\ req'[w].next = req[w].next + 1
    BY <1>1, <1>2 DEF IInv, TypeOK, Request
  <1>4. /\ r.position = seq + 1 /\ r.stream = s /\ r.version = req[w].next
        /\ r.erased = FALSE
    BY DEF NewRow
  <1>5. /\ streamLock[s] = w /\ ledger[s] = NotErased
        /\ VersionsOf(events \union written[w], s) = 1..(req[w].next - 1)
    BY <1>1 DEF StreamInv, CheckedInv
  <1>6. \A e \in events \union written[w] :
           /\ e \in Row /\ e.position \in Nat /\ e.position <= seq
           /\ e.stream = s => e.version \in Nat /\ e.version < req[w].next
    <2>1. \A e \in events \union written[w] :
             e.stream = s => e.version \in VersionsOf(events \union written[w], s)
      BY DEF VersionsOf
    <2>2. \A e \in events \union written[w] : e \in Row
      BY DEF IInv, TypeOK
    <2>3. \A e \in events \union written[w] : e.position \in Nat /\ e.position <= seq
      BY <2>2 DEF Row, IInv, PositionInv
    <2> QED
      <3>1. \A v \in 1..(req[w].next - 1) : v \in Nat /\ v < req[w].next
        BY <1>2
      <3> QED
        BY <1>5, <2>1, <2>2, <2>3, <3>1
  <1>7. written'[w] = written[w] \union {r}
    BY <1>1 DEF IInv, TypeOK
  <1>8. /\ VersionsOf({r}, s) = {req[w].next}
        /\ \A t \in Streams \ {s} : VersionsOf({r}, t) = {}
    BY <1>4 DEF VersionsOf
  <1>9. \A t \in Streams : VersionsOf(events' \union written'[w], t) =
           VersionsOf(events \union written[w], t) \union VersionsOf({r}, t)
    <2>1. events' \union written'[w] = (events \union written[w]) \union {r}
      BY <1>1, <1>7
    <2> HIDE DEF r
    <2> QED
      BY <2>1, VersionsUnion
  <1>10. VersionsOf(events' \union written'[w], s) = 1..req[w].next
    <2>1. 1..req[w].next = 1..(req[w].next - 1) \union {req[w].next}
      BY <1>2
    <2> QED
      BY <1>2, <1>5, <1>8, <1>9, <2>1
  <1>11. \A t \in Streams : Gapless(events' \union written'[w], t)
    <2>1. Gapless(events' \union written'[w], s)
      BY <1>2, <1>10 DEF Gapless
    <2>2. ASSUME NEW t \in Streams \ {s}
          PROVE  Gapless(events' \union written'[w], t)
      <3>1. VersionsOf(events' \union written'[w], t) = VersionsOf(events \union written[w], t)
        BY <1>8, <1>9
      <3>2. Gapless(events \union written[w], t)
        BY DEF StreamInv, RowsInv
      <3> QED
        BY <3>1, <3>2 DEF Gapless
    <2> QED
      BY <2>1, <2>2
  <1>12. RowsInv(w)'
    <2> HIDE DEF r, s
    <2>0. RowsInv(w)
      BY DEF StreamInv
    <2>1. \A n \in written'[w] :
             /\ streamLock'[n.stream] = w
             /\ ledger'[n.stream] = NotErased
             /\ ~n.erased
             /\ \A e \in events' : e.stream = n.stream => e.version < n.version
      BY <1>1, <1>4, <1>5, <1>6, <1>7, <2>0 DEF RowsInv
    <2>2. seq \in Nat
      BY DEF IInv, TypeOK
    <2>3. \A n, m \in written'[w] : n.position = m.position => n = m
      BY <1>4, <1>6, <1>7, <2>0, <2>2 DEF RowsInv
    <2>4. \A n, m \in written'[w] :
             n.stream = m.stream => (n.version < m.version <=> n.position < m.position)
      BY <1>2, <1>4, <1>6, <1>7, <2>0, <2>2 DEF RowsInv
    <2> QED
      BY <1>11, <2>1, <2>3, <2>4 DEF RowsInv
  <1>13. SavepointInv(w)'
    <2>1. savepoint' = savepoint /\ events' = events /\ streamLock' = streamLock
      BY <1>1
    <2> QED
      BY <2>1 DEF StreamInv, SavepointInv
  <1>14. CheckedInv(w)'
    <2>1. pc'[w] \in {"insert", "stage"}
      BY <1>1 DEF IInv, TypeOK
    <2>2. VersionsOf(events' \union written'[w], req'[w].stream) = 1..(req'[w].next - 1)
      BY <1>2, <1>3, <1>10
    <2>3. streamLock'[req'[w].stream] = w /\ ledger'[req'[w].stream] = NotErased
      BY <1>1, <1>3, <1>5
    <2> QED
      BY <2>1, <2>2, <2>3 DEF CheckedInv
  <1>15. \A x \in Writers \ {w} : Undisturbed(x)
    BY <1>1 DEF IInv, TypeOK, Undisturbed
  <1>16. \A x \in Writers : RowsInv(x)' /\ SavepointInv(x)' /\ CheckedInv(x)'
    BY <1>1, <1>12, <1>13, <1>14, <1>15, UndisturbedStream DEF IInv
  <1> QED
    BY <1>1, <1>16 DEF StreamInv, Gapless

\* Rows that become visible belong to streams no other transaction holds.
LEMMA CommitStream ==
    ASSUME IInv, StreamInv, NEW w \in Writers, Commit(w)
    PROVE  StreamInv'
  <1>1. /\ events' = events \union written[w] /\ ledger' = ledger
        /\ written'[w] = {} /\ savepoint'[w] = NoSavepoint /\ pc'[w] = "idle"
    BY DEF Commit, EndTransaction, IInv, TypeOK
  <1>2. \A x \in Writers \ {w} : Undisturbed(x)
    BY DEF IInv, TypeOK, Commit, EndTransaction, ReleaseLocks, Undisturbed
  <1>3. CASE written[w] = {}
    <2>1. events' = events
      BY <1>1, <1>3
    <2> QED
      BY <1>1, <2>1, EndTransactionStream DEF Commit, IInv
  <1>4. CASE written[w] # {}
    <2>1. \A s \in Streams : Gapless(events', s)
      BY <1>1 DEF StreamInv, RowsInv
    <2>2. RowsInv(w)' /\ SavepointInv(w)' /\ CheckedInv(w)'
      <3>1. events' \union written'[w] = events'
            /\ events' \union savepoint'[w].rows = events'
        BY <1>1 DEF NoSavepoint
      <3>2. SavepointInv(w)'
        BY <1>1, <2>1, <3>1 DEF SavepointInv, NoSavepoint
      <3> QED
        BY <1>1, <2>1, <3>1, <3>2 DEF RowsInv, CheckedInv
    <2>3. ASSUME NEW x \in Writers \ {w}
          PROVE  RowsInv(x)' /\ SavepointInv(x)' /\ CheckedInv(x)'
      <3>1. /\ written[x] = {} /\ savepoint[x].rows = {}
            /\ pc[x] # "insert"
        BY <1>4, OneWriterHasRows DEF IInv, LockInv
      <3>2. /\ written'[x] = {} /\ savepoint'[x] = savepoint[x]
            /\ pc'[x] = pc[x] /\ req'[x] = req[x]
        BY <1>2, <3>1 DEF Undisturbed
      <3>3. events' \union written'[x] = events'
            /\ events' \union savepoint'[x].rows = events'
        BY <3>1, <3>2
      <3>4. RowsInv(x)'
        BY <2>1, <3>2, <3>3 DEF RowsInv
      <3>5. SavepointInv(x)'
        <4>1. \A s \in savepoint[x].streams : s \in Streams /\ streamLock[s] = x
          BY DEF IInv, TypeOK, Savepoint, StreamInv, SavepointInv
        <4>2. \A s \in savepoint'[x].streams : streamLock'[s] = x
          BY <1>2, <3>2, <4>1 DEF Undisturbed
        <4> QED
          BY <2>1, <3>1, <3>2, <3>3, <4>2 DEF SavepointInv
      <3>6. CheckedInv(x)'
        <4>1. CASE pc[x] \in {"check", "lockOrder", "tombstone"}
          <5>1. req[x].stream \in Streams
            BY <4>1 DEF IInv, TypeOK, Request
          <5>2. streamLock[req[x].stream] = x
            BY <4>1 DEF StreamInv, CheckedInv
          <5>3. streamLock'[req'[x].stream] = x
            BY <1>2, <3>2, <5>1, <5>2 DEF Undisturbed
          <5>4. \A n \in written[w] : n.stream # req[x].stream
            <6>1. \A n \in written[w] : streamLock[n.stream] = w
              BY DEF StreamInv, RowsInv
            <6> QED
              BY <2>3, <5>2, <6>1
          <5>5. VersionsOf(events', req[x].stream) = VersionsOf(events, req[x].stream)
            BY <1>1, <5>4, OtherStreams
          <5>6. events \union written[x] = events /\ CheckedInv(x)
            BY <3>1 DEF StreamInv
          <5>7. /\ VersionsOf(events' \union written'[x], req'[x].stream) =
                      VersionsOf(events \union written[x], req[x].stream)
                /\ VersionsOf(events', req'[x].stream) = VersionsOf(events, req[x].stream)
            BY <3>2, <3>3, <5>5, <5>6
          <5> QED
            <6>1. ledger' = ledger
              BY <1>1
            <6>2. pc[x] = "check" => req'[x].next = req'[x].expected + 1
              BY <3>2, <5>6 DEF CheckedInv
            <6>3. pc'[x] = pc[x] /\ pc'[x] \notin {"lockStream", "insert"}
              BY <3>2, <4>1
            <6> QED
              BY <3>2, <5>3, <5>6, <5>7, <6>1, <6>2, <6>3 DEF CheckedInv
        <4>2. CASE pc[x] \notin {"check", "lockOrder", "tombstone"}
          <5>1. CheckedInv(x)
            BY DEF StreamInv
          <5> QED
            BY <3>1, <3>2, <4>2, <5>1 DEF CheckedInv
        <4> QED
          BY <4>1, <4>2
      <3> QED
        BY <3>4, <3>5, <3>6
    <2> QED
      BY <2>1, <2>2, <2>3 DEF StreamInv, Gapless
  <1> QED
    BY <1>3, <1>4

\* Tombstones change no version, and the ledger row is for a stream held.
LEMMA CommitEraseStream ==
    ASSUME IInv, StreamInv, NEW w \in Writers, CommitErase(w)
    PROVE  StreamInv'
  <1>1. /\ events' = Tombstoned(events, req[w].stream, req[w].expected)
        /\ ledger' = [ledger EXCEPT ![req[w].stream] = req[w].expected]
        /\ written'[w] = {} /\ savepoint'[w] = NoSavepoint /\ pc'[w] = "idle"
    BY DEF CommitErase, EndTransaction, IInv, TypeOK
  <1>2. \A x \in Writers \ {w} : Undisturbed(x)
    BY DEF IInv, TypeOK, CommitErase, EndTransaction, ReleaseLocks, Undisturbed
  <1>3. events \in SUBSET Row
    BY DEF IInv, TypeOK
  <1>4. \A t : VersionsOf(events', t) = VersionsOf(events, t)
    BY <1>1, <1>3, VersionsTombstoned
  <1>5. ASSUME NEW b, NEW t
        PROVE  VersionsOf(events' \union b, t) = VersionsOf(events \union b, t)
    <2>1. /\ VersionsOf(events' \union b, t) = VersionsOf(events', t) \union VersionsOf(b, t)
          /\ VersionsOf(events \union b, t) = VersionsOf(events, t) \union VersionsOf(b, t)
      BY VersionsUnion
    <2> QED
      BY <1>4, <2>1
  <1>6. \A s \in Streams : Gapless(events', s)
    BY <1>4 DEF StreamInv, Gapless
  <1>7. streamLock[req[w].stream] = w
    BY DEF CommitErase, StreamInv, CheckedInv
  <1>8. \A s \in Streams : s # req[w].stream => ledger'[s] = ledger[s]
    BY <1>1 DEF IInv, TypeOK
  <1>9. RowsInv(w)' /\ SavepointInv(w)' /\ CheckedInv(w)'
    <2>1. events' \union written'[w] = events'
          /\ events' \union savepoint'[w].rows = events'
      BY <1>1 DEF NoSavepoint
    <2>2. SavepointInv(w)'
      BY <1>1, <1>6, <2>1 DEF SavepointInv, NoSavepoint
    <2> QED
      BY <1>1, <1>6, <2>1, <2>2 DEF RowsInv, CheckedInv
  <1>10. ASSUME NEW x \in Writers \ {w}
         PROVE  RowsInv(x)' /\ SavepointInv(x)' /\ CheckedInv(x)'
    <2>1. /\ written'[x] = written[x] /\ savepoint'[x] = savepoint[x]
          /\ pc'[x] = pc[x] /\ req'[x] = req[x]
      BY <1>10, <1>2 DEF Undisturbed
    <2>2. \A s \in Streams : streamLock[s] = x => streamLock'[s] = x /\ ledger'[s] = ledger[s]
      BY <1>10, <1>2, <1>7, <1>8 DEF Undisturbed
    <2>3. RowsInv(x) /\ SavepointInv(x) /\ CheckedInv(x)
      BY DEF StreamInv
    <2>4. RowsInv(x)'
      <3>1. \A n \in written[x] : n.stream \in Streams
        BY DEF IInv, TypeOK, Row
      <3>2. \A n \in written'[x] : /\ streamLock'[n.stream] = x
                                   /\ ledger'[n.stream] = NotErased
                                   /\ ~n.erased
        BY <2>1, <2>2, <2>3, <3>1 DEF RowsInv
      <3>3. \A n \in written'[x] : \A e \in events' :
               e.stream = n.stream => e.version < n.version
        <4>1. \A e \in events' : \E f \in events :
                 f.stream = e.stream /\ f.version = e.version
          BY <1>1, <1>3, TombstonedRows
        <4>2. \A n \in written[x] : \A f \in events :
                 f.stream = n.stream => f.version < n.version
          BY <2>3 DEF RowsInv
        <4> QED
          BY <2>1, <4>1, <4>2
      <3>4. \A s \in Streams : Gapless(events' \union written'[x], s)
        <4>1. \A s \in Streams : Gapless(events \union written[x], s)
          BY <2>3 DEF RowsInv
        <4> QED
          BY <1>5, <2>1, <4>1 DEF Gapless
      <3> QED
        BY <2>1, <2>3, <3>2, <3>3, <3>4 DEF RowsInv
    <2>5. SavepointInv(x)'
      <3>1. \A s \in savepoint[x].streams : s \in Streams
        BY DEF IInv, TypeOK, Savepoint
      <3>2. \A s \in Streams : Gapless(events' \union savepoint'[x].rows, s)
        <4>1. \A s \in Streams : Gapless(events \union savepoint[x].rows, s)
          BY <2>3 DEF SavepointInv
        <4>2. \A s \in Streams : VersionsOf(events' \union savepoint'[x].rows, s) =
                 VersionsOf(events \union savepoint[x].rows, s)
          BY <1>5, <2>1
        <4> QED
          BY <4>1, <4>2 DEF Gapless
      <3> QED
        BY <2>1, <2>2, <2>3, <3>1, <3>2 DEF SavepointInv
    <2>6. CheckedInv(x)'
      <3>1. pc[x] \notin {"idle", "open"} => req[x].stream \in Streams
        BY DEF IInv, TypeOK, Request
      <3>2. /\ VersionsOf(events' \union written'[x], req'[x].stream) =
                  VersionsOf(events \union written[x], req[x].stream)
            /\ VersionsOf(events', req'[x].stream) = VersionsOf(events, req[x].stream)
        BY <1>5, <1>4, <2>1
      <3> QED
        BY <2>1, <2>2, <2>3, <3>1, <3>2 DEF CheckedInv
    <2> QED
      BY <2>4, <2>5, <2>6
  <1> QED
    BY <1>6, <1>9, <1>10 DEF StreamInv, Gapless

\* Every step keeps the streams and what is about to extend them sound.
LEMMA StreamStep ==
    ASSUME IInv, StreamInv, [Next]_vars
    PROVE  StreamInv'
  <1> USE DEF txVars, tableVars, readerVars
  <1>0. TypeOK /\ LockInv
    BY DEF IInv
  <1>1. ASSUME NEW w \in Writers, NEW s \in Streams, NEW v \in 0..MaxPosition,
               NEW n \in 0..MaxEvents, NEW m \in Messages \union {NoOne},
               StartAppend(w, s, v, n, m)
        PROVE  StreamInv'
    <2>1. /\ UNCHANGED <<events, ledger, written, streamLock>>
          /\ pc'[w] = "lockStream" /\ req'[w].expected = v /\ req'[w].next = v + 1
          /\ savepoint'[w].rows = written[w]
          /\ savepoint'[w].streams = {t \in Streams : streamLock[t] = w}
      BY <1>0, <1>1 DEF StartAppend, TypeOK
    <2>2. \A x \in Writers \ {w} : Undisturbed(x)
      BY <1>0, <1>1 DEF StartAppend, TypeOK, Undisturbed
    <2>3. RowsInv(w) /\ \A n1 \in written[w] : n1.stream \in Streams
      BY <1>0 DEF StreamInv, TypeOK, Row
    <2>4. RowsInv(w)'
      BY <2>1, <2>3 DEF RowsInv
    <2>5. SavepointInv(w)'
      BY <2>1, <2>3 DEF RowsInv, SavepointInv
    <2>6. CheckedInv(w)'
      BY <2>1 DEF CheckedInv
    <2>7. \A x \in Writers : RowsInv(x)' /\ SavepointInv(x)' /\ CheckedInv(x)'
      BY <1>0, <2>1, <2>2, <2>4, <2>5, <2>6, UndisturbedStream
    <2> QED
      BY <2>1, <2>7 DEF StreamInv, Gapless
  <1>2. ASSUME NEW w \in Writers, NEW s \in Streams, NEW v \in 0..MaxPosition,
               StartErase(w, s, v)
        PROVE  StreamInv'
    <2>1. pc'[w] = "lockStream" /\ req'[w].expected = v /\ req'[w].next = v + 1
      BY <1>0, <1>2 DEF StartErase, TypeOK
    <2>2. CheckedInv(w)'
      BY <2>1 DEF CheckedInv
    <2>3. /\ UNCHANGED <<events, ledger, written, savepoint, streamLock>>
          /\ \A x \in Writers \ {w} : pc'[x] = pc[x] /\ req'[x] = req[x]
      BY <1>0, <1>2 DEF StartErase, TypeOK
    <2> QED
      BY <1>0, <2>2, <2>3, AdvanceStream
  <1>3. ASSUME NEW w \in Writers, LockStream(w)
        PROVE  StreamInv'
    <2>1. req[w].stream \in Streams
      BY <1>0, <1>3 DEF LockStream, TypeOK, Request
    <2>2. /\ UNCHANGED <<events, ledger, written, savepoint, req>>
          /\ pc[w] = "lockStream" /\ pc'[w] = "check"
          /\ streamLock'[req[w].stream] = w
          /\ \A x \in Writers \ {w} : pc'[x] = pc[x] /\ req'[x] = req[x]
          /\ \A s \in Streams : streamLock[s] # NoOne => streamLock'[s] = streamLock[s]
      BY <1>0, <1>3, <2>1 DEF LockStream, TypeOK
    <2>3. CheckedInv(w)
      BY DEF StreamInv
    <2>4. CheckedInv(w)'
      BY <2>2, <2>3 DEF CheckedInv
    <2> QED
      BY <1>0, <2>2, <2>4, AdvanceStream
  <1>4. ASSUME NEW w \in Writers, CheckAppend(w)
        PROVE  StreamInv'
    <2>1. CASE FailAppend(w)
      BY <1>0, <1>4, <2>1, FailAppendStream DEF CheckAppend
    <2>2. CASE ~FailAppend(w)
      <3>1. /\ UNCHANGED <<events, ledger, written, savepoint, req, streamLock>>
            /\ ~AppendConflicts(w)
            /\ pc[w] = "check" /\ pc'[w] \in {"lockOrder", "stage"}
            /\ \A x \in Writers \ {w} : pc'[x] = pc[x] /\ req'[x] = req[x]
        BY <1>0, <1>4, <2>2 DEF CheckAppend, TypeOK
      <3>2. /\ req[w].stream \in Streams /\ req[w].expected \in Nat
            /\ req[w].next = req[w].expected + 1
            /\ streamLock[req[w].stream] = w
        BY <1>0, <3>1 DEF TypeOK, Request, StreamInv, CheckedInv
      <3>3. Gapless(events \union written[w], req[w].stream)
        BY <3>2 DEF StreamInv, RowsInv
      <3>4. VersionsOf(events \union written[w], req[w].stream) = 1..(req[w].next - 1)
        <4>1. VersionsOf(events \union written[w], req[w].stream) = 1..req[w].expected
          BY <3>1, <3>3, GaplessVersions DEF AppendConflicts
        <4>2. req[w].next - 1 = req[w].expected
          BY <3>2
        <4> QED
          BY <4>1, <4>2
      <3>5. ledger[req[w].stream] = NotErased
        BY <3>1 DEF AppendConflicts
      <3>6. CheckedInv(w)'
        <4>1. /\ events' = events /\ written' = written /\ req' = req
              /\ streamLock' = streamLock /\ ledger' = ledger
          BY <3>1
        <4> QED
          BY <3>1, <3>2, <3>4, <3>5, <4>1 DEF CheckedInv
      <3> QED
        BY <1>0, <3>1, <3>6, AdvanceStream
    <2> QED
      BY <2>1, <2>2
  <1>5. ASSUME NEW w \in Writers, LockOrder(w)
        PROVE  StreamInv'
    <2>1. /\ UNCHANGED <<events, ledger, written, savepoint, req, streamLock>>
          /\ pc[w] = "lockOrder" /\ pc'[w] = "insert"
          /\ \A x \in Writers \ {w} : pc'[x] = pc[x] /\ req'[x] = req[x]
      BY <1>0, <1>5 DEF LockOrder, TypeOK
    <2>2. CheckedInv(w)
      BY DEF StreamInv
    <2>3. CheckedInv(w)'
      <3>1. /\ events' = events /\ written' = written /\ req' = req
            /\ streamLock' = streamLock /\ ledger' = ledger
        BY <2>1
      <3> QED
        BY <2>1, <2>2, <3>1 DEF CheckedInv
    <2> QED
      BY <1>0, <2>1, <2>3, AdvanceStream
  <1>6. ASSUME NEW w \in Writers, InsertEvent(w)
        PROVE  StreamInv'
    <2>1. CASE FailAppend(w)
      BY <1>0, <1>6, <2>1, FailAppendStream DEF InsertEvent
    <2> QED
      BY <1>6, <2>1, InsertStream
  <1>7. ASSUME NEW w \in Writers, StageMessages(w)
        PROVE  StreamInv'
    <2>1. CASE FailAppend(w)
      BY <1>0, <1>7, <2>1, FailAppendStream DEF StageMessages
    <2>2. CASE ~FailAppend(w)
      <3>1. /\ UNCHANGED <<events, ledger, written, streamLock>>
            /\ pc'[w] = "open" /\ savepoint'[w] = NoSavepoint
        BY <1>0, <1>7, <2>2 DEF StageMessages, TypeOK
      <3>2. \A x \in Writers \ {w} : Undisturbed(x)
        BY <1>0, <1>7, <2>2 DEF StageMessages, TypeOK, Undisturbed
      <3>3. RowsInv(w)
        BY DEF StreamInv
      <3>4. RowsInv(w)'
        BY <3>1, <3>3 DEF RowsInv
      <3>5. SavepointInv(w)'
        <4>1. events' \union savepoint'[w].rows = events
          BY <3>1 DEF NoSavepoint
        <4> QED
          BY <3>1, <4>1 DEF SavepointInv, NoSavepoint, StreamInv
      <3>6. CheckedInv(w)'
        BY <3>1 DEF CheckedInv
      <3>7. \A x \in Writers : RowsInv(x)' /\ SavepointInv(x)' /\ CheckedInv(x)'
        BY <1>0, <3>1, <3>2, <3>4, <3>5, <3>6, UndisturbedStream
      <3> QED
        BY <3>1, <3>7 DEF StreamInv, Gapless
    <2> QED
      BY <2>1, <2>2
  <1>8. ASSUME NEW w \in Writers, SqlFailure(w)
        PROVE  StreamInv'
    BY <1>0, <1>8, FailAppendStream DEF SqlFailure
  <1>9. ASSUME NEW w \in Writers, CheckErase(w)
        PROVE  StreamInv'
    <2>1. CASE EndTransaction(w)
      BY <1>0, <1>9, <2>1, EndTransactionStream DEF CheckErase
    <2>2. CASE ~EndTransaction(w)
      <3>1. /\ UNCHANGED <<events, ledger, written, savepoint, req, streamLock>>
            /\ ~EraseWritesNothing(w)
            /\ pc[w] = "check" /\ pc'[w] = "tombstone"
            /\ \A x \in Writers \ {w} : pc'[x] = pc[x] /\ req'[x] = req[x]
        BY <1>0, <1>9, <2>2 DEF CheckErase, TypeOK
      <3>2. req[w].stream \in Streams /\ streamLock[req[w].stream] = w
        BY <1>0, <3>1 DEF TypeOK, Request, StreamInv, CheckedInv
      <3>3. Gapless(events, req[w].stream)
        BY <3>2 DEF StreamInv
      <3>4. /\ VersionsOf(events, req[w].stream) = 1..req[w].expected
            /\ ledger[req[w].stream] = NotErased
        BY <3>1, <3>3, GaplessVersions DEF EraseWritesNothing
      <3>5. CheckedInv(w)'
        <4>1. /\ events' = events /\ req' = req
              /\ streamLock' = streamLock /\ ledger' = ledger
          BY <3>1
        <4> QED
          BY <3>1, <3>2, <3>4, <4>1 DEF CheckedInv
      <3> QED
        BY <1>0, <3>1, <3>5, AdvanceStream
    <2> QED
      BY <2>1, <2>2
  <1>10. ASSUME NEW w \in Writers, Rollback(w)
         PROVE  StreamInv'
    BY <1>0, <1>10, EndTransactionStream DEF Rollback
  <1>11. CASE UNCHANGED <<events, ledger, txVars>>
    <2>1. \A x \in Writers : Undisturbed(x)
      BY <1>11 DEF Undisturbed
    <2>2. \A x \in Writers : RowsInv(x)' /\ SavepointInv(x)' /\ CheckedInv(x)'
      BY <1>0, <1>11, <2>1, UndisturbedStream
    <2> QED
      BY <1>11, <2>2 DEF StreamInv, Gapless
  <1>12. (\E s \in Streams : SaveSnapshot(s)) \/ (\E r \in Readers : Read(r))
            \/ UNCHANGED vars => UNCHANGED <<events, ledger, txVars>>
    BY DEF SaveSnapshot, Read, vars
  <1> QED
    BY <1>1, <1>2, <1>3, <1>4, <1>5, <1>6, <1>7, <1>8, <1>9, <1>10, <1>11,
       <1>12, CommitStream, CommitEraseStream DEF Next, WriterNext

LEMMA StreamInvariance == Spec => []StreamInv
  <1>1. Init => StreamInv
    <2> SUFFICES ASSUME Init PROVE StreamInv
      OBVIOUS
    <2>1. \A s \in Streams : VersionsOf({}, s) = 1..0
      BY DEF VersionsOf
    <2>2. \A s \in Streams : Gapless({}, s) /\ Gapless({} \union {}, s)
      BY <2>1 DEF Gapless
    <2>3. \A w \in Writers : RowsInv(w)
      BY <2>2 DEF Init, RowsInv
    <2>4. \A w \in Writers : SavepointInv(w)
      BY <2>2 DEF Init, SavepointInv, NoSavepoint
    <2>5. \A w \in Writers : CheckedInv(w)
      BY DEF Init, CheckedInv
    <2> QED
      BY <2>2, <2>3, <2>4, <2>5 DEF Init, StreamInv
  <1> QED
    BY <1>1, StreamStep, Invariance, PTL DEF Spec

\* The abstract log speaks of the same rows.
LEMMA SameRows ==
    /\ Log!NotErased = NotErased /\ Log!Row = Row
    /\ \A rows, s : /\ Log!VersionsOf(rows, s) = VersionsOf(rows, s)
                    /\ Log!CurrentVersion(rows, s) = CurrentVersion(rows, s)
    /\ \A rows, s, v : Log!Tombstoned(rows, s, v) = Tombstoned(rows, s, v)
  BY DEF Log!NotErased, NotErased, Log!Row, Row, Log!VersionsOf, VersionsOf,
         Log!CurrentVersion, CurrentVersion, Log!Max, Max, Log!Tombstoned, Tombstoned

\* A committed transaction extends the log.
LEMMA CommitExtends ==
    ASSUME IInv, StreamInv, NEW w \in Writers, Commit(w)
    PROVE  Log!Append
  <1>1. /\ events' = events \union written[w]
        /\ outbox' = outbox \union staged[w]
        /\ ledger' = ledger
    BY DEF Commit
  <1>2. /\ \A n \in written[w] : n \in Row /\ \A e \in events : e.position < n.position
        /\ RowsInv(w)
    BY DEF IInv, TypeOK, PositionInv, StreamInv
  <1> DEFINE new == events' \ events
  <1>3. new \subseteq written[w] /\ events \union new = events'
    BY <1>1
  <1>4. \A s \in Streams :
           VersionsOf(events \union new, s) = 1..CurrentVersion(events \union new, s)
    BY <1>1, <1>2, <1>3, GaplessVersions DEF RowsInv
  <1>5. Log!Extends(events, new)
    BY <1>2, <1>3, <1>4, SameRows DEF Log!Extends, RowsInv
  <1> QED
    BY <1>1, <1>5 DEF Log!Append

\* A committed erasure erases.
LEMMA CommitEraseErases ==
    ASSUME IInv, StreamInv, NEW w \in Writers, CommitErase(w)
    PROVE  \E s \in Streams : Log!Erase(s)
  <1>1. req[w].stream \in Streams /\ req[w].expected \in Nat
    BY DEF CommitErase, IInv, TypeOK, Request
  <1>2. /\ ledger[req[w].stream] = NotErased
        /\ VersionsOf(events, req[w].stream) = 1..req[w].expected
    BY DEF CommitErase, StreamInv, CheckedInv
  <1>3. CurrentVersion(events, req[w].stream) = req[w].expected
    BY <1>1, <1>2, GaplessCurrent
  <1>4. Log!Erase(req[w].stream)
    BY <1>2, <1>3, SameRows DEF CommitErase, Log!Erase
  <1> QED
    BY <1>1, <1>4

\* The racing transactions of EventStore.ts implement the event log every port
\* user relies on: commits are atomic extensions of the log, in position and
\* version order and without gaps; erasures close a stream at its version.
THEOREM Refinement == Spec => ImplementsLog
  <1>1. Init => Log!Init
    BY SameRows DEF Init, Log!Init
  <1>2. ASSUME IInv, StreamInv, [Next]_vars
        PROVE  [Log!Next]_Log!logVars
    <2> USE DEF txVars, tableVars, readerVars
    <2>1. ASSUME NEW w \in Writers, Commit(w) \/ CommitErase(w)
          PROVE  Log!Next
      BY <1>2, <2>1, CommitExtends, CommitEraseErases DEF Log!Next
    <2>2. ASSUME NEW w \in Writers,
                 \/ \E s \in Streams, v \in 0..MaxPosition, n \in 0..MaxEvents,
                       m \in Messages \union {NoOne} : StartAppend(w, s, v, n, m)
                 \/ \E s \in Streams, v \in 0..MaxPosition : StartErase(w, s, v)
                 \/ LockStream(w) \/ CheckAppend(w) \/ LockOrder(w)
                 \/ InsertEvent(w) \/ StageMessages(w) \/ SqlFailure(w)
                 \/ CheckErase(w) \/ Rollback(w)
          PROVE  UNCHANGED Log!logVars
      BY <2>2 DEF StartAppend, StartErase, LockStream, CheckAppend, LockOrder,
                  InsertEvent, StageMessages, SqlFailure, CheckErase, Rollback,
                  Log!logVars
    <2>3. ASSUME \/ \E s \in Streams : SaveSnapshot(s)
                 \/ \E r \in Readers : Read(r)
                 \/ UNCHANGED vars
          PROVE  UNCHANGED Log!logVars
      BY <2>3 DEF SaveSnapshot, Read, vars, Log!logVars
    <2> QED
      BY <1>2, <2>1, <2>2, <2>3 DEF Next, WriterNext
  <1> QED
    BY <1>1, <1>2, Invariance, StreamInvariance, PTL
    DEF Spec, ImplementsLog, Log!Spec
=============================================================================
