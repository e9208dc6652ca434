------------------------ MODULE HistoryImportProofs ------------------------
(***************************************************************************)
(* The history import of the PostgreSQL store, for every source, batch     *)
(* length and number of calls, and the live store that goes on from it;    *)
(* and the in-memory and the SQLite store, imports included, as            *)
(* implementations of the event-store port.                                *)
(***************************************************************************)
EXTENDS PgHistoryImport, LocalLogs, PgEventStoreProofs, FiniteSetTheorems, SequenceTheorems,
        WellFoundedInduction

N == Len(History)

\* The first n rows of the source.
Imported(n) == {SourceRow(p) : p \in 1..n}

-----------------------------------------------------------------------------
\* The arithmetic of batches and versions.

LEMMA Sizes == N \in Nat /\ N > 0 /\ LastBatch \in Nat
<1>1. N \in Nat /\ N > 0 /\ BatchLen \in Nat /\ BatchLen > 0
  BY ImportAssumption, LenProperties DEF N
<1> QED
  BY <1>1 DEF LastBatch, N

\* The batches cut 1..N into pieces that are not empty.
LEMMA BatchBounds ==
  ASSUME NEW b \in 1..LastBatch
  PROVE  /\ FirstPosition(b) \in 1..N /\ LastPosition(b) \in FirstPosition(b)..N
         /\ LastBatch \in 1..LastBatch /\ LastPosition(LastBatch) = N
<1> DEFINE a == N + BatchLen - 1
<1>1. N \in Nat /\ N > 0 /\ BatchLen \in Nat /\ BatchLen > 0 /\ a \in Nat
  BY ImportAssumption, LenProperties DEF N
<1>2. /\ LastBatch = a \div BatchLen /\ LastBatch \in Nat
      /\ BatchLen * LastBatch <= a /\ a < BatchLen * LastBatch + BatchLen
  BY <1>1 DEF LastBatch, N
<1>3. b \in Nat /\ b - 1 \in Nat /\ b <= LastBatch
  BY <1>2
<1>4. /\ b * BatchLen <= LastBatch * BatchLen /\ b * BatchLen \in Nat
      /\ (b - 1) * BatchLen = b * BatchLen - BatchLen /\ (b - 1) * BatchLen \in Nat
      /\ LastBatch * BatchLen = BatchLen * LastBatch
  BY <1>1, <1>2, <1>3
<1>5. FirstPosition(b) \in 1..N
  BY <1>1, <1>2, <1>4 DEF FirstPosition
<1>6. LastPosition(b) \in FirstPosition(b)..N
  BY <1>1, <1>4, <1>5 DEF FirstPosition, LastPosition, N
<1>7. LastBatch * BatchLen >= N
  BY <1>1, <1>2, <1>4
<1> QED
  BY <1>1, <1>2, <1>3, <1>5, <1>6, <1>7 DEF LastPosition, N

\* The positions up to p at which stream s has an event.
Places(s, p) == {q \in 1..p : History[q] = s}

LEMMA PlacesCounted ==
  ASSUME NEW p \in 0..N, NEW s
  PROVE  IsFiniteSet(Places(s, p)) /\ Cardinality(Places(s, p)) \in Nat
<1>1. p \in Nat
  BY ImportAssumption, LenProperties DEF N
<1>2. IsFiniteSet(1..p) /\ Places(s, p) \in SUBSET (1..p)
  BY <1>1, FS_Interval DEF Places
<1> QED
  BY <1>2, FS_Subset, FS_CardinalityType

\* A stream's versions grow with its positions.
LEMMA VersionsGrow ==
  ASSUME NEW p \in 1..N, NEW q \in 1..N
  PROVE  /\ SourceVersion(p) \in Nat \ {0}
         /\ History[p] = History[q] /\ p < q => SourceVersion(p) < SourceVersion(q)
<1>1. N \in Nat
  BY ImportAssumption, LenProperties DEF N
<1>2. \A k \in 1..N : SourceVersion(k) = Cardinality(Places(History[k], k))
  BY DEF SourceVersion, Places
<1>3. SourceVersion(p) \in Nat \ {0}
  <2>1. p \in Places(History[p], p)
    BY <1>1 DEF Places
  <2> QED
    BY <1>1, <1>2, <2>1, PlacesCounted, FS_EmptySet
<1>4. ASSUME History[p] = History[q], p < q PROVE SourceVersion(p) < SourceVersion(q)
  <2> DEFINE S == Places(History[q], q)
             T == Places(History[q], p)
  <2>1. T \in SUBSET S /\ q \in S /\ q \notin T
    BY <1>1, <1>4 DEF Places
  <2>2. IsFiniteSet(S) /\ Cardinality(S) \in Nat /\ Cardinality(T) \in Nat
    BY <1>1, PlacesCounted
  <2>3. SourceVersion(q) = Cardinality(S) /\ SourceVersion(p) = Cardinality(T)
    BY <1>2, <1>4
  <2> HIDE DEF S, T
  <2>4. Cardinality(T) <= Cardinality(S) /\ (Cardinality(S) = Cardinality(T) => S = T)
    BY <2>1, <2>2, FS_Subset
  <2> QED
    BY <2>1, <2>2, <2>3, <2>4
<1> QED
  BY <1>3, <1>4

\* A row of the source is a row, and not erased.
LEMMA SourceRows ==
  ASSUME NEW p \in 1..N
  PROVE  SourceRow(p) \in Row /\ [SourceRow(p) EXCEPT !.erased = FALSE] = SourceRow(p)
<1>1. N \in Nat /\ History[p] \in Streams /\ SourceVersion(p) \in Nat \ {0}
  BY Sizes, VersionsGrow, ImportAssumption DEF N
<1>2. SourceRow(p) \in Row /\ SourceRow(p).erased = FALSE
  BY <1>1 DEF SourceRow, Row
<1>3. \A e \in Row : e.erased = FALSE => [e EXCEPT !.erased = FALSE] = e
  BY DEF Row
<1> QED
  BY <1>2, <1>3

\* The versions of a stream among the first n rows are 1, 2, 3, ...: counting
\* is one to one into as many numbers as there are places.
LEMMA VersionsCounted ==
  ASSUME NEW n \in 0..N, NEW s
  PROVE  VersionsOf(Imported(n), s) = 1..Cardinality(Places(s, n))
<1> DEFINE S == Places(s, n)
           k == Cardinality(S)
           f == [q \in S |-> SourceVersion(q)]
<1>1. N \in Nat /\ n \in Nat /\ k \in Nat /\ IsFiniteSet(S)
  BY PlacesCounted, ImportAssumption, LenProperties DEF N
<1>2. \A q \in S : q \in 1..N /\ q <= n /\ History[q] = s
  BY <1>1 DEF Places
<1>3. ASSUME NEW q \in S PROVE SourceVersion(q) \in 1..k
  <2>1. Places(s, q) \in SUBSET S
    BY <1>1, <1>2 DEF Places
  <2>2. SourceVersion(q) = Cardinality(Places(s, q))
    BY <1>2 DEF SourceVersion, Places
  <2> HIDE DEF S
  <2>3. Cardinality(Places(s, q)) <= k
    BY <1>1, <2>1, FS_Subset
  <2> QED
    BY <1>1, <1>2, <2>2, <2>3, VersionsGrow
<1>4. \A p, q \in S : SourceVersion(p) = SourceVersion(q) => p = q
  <2> SUFFICES ASSUME NEW p \in S, NEW q \in S, SourceVersion(p) = SourceVersion(q), p # q
               PROVE FALSE
    OBVIOUS
  <2>1. p < q \/ q < p
    BY <1>1, <1>2
  <2>2. SourceVersion(p) \in Nat /\ SourceVersion(q) \in Nat
    BY <1>3
  <2>3. /\ p < q => SourceVersion(p) < SourceVersion(q)
        /\ q < p => SourceVersion(q) < SourceVersion(p)
    BY <1>2, VersionsGrow
  <2> QED
    BY <2>1, <2>2, <2>3
<1>5. f \in Injection(S, 1..k)
  <2> HIDE DEF S, k
  <2> QED
    BY <1>3, <1>4 DEF Injection, IsInjective
<1>6. f \in Surjection(S, 1..k)
  <2>1. IsFiniteSet(1..k) /\ Cardinality(1..k) = k
    BY <1>1, FS_Interval
  <2> HIDE DEF f, S
  <2> QED
    BY <1>5, <2>1, FS_Injection
<1>7. {SourceVersion(q) : q \in S} = 1..k
  <2> HIDE DEF S, k
  <2> QED
    BY <1>3, <1>6 DEF Surjection
<1>8. VersionsOf(Imported(n), s) = {SourceVersion(q) : q \in S}
  <2>1. VersionsOf(Imported(n), s) =
           {e.version : e \in {row \in {SourceRow(p) : p \in 1..n} : row.stream = s}}
    BY DEF VersionsOf, Imported
  <2>2. \A q : /\ SourceRow(q).stream = History[q]
               /\ SourceRow(q).version = SourceVersion(q)
    BY DEF SourceRow
  <2>3. S = {q \in 1..n : History[q] = s}
    BY DEF Places
  <2> HIDE DEF S
  <2> QED
    BY <2>1, <2>2, <2>3
<1> QED
  BY <1>7, <1>8

\* Among the first n rows a position is taken once, and a stream's versions are
\* in the order of its positions.
LEMMA ImportedInOrder ==
  ASSUME NEW n \in 0..N
  PROVE  /\ \A e, f \in Imported(n) : e.position = f.position => e = f
         /\ \A e, f \in Imported(n) : e.stream = f.stream =>
               (e.version < f.version <=> e.position < f.position)
<1>1. N \in Nat /\ \A p \in 1..n : p \in 1..N
  BY Sizes
<1>2. \A p : /\ SourceRow(p).position = p /\ SourceRow(p).stream = History[p]
             /\ SourceRow(p).version = SourceVersion(p)
  BY DEF SourceRow
<1>3. \A p, q \in 1..n : History[p] = History[q] => (SourceVersion(p) < SourceVersion(q) <=> p < q)
  <2> SUFFICES ASSUME NEW p \in 1..n, NEW q \in 1..n, History[p] = History[q]
               PROVE  SourceVersion(p) < SourceVersion(q) <=> p < q
    OBVIOUS
  <2>1. /\ SourceVersion(p) \in Nat /\ SourceVersion(q) \in Nat
        /\ p < q => SourceVersion(p) < SourceVersion(q)
        /\ q < p => SourceVersion(q) < SourceVersion(p)
    BY <1>1, VersionsGrow
  <2>2. p < q \/ p = q \/ q < p
    BY <1>1
  <2> QED
    BY <1>1, <2>1, <2>2
<1> SUFFICES ASSUME NEW p \in 1..n, NEW q \in 1..n, NEW e, NEW f, e = SourceRow(p), f = SourceRow(q)
             PROVE  /\ e.position = f.position => e = f
                    /\ e.stream = f.stream => (e.version < f.version <=> e.position < f.position)
  BY DEF Imported
<1> QED
  BY <1>2, <1>3

-----------------------------------------------------------------------------
\* The invariant: while the import runs nobody writes; once the writers are
\* live nobody imports.

\* No writer has begun anything.
WritersAtRest ==
    /\ outbox = {} /\ snapshots = {} /\ ledger = [s \in Streams |-> NotErased]
    /\ streamLock = [s \in Streams |-> NoOne] /\ orderLock = NoOne
    /\ pc = [w \in Writers |-> "idle"] /\ req = [w \in Writers |-> NoOne]
    /\ written = [w \in Writers |-> {}] /\ staged = [w \in Writers |-> {}]
    /\ savepoint = [w \in Writers |-> NoSavepoint] /\ appends = [w \in Writers |-> 0]

\* One call at a time is about to commit, and its batch continues the target;
\* what is recorded, or goes on to setval, is in the target.
CallsInv ==
    /\ session \in [token : 0..LastBatch, last : 0..N, complete : BOOLEAN]
    /\ session.complete => session.last = N
    /\ ipc \in [Importers -> {"idle", "insert", "setval"}]
    /\ ireq \in [Importers -> [batch : 0..LastBatch, token : 0..LastBatch]]
    /\ \A r \in batches : r.batch \in 1..LastBatch /\ LastPosition(r.batch) <= session.last
    /\ \A i \in Importers :
          /\ ipc[i] # "idle" => ireq[i].batch \in 1..LastBatch
          /\ ipc[i] = "setval" => LastPosition(ireq[i].batch) <= session.last
          /\ ipc[i] = "insert" => tableLocked /\ FirstPosition(ireq[i].batch) = session.last + 1
          /\ \A j \in Importers : ipc[i] = "insert" /\ ipc[j] = "insert" => i = j

\* The sequence covers every batch whose call has returned.
TargetInv ==
    /\ events = Imported(session.last)
    /\ seq \in 0..session.last /\ tableLocked \in BOOLEAN
    /\ \A b \in returned : b \in 1..LastBatch /\ LastPosition(b) <= seq

ReadersInv ==
    /\ cursor \in [Readers -> Nat] /\ delivered \in [Readers -> SUBSET Nat]
    /\ \A r \in Readers : cursor[r] <= session.last
    /\ NoSkippedEvent

\* Positions are taken once, and a stream's versions are in their order.
OrderInv ==
    /\ \A e, f \in events : e.position = f.position => e = f
    /\ \A e, f \in events : e.stream = f.stream => (e.version < f.version <=> e.position < f.position)

\* The imported rows stay what they are, and what is not committed yet lies beyond them.
ImportedInv ==
    /\ {[e EXCEPT !.erased = FALSE] : e \in {f \in events : f.position <= N}} = Imported(N)
    /\ N <= seq /\ \A w \in Writers : \A n \in written[w] : N < n.position

ImportingInv == CallsInv /\ WritersAtRest /\ TargetInv /\ ReadersInv

LiveInv ==
    /\ session.last = N /\ \A i \in Importers : ipc[i] = "idle"
    /\ IInv /\ StreamInv /\ OrderInv /\ ImportedInv

ImportInv == live \in BOOLEAN /\ (~live => ImportingInv) /\ (live => LiveInv)

-----------------------------------------------------------------------------
\* Before the writers are live.

\* The last position of the first n rows.
LEMMA LastImported ==
  ASSUME NEW n \in 0..N
  PROVE  MaxPositionOf(Imported(n)) = n /\ \A e \in Imported(n) : e.position \in 1..n
<1>1. N \in Nat
  BY ImportAssumption, LenProperties DEF N
<1>2. \A p : SourceRow(p).position = p
  BY DEF SourceRow
<1>3. {e.position : e \in Imported(n)} = 1..n
  BY <1>2 DEF Imported
<1>4. {0} \union {e.position : e \in Imported(n)} = 0..n
  BY <1>1, <1>3
<1>5. n \in 0..n /\ \A v \in 0..n : n >= v
  BY <1>1
<1>6. \A m \in 0..n : (\A v \in 0..n : m >= v) => m = n
  BY <1>1
<1> QED
  BY <1>3, <1>4, <1>5, <1>6 DEF MaxPositionOf, Max

LEMMA ImportStarts == ImportInit => ImportInv
<1> SUFFICES ASSUME ImportInit PROVE ImportInv
  OBVIOUS
<1>1. N \in Nat /\ LastBatch \in Nat
  BY Sizes
<1>2. WritersAtRest
  BY DEF ImportInit, Init, WritersAtRest
<1>3. CallsInv
  BY <1>1 DEF ImportInit, Init, CallsInv, NoSession
<1>4. TargetInv
  <2>1. session.last = 0 /\ 1..0 = {}
    BY DEF ImportInit, NoSession
  <2>2. Imported(session.last) = {}
    BY <2>1 DEF Imported
  <2>3. events = {} /\ seq = 0 /\ tableLocked = FALSE /\ returned = {}
    BY DEF ImportInit, Init
  <2>4. seq \in 0..session.last
    BY <2>1, <2>3
  <2> QED
    BY <2>2, <2>3, <2>4 DEF TargetInv
<1>5. ReadersInv
  BY <1>1 DEF ImportInit, Init, ReadersInv, NoSession, NoSkippedEvent
<1> QED
  BY <1>2, <1>3, <1>4, <1>5 DEF ImportInit, ImportInv, ImportingInv

\* A call is taken up: its batch was recorded before, or continues the target.
LEMMA BatchTakenUp ==
  ASSUME NEW i \in Importers, NEW b \in 1..LastBatch, NEW t \in 0..LastBatch,
         ImportInv, ~live, ImportUnchanged(i, b, t) \/ ImportAccepted(i, b, t)
  PROVE  ImportInv'
<1> USE DEF ImportUnchanged, ImportAccepted, vars, tableVars, txVars, readerVars
<1>1. ImportingInv /\ N \in Nat /\ LastBatch \in Nat
  BY Sizes DEF ImportInv
<1>2. /\ live' = live /\ events' = events /\ session' = session /\ batches' = batches
      /\ seq' = seq /\ returned' = returned /\ cursor' = cursor /\ delivered' = delivered
  OBVIOUS
<1>3. (WritersAtRest /\ ReadersInv)'
  BY <1>1, <1>2 DEF ImportingInv, WritersAtRest, ReadersInv, NoSkippedEvent
<1>4. TargetInv'
  BY <1>1, <1>2 DEF ImportingInv, TargetInv, Imported
<1>5. CallsInv'
  <2> DEFINE call == [batch |-> b, token |-> t]
  <2>1. ipc[i] = "idle" /\ call \in [batch : 0..LastBatch, token : 0..LastBatch] /\ call.batch = b
    BY <1>1
  <2>2. ireq' = [ireq EXCEPT ![i] = call] /\ ireq' \in [Importers -> [batch : 0..LastBatch, token : 0..LastBatch]]
    BY <1>1, <2>1 DEF ImportingInv, CallsInv
  <2>3. \A j \in Importers : ireq'[j] = IF j = i THEN call ELSE ireq[j]
    BY <1>1, <2>2 DEF ImportingInv, CallsInv
  <2>4. CASE ImportUnchanged(i, b, t)
    <3>1. call \in batches /\ LastPosition(b) <= session.last
      BY <1>1, <2>1, <2>4 DEF ImportingInv, CallsInv
    <3>2. /\ ipc' = [ipc EXCEPT ![i] = "setval"] /\ tableLocked' = tableLocked
          /\ \A j \in Importers : ipc'[j] = IF j = i THEN "setval" ELSE ipc[j]
      BY <1>1, <2>4 DEF ImportingInv, CallsInv
    <3> HIDE DEF call, ImportUnchanged, ImportAccepted
    <3> QED
      BY <1>1, <1>2, <2>1, <2>2, <2>3, <3>1, <3>2 DEF ImportingInv, CallsInv
  <2>5. CASE ImportAccepted(i, b, t)
    <3>1. FirstPosition(b) = session.last + 1
      <4>1. MaxPositionOf(events) = session.last
        BY <1>1, LastImported DEF ImportingInv, TargetInv, CallsInv
      <4> QED
        BY <2>5, <4>1 DEF Continues
    <3>2. \A j \in Importers : ipc[j] # "insert"
      BY <1>1, <2>5 DEF ImportingInv, CallsInv, TableFree
    <3>3. /\ ipc' = [ipc EXCEPT ![i] = "insert"] /\ tableLocked' = TRUE
          /\ \A j \in Importers : ipc'[j] = IF j = i THEN "insert" ELSE ipc[j]
      BY <1>1, <2>5 DEF ImportingInv, CallsInv
    <3> HIDE DEF call, ImportUnchanged, ImportAccepted
    <3> QED
      BY <1>1, <1>2, <2>1, <2>2, <2>3, <3>1, <3>2, <3>3 DEF ImportingInv, CallsInv
  <2> QED
    BY <2>4, <2>5
<1> QED
  BY <1>2, <1>3, <1>4, <1>5 DEF ImportInv, ImportingInv

\* A batch that commits makes the imported prefix longer.
LEMMA BatchCommitted ==
  ASSUME NEW i \in Importers, ImportInv, ~live, ImportCommit(i)
  PROVE  ImportInv'
<1> DEFINE b == ireq[i].batch
           last == LastPosition(b)
<1>1. ImportingInv /\ N \in Nat /\ LastBatch \in Nat
  BY Sizes DEF ImportInv
<1>2. /\ ipc[i] = "insert" /\ ireq[i] \in [batch : 0..LastBatch, token : 0..LastBatch] /\ b \in 1..LastBatch
      /\ session.last \in 0..N /\ FirstPosition(b) = session.last + 1
  BY <1>1 DEF ImportCommit, ImportingInv, CallsInv
<1>3. FirstPosition(b) \in 1..N /\ last \in FirstPosition(b)..N /\ (b = LastBatch => last = N)
  BY <1>2, BatchBounds
<1>4. /\ live' = live /\ events' = events \union BatchRows(b)
      /\ session' = [token |-> b, last |-> last, complete |-> b = LastBatch]
      /\ batches' = batches \union {ireq[i]} /\ tableLocked' = FALSE /\ ipc' = [ipc EXCEPT ![i] = "setval"]
      /\ UNCHANGED <<ledger, outbox, snapshots, seq, txVars, readerVars, ireq, returned>>
  BY DEF ImportCommit
<1>5. WritersAtRest'
  BY <1>1, <1>4 DEF ImportingInv, WritersAtRest, txVars
<1>6. /\ session'.last = last /\ session'.complete = (b = LastBatch) /\ session.last < last
      /\ session' \in [token : 0..LastBatch, last : 0..N, complete : BOOLEAN]
  <2> HIDE DEF b, last
  <2> QED
    BY <1>1, <1>2, <1>3, <1>4
<1>7. events' = Imported(last)
  <2> HIDE DEF b, last
  <2>1. BatchRows(b) = {SourceRow(p) : p \in (session.last + 1)..last}
    BY <1>2 DEF BatchRows, last
  <2>2. 1..last = (1..session.last) \union ((session.last + 1)..last)
    BY <1>1, <1>2, <1>3
  <2> QED
    BY <1>1, <1>4, <2>1, <2>2 DEF ImportingInv, TargetInv, Imported
<1>8. CallsInv'
  <2>1. \A j \in Importers : ipc'[j] = IF j = i THEN "setval" ELSE ipc[j]
    BY <1>1, <1>4 DEF ImportingInv, CallsInv
  <2>2. \A j \in Importers : ipc[j] = "insert" => j = i
    BY <1>1, <1>2 DEF ImportingInv, CallsInv
  <2>3. ipc' \in [Importers -> {"idle", "insert", "setval"}] /\ ireq' = ireq
    BY <1>1, <1>4 DEF ImportingInv, CallsInv
  <2>4. \A n \in Int : n <= session.last => n <= last
    BY <1>1, <1>2, <1>3, <1>6
  <2>5. \A c \in 1..LastBatch : LastPosition(c) \in Int
    BY <1>1, BatchBounds
  <2>6. last <= last
    BY <1>1, <1>3
  <2>7. \A r \in batches' : r.batch \in 1..LastBatch /\ LastPosition(r.batch) <= session'.last
    <3> SUFFICES ASSUME NEW r \in batches' PROVE r.batch \in 1..LastBatch /\ LastPosition(r.batch) <= last
      BY <1>6
    <3>1. CASE r = ireq[i]
      BY <3>1, <1>2, <2>6
    <3>2. CASE r \in batches
      BY <3>2, <1>1, <2>4, <2>5 DEF ImportingInv, CallsInv
    <3> QED
      BY <3>1, <3>2, <1>4
  <2>8. \A j \in Importers : ipc'[j] = "setval" => LastPosition(ireq'[j].batch) <= session'.last
    <3> SUFFICES ASSUME NEW j \in Importers, ipc'[j] = "setval" PROVE LastPosition(ireq[j].batch) <= last
      BY <1>6, <2>3
    <3>1. CASE j = i
      BY <3>1, <2>6
    <3>2. CASE j # i
      BY <3>2, <2>1, <1>1, <2>4, <2>5 DEF ImportingInv, CallsInv
    <3> QED
      BY <3>1, <3>2
  <2> QED
    BY <1>1, <1>2, <1>3, <1>6, <2>1, <2>2, <2>3, <2>7, <2>8 DEF ImportingInv, CallsInv
<1>9. TargetInv'
  <2> HIDE DEF b, last
  <2>1. seq' = seq /\ returned' = returned /\ tableLocked' = FALSE /\ seq \in 0..session.last
    BY <1>1, <1>4 DEF ImportingInv, TargetInv
  <2>2. seq' \in 0..session'.last
    BY <1>2, <1>3, <1>1, <1>6, <2>1
  <2>3. (events = Imported(session.last))'
    BY <1>6, <1>7 DEF Imported
  <2> QED
    BY <1>1, <2>1, <2>2, <2>3 DEF ImportingInv, TargetInv
<1>10. ReadersInv'
  <2>1. \A e \in events' : e \in events \/ e.position \notin 0..session.last
    <3>1. \A p : SourceRow(p).position = p
      BY DEF SourceRow
    <3> HIDE DEF b
    <3> QED
      BY <1>2, <1>4, <3>1 DEF BatchRows
  <2>2. \A e \in events' : e.position \in Nat
    BY <1>3, <1>7, <1>1, LastImported
  <2> QED
    BY <1>1, <1>2, <1>3, <1>4, <1>6, <2>1, <2>2 DEF ImportingInv, ReadersInv, NoSkippedEvent, readerVars
<1> QED
  BY <1>4, <1>5, <1>8, <1>9, <1>10 DEF ImportInv, ImportingInv

\* setval puts the sequence at the end of everything imported.
LEMMA SequenceSet ==
  ASSUME NEW i \in Importers, ImportInv, ~live, ImportSetval(i)
  PROVE  ImportInv'
<1>1. ImportingInv /\ N \in Nat /\ LastBatch \in Nat
  BY Sizes DEF ImportInv
<1>2. /\ ipc[i] = "setval" /\ seq' = MaxPositionOf(events) /\ ipc' = [ipc EXCEPT ![i] = "idle"]
      /\ returned' = returned \union {ireq[i].batch}
      /\ UNCHANGED <<tableVars, tableLocked, txVars, readerVars, session, batches, ireq, live>>
  BY DEF ImportSetval
<1>3. seq' = session.last /\ session.last \in 0..N
  BY <1>1, <1>2, LastImported DEF ImportingInv, TargetInv, CallsInv
<1>4. (WritersAtRest /\ ReadersInv)'
  BY <1>1, <1>2 DEF ImportingInv, WritersAtRest, ReadersInv, NoSkippedEvent, txVars, tableVars, readerVars
<1>5. CallsInv'
  <2>1. \A j \in Importers : ipc'[j] = IF j = i THEN "idle" ELSE ipc[j]
    BY <1>1, <1>2 DEF ImportingInv, CallsInv
  <2>2. ipc' \in [Importers -> {"idle", "insert", "setval"}]
    BY <1>1, <1>2 DEF ImportingInv, CallsInv
  <2> QED
    BY <1>1, <1>2, <2>1, <2>2 DEF ImportingInv, CallsInv
<1>6. TargetInv'
  <2>1. ireq[i].batch \in 1..LastBatch /\ LastPosition(ireq[i].batch) <= session.last
    BY <1>1, <1>2 DEF ImportingInv, CallsInv
  <2>2. \A c \in 1..LastBatch : LastPosition(c) \in Int
    BY <1>1, BatchBounds
  <2>3. ASSUME NEW c \in returned' PROVE c \in 1..LastBatch /\ LastPosition(c) <= seq'
    <3>1. CASE c = ireq[i].batch
      BY <3>1, <1>3, <2>1
    <3>2. CASE c \in returned
      <4>1. c \in 1..LastBatch /\ LastPosition(c) <= seq /\ seq \in 0..session.last
        BY <1>1, <3>2 DEF ImportingInv, TargetInv
      <4> QED
        BY <1>3, <2>2, <4>1
    <3> QED
      BY <1>2, <2>3, <3>1, <3>2
  <2>4. (events = Imported(session.last))'
    BY <1>1, <1>2 DEF ImportingInv, TargetInv, Imported, tableVars
  <2>5. seq' \in 0..session'.last /\ tableLocked' \in BOOLEAN
    BY <1>1, <1>2, <1>3 DEF ImportingInv, TargetInv
  <2> QED
    BY <2>3, <2>4, <2>5 DEF TargetInv
<1> QED
  BY <1>2, <1>4, <1>5, <1>6 DEF ImportInv, ImportingInv

\* A call that is lost leaves nothing behind but what it committed.
LEMMA CallLost ==
  ASSUME NEW i \in Importers, ImportInv, ~live, ImportLost(i)
  PROVE  ImportInv'
<1>1. ImportingInv
  BY DEF ImportInv
<1>2. /\ tableLocked' = (IF ipc[i] = "insert" THEN FALSE ELSE tableLocked) /\ ipc' = [ipc EXCEPT ![i] = "idle"]
      /\ UNCHANGED <<tableVars, seq, txVars, readerVars, session, batches, ireq, returned, live>>
  BY DEF ImportLost
<1>3. (WritersAtRest /\ ReadersInv)'
  BY <1>1, <1>2 DEF ImportingInv, WritersAtRest, ReadersInv, NoSkippedEvent, txVars, tableVars, readerVars
<1>4. TargetInv'
  BY <1>1, <1>2 DEF ImportingInv, TargetInv, Imported, tableVars
<1>5. CallsInv'
  <2>1. \A j \in Importers : ipc'[j] = IF j = i THEN "idle" ELSE ipc[j]
    BY <1>1, <1>2 DEF ImportingInv, CallsInv
  <2>2. ipc' \in [Importers -> {"idle", "insert", "setval"}]
    BY <1>1, <1>2 DEF ImportingInv, CallsInv
  <2> QED
    BY <1>1, <1>2, <2>1, <2>2 DEF ImportingInv, CallsInv
<1> QED
  BY <1>2, <1>3, <1>4, <1>5 DEF ImportInv, ImportingInv

\* A consumer that reads during the import is handed everything up to its cursor.
LEMMA ReadWhileImporting ==
  ASSUME NEW r \in Readers, ImportInv, ~live, Read(r), UNCHANGED importVars
  PROVE  ImportInv'
<1> DEFINE later == {e \in events : e.position > cursor[r]}
<1>1. ImportingInv /\ N \in Nat
  BY Sizes DEF ImportInv
<1>2. \A e \in events : e.position \in Nat /\ e.position <= session.last
  <2>1. session.last \in 0..N /\ events = Imported(session.last)
    BY <1>1 DEF ImportingInv, TargetInv, CallsInv
  <2> QED
    BY <1>1, <2>1, LastImported
<1>3. PICK batch \in SUBSET later :
        /\ \A e \in batch, f \in later \ batch : e.position < f.position
        /\ \E last \in batch : /\ \A e \in batch : e.position <= last.position
                               /\ cursor' = [cursor EXCEPT ![r] = last.position]
        /\ delivered' = [delivered EXCEPT ![r] = @ \union {e.position : e \in batch}]
  BY DEF Read
<1>4. PICK last \in batch : /\ \A e \in batch : e.position <= last.position
                            /\ cursor' = [cursor EXCEPT ![r] = last.position]
  BY <1>3
<1>5. UNCHANGED <<tableVars, seq, tableLocked, txVars, session, batches, ipc, ireq, returned, live>>
  BY DEF Read, importVars
<1>6. CallsInv' /\ WritersAtRest' /\ TargetInv'
  BY <1>1, <1>5 DEF ImportingInv, CallsInv, WritersAtRest, TargetInv, Imported, tableVars, txVars
<1>7. ReadersInv'
  <2>1. /\ cursor \in [Readers -> Nat] /\ delivered \in [Readers -> SUBSET Nat]
        /\ \A x \in Readers : cursor[x] <= session.last
        /\ \A x \in Readers, e \in events : e.position <= cursor[x] => e.position \in delivered[x]
    BY <1>1 DEF ImportingInv, ReadersInv, NoSkippedEvent
  <2>2. last \in events /\ last.position \in Nat /\ last.position <= session.last
    BY <1>2, <1>4
  <2>3. /\ cursor' \in [Readers -> Nat]
        /\ \A x \in Readers : cursor'[x] = IF x = r THEN last.position ELSE cursor[x]
    BY <1>4, <2>1, <2>2
  <2>4. /\ delivered' \in [Readers -> SUBSET Nat]
        /\ \A x \in Readers : delivered'[x] = IF x = r THEN delivered[r] \union {e.position : e \in batch}
                                              ELSE delivered[x]
    BY <1>2, <1>3, <2>1
  <2>5. \A e \in events : e.position <= last.position => e.position \in delivered'[r]
    <3> SUFFICES ASSUME NEW e \in events, e.position <= last.position PROVE e.position \in delivered'[r]
      OBVIOUS
    <3>1. CASE e \in later
      <4>1. e \in batch
        BY <1>2, <1>3, <1>4, <2>2, <3>1
      <4> QED
        BY <2>4, <4>1
    <3>2. CASE e \notin later
      <4>1. e.position <= cursor[r]
        BY <1>2, <2>1, <3>2
      <4> QED
        BY <2>1, <2>4, <4>1
    <3> QED
      BY <3>1, <3>2
  <2>6. NoSkippedEvent'
    BY <1>5, <2>1, <2>3, <2>4, <2>5 DEF NoSkippedEvent, tableVars
  <2> QED
    BY <1>5, <2>1, <2>2, <2>3, <2>4, <2>6 DEF ReadersInv
<1> QED
  BY <1>5, <1>6, <1>7 DEF ImportInv, ImportingInv

-----------------------------------------------------------------------------
\* The writers go live, and after.

\* A complete target is a sound store for the writers to start from.
LEMMA ImportCompleted ==
  ASSUME N <= MaxPosition, ImportInv, EnableWriters
  PROVE  ImportInv'
<1>1. ImportingInv /\ N \in Nat /\ N > 0 /\ LastBatch \in Nat
  BY Sizes DEF ImportInv, EnableWriters
<1>2. /\ UNCHANGED <<vars, session, batches, ipc, ireq, returned>> /\ live' = TRUE
      /\ returned = 1..LastBatch /\ \A i \in Importers : ipc[i] = "idle"
  BY DEF EnableWriters
<1>3. session.last = N /\ seq = N /\ events = Imported(N)
  <2>1. session.last \in 0..N /\ seq \in 0..session.last
    BY <1>1 DEF ImportingInv, CallsInv, TargetInv
  <2>2. LastBatch \in 1..LastBatch /\ LastPosition(LastBatch) = N
    <3>1. LastBatch > 0
      BY <1>1, ImportAssumption DEF LastBatch, N
    <3> QED
      BY <1>1, <3>1, BatchBounds
  <2>3. N <= seq
    BY <1>1, <1>2, <2>2 DEF ImportingInv, TargetInv
  <2> QED
    BY <1>1, <2>1, <2>3 DEF ImportingInv, TargetInv
<1>4. /\ outbox = {} /\ snapshots = {} /\ ledger = [s \in Streams |-> NotErased]
      /\ streamLock = [s \in Streams |-> NoOne] /\ orderLock = NoOne
      /\ pc = [w \in Writers |-> "idle"] /\ req = [w \in Writers |-> NoOne]
      /\ written = [w \in Writers |-> {}] /\ staged = [w \in Writers |-> {}]
      /\ savepoint = [w \in Writers |-> NoSavepoint] /\ appends = [w \in Writers |-> 0]
  BY <1>1 DEF ImportingInv, WritersAtRest
<1>5. \A p \in 1..N : SourceRow(p) \in Row
  BY SourceRows
<1>6. IInv
  <2>1. TypeOK
    <3>1. NoSavepoint \in Savepoint
      BY DEF NoSavepoint, Savepoint
    <3>2. events \subseteq Row /\ seq \in 0..MaxPosition /\ tableLocked \in BOOLEAN
      BY <1>1, <1>3, <1>5 DEF Imported, ImportingInv, TargetInv
    <3>3. cursor \in [Readers -> Nat] /\ delivered \in [Readers -> SUBSET Nat]
      BY <1>1 DEF ImportingInv, ReadersInv
    <3> QED
      BY <1>4, <3>1, <3>2, <3>3, ConstantsAssumption DEF TypeOK, NotErased
  <2>2. LockInv
    BY <1>4 DEF LockInv, NoSavepoint
  <2>3. PositionInv
    <3>1. \A e \in events : e.position <= seq
      BY <1>1, <1>3, LastImported
    <3>2. \A r \in Readers : cursor[r] <= seq
      BY <1>1, <1>3 DEF ImportingInv, ReadersInv
    <3> QED
      BY <1>4, <3>1, <3>2 DEF PositionInv
  <2>4. NoSkippedEvent
    BY <1>1 DEF ImportingInv, ReadersInv
  <2> QED
    BY <2>1, <2>2, <2>3, <2>4 DEF IInv
<1>7. StreamInv
  <2>1. \A s \in Streams : Gapless(events, s)
    BY <1>1, <1>3, VersionsCounted, PlacesCounted DEF Gapless
  <2>2. events \union {} = events
    OBVIOUS
  <2>3. \A w \in Writers : RowsInv(w)
    BY <1>4, <2>1, <2>2 DEF RowsInv
  <2>4. \A w \in Writers : SavepointInv(w)
    BY <1>4, <2>1, <2>2 DEF SavepointInv, NoSavepoint
  <2>5. \A w \in Writers : CheckedInv(w)
    BY <1>4 DEF CheckedInv
  <2> QED
    BY <2>1, <2>3, <2>4, <2>5 DEF StreamInv
<1>8. OrderInv
  BY <1>1, <1>3, ImportedInOrder DEF OrderInv
<1>9. ImportedInv
  <2>1. \A p \in 1..N : [SourceRow(p) EXCEPT !.erased = FALSE] = SourceRow(p)
    BY SourceRows
  <2>2. {f \in events : f.position <= N} = Imported(N)
    BY <1>1, <1>3, LastImported
  <2>3. {[e EXCEPT !.erased = FALSE] : e \in Imported(N)} = Imported(N)
    BY <2>1 DEF Imported
  <2> QED
    BY <1>1, <1>3, <1>4, <2>2, <2>3 DEF ImportedInv
<1>10. LiveInv
  BY <1>2, <1>3, <1>6, <1>7, <1>8, <1>9 DEF LiveInv
<1>11. LiveInv'
  <2>1. IInv' /\ StreamInv'
    BY <1>2, <1>6, <1>7, StepInv, StreamStep
  <2>2. OrderInv' /\ ImportedInv'
    BY <1>2, <1>8, <1>9 DEF OrderInv, ImportedInv, Imported, vars, tableVars, txVars
  <2> QED
    BY <1>2, <1>3, <2>1, <2>2 DEF LiveInv
<1> QED
  BY <1>2, <1>11 DEF ImportInv

\* What a live transaction adds lies beyond the import, and tombstones change
\* neither positions nor versions.
LEMMA LiveStep ==
  ASSUME ImportInv, live, Next, UNCHANGED importVars
  PROVE  ImportInv'
<1>1. /\ LiveInv /\ IInv /\ StreamInv /\ OrderInv /\ ImportedInv /\ TypeOK /\ LockInv
      /\ session.last = N /\ N \in Nat /\ seq \in Nat
  BY Sizes DEF ImportInv, LiveInv, IInv, TypeOK
<1>2. IInv' /\ StreamInv'
  BY <1>1, StepInv, StreamStep
<1>3. UNCHANGED <<session, ipc, live>>
  BY DEF importVars
<1>4. /\ \A e \in events : e.position \in Nat /\ e.version \in Nat
      /\ \A w \in Writers : \A n \in written[w] : n.position \in Nat /\ n.version \in Nat /\ n \in Row
      /\ \A w \in Writers : written[w] \subseteq Row
  BY <1>1 DEF TypeOK, Row
<1>5. CASE Quiet
  <2>1. OrderInv'
    BY <1>1, <1>5 DEF Quiet, OrderInv
  <2>2. ImportedInv'
    BY <1>1, <1>5 DEF Quiet, ImportedInv, Imported
  <2> QED
    BY <1>1, <1>2, <1>3, <2>1, <2>2 DEF LiveInv, ImportInv
<1>6. CASE \E r \in Readers : Read(r)
  <2>1. UNCHANGED <<events, seq, written>>
    BY <1>6 DEF Read, tableVars, txVars
  <2>2. OrderInv' /\ ImportedInv'
    BY <1>1, <2>1 DEF OrderInv, ImportedInv, Imported
  <2> QED
    BY <1>1, <1>2, <1>3, <2>2 DEF LiveInv, ImportInv
<1>7. ASSUME NEW w \in Writers, InsertEvent(w), ~FailAppend(w) PROVE ImportInv'
  <2>1. /\ events' = events /\ seq' = seq + 1
        /\ written' = [written EXCEPT ![w] = @ \union {NewRow(w)}] /\ NewRow(w).position = seq + 1
    BY <1>7 DEF InsertEvent, NewRow, tableVars
  <2>2. \A x \in Writers : \A n \in written'[x] : n \in written[x] \/ n.position = seq + 1
    BY <1>1, <2>1 DEF TypeOK
  <2>3. OrderInv' /\ ImportedInv'
    BY <1>1, <1>4, <2>1, <2>2 DEF OrderInv, ImportedInv, Imported
  <2> QED
    BY <1>1, <1>2, <1>3, <2>3 DEF LiveInv, ImportInv
<1>8. ASSUME NEW w \in Writers, Commit(w) PROVE ImportInv'
  <2>1. /\ events' = events \union written[w] /\ seq' = seq
        /\ \A x \in Writers : written'[x] \subseteq written[x]
    BY <1>1, <1>8 DEF Commit, EndTransaction, TypeOK
  <2>2. \A n \in written[w] : N < n.position /\ n.position \in Nat
    BY <1>1, <1>4 DEF ImportedInv
  <2>3. \A n \in written[w], e \in events : e.position < n.position /\ (e.stream = n.stream => e.version < n.version)
    BY <1>1 DEF IInv, PositionInv, StreamInv, RowsInv
  <2>4. \A n, m \in written[w] :
           /\ n.position = m.position => n = m
           /\ n.stream = m.stream => (n.version < m.version <=> n.position < m.position)
    BY <1>1 DEF StreamInv, RowsInv
  <2>5. OrderInv'
    BY <1>1, <1>4, <2>1, <2>3, <2>4 DEF OrderInv
  <2>6. {f \in events' : f.position <= N} = {f \in events : f.position <= N}
    BY <1>1, <2>1, <2>2
  <2>7. ImportedInv'
    BY <1>1, <2>1, <2>6 DEF ImportedInv, Imported
  <2> QED
    BY <1>1, <1>2, <1>3, <2>5, <2>7 DEF LiveInv, ImportInv
<1>9. ASSUME NEW w \in Writers, CommitErase(w) PROVE ImportInv'
  <2> DEFINE s == req[w].stream
             v == req[w].expected
             T(e) == IF e.stream = s /\ e.version <= v THEN [e EXCEPT !.erased = TRUE] ELSE e
             Plain(e) == [e EXCEPT !.erased = FALSE]
  <2>1. /\ events' = {T(e) : e \in events} /\ seq' = seq
        /\ \A x \in Writers : written'[x] \subseteq written[x]
    BY <1>1, <1>9 DEF CommitErase, EndTransaction, TypeOK, Tombstoned
  <2>2. \A e \in events : /\ T(e).position = e.position /\ T(e).stream = e.stream
                          /\ T(e).version = e.version /\ Plain(T(e)) = Plain(e)
    BY <1>1 DEF TypeOK, Row
  <2> HIDE DEF T, Plain
  <2>3. OrderInv'
    BY <1>1, <2>1, <2>2 DEF OrderInv
  <2>4. {Plain(e) : e \in {f \in events' : f.position <= N}} = {Plain(e) : e \in {f \in events : f.position <= N}}
    BY <2>1, <2>2
  <2>5. ImportedInv'
    <3> USE DEF Plain
    <3> QED
      BY <1>1, <2>1, <2>4 DEF ImportedInv, Imported
  <2> QED
    BY <1>1, <1>2, <1>3, <2>3, <2>5 DEF LiveInv, ImportInv
<1> QED
  BY <1>1, <1>5, <1>6, <1>7, <1>8, <1>9, QuietActions

-----------------------------------------------------------------------------
LEMMA ImportInvariance ==
  ASSUME ~RetryWhenLive, N <= MaxPosition
  PROVE  ImportSpec => []ImportInv
<1>1. ASSUME ImportInv, [ImportNext]_allVars PROVE ImportInv'
  <2>1. ASSUME NEW i \in Importers, NEW b \in 1..LastBatch, NEW t \in 0..LastBatch, live => RetryWhenLive,
               ImportUnchanged(i, b, t) \/ ImportAccepted(i, b, t)
        PROVE  ImportInv'
    BY <1>1, <2>1, BatchTakenUp
  <2>2. ASSUME NEW i \in Importers, ImportCommit(i) \/ ImportSetval(i) \/ ImportLost(i)
        PROVE  ImportInv'
    <3>1. ~live
      BY <1>1, <2>2 DEF ImportInv, LiveInv, ImportCommit, ImportSetval, ImportLost
    <3> QED
      BY <1>1, <2>2, <3>1, BatchCommitted, SequenceSet, CallLost
  <2>3. CASE EnableWriters
    BY <1>1, <2>3, ImportCompleted
  <2>4. ASSUME live, NEW w \in Writers, WriterNext(w), UNCHANGED importVars
        PROVE  ImportInv'
    BY <1>1, <2>4, LiveStep DEF Next
  <2>5. ASSUME NEW r \in Readers, Read(r), UNCHANGED importVars
        PROVE  ImportInv'
    <3>1. CASE live
      BY <1>1, <2>5, <3>1, LiveStep DEF Next
    <3>2. CASE ~live
      BY <1>1, <2>5, <3>2, ReadWhileImporting
    <3> QED
      BY <3>1, <3>2
  <2>6. CASE UNCHANGED allVars
    <3>1. UNCHANGED vars /\ UNCHANGED importVars
      BY <2>6 DEF allVars
    <3>2. CASE live
      <4>1. LiveInv /\ IInv /\ StreamInv
        BY <1>1, <3>2 DEF ImportInv, LiveInv
      <4>2. IInv' /\ StreamInv'
        BY <3>1, <4>1, StepInv, StreamStep
      <4>3. OrderInv' /\ ImportedInv'
        BY <3>1, <4>1 DEF LiveInv, OrderInv, ImportedInv, Imported, vars, tableVars, txVars
      <4> QED
        BY <3>1, <3>2, <4>1, <4>2, <4>3 DEF ImportInv, LiveInv, importVars
    <3>3. CASE ~live
      <4>1. ImportingInv
        BY <1>1, <3>3 DEF ImportInv
      <4>2. (WritersAtRest /\ TargetInv /\ ReadersInv /\ CallsInv)'
        BY <3>1, <4>1 DEF ImportingInv, WritersAtRest, TargetInv, ReadersInv, CallsInv, NoSkippedEvent, Imported,
           vars, importVars, tableVars, txVars, readerVars
      <4>3. live' = live
        BY <3>1 DEF importVars
      <4> QED
        BY <1>1, <3>3, <4>2, <4>3 DEF ImportInv, ImportingInv
    <3> QED
      BY <3>2, <3>3
  <2> QED
    BY <1>1, <2>1, <2>2, <2>3, <2>4, <2>5, <2>6 DEF ImportNext
<1> QED
  BY <1>1, ImportStarts, PTL DEF ImportSpec

\* HistoryImporter.importBatch, for every source and batch length, when no batch is sent again once the
\* writers are live and the sequence has room for the source: the target is exactly a prefix of the
\* source whatever calls are lost, repeated or raced, and live appends go on from it without gaps.
THEOREM ImportIsFaithful ==
  ASSUME ~RetryWhenLive, N <= MaxPosition
  PROVE  ImportSpec => []ImportIsExact
<1>1. ImportInv => ImportIsExact
  <2> SUFFICES ASSUME ImportInv PROVE ImportIsExact
    OBVIOUS
  <2>1. CASE ~live
    <3>1. ImportingInv /\ N \in Nat /\ session.last \in 0..N /\ events = Imported(session.last)
      BY <2>1, Sizes DEF ImportInv, ImportingInv, CallsInv, TargetInv
    <3>2. \A e \in events : e.position \in 1..session.last
      BY <3>1, LastImported
    <3>3. ImportIsExactPrefix
      <4>1. {e \in events : e.position <= N} = events
        BY <3>1, <3>2
      <4>2. \A p \in 1..session.last : [SourceRow(p) EXCEPT !.erased = FALSE] = SourceRow(p)
        BY <3>1, SourceRows
      <4>3. {[e EXCEPT !.erased = FALSE] : e \in events} = events
        BY <3>1, <4>2 DEF Imported
      <4> QED
        BY <3>1, <4>1, <4>3 DEF ImportIsExactPrefix, Imported, ImportingInv, CallsInv, N
    <3>4. StreamsAreGapless
      <4>1. \A s \in Streams : Gapless(events, s)
        BY <3>1, VersionsCounted, PlacesCounted DEF Gapless
      <4>2. OrderInv
        BY <3>1, ImportedInOrder DEF OrderInv
      <4> QED
        BY <4>1, <4>2, GaplessVersions DEF StreamsAreGapless, OrderInv
    <3> QED
      BY <2>1, <3>3, <3>4 DEF ImportIsExact, LivePositionsAreFree
  <2>2. CASE live
    <3>1. LiveInv
      BY <2>2 DEF ImportInv
    <3>2. ImportIsExactPrefix
      BY <3>1 DEF LiveInv, ImportedInv, ImportIsExactPrefix, Imported, N
    <3>3. LivePositionsAreFree
      BY <3>1 DEF LiveInv, IInv, PositionInv, LivePositionsAreFree
    <3>4. StreamsAreGapless
      BY <3>1, GaplessVersions DEF LiveInv, StreamInv, OrderInv, StreamsAreGapless
    <3> QED
      BY <3>2, <3>3, <3>4 DEF ImportIsExact
  <2> QED
    BY <2>1, <2>2
<1> QED
  BY <1>1, ImportInvariance, PTL

\* Under the same rule no consumer of the feed misses an event, during the import or after it; a batch
\* sent again to a live store breaks it (ImportSetval rewinds the sequence).
THEOREM FeedSurvivesImport ==
  ASSUME ~RetryWhenLive, N <= MaxPosition
  PROVE  ImportSpec => []NoSkippedEvent
<1>1. ImportInv => NoSkippedEvent
  BY DEF ImportInv, ImportingInv, ReadersInv, LiveInv, IInv
<1> QED
  BY <1>1, ImportInvariance, PTL

-----------------------------------------------------------------------------
\* The in-memory and the SQLite store.

\* Positions count the log, and the versions of each stream count the stream.
LogInv ==
    /\ \E n \in Nat : {e.position : e \in rows} = 1..n
    /\ \A s \in Streams : Gapless(rows, s)

Store == (SUBSET Row) \X [Streams -> Nat \union {NotErased}] \X (SUBSET MessageIds)

Transaction == [op : {"append", "erase"}, stream : Streams, expected : Nat, count : Nat,
                message : MessageIds \union {NoMessage}, read : Store]

\* What a transaction has read is a store in which its stream was open, at the version it expects.
TransactionInv ==
    \A w \in Processes : writers[w] # NoTransaction =>
        /\ writers[w].read[2][writers[w].stream] = NotErased
        /\ CurrentVersion(writers[w].read[1], writers[w].stream) = writers[w].expected

LocalTypeOK ==
    /\ rows \in SUBSET Row /\ erasureRows \in [Streams -> Nat \union {NotErased}] /\ messages \in SUBSET MessageIds
    /\ writers \in [Processes -> Transaction \union {NoTransaction}]

LocalInv == LocalTypeOK /\ LogInv /\ TransactionInv

\* `new` may follow the rows there are.
Follows(new) ==
    /\ new \in SUBSET Row
    /\ \A n \in new : ~n.erased /\ erasureRows[n.stream] = NotErased
                      /\ CurrentVersion(rows, n.stream) < n.version
    /\ \E k \in Nat : {n.position : n \in new} = (End + 1)..(End + k)
    /\ \A n, m \in new : n.position = m.position => n = m
    /\ \A n, m \in new : n.stream = m.stream => (n.version < m.version <=> n.position < m.position)
    /\ \A s \in Streams : Gapless(rows \union new, s)

LEMMA EndCounts ==
  ASSUME NEW n \in Nat, {e.position : e \in rows} = 1..n
  PROVE  End = n
<1>1. n \in 0..n /\ \A p \in 0..n : n >= p
  OBVIOUS
<1>2. {0} \cup {e.position : e \in rows} = 0..n
  OBVIOUS
<1>3. \A m \in 0..n : (\A p \in 0..n : m >= p) => m = n
  OBVIOUS
<1> QED
  BY <1>1, <1>2, <1>3 DEF End, Max

LEMMA EndOfLog ==
  ASSUME LogInv
  PROVE  End \in Nat /\ {e.position : e \in rows} = 1..End
<1>1. PICK n \in Nat : {e.position : e \in rows} = 1..n
  BY DEF LogInv
<1>2. End = n
  BY <1>1, EndCounts
<1> QED
  BY <1>1, <1>2

\* The port's rows and versions are the ones of this module.
LEMMA PortRows ==
  /\ Port!NotErased = NotErased /\ Port!Row = Row
  /\ \A X, s : /\ Port!VersionsOf(X, s) = VersionsOf(X, s)
               /\ Port!CurrentVersion(X, s) = CurrentVersion(X, s)
  /\ \A X, s, v : Port!Tombstoned(X, s, v) = Tombstoned(X, s, v)
BY DEF Port!NotErased, NotErased, Port!Row, Row, Port!VersionsOf, VersionsOf,
       Port!CurrentVersion, CurrentVersion, Port!Max, Max, Port!Tombstoned, Tombstoned

\* Rows that follow are an append as the port promises it.
LEMMA FollowingRows ==
  ASSUME LocalInv, NEW new, Follows(new),
         rows' = rows \union new, erasureRows' = erasureRows, messages \subseteq messages'
  PROVE  Port!Append /\ rows' \in SUBSET Row /\ LogInv'
<1>1. End \in Nat /\ {e.position : e \in rows} = 1..End
  BY EndOfLog DEF LocalInv, LocalTypeOK
<1>2. PICK k \in Nat : {n.position : n \in new} = (End + 1)..(End + k)
  BY DEF Follows
<1>3. \A e \in rows : e \in Row /\ e.position \in 1..End
  BY <1>1 DEF LocalInv, LocalTypeOK
<1>4. \A n \in new : n \in Row /\ n.position \in (End + 1)..(End + k)
  BY <1>2 DEF Follows
<1>5. \A e \in rows, n \in new : e.position < n.position /\ n \notin rows
  BY <1>1, <1>3, <1>4
<1>6. rows' \ rows = new /\ rows \union (rows' \ rows) = rows \union new
  BY <1>5
<1>7. \A s \in Streams : VersionsOf(rows \union new, s) = 1..CurrentVersion(rows \union new, s)
  BY GaplessVersions DEF Follows
<1>8. \A n \in new : \A e \in rows : e.stream = n.stream => e.version < n.version
  <2> SUFFICES ASSUME NEW n \in new, NEW e \in rows, e.stream = n.stream PROVE e.version < n.version
    OBVIOUS
  <2>1. n.stream \in Streams /\ n.version \in Nat /\ e.version \in VersionsOf(rows, n.stream)
    BY <1>3, <1>4 DEF Row, VersionsOf
  <2>2. /\ CurrentVersion(rows, n.stream) \in Nat
        /\ VersionsOf(rows, n.stream) = 1..CurrentVersion(rows, n.stream)
    BY <2>1, GaplessVersions DEF LocalInv, LocalTypeOK, LogInv
  <2> QED
    BY <2>1, <2>2 DEF Follows
<1>9. Port!Append
  <2>1. Port!Extends(rows, new)
    BY <1>4, <1>5, <1>7, <1>8, PortRows DEF Follows, Port!Extends
  <2> QED
    BY <1>6, <2>1 DEF Port!Append
<1>10. LogInv'
  <2>1. {e.position : e \in rows'} = 1..(End + k) /\ End + k \in Nat
    <3>1. {e.position : e \in rows'} = {e.position : e \in rows} \union {n.position : n \in new}
      OBVIOUS
    <3> QED
      BY <1>1, <1>2, <3>1
  <2> QED
    BY <2>1 DEF LogInv, Follows, Gapless, VersionsOf
<1> QED
  BY <1>3, <1>4, <1>9, <1>10

\* The rows of an append follow.
LEMMA NewRowsFollow ==
  ASSUME LocalInv, NEW s \in Streams, NEW v \in Nat, NEW count \in Nat, ~VersionConflict(s, v)
  PROVE  Follows(NewRows(s, v, count))
<1> DEFINE new == NewRows(s, v, count)
           row(i) == [position |-> End + i, stream |-> s, version |-> v + i, erased |-> FALSE]
<1>1. End \in Nat /\ erasureRows[s] = NotErased /\ CurrentVersion(rows, s) = v
  BY EndOfLog DEF LocalInv, LocalTypeOK, VersionConflict
<1>2. VersionsOf(rows, s) = 1..v
  BY <1>1, GaplessVersions DEF LocalInv, LocalTypeOK, LogInv
<1>3. new = {row(i) : i \in 1..count}
  BY DEF NewRows
<1>4. \A i \in 1..count : row(i) \in Row /\ row(i).position = End + i /\ row(i).stream = s
                          /\ row(i).version = v + i /\ row(i).erased = FALSE
  BY <1>1 DEF Row
<1> HIDE DEF row, new
<1>5. \A n \in new : \E i \in 1..count : n = row(i)
  BY <1>3
<1>6. \A n \in new : n \in Row /\ ~n.erased /\ erasureRows[n.stream] = NotErased
                     /\ CurrentVersion(rows, n.stream) < n.version
  BY <1>1, <1>4, <1>5
<1>7. {n.position : n \in new} = (End + 1)..(End + count)
  <2>1. \A n \in new : n.position \in (End + 1)..(End + count)
    BY <1>1, <1>4, <1>5
  <2>2. \A p \in (End + 1)..(End + count) : p - End \in 1..count /\ p = End + (p - End)
    BY <1>1
  <2>3. \A p \in (End + 1)..(End + count) : \E n \in new : n.position = p
    BY <1>3, <1>4, <2>2
  <2> QED
    BY <2>1, <2>3
<1>8. \A n, m \in new : /\ n.position = m.position => n = m
                        /\ n.version < m.version <=> n.position < m.position
  <2> SUFFICES ASSUME NEW n \in new, NEW m \in new
               PROVE  /\ n.position = m.position => n = m
                      /\ n.version < m.version <=> n.position < m.position
    OBVIOUS
  <2>1. PICK i \in 1..count : n = row(i)
    BY <1>5
  <2>2. PICK j \in 1..count : m = row(j)
    BY <1>5
  <2>3. End + i = End + j => i = j
    BY <1>1
  <2>4. v + i < v + j <=> End + i < End + j
    BY <1>1
  <2> QED
    BY <1>4, <2>1, <2>2, <2>3, <2>4
<1>9. ASSUME NEW t \in Streams PROVE Gapless(rows \union new, t)
  <2>1. CASE t # s
    <3>1. \A n \in new : n.stream # t
      BY <1>4, <1>5, <2>1
    <3>2. VersionsOf(rows \union new, t) = VersionsOf(rows, t)
      BY <3>1, OtherStreams
    <3> QED
      BY <3>2 DEF LocalInv, LocalTypeOK, LogInv, Gapless
  <2>2. CASE t = s
    <3>1. VersionsOf(new, s) = (v + 1)..(v + count)
      <4>1. \A n \in new : n.version \in (v + 1)..(v + count) /\ n.stream = s
        BY <1>4, <1>5
      <4>2. \A p \in (v + 1)..(v + count) : p - v \in 1..count /\ p = v + (p - v)
        OBVIOUS
      <4>3. \A p \in (v + 1)..(v + count) : \E n \in new : n.version = p /\ n.stream = s
        BY <1>3, <1>4, <4>2
      <4> QED
        BY <4>1, <4>3 DEF VersionsOf
    <3>2. VersionsOf(rows \union new, s) = VersionsOf(rows, s) \union VersionsOf(new, s)
      BY VersionsUnion
    <3>3. (1..v) \union ((v + 1)..(v + count)) = 1..(v + count) /\ v + count \in Nat
      OBVIOUS
    <3> QED
      BY <1>2, <2>2, <3>1, <3>2, <3>3 DEF Gapless
  <2> QED
    BY <2>1, <2>2
<1>10. new \in SUBSET Row
  BY <1>6
<1>11. Follows(new)
  BY <1>6, <1>7, <1>8, <1>9, <1>10 DEF Follows
<1> QED
  BY <1>11 DEF new

\* A nonempty set of numbers has a least element.
LEMMA Least ==
  ASSUME NEW T \in SUBSET Nat, T # {}
  PROVE  \E x \in T : \A y \in T : x <= y
<1> DEFINE R == OpToRel(<, Nat)
<1>1. IsWellFoundedOn(R, Nat)
  BY NatLessThanWellFounded
<1>2. \A x, y \in Nat : y < x => <<y, x>> \in R
  BY DEF OpToRel
<1> HIDE DEF R
<1>3. \E x \in T : \A y \in T : ~ (<<y, x>> \in R)
  BY <1>1, WFMin
<1>4. \A x, y \in T : ~ (<<y, x>> \in R) => x <= y
  BY <1>2
<1> QED
  BY <1>3, <1>4

\* Row by row a batch that continues the log leaves its streams without a gap.
LEMMA BatchIsGapless ==
  ASSUME LocalInv, NEW batch \in Seq(Row), ContinuesLog(batch), NEW i \in 0..Len(batch), NEW s \in Streams
  PROVE  Gapless(rows \cup {batch[j] : j \in 1..i}, s)
<1> DEFINE P(k) == rows \cup {batch[j] : j \in 1..k}
           Sound(k) == \A t \in Streams : Gapless(P(k), t)
           T == {k \in 0..Len(batch) : ~Sound(k)}
<1>1. Len(batch) \in Nat /\ DOMAIN batch = 1..Len(batch) /\ \A k \in 1..Len(batch) : batch[k] \in Row
  BY LenProperties
<1>2. Sound(0)
  <2>1. P(0) = rows
    OBVIOUS
  <2> QED
    BY <2>1 DEF LocalInv, LocalTypeOK, LogInv
<1>3. ASSUME NEW k \in 1..Len(batch), Sound(k - 1) PROVE Sound(k)
  <2> SUFFICES ASSUME NEW t \in Streams PROVE Gapless(P(k), t)
    OBVIOUS
  <2>1. P(k) = P(k - 1) \union {batch[k]}
    BY <1>1
  <2>2. batch[k].version = CurrentVersion(P(k - 1), batch[k].stream) + 1
    BY <1>1 DEF ContinuesLog
  <2> HIDE DEF P
  <2>3. CASE batch[k].stream # t
    <3>1. \A n \in {batch[k]} : n.stream # t
      BY <2>3
    <3>2. VersionsOf(P(k - 1) \union {batch[k]}, t) = VersionsOf(P(k - 1), t)
      BY <3>1, OtherStreams
    <3> QED
      BY <1>3, <2>1, <3>2 DEF Gapless
  <2>4. CASE batch[k].stream = t
    <3> DEFINE v == CurrentVersion(P(k - 1), t)
    <3>1. v \in Nat /\ VersionsOf(P(k - 1), t) = 1..v
      BY <1>3, GaplessVersions
    <3>2. VersionsOf({batch[k]}, t) = {v + 1}
      BY <2>2, <2>4 DEF VersionsOf
    <3> HIDE DEF v
    <3>3. VersionsOf(P(k - 1) \union {batch[k]}, t) = VersionsOf(P(k - 1), t) \union VersionsOf({batch[k]}, t)
      BY VersionsUnion
    <3>4. (1..v) \union {v + 1} = 1..(v + 1) /\ v + 1 \in Nat
      BY <3>1
    <3> QED
      BY <2>1, <3>1, <3>2, <3>3, <3>4 DEF Gapless
  <2> QED
    BY <2>3, <2>4
<1> HIDE DEF Sound
<1>4. T = {}
  <2> SUFFICES ASSUME T # {} PROVE FALSE
    OBVIOUS
  <2>1. T \in SUBSET Nat
    BY <1>1
  <2>2. PICK k \in T : \A l \in T : k <= l
    BY <2>1, Least
  <2>3. k \in 1..Len(batch) /\ k - 1 \in 0..Len(batch) /\ k - 1 \notin T
    BY <1>1, <1>2, <2>2
  <2> QED
    BY <1>3, <2>2, <2>3
<1> QED
  BY <1>4 DEF Sound

\* A batch that continues the log follows.
LEMMA BatchFollows ==
  ASSUME LocalInv, NEW batch \in Seq(Row), ContinuesLog(batch),
         \A i \in DOMAIN batch : ~batch[i].erased, \A s \in Streams : erasureRows[s] = NotErased
  PROVE  Follows({batch[i] : i \in DOMAIN batch})
<1> DEFINE len == Len(batch)
           P(k) == rows \cup {batch[j] : j \in 1..k}
           new == {batch[i] : i \in 1..len}
<1>1. len \in Nat /\ DOMAIN batch = 1..len /\ \A k \in 1..len : batch[k] \in Row
  BY LenProperties
<1>2. End \in Nat
  BY EndOfLog DEF LocalInv, LocalTypeOK
<1>3. \A k \in 1..len : batch[k].position = End + k /\ batch[k].version = CurrentVersion(P(k - 1), batch[k].stream) + 1
  BY <1>1 DEF ContinuesLog
<1>4. \A k \in 0..len, s \in Streams : Gapless(P(k), s)
  BY BatchIsGapless
<1>5. ASSUME NEW k \in 1..len
      PROVE  /\ batch[k].stream \in Streams /\ batch[k].version \in Nat
             /\ VersionsOf(P(k - 1), batch[k].stream) = 1..(batch[k].version - 1)
  <2>1. batch[k].stream \in Streams /\ k - 1 \in 0..len
    BY <1>1 DEF Row
  <2>2. /\ CurrentVersion(P(k - 1), batch[k].stream) \in Nat
        /\ VersionsOf(P(k - 1), batch[k].stream) = 1..CurrentVersion(P(k - 1), batch[k].stream)
    BY <1>4, <2>1, GaplessVersions
  <2> DEFINE v == CurrentVersion(P(k - 1), batch[k].stream)
  <2>3. batch[k].version = v + 1 /\ v \in Nat /\ VersionsOf(P(k - 1), batch[k].stream) = 1..v
    BY <1>3, <2>2
  <2> HIDE DEF P, v
  <2>4. batch[k].version \in Nat /\ batch[k].version - 1 = v
    BY <2>3
  <2> QED
    BY <2>1, <2>3, <2>4
<1>6. ASSUME NEW k \in 1..len PROVE CurrentVersion(rows, batch[k].stream) < batch[k].version
  <2> DEFINE s == batch[k].stream
             v == CurrentVersion(rows, s)
  <2>1. v \in Nat /\ VersionsOf(rows, s) = 1..v
    BY <1>5, GaplessVersions DEF LocalInv, LocalTypeOK, LogInv
  <2>2. VersionsOf(rows, s) \subseteq VersionsOf(P(k - 1), s)
    BY DEF VersionsOf
  <2> HIDE DEF v, P
  <2>3. v = 0 \/ v \in 1..(batch[k].version - 1)
    BY <1>5, <2>1, <2>2
  <2>4. batch[k].version \in Nat \ {0}
    BY <1>1 DEF Row
  <2> QED
    BY <1>5, <2>1, <2>3, <2>4 DEF v
<1>7. ASSUME NEW j \in 1..len, NEW k \in 1..len, j < k, batch[j].stream = batch[k].stream
      PROVE  batch[j].version < batch[k].version
  <2>1. batch[j] \in P(k - 1)
    BY <1>1, <1>7
  <2>2. batch[j].version \in VersionsOf(P(k - 1), batch[k].stream)
    BY <1>7, <2>1 DEF VersionsOf
  <2> HIDE DEF P
  <2> QED
    BY <1>5, <2>2
<1>8. new \in SUBSET Row
  BY <1>1
<1>9. \A n \in new : ~n.erased /\ erasureRows[n.stream] = NotErased /\ CurrentVersion(rows, n.stream) < n.version
  BY <1>1, <1>5, <1>6
<1>10. {n.position : n \in new} = (End + 1)..(End + len)
  <2>1. \A k \in 1..len : batch[k].position = End + k
    BY <1>3
  <2>2. \A p \in (End + 1)..(End + len) : p - End \in 1..len /\ p = End + (p - End)
    BY <1>1, <1>2
  <2>3. \A k \in 1..len : batch[k] \in new /\ End + k \in (End + 1)..(End + len)
    BY <1>1, <1>2
  <2>4. \A n \in new : \E k \in 1..len : n = batch[k]
    OBVIOUS
  <2> HIDE DEF new
  <2>5. \A p \in (End + 1)..(End + len) : \E n \in new : n.position = p
    BY <2>1, <2>2, <2>3
  <2>6. \A n \in new : n.position \in (End + 1)..(End + len)
    BY <2>1, <2>3, <2>4
  <2> QED
    BY <2>5, <2>6
<1>11. ASSUME NEW n \in new, NEW m \in new
       PROVE  /\ n.position = m.position => n = m
              /\ n.stream = m.stream => (n.version < m.version <=> n.position < m.position)
  <2>1. PICK j \in 1..len : n = batch[j]
    OBVIOUS
  <2>2. PICK k \in 1..len : m = batch[k]
    OBVIOUS
  <2>3. n.position = End + j /\ m.position = End + k /\ n.version \in Nat /\ m.version \in Nat
    BY <1>3, <1>5, <2>1, <2>2
  <2>4. (End + j = End + k => j = k) /\ (End + j < End + k <=> j < k)
    BY <1>2
  <2>5. j < k \/ j = k \/ k < j
    OBVIOUS
  <2>6. n.stream = m.stream /\ j < k => n.version < m.version
    BY <1>7, <2>1, <2>2
  <2>7. n.stream = m.stream /\ k < j => m.version < n.version
    BY <1>7, <2>1, <2>2
  <2>8. n.position = m.position => n = m
    BY <2>1, <2>2, <2>3, <2>4
  <2>9. j = k => n = m
    BY <2>1, <2>2
  <2> HIDE DEF new
  <2> QED
    BY <2>3, <2>4, <2>5, <2>6, <2>7, <2>8, <2>9
<1>12. \A s \in Streams : Gapless(rows \union new, s)
  BY <1>1, <1>4
<1>13. Follows(new)
  <2> HIDE DEF new, P
  <2> QED
    BY <1>1, <1>8, <1>9, <1>10, <1>11, <1>12 DEF Follows
<1> QED
  BY <1>1, <1>13

\* An erasure at the stream's version is the erasure the port promises.
LEMMA ErasedRows ==
  ASSUME LocalInv, NEW s \in Streams, NEW v \in Nat, ~VersionConflict(s, v),
         rows' = Tombstoned(rows, s, v), erasureRows' = [erasureRows EXCEPT ![s] = v], messages' = messages
  PROVE  /\ \E t \in Streams : Port!Erase(t)
         /\ rows' \in SUBSET Row /\ erasureRows' \in [Streams -> Nat \union {NotErased}] /\ LogInv'
<1>1. erasureRows[s] = NotErased /\ CurrentVersion(rows, s) = v
  BY DEF VersionConflict
<1>2. Port!Erase(s)
  BY <1>1, PortRows DEF Port!Erase
<1>3. rows \in SUBSET Row
  BY DEF LocalInv, LocalTypeOK
<1>4. /\ rows' \in SUBSET Row
      /\ \A n \in rows' : \E e \in rows : e.position = n.position
      /\ \A e \in rows : \E n \in rows' : e.position = n.position
  BY <1>3, TombstonedRows
<1>5. {e.position : e \in rows'} = {e.position : e \in rows}
  BY <1>4
<1>6. \A t \in Streams : VersionsOf(Tombstoned(rows, s, v), t) = VersionsOf(rows, t)
  BY <1>3, VersionsTombstoned
<1>7. LogInv'
  BY <1>5, <1>6 DEF LocalInv, LogInv, Gapless, VersionsOf
<1> QED
  BY <1>2, <1>4, <1>7 DEF LocalInv, LocalTypeOK

\* A transaction that commits finds the store as it read it, so its checks still hold.
LEMMA StillValid ==
  ASSUME LocalInv, NEW w \in Processes, writers[w].op \in {"append", "erase"}, StillAsRead(w)
  PROVE  writers[w] \in Transaction /\ ~VersionConflict(writers[w].stream, writers[w].expected)
<1>1. writers[w] \in Transaction /\ writers[w] # NoTransaction
  BY DEF LocalInv, LocalTypeOK, NoTransaction
<1>2. writers[w].read[1] = rows /\ writers[w].read[2] = erasureRows
  BY DEF StillAsRead
<1> QED
  BY <1>1, <1>2 DEF LocalInv, TransactionInv, VersionConflict

\* The end of a transaction leaves the others theirs.
LEMMA TransactionEnds ==
  ASSUME LocalInv, NEW w \in Processes, writers' = [writers EXCEPT ![w] = NoTransaction]
  PROVE  writers' \in [Processes -> Transaction \union {NoTransaction}] /\ TransactionInv'
<1>1. writers' \in [Processes -> Transaction \union {NoTransaction}]
  BY DEF LocalInv, LocalTypeOK
<1>2. \A x \in Processes : writers'[x] # NoTransaction => writers'[x] = writers[x]
  BY DEF LocalInv, LocalTypeOK
<1> QED
  BY <1>1, <1>2 DEF LocalInv, TransactionInv

PortStep == Port!Next \/ UNCHANGED Port!logVars

LEMMA LocalStep ==
  ASSUME LocalInv, [LocalNext]_localVars
  PROVE  LocalInv' /\ PortStep
<1>1. ASSUME NEW s \in Streams, NEW v \in 0..MaxEnd, NEW n \in 1..2, MemoryAppend(s, v, n)
      PROVE  LocalInv' /\ PortStep
  <2>1. Follows(NewRows(s, v, n))
    BY <1>1, NewRowsFollow DEF MemoryAppend
  <2>2. Port!Append /\ rows' \in SUBSET Row /\ LogInv'
    BY <1>1, <2>1, FollowingRows DEF MemoryAppend
  <2> QED
    BY <1>1, <2>2 DEF MemoryAppend, PortStep, Port!Next, LocalInv, LocalTypeOK, TransactionInv
<1>2. ASSUME NEW s \in Streams, NEW v \in 0..MaxEnd, MemoryErase(s, v)
      PROVE  LocalInv' /\ PortStep
  <2>1. /\ v \in Nat /\ ~VersionConflict(s, v) /\ rows' = Tombstoned(rows, s, v)
        /\ erasureRows' = [erasureRows EXCEPT ![s] = v] /\ messages' = messages
    BY <1>2 DEF MemoryErase
  <2>2. /\ \E t \in Streams : Port!Erase(t)
        /\ rows' \in SUBSET Row /\ erasureRows' \in [Streams -> Nat \union {NotErased}] /\ LogInv'
    BY <2>1, ErasedRows
  <2> QED
    BY <1>2, <2>2 DEF MemoryErase, PortStep, Port!Next, LocalInv, LocalTypeOK, TransactionInv
<1>3. ASSUME NEW w \in Processes, NEW op \in {"append", "erase"}, NEW s \in Streams, NEW v \in 0..MaxEnd,
             NEW n \in 0..2, NEW m \in MessageIds \union {NoMessage}, BeginTransaction(w, op, s, v, n, m)
      PROVE  LocalInv' /\ PortStep
  <2> DEFINE t == [op |-> op, stream |-> s, expected |-> v, count |-> n, message |-> m,
                   read |-> <<rows, erasureRows, messages>>]
  <2>1. t \in Transaction
    <3>1. <<rows, erasureRows, messages>> \in Store /\ v \in Nat /\ n \in Nat
      BY DEF LocalInv, LocalTypeOK, Store
    <3> QED
      BY <3>1 DEF Transaction
  <2>2. t.stream = s /\ t.expected = v /\ t.read[1] = rows /\ t.read[2] = erasureRows
    OBVIOUS
  <2>3. erasureRows[s] = NotErased /\ CurrentVersion(rows, s) = v
    BY <1>3 DEF BeginTransaction, VersionConflict
  <2>4. writers' = [writers EXCEPT ![w] = t]
    BY <1>3 DEF BeginTransaction
  <2> HIDE DEF t
  <2>5. writers' \in [Processes -> Transaction \union {NoTransaction}]
    BY <2>1, <2>4 DEF LocalInv, LocalTypeOK
  <2>6. TransactionInv'
    <3>1. \A x \in Processes : x # w => writers'[x] = writers[x]
      BY <2>4 DEF LocalInv, LocalTypeOK
    <3>2. writers'[w] = t
      BY <2>4 DEF LocalInv, LocalTypeOK
    <3> QED
      BY <2>2, <2>3, <3>1, <3>2 DEF LocalInv, TransactionInv
  <2>7. UNCHANGED <<rows, erasureRows, messages>>
    BY <1>3 DEF BeginTransaction
  <2> QED
    BY <2>5, <2>6, <2>7 DEF LocalInv, LocalTypeOK, LogInv, PortStep, Port!logVars
<1>4. ASSUME NEW b \in DOMAIN Batches, ImportBatch(b)
      PROVE  LocalInv' /\ PortStep
  <2>1. Batches[b] \in Seq(Row) /\ \A i \in DOMAIN Batches[b] : ~Batches[b][i].erased
    BY LocalAssumption
  <2>2. Follows({Batches[b][i] : i \in DOMAIN Batches[b]})
    BY <1>4, <2>1, BatchFollows DEF ImportBatch
  <2>3. Port!Append /\ rows' \in SUBSET Row /\ LogInv'
    BY <1>4, <2>2, FollowingRows DEF ImportBatch
  <2> QED
    BY <1>4, <2>3 DEF ImportBatch, PortStep, Port!Next, LocalInv, LocalTypeOK, TransactionInv
<1>5. ASSUME NEW w \in Processes, CommitAppend(w)
      PROVE  LocalInv' /\ PortStep
  <2>1. writers[w] \in Transaction /\ ~VersionConflict(writers[w].stream, writers[w].expected)
    BY <1>5, StillValid DEF CommitAppend
  <2>2. Follows(NewRows(writers[w].stream, writers[w].expected, writers[w].count))
    BY <2>1, NewRowsFollow DEF Transaction
  <2>3. messages \subseteq messages' /\ messages' \in SUBSET MessageIds
    BY <1>5, <2>1 DEF CommitAppend, Transaction, LocalInv, LocalTypeOK
  <2>4. Port!Append /\ rows' \in SUBSET Row /\ LogInv'
    BY <1>5, <2>2, <2>3, FollowingRows DEF CommitAppend
  <2>5. writers' \in [Processes -> Transaction \union {NoTransaction}] /\ TransactionInv'
    BY <1>5, TransactionEnds DEF CommitAppend
  <2> QED
    BY <1>5, <2>3, <2>4, <2>5 DEF CommitAppend, PortStep, Port!Next, LocalInv, LocalTypeOK
<1>6. ASSUME NEW w \in Processes, CommitErasure(w)
      PROVE  LocalInv' /\ PortStep
  <2>1. writers[w] \in Transaction /\ ~VersionConflict(writers[w].stream, writers[w].expected)
    BY <1>6, StillValid DEF CommitErasure
  <2>2. /\ \E t \in Streams : Port!Erase(t)
        /\ rows' \in SUBSET Row /\ erasureRows' \in [Streams -> Nat \union {NotErased}] /\ LogInv'
    BY <1>6, <2>1, ErasedRows DEF CommitErasure, Transaction
  <2>3. writers' \in [Processes -> Transaction \union {NoTransaction}] /\ TransactionInv'
    BY <1>6, TransactionEnds DEF CommitErasure
  <2> QED
    BY <1>6, <2>2, <2>3 DEF CommitErasure, PortStep, Port!Next, LocalInv, LocalTypeOK
<1>7. ASSUME NEW w \in Processes, RollBack(w)
      PROVE  LocalInv' /\ PortStep
  <2>1. writers' \in [Processes -> Transaction \union {NoTransaction}] /\ TransactionInv'
    BY <1>7, TransactionEnds DEF RollBack
  <2> QED
    BY <1>7, <2>1 DEF RollBack, PortStep, LocalInv, LocalTypeOK, LogInv, Port!logVars
<1>8. CASE UNCHANGED localVars
  BY <1>8 DEF localVars, PortStep, LocalInv, LocalTypeOK, LogInv, TransactionInv, Port!logVars
<1> QED
  <2>1. ASSUME LocalNext PROVE LocalInv' /\ PortStep
    <3>1. CASE \E s \in Streams, v \in 0..MaxEnd : \E n \in 1..2 : MemoryAppend(s, v, n)
      BY <1>1, <3>1
    <3>2. CASE \E s \in Streams, v \in 0..MaxEnd : MemoryErase(s, v)
      BY <1>2, <3>2
    <3>3. CASE \E s \in Streams, v \in 0..MaxEnd : \E w \in Processes : \E n \in 1..2, m \in MessageIds \cup {NoMessage} :
                 BeginTransaction(w, "append", s, v, n, m)
      BY <1>3, <3>3
    <3>4. CASE \E s \in Streams, v \in 0..MaxEnd : \E w \in Processes : BeginTransaction(w, "erase", s, v, 0, NoMessage)
      BY <1>3, <3>4
    <3> QED
      BY <1>4, <1>5, <1>6, <1>7, <2>1, <3>1, <3>2, <3>3, <3>4 DEF LocalNext
  <2> QED
    BY <1>8, <2>1

\* The in-memory and the SQLite store (memory.ts, eventsourcing-sqlite EventStore.ts) keep the promise of
\* the event-store port, for every set of streams, processes and messages and every frozen history: an
\* append or an imported batch extends the log at its end and every stream without a gap, its messages
\* with it, and an erased stream is closed for ever.
THEOREM LocalStoresImplementThePort == LocalSpec => LocalStoresAreLogs
<1>1. LocalInit => LocalInv /\ Port!Init
  <2> SUFFICES ASSUME LocalInit PROVE LocalInv /\ Port!Init
    OBVIOUS
  <2>1. LocalTypeOK /\ TransactionInv
    BY DEF LocalInit, LocalTypeOK, TransactionInv
  <2>2. LogInv
    <3>1. {e.position : e \in rows} = 1..0 /\ \A s \in Streams : VersionsOf(rows, s) = 1..0
      BY DEF LocalInit, VersionsOf
    <3> QED
      BY <3>1 DEF LogInv, Gapless
  <2>3. Port!Init
    BY PortRows DEF LocalInit, Port!Init
  <2> QED
    BY <2>1, <2>2, <2>3 DEF LocalInv
<1>2. LocalInv /\ [LocalNext]_localVars => LocalInv' /\ [Port!Next]_Port!logVars
  BY LocalStep DEF PortStep
<1> QED
  BY <1>1, <1>2, PTL DEF LocalSpec, LocalStoresAreLogs, Port!Spec

=============================================================================
