----------------------------- MODULE ViewModels -----------------------------
(***************************************************************************)
(* packages/viewmodel: a table derived from a schema (ViewModel.ts), its   *)
(* typed store (ViewStore.ts) and the projection that hydrates it from     *)
(* the feed (hydration.ts), redelivery after a crash and rebuild included. *)
(* What a rebuild leaves when it is cut short is the Projections module's. *)
(***************************************************************************)
EXTENDS Integers, SequencesExt, FiniteSets

CONSTANTS Fields,       \* field -> [members: set of AST leaves, null: has a null member, optional]
          Dialects,     \* of "sqlite" and "pg": the scalars the driver returns
          Feed,         \* the events a feed may hold: [kind, id, row], row: field -> value
          MaxEvents, BatchSize, MaxCrashes,
          Null, Absent  \* null, and a key that is not there

VARIABLES dialect, feed, table, checkpoint, hydration, crashes

viewVars == <<dialect, feed, table, checkpoint, hydration, crashes>>

-----------------------------------------------------------------------------
(* ViewModel.ts: the storage class of a field                              *)

Text == [sqlType |-> "TEXT", json |-> FALSE]
JsonText == [sqlType |-> "TEXT", json |-> TRUE]
Leaf(node) ==
    CASE node \in {"string", "string literal", "template", "date"} -> Text
      [] node = "number" -> [sqlType |-> "DOUBLE PRECISION", json |-> FALSE]
      [] node = "int" -> [sqlType |-> "INTEGER", json |-> FALSE]
      [] node = "boolean" -> [sqlType |-> "BOOLEAN", json |-> FALSE]
      [] OTHER -> JsonText

\* A union of one member is that member, one of string literals is text, any other is kept as JSON
Classify(members) ==
    IF Cardinality(members) = 1 THEN Leaf(CHOOSE m \in members : TRUE)
    ELSE IF members = {"string literal"} THEN Text ELSE JsonText

Column(f) == [sqlType |-> Classify(Fields[f].members).sqlType, json |-> Classify(Fields[f].members).json,
              nullable |-> Fields[f].null \/ Fields[f].optional, optional |-> Fields[f].optional]

-----------------------------------------------------------------------------
(* ViewStore.ts: the row codec.  A value is [type, value], or Null, Absent *)

ToColumnValue(f, value) ==
    IF value \in {Null, Absent} THEN Null
    ELSE IF Column(f).json THEN [type |-> "json", value |-> value] ELSE value

\* External: the scalars that a driver hands back for a column
Driver(sqlType, stored) ==
    IF stored = Null THEN Null
    ELSE IF sqlType = "BOOLEAN" /\ dialect = "sqlite" THEN [type |-> "number", value |-> IF stored.value THEN 1 ELSE 0]
    ELSE IF sqlType \in {"INTEGER", "DOUBLE PRECISION"} /\ dialect = "pg" THEN [type |-> "numeral", value |-> stored.value]
    ELSE stored

CoerceBoolean(raw) == IF raw.type = "number" THEN [type |-> "boolean", value |-> raw.value /= 0] ELSE raw
CoerceNumber(raw) == IF raw.type = "numeral" THEN [type |-> "number", value |-> raw.value] ELSE raw

Normalize(column, raw) ==
    IF column.json THEN raw.value
    ELSE CASE column.sqlType = "BOOLEAN" -> CoerceBoolean(raw)
           [] column.sqlType \in {"INTEGER", "DOUBLE PRECISION"} -> CoerceNumber(raw)
           [] column.sqlType = "TEXT" -> raw

ToRow(value) == [f \in DOMAIN Fields |-> ToColumnValue(f, value[f])]

\* SQL NULL: an optional field reads back as an absent key, a required one as null
FromRow(row) ==
    [f \in DOMAIN Fields |->
        LET raw == Driver(Column(f).sqlType, row[f]) IN
        IF raw = Null THEN IF Column(f).optional THEN Absent ELSE Null ELSE Normalize(Column(f), raw)]

\* whereFragment: equality of encoded values, NULL matched by IS NULL, undefined keys left out
Where(row, criteria) == \A f \in DOMAIN criteria : criteria[f] = Absent \/ row[f] = ToColumnValue(f, criteria[f])

Find(criteria) == {[id |-> id, row |-> FromRow(table[id])] : id \in {i \in DOMAIN table : Where(table[i], criteria)}}

\* Mutant: the insert does nothing when the id exists.
UpsertKeeps(id, value) == table' = [i \in DOMAIN table \cup {id} |-> IF i \in DOMAIN table THEN table[i] ELSE ToRow(value)]

Upsert(id, value) == table' = [i \in DOMAIN table \cup {id} |-> IF i = id THEN ToRow(value) ELSE table[i]]
RemoveRow(id) == table' = [i \in DOMAIN table \ {id} |-> table[i]]

Merge(current, partial) ==
    [f \in DOMAIN Fields |-> IF f \in DOMAIN partial /\ partial[f] /= Absent THEN partial[f] ELSE current[f]]

-----------------------------------------------------------------------------
(* hydration.ts: Projection.catchup and rebuild over the store             *)

Idle == [pc |-> "idle", at |-> 0, last |-> 0, current |-> Absent]

ViewInit ==
    /\ dialect \in Dialects
    /\ feed = <<>> /\ table = [i \in {} |-> Null] /\ checkpoint = 0 /\ hydration = Idle /\ crashes = 0

Publish(event) ==
    /\ Len(feed) < MaxEvents
    /\ feed' = Append(feed, event)
    /\ UNCHANGED <<dialect, table, checkpoint, hydration, crashes>>

LoadBatch ==
    /\ hydration.pc = "idle" /\ checkpoint < Len(feed)
    /\ hydration' = [Idle EXCEPT !.pc = "handle", !.at = checkpoint,
                                 !.last = IF checkpoint + BatchSize < Len(feed) THEN checkpoint + BatchSize ELSE Len(feed)]
    /\ UNCHANGED <<dialect, feed, table, checkpoint, crashes>>

Handled == hydration' = [hydration EXCEPT !.pc = "handle", !.at = @ + 1, !.current = Absent]

\* The handler of one event.  patch reads first; of a row that is gone the handler makes nothing.
HandleEvent ==
    /\ hydration.pc = "handle" /\ hydration.at < hydration.last
    /\ LET event == feed[hydration.at + 1] IN
       \/ event.kind = "put" /\ Upsert(event.id, event.row) /\ Handled
       \/ event.kind = "drop" /\ RemoveRow(event.id) /\ Handled
       \/ /\ event.kind = "patch" /\ UNCHANGED table
          /\ IF event.id \in DOMAIN table
             THEN hydration' = [hydration EXCEPT !.pc = "patch", !.current = FromRow(table[event.id])]
             ELSE Handled
    /\ UNCHANGED <<dialect, feed, checkpoint, crashes>>

Patch ==
    /\ hydration.pc = "patch"
    /\ LET event == feed[hydration.at + 1] IN Upsert(event.id, Merge(hydration.current, event.row))
    /\ Handled
    /\ UNCHANGED <<dialect, feed, checkpoint, crashes>>

SaveCheckpoint ==
    /\ hydration.pc = "handle" /\ hydration.at = hydration.last
    /\ checkpoint' = hydration.at
    /\ hydration' = Idle
    /\ UNCHANGED <<dialect, feed, table, crashes>>

\* Whatever stops the run between two statements: the next one begins at the checkpoint
Crash ==
    /\ hydration.pc \in {"handle", "patch"} /\ crashes < MaxCrashes
    /\ crashes' = crashes + 1
    /\ hydration' = Idle
    /\ UNCHANGED <<dialect, feed, table, checkpoint>>

\* rebuild: truncate, zero the checkpoint, replay
Truncate ==
    /\ hydration.pc = "idle" /\ checkpoint > 0
    /\ table' = [i \in {} |-> Null]
    /\ hydration' = [Idle EXCEPT !.pc = "zero"]
    /\ UNCHANGED <<dialect, feed, checkpoint, crashes>>

Zero ==
    /\ hydration.pc = "zero"
    /\ checkpoint' = 0
    /\ hydration' = Idle
    /\ UNCHANGED <<dialect, feed, table, crashes>>

ViewNext ==
    \/ \E event \in Feed : Publish(event)
    \/ LoadBatch \/ HandleEvent \/ Patch \/ SaveCheckpoint \/ Crash \/ Truncate \/ Zero

-----------------------------------------------------------------------------
(* Properties                                                              *)

\* What the events say, without a table: an optional null is as good as an absent key
Said(f, value) == IF Fields[f].optional /\ value = Null THEN Absent ELSE value
Folded ==
    FoldLeft(LAMBDA view, event :
                 CASE event.kind = "put" -> [i \in DOMAIN view \cup {event.id} |-> IF i = event.id THEN event.row ELSE view[i]]
                   [] event.kind = "drop" -> [i \in DOMAIN view \ {event.id} |-> view[i]]
                   [] event.kind = "patch" -> [i \in DOMAIN view |-> IF i = event.id THEN Merge(view[i], event.row) ELSE view[i]],
             [i \in {} |-> Null], SubSeq(feed, 1, checkpoint))

Criteria == {[f \in {} |-> Null]} \cup
            UNION {{[g \in {f} |-> v] : v \in {Null} \cup {e.row[f] : e \in {d \in Feed : d.kind = "put"}}} : f \in DOMAIN Fields}

\* Whatever was delivered twice, cut between the read and the write of a patch, or rebuilt: when the
\* hydrating projection (hydration.ts) is at rest, every query of the store answers, through the
\* codec and the driver's scalars, with exactly the rows that the events up to the checkpoint
\* describe and that match the criteria on their decoded values.
QueriesFoldTheFeed ==
    hydration.pc = "idle" /\ (crashes = 0 \/ checkpoint = Len(feed)) =>
        \A criteria \in Criteria :
            Find(criteria) =
                {[id |-> i, row |-> [f \in DOMAIN Fields |-> Said(f, Folded[i][f])]] : i \in
                    {j \in DOMAIN Folded : \A f \in DOMAIN criteria :
                        criteria[f] = Absent \/ Folded[j][f] = criteria[f] \/ {Folded[j][f], criteria[f]} \subseteq {Null, Absent}}}
=============================================================================
