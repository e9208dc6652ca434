----------------------------- MODULE NisshiLog -----------------------------
(***************************************************************************)
(* The event store over a Nisshi topic (packages/eventsourcing-nisshi): an *)
(* append reserves its versions in a SQL ledger together with pending rows,*)
(* produces its records, and confirms by deleting the rows; a relay        *)
(* produces what crashed appends left behind.  The broker may store a batch*)
(* and lose its acknowledgement.  Readers drop records whose version they  *)
(* have seen.                                                              *)
(***************************************************************************)
EXTENDS Integers, SequencesExt, FiniteSetsExt

CONSTANTS Appends,    \* the calls of append; a call is its own payload
          Topics,     \* the streams
          Size,       \* append -> number of its events
          PageSize,   \* rows the relay reads at once
          MaxRecords  \* bound of the topic

\* An append without events is answered before anything is reserved
ASSUME NisshiAssumption ==
    /\ Topics # {} /\ Size \in [Appends -> Nat \ {0}]
    /\ PageSize \in Nat \ {0} /\ MaxRecords \in Nat

VARIABLES lastVersion,  \* nisshi_streams: stream -> last reserved version, or NoRow
          pendingRows,  \* nisshi_pending
          topic,        \* the records of the partition
          appendCalls,  \* append -> [pc, stream, expected]
          relay         \* the rows of the page in hand, and whether the first has been produced

nisshiVars == <<lastVersion, pendingRows, topic, appendCalls, relay>>

NoRow == -1

NisshiInit ==
    /\ lastVersion = [s \in Topics |-> NoRow]
    /\ pendingRows = {} /\ topic = <<>>
    /\ appendCalls = [a \in Appends |-> [pc |-> "new", stream |-> CHOOSE s \in Topics : TRUE, expected |-> 0]]
    /\ relay = [page |-> <<>>, produced |-> FALSE]

\* read: a version counts once, however often it was produced
ReadVersions(s) == {topic[i].version : i \in {j \in DOMAIN topic : topic[j].stream = s}}

\* The records of an append, in the order of its events
VersionsOfAppend(a) == (appendCalls[a].expected + 1)..(appendCalls[a].expected + Size[a])
Records(a) == [i \in 1..Size[a] |->
                 [stream |-> appendCalls[a].stream, version |-> appendCalls[a].expected + i, payload |-> a]]
RowsOf(a) == ToSet(Records(a))

\* Calls of one event each.
OneEventEach == [a \in Appends |-> 1]

Go(a, pc) == appendCalls' = [appendCalls EXCEPT ![a].pc = pc]

-----------------------------------------------------------------------------
(* append                                                                  *)

\* The caller decides on the stream it has read
LoadStream(a, s) ==
    /\ appendCalls[a].pc = "new"
    /\ appendCalls' = [appendCalls EXCEPT ![a] = [pc |-> "reserve", stream |-> s, expected |-> Max({0} \cup ReadVersions(s))]]
    /\ UNCHANGED <<lastVersion, pendingRows, topic, relay>>

\* reserve: the ledger row is inserted (version 0) or bumped where it matches, read back, and the
\* pending rows are inserted under their primary key; all of it or nothing
Reserved(a) ==
    LET s == appendCalls[a].stream
        expected == appendCalls[a].expected IN
    CASE expected = 0 -> Size[a]
      [] expected > 0 /\ lastVersion[s] = expected -> expected + Size[a]
      [] OTHER -> lastVersion[s]

Reserve(a) ==
    /\ appendCalls[a].pc = "reserve"
    /\ LET s == appendCalls[a].stream
           inserts == appendCalls[a].expected = 0 => lastVersion[s] = NoRow
           intended == Reserved(a) = appendCalls[a].expected + Size[a]
           unique == \A row \in pendingRows : row.stream = s => row.version \notin VersionsOfAppend(a) IN
       IF inserts /\ intended /\ unique
       THEN /\ lastVersion' = [lastVersion EXCEPT ![s] = Reserved(a)]
            /\ pendingRows' = pendingRows \cup RowsOf(a)
            /\ Go(a, "produce")
       ELSE Go(a, "conflict") /\ UNCHANGED <<lastVersion, pendingRows>>
    /\ UNCHANGED <<topic, relay>>

\* produce: stored and acknowledged; stored, and the answer lost or late; or not stored.  A failure
\* rolls the reservation back, an interruption leaves it to the relay
Produce(a) ==
    /\ appendCalls[a].pc = "produce"
    /\ \/ /\ Len(topic) + Size[a] <= MaxRecords
          /\ topic' = topic \o Records(a)
          /\ \E pc \in {"confirm", "rollback", "interrupted"} : Go(a, pc)
       \/ UNCHANGED topic /\ \E pc \in {"rollback", "interrupted"} : Go(a, pc)
    /\ UNCHANGED <<lastVersion, pendingRows, relay>>

OwnRows(a) == {row \in pendingRows : row.stream = appendCalls[a].stream /\ row.version \in VersionsOfAppend(a)}

\* rollback: conditional on the ledger; it may fail itself
RollbackReservation(a) ==
    /\ appendCalls[a].pc = "rollback"
    /\ \/ /\ lastVersion' = [lastVersion EXCEPT ![appendCalls[a].stream] =
                                IF @ = appendCalls[a].expected + Size[a] THEN appendCalls[a].expected ELSE @]
          /\ pendingRows' = pendingRows \ OwnRows(a)
       \/ UNCHANGED <<lastVersion, pendingRows>>
    /\ Go(a, "failed")
    /\ UNCHANGED <<topic, relay>>

\* The rows are deleted by version; a failure here is only logged
Confirm(a) ==
    /\ appendCalls[a].pc = "confirm"
    /\ pendingRows' \in {pendingRows, pendingRows \ OwnRows(a)}
    /\ Go(a, "ok")
    /\ UNCHANGED <<lastVersion, topic, relay>>

Crash(a) ==
    /\ appendCalls[a].pc \in {"reserve", "produce", "rollback", "confirm"}
    /\ Go(a, "crashed")
    /\ UNCHANGED <<lastVersion, pendingRows, topic, relay>>

-----------------------------------------------------------------------------
(* The relay: drainPending under runPendingRelay                           *)

Precedes(x, y) == x.stream = y.stream /\ x.version < y.version

\* Mutant: the page comes in no particular order.
UnorderedPage(page) == IsInjective(page) /\ (Len(page) = PageSize \/ ToSet(page) = pendingRows)

\* SELECT ... ORDER BY stream_name, version LIMIT ...: no row before one of its stream that precedes it
IsPage(page) ==
    /\ IsInjective(page) /\ (Len(page) = PageSize \/ ToSet(page) = pendingRows)
    /\ \A row \in pendingRows, i \in DOMAIN page :
          Precedes(row, page[i]) => \E j \in 1..(i - 1) : page[j] = row

RelayReads ==
    /\ relay.page = <<>> /\ pendingRows /= {}
    /\ \E page \in SeqOf(pendingRows, PageSize) : IsPage(page) /\ relay' = [page |-> page, produced |-> FALSE]
    /\ UNCHANGED <<lastVersion, pendingRows, topic, appendCalls>>

RelayProduces ==
    /\ relay.page /= <<>> /\ ~relay.produced /\ Len(topic) < MaxRecords
    /\ topic' = Append(topic, Head(relay.page))
    /\ relay' = [relay EXCEPT !.produced = TRUE]
    /\ UNCHANGED <<lastVersion, pendingRows, appendCalls>>

\* The produced row goes by its key
RelayDeletes ==
    /\ relay.produced
    /\ pendingRows' = {row \in pendingRows : row.stream /= Head(relay.page).stream \/ row.version /= Head(relay.page).version}
    /\ relay' = [page |-> Tail(relay.page), produced |-> FALSE]
    /\ UNCHANGED <<lastVersion, topic, appendCalls>>

\* A transient failure, or a crash: the next pass reads again
RelayFails ==
    /\ relay.page /= <<>>
    /\ relay' = [page |-> <<>>, produced |-> FALSE]
    /\ UNCHANGED <<lastVersion, pendingRows, topic, appendCalls>>

NisshiNext ==
    \/ \E a \in Appends :
          \/ \E s \in Topics : LoadStream(a, s)
          \/ Reserve(a) \/ Produce(a) \/ RollbackReservation(a) \/ Confirm(a) \/ Crash(a)
    \/ RelayReads \/ RelayProduces \/ RelayDeletes \/ RelayFails

NisshiSpec == NisshiInit /\ [][NisshiNext]_nisshiVars

-----------------------------------------------------------------------------
(* Properties                                                              *)

\* However appends crash, fail after the broker stored them and are relayed again, a reader of a
\* stream sees versions 1 to n without a gap, and nothing of an answered append is missing.
ReadIsGapless ==
    /\ \A s \in Topics : ReadVersions(s) = 1..Cardinality(ReadVersions(s))
    /\ \A a \in Appends : appendCalls[a].pc = "ok" => \A row \in RowsOf(a) : Contains(topic, row)

\* The ledger makes double reservations impossible: two appends that both answered success never
\* wrote the same version of a stream.
NoDoubleReservation ==
    \A a, b \in Appends :
        a /= b /\ appendCalls[a].pc = "ok" /\ appendCalls[b].pc = "ok" /\ appendCalls[a].stream = appendCalls[b].stream
        => VersionsOfAppend(a) \cap VersionsOfAppend(b) = {}
=============================================================================
