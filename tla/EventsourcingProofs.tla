------------------------ MODULE EventsourcingProofs -------------------------
(***************************************************************************)
(* The runtime of packages/eventsourcing, and its store over a log.        *)
(* Projections: at-least-once and in order for every number of events,     *)
(* batch size, set of unknown types, and number of stops and rebuilds,     *)
(* provided that no rebuild is cut short.  Aggregates: commands are serial *)
(* for every number of commands, events, retries and erasures and every    *)
(* spacing of snapshots.  The Nisshi store: a stream reads without a gap   *)
(* for every number of appends, streams, events of an append and size of   *)
(* the relay's page.  Its client: every call gets the answer to its own    *)
(* request, for every number of callers, requests, topics and records.     *)
(***************************************************************************)
EXTENDS Projections, Aggregates, NisshiLog, NisshiClient, SequenceTheorems, FiniteSetTheorems, TLAPS

-----------------------------------------------------------------------------
\* Projections.

\* The read model has every known event up to n.
Folded(n) == (1..n) \ Unknown \subseteq model

\* What the checkpoint covers is folded in, except between the two writes of a
\* rebuild, which nothing else can follow: the rebuild is not cut short.
CoverInv ==
    /\ pc = "zero" => ~live
    /\ pc # "zero" => Folded(checkpoint)

\* Inside a batch the events handled so far are folded in, although the
\* checkpoint does not cover them yet.
BatchInv ==
    pc = "apply" => /\ checkpoint <= position
                    /\ position <= last
                    /\ Folded(position)

IInv == TypeOK /\ CoverInv /\ BatchInv /\ ModelIsPrefix

LEMMA Initially == Init => IInv
<1> USE ConstantsAssumption
<1> SUFFICES ASSUME Init PROVE IInv
  OBVIOUS
<1>1. TypeOK
  <2>1. inTransit \in BOOLEAN /\ subscribed \in BOOLEAN /\ signal \in BOOLEAN /\ live \in BOOLEAN
    BY Zenon DEF Init
  <2> QED
    BY <2>1 DEF Init, TypeOK, Positions, Events
<1>2. CoverInv /\ BatchInv /\ ModelIsPrefix
  BY DEF Init, CoverInv, BatchInv, ModelIsPrefix, Folded
<1> QED
  BY <1>1, <1>2 DEF IInv

LEMMA CommitPreserves == IInv /\ Commit => IInv'
<1> USE ConstantsAssumption
<1> SUFFICES ASSUME IInv, Commit PROVE IInv'
  OBVIOUS
<1>1. TypeOK'
  BY DEF IInv, TypeOK, Commit, Positions, Events, busVars, runVars, counters
<1>2. (CoverInv /\ BatchInv /\ ModelIsPrefix)'
  BY DEF IInv, CoverInv, BatchInv, ModelIsPrefix, Folded, Commit, busVars, runVars, counters
<1> QED
  BY <1>1, <1>2 DEF IInv

LEMMA NotifyPreserves == IInv /\ Notify => IInv'
<1> SUFFICES ASSUME IInv, Notify PROVE IInv'
  OBVIOUS
<1>1. TypeOK'
  BY DEF IInv, TypeOK, Notify, runVars, counters
<1>2. (CoverInv /\ BatchInv /\ ModelIsPrefix)'
  BY DEF IInv, CoverInv, BatchInv, ModelIsPrefix, Folded, Notify, runVars, counters
<1> QED
  BY <1>1, <1>2 DEF IInv

LEMMA StartPreserves == IInv /\ Start => IInv'
<1> SUFFICES ASSUME IInv, Start PROVE IInv'
  OBVIOUS
<1>1. TypeOK'
  BY DEF IInv, TypeOK, Start, feedVars, counters
<1>2. (CoverInv /\ BatchInv /\ ModelIsPrefix)'
  BY DEF IInv, CoverInv, BatchInv, ModelIsPrefix, Folded, Start, feedVars, counters
<1> QED
  BY <1>1, <1>2 DEF IInv

LEMMA LoadPreserves == IInv /\ Load => IInv'
<1> USE ConstantsAssumption
<1> SUFFICES ASSUME IInv, Load PROVE IInv'
  OBVIOUS
<1>1. last' \in Positions /\ last' <= head /\ (checkpoint < head => checkpoint <= last')
  BY DEF IInv, TypeOK, Load, AtMost, Positions
<1>2. TypeOK'
  BY <1>1 DEF IInv, TypeOK, Load, Positions, feedVars, busVars, counters
<1>3. CoverInv'
  BY DEF IInv, CoverInv, Folded, Load, feedVars, busVars, counters
<1>4. BatchInv'
  BY <1>1 DEF IInv, TypeOK, CoverInv, BatchInv, Folded, Load, Positions
<1>5. ModelIsPrefix'
  BY DEF IInv, ModelIsPrefix, Load
<1> QED
  BY <1>2, <1>3, <1>4, <1>5 DEF IInv

\* An event is folded in after all the known ones before it.
LEMMA ApplyPreserves == IInv /\ Apply => IInv'
<1> USE ConstantsAssumption
<1> SUFFICES ASSUME IInv, Apply PROVE IInv'
  OBVIOUS
<1>1. /\ position \in Nat /\ position' = position + 1 /\ position + 1 <= last
      /\ last \in Positions /\ checkpoint \in Nat
      /\ position + 1 \in Events
  BY DEF IInv, TypeOK, BatchInv, Apply, Positions, Events
<1>2. Folded(position)
  BY DEF IInv, BatchInv, Apply
<1>3. model' = model \union ({position + 1} \ Unknown)
  BY DEF Apply
<1>4. TypeOK'
  BY <1>1, <1>3 DEF IInv, TypeOK, Apply, Positions, feedVars, busVars, counters
<1>5. CoverInv'
  BY <1>3 DEF IInv, CoverInv, Folded, Apply, feedVars, busVars, counters
<1>6. Folded(position)'
  BY <1>1, <1>2, <1>3 DEF Folded
<1>7. BatchInv'
  BY <1>1, <1>6 DEF IInv, BatchInv, Folded, Apply
<1>8. ModelIsPrefix'
  <2>1. SUFFICES ASSUME NEW e \in model' PROVE (1..e) \ Unknown \subseteq model'
    BY DEF ModelIsPrefix
  <2>2. CASE e \in model
    BY <2>2, <1>3 DEF IInv, ModelIsPrefix
  <2>3. CASE e = position + 1
    BY <2>3, <1>1, <1>2, <1>3 DEF Folded
  <2> QED
    BY <2>2, <2>3, <1>3
<1> QED
  BY <1>4, <1>5, <1>7, <1>8 DEF IInv

LEMMA SavePreserves == IInv /\ Save => IInv'
<1> SUFFICES ASSUME IInv, Save PROVE IInv'
  OBVIOUS
<1>1. TypeOK'
  BY DEF IInv, TypeOK, Save, feedVars, busVars, counters
<1>2. (CoverInv /\ BatchInv /\ ModelIsPrefix)'
  BY DEF IInv, CoverInv, BatchInv, ModelIsPrefix, Folded, Save, feedVars, busVars, counters
<1> QED
  BY <1>1, <1>2 DEF IInv

LEMMA WakePreserves == IInv /\ Wake => IInv'
<1> SUFFICES ASSUME IInv, Wake PROVE IInv'
  OBVIOUS
<1>1. TypeOK'
  BY DEF IInv, TypeOK, Wake, feedVars, counters
<1>2. (CoverInv /\ BatchInv /\ ModelIsPrefix)'
  BY DEF IInv, CoverInv, BatchInv, ModelIsPrefix, Folded, Wake, feedVars, counters
<1> QED
  BY <1>1, <1>2 DEF IInv

\* A worker that stops keeps to CoverInv because it is not inside a rebuild.
LEMMA StopPreserves == ASSUME ~RebuildsMayStop PROVE IInv /\ Stop => IInv'
<1> USE ConstantsAssumption
<1> SUFFICES ASSUME IInv, Stop PROVE IInv'
  OBVIOUS
<1>1. TypeOK'
  <2>1. (inTransit \in BOOLEAN /\ subscribed \in BOOLEAN /\ signal \in BOOLEAN)'
    BY Zenon DEF Stop
  <2> QED
    BY <2>1 DEF IInv, TypeOK, Stop
<1>2. pc # "zero"
  BY DEF IInv, CoverInv, Stop
<1>3. (CoverInv /\ BatchInv /\ ModelIsPrefix)'
  BY <1>2 DEF IInv, CoverInv, BatchInv, ModelIsPrefix, Folded, Stop
<1> QED
  BY <1>1, <1>3 DEF IInv

LEMMA RebuildPreserves == IInv /\ (Reset \/ ZeroCheckpoint) => IInv'
<1> USE ConstantsAssumption
<1> SUFFICES ASSUME IInv, Reset \/ ZeroCheckpoint PROVE IInv'
  OBVIOUS
<1>1. CASE Reset
  <2>1. TypeOK'
    <3>1. (subscribed \in BOOLEAN /\ signal \in BOOLEAN /\ live \in BOOLEAN)'
      BY <1>1, Zenon DEF Reset
    <3> QED
      BY <1>1, <3>1 DEF IInv, TypeOK, Reset, feedVars
  <2>2. (CoverInv /\ BatchInv /\ ModelIsPrefix)'
    BY <1>1 DEF IInv, CoverInv, BatchInv, ModelIsPrefix, Folded, Reset, feedVars
  <2> QED
    BY <2>1, <2>2 DEF IInv
<1>2. CASE ZeroCheckpoint
  <2>1. TypeOK'
    BY <1>2 DEF IInv, TypeOK, ZeroCheckpoint, Positions, feedVars, busVars, counters
  <2>2. (CoverInv /\ BatchInv /\ ModelIsPrefix)'
    BY <1>2 DEF IInv, CoverInv, BatchInv, ModelIsPrefix, Folded, ZeroCheckpoint, feedVars, busVars, counters
  <2> QED
    BY <2>1, <2>2 DEF IInv
<1> QED
  BY <1>1, <1>2

LEMMA StutterPreserves == IInv /\ UNCHANGED vars => IInv'
BY DEF IInv, TypeOK, CoverInv, BatchInv, ModelIsPrefix, Folded,
       vars, feedVars, busVars, runVars, counters

LEMMA NextPreserves == ASSUME ~RebuildsMayStop PROVE IInv /\ [Next]_vars => IInv'
BY CommitPreserves, NotifyPreserves, StartPreserves, LoadPreserves, ApplyPreserves,
   SavePreserves, WakePreserves, StopPreserves, RebuildPreserves, StutterPreserves
   DEF Next, RunStep

LEMMA Invariance == ASSUME ~RebuildsMayStop PROVE Spec => []IInv
BY Initially, NextPreserves, PTL DEF Spec

\* At-least-once (catchupWith, rebuild): through failures, restarts and
\* rebuilds that are not cut short, no event the checkpoint covers is missing
\* from the read model.
THEOREM AtLeastOnce == ASSUME ~RebuildsMayStop PROVE Spec => []CheckpointIsCovered
<1>1. IInv => CheckpointIsCovered
  BY DEF IInv, CoverInv, CheckpointIsCovered, Folded
<1> QED
  BY <1>1, Invariance, PTL

\* In order (catchupWith): the read model is always the fold of a prefix of the
\* known events of the feed.
THEOREM InOrder == ASSUME ~RebuildsMayStop PROVE Spec => []ModelIsPrefix
<1>1. IInv => ModelIsPrefix
  BY DEF IInv
<1> QED
  BY <1>1, Invariance, PTL

-----------------------------------------------------------------------------
\* Aggregates.

\* The fold of the history up to version v.
IsFold(r) == r.version <= Len(log) /\ r.state = SubSeq(log, 1, r.version)

Loaded == [version : Nat, state : Seq(Event), from : Nat]

CommandTypeOK ==
    /\ log \in Seq(Event) /\ (snapshot = NoSnapshot \/ snapshot \in Fold)
    /\ step \in [Commands -> {"load", "read", "decide", "append", "save", "done", "failed"}]
    /\ loaded \in [Commands -> Loaded] /\ emitted \in [Commands -> 0..MaxEmitted]

\* A snapshot and what a command holds are folds of the history, whatever was
\* written since; a command about to save has written what it emitted there.
FoldsInv ==
    /\ snapshot # NoSnapshot => IsFold(snapshot)
    /\ \A c \in Commands : step[c] \in {"read", "decide", "append"} => IsFold(loaded[c])
    /\ \A c \in Commands : step[c] = "save" =>
          IsFold([version |-> loaded[c].version + emitted[c], state |-> loaded[c].state \o NewEvents(c)])

\* A command that still runs has written nothing.
UnwrittenInv ==
    \A c \in Commands : step[c] \in {"load", "read", "decide", "append"} => \A i \in DOMAIN log : log[i].by # c

AggregateInv == CommandTypeOK /\ FoldsInv /\ DecisionsAreSerial /\ WrittenOnce /\ UnwrittenInv

\* What a fold covers is not touched by what is appended later.
LEMMA FoldsGrow ==
  ASSUME log \in Seq(Event), NEW e \in Seq(Event), log' = log \o e, NEW r, r.version \in Nat, IsFold(r)
  PROVE  IsFold(r)'
<1>1. Len(log) \in Nat /\ Len(e) \in Nat /\ Len(log') = Len(log) + Len(e)
  BY LenProperties, ConcatProperties
<1>2. CASE r.version = 0
  <2>1. SubSeq(log, 1, 0) = <<>> /\ SubSeq(log', 1, 0) = <<>>
    BY SubSeqEmpty
  <2> QED
    BY <1>1, <1>2, <2>1 DEF IsFold
<1>3. CASE r.version # 0
  <2>1. r.version \in 1..Len(log) /\ 1 \in 1..Len(log)
    BY <1>1, <1>3 DEF IsFold
  <2>2. SubSeq(log', 1, r.version) = SubSeq(log, 1, r.version)
    BY <2>1, SubSeqOfConcat1
  <2> QED
    BY <1>1, <2>2 DEF IsFold
<1> QED
  BY <1>2, <1>3

\* The whole history is the fold up to its length.
LEMMA FullFold ==
  ASSUME log \in Seq(Event), NEW r, r.version = Len(log), r.state = log
  PROVE  IsFold(r)
<1>1. Len(log) \in Nat /\ SubSeq(log, 1, Len(log)) = log
  BY LenProperties, SubSeqFull
<1> QED
  BY <1>1 DEF IsFold

\* What a command emits is one event after the other.
LEMMA Emits ==
  ASSUME CommandTypeOK, NEW c \in Commands
  PROVE  /\ NewEvents(c) \in Seq(Event) /\ Len(NewEvents(c)) = emitted[c] /\ emitted[c] \in Nat
         /\ \A i \in 1..emitted[c] : /\ NewEvents(c)[i].by = c /\ NewEvents(c)[i].base = loaded[c].version
                                     /\ NewEvents(c)[i].nth = i
<1>1. emitted[c] \in 0..MaxEmitted /\ emitted[c] \in Nat /\ loaded[c].version \in Nat
  BY AggregateAssumption DEF CommandTypeOK, Loaded
<1>2. NewEvents(c) \in [1..emitted[c] -> Event]
  BY <1>1, AggregateAssumption DEF NewEvents, Event
<1>3. NewEvents(c) \in Seq(Event)
  BY <1>1, <1>2, SeqDef
<1>4. Len(NewEvents(c)) = emitted[c]
  BY <1>1, <1>2, <1>3, LenProperties
<1> QED
  BY <1>1, <1>3, <1>4 DEF NewEvents

LEMMA AggregateStart == AggregateInit => AggregateInv
<1> SUFFICES ASSUME AggregateInit PROVE AggregateInv
  OBVIOUS
<1>1. log = <<>> /\ log \in Seq(Event) /\ DOMAIN log = {} /\ snapshot = NoSnapshot
  BY DEF AggregateInit
<1>2. Initial \in Loaded
  BY DEF Initial, Loaded
<1>3. CommandTypeOK
  BY <1>1, <1>2, AggregateAssumption DEF AggregateInit, CommandTypeOK
<1>4. FoldsInv
  BY <1>1 DEF AggregateInit, FoldsInv
<1>5. DecisionsAreSerial /\ WrittenOnce /\ UnwrittenInv
  BY <1>1 DEF DecisionsAreSerial, WrittenOnce, UnwrittenInv
<1> QED
  BY <1>3, <1>4, <1>5 DEF AggregateInv

\* A step that appends nothing.
LEMMA LogKept ==
  ASSUME AggregateInv, log' = log, CommandTypeOK',
         \A c \in Commands : step'[c] \in {"load", "read", "decide", "append"} =>
             step[c] \in {"load", "read", "decide", "append"},
         snapshot' = snapshot \/ (snapshot' # NoSnapshot => IsFold(snapshot')),
         \A c \in Commands : step'[c] \in {"read", "decide", "append"} =>
             IsFold(loaded'[c]) \/ (step[c] \in {"read", "decide", "append"} /\ loaded'[c] = loaded[c]),
         \A c \in Commands : step'[c] = "save" =>
             step[c] = "save" /\ loaded'[c] = loaded[c] /\ emitted'[c] = emitted[c]
  PROVE  AggregateInv'
<1>1. \A r : IsFold(r) => IsFold(r)'
  BY DEF IsFold
<1>2. FoldsInv'
  <2>1. snapshot' # NoSnapshot => IsFold(snapshot)'
    BY DEF AggregateInv, FoldsInv, IsFold
  <2>2. \A c \in Commands : step'[c] \in {"read", "decide", "append"} => IsFold(loaded[c])'
    BY DEF AggregateInv, FoldsInv, IsFold
  <2>3. ASSUME NEW c \in Commands, step'[c] = "save"
        PROVE  IsFold([version |-> loaded[c].version + emitted[c], state |-> loaded[c].state \o NewEvents(c)])'
    <3>1. NewEvents(c)' = NewEvents(c)
      BY <2>3 DEF NewEvents
    <3> QED
      BY <2>3, <3>1 DEF AggregateInv, FoldsInv, IsFold
  <2> QED
    BY <2>1, <2>2, <2>3 DEF FoldsInv
<1>3. DecisionsAreSerial' /\ WrittenOnce' /\ UnwrittenInv'
  BY DEF AggregateInv, DecisionsAreSerial, WrittenOnce, UnwrittenInv
<1> QED
  BY <1>2, <1>3 DEF AggregateInv

LEMMA SnapshotLoaded == ASSUME NEW c \in Commands PROVE AggregateInv /\ LoadSnapshot(c) => AggregateInv'
<1> SUFFICES ASSUME AggregateInv, LoadSnapshot(c) PROVE AggregateInv'
  OBVIOUS
<1> DEFINE r == IF snapshot = NoSnapshot THEN Initial
                ELSE [version |-> snapshot.version, state |-> snapshot.state, from |-> snapshot.version]
<1>1. CommandTypeOK /\ log \in Seq(Event) /\ Len(log) \in Nat
  BY LenProperties DEF AggregateInv, CommandTypeOK
<1>2. /\ log' = log /\ snapshot' = snapshot /\ emitted' = emitted /\ step[c] = "load"
      /\ step' = [step EXCEPT ![c] = "read"] /\ loaded' = [loaded EXCEPT ![c] = r]
  BY DEF LoadSnapshot, Goto
<1>3. r \in Loaded /\ IsFold(r)
  <2>1. CASE snapshot = NoSnapshot
    <3>1. SubSeq(log, 1, 0) = <<>>
      BY <1>1, SubSeqEmpty
    <3> QED
      BY <1>1, <2>1, <3>1 DEF Initial, Loaded, IsFold
  <2>2. CASE snapshot # NoSnapshot
    BY <1>1, <2>2 DEF CommandTypeOK, Fold, Loaded, AggregateInv, FoldsInv, IsFold
  <2> QED
    BY <2>1, <2>2
<1> HIDE DEF r
<1>4. CommandTypeOK'
  BY <1>1, <1>2, <1>3 DEF CommandTypeOK
<1>5. \A d \in Commands : /\ step'[d] = IF d = c THEN "read" ELSE step[d]
                          /\ loaded'[d] = IF d = c THEN r ELSE loaded[d]
  BY <1>1, <1>2 DEF CommandTypeOK
<1> QED
  BY <1>2, <1>3, <1>4, <1>5, LogKept

\* Reading the events after a fold gives the fold of everything.
LEMMA EventsRead == ASSUME NEW c \in Commands PROVE AggregateInv /\ ReadEvents(c) => AggregateInv'
<1> SUFFICES ASSUME AggregateInv, ReadEvents(c) PROVE AggregateInv'
  OBVIOUS
<1> DEFINE from == loaded[c].version
           r == [version |-> Len(log), from |-> loaded[c].from,
                 state |-> loaded[c].state \o SubSeq(log, from + 1, Len(log))]
<1>1. CommandTypeOK /\ log \in Seq(Event) /\ Len(log) \in Nat
  BY LenProperties DEF AggregateInv, CommandTypeOK
<1>2. log' = log /\ snapshot' = snapshot /\ emitted' = emitted /\ step[c] = "read"
  BY DEF ReadEvents
<1>3. CASE Goto(c, "failed") /\ UNCHANGED loaded
  <2>1. CommandTypeOK'
    BY <1>1, <1>2, <1>3 DEF CommandTypeOK, Goto
  <2>2. \A d \in Commands : step'[d] = IF d = c THEN "failed" ELSE step[d]
    BY <1>1, <1>3 DEF CommandTypeOK, Goto
  <2> QED
    BY <1>2, <1>3, <2>1, <2>2, LogKept
<1>4. CASE Goto(c, "decide") /\ loaded' = [loaded EXCEPT ![c] = r]
  <2>1. /\ from \in Nat /\ loaded[c].from \in Nat /\ from <= Len(log)
        /\ loaded[c].state = SubSeq(log, 1, from)
    BY <1>1, <1>2 DEF CommandTypeOK, Loaded, AggregateInv, FoldsInv, IsFold
  <2>2. SubSeq(log, 1, from) \o SubSeq(log, from + 1, Len(log)) = log
    <3> HIDE DEF from
    <3>1. 1 \in 1..(Len(log) + 1) /\ from \in (1 - 1)..Len(log) /\ Len(log) \in from..Len(log)
      BY <1>1, <2>1
    <3>2. SubSeq(log, 1, from) \o SubSeq(log, from + 1, Len(log)) = SubSeq(log, 1, Len(log))
      BY <1>1, <3>1, ConcatAdjacentSubSeq
    <3> QED
      BY <1>1, <3>2, SubSeqFull
  <2>3. r.state = log /\ r.version = Len(log)
    BY <2>1, <2>2
  <2>4. r \in Loaded
    BY <1>1, <2>1, <2>2 DEF Loaded
  <2>5. IsFold(r)
    BY <1>1, <2>3, FullFold
  <2> HIDE DEF r
  <2>6. CommandTypeOK'
    BY <1>1, <1>2, <1>4, <2>4 DEF CommandTypeOK, Goto
  <2>7. \A d \in Commands : /\ step'[d] = IF d = c THEN "decide" ELSE step[d]
                            /\ loaded'[d] = IF d = c THEN r ELSE loaded[d]
    BY <1>1, <1>4 DEF CommandTypeOK, Goto
  <2> QED
    BY <1>2, <2>5, <2>6, <2>7, LogKept
<1> QED
  BY <1>3, <1>4 DEF ReadEvents

LEMMA Decided == ASSUME NEW c \in Commands PROVE AggregateInv /\ Decide(c) => AggregateInv'
<1> SUFFICES ASSUME AggregateInv, Decide(c) PROVE AggregateInv'
  OBVIOUS
<1>1. CommandTypeOK
  BY DEF AggregateInv
<1>2. /\ log' = log /\ snapshot' = snapshot /\ loaded' = loaded /\ step[c] = "decide"
      /\ \E x \in {"failed", "done", "append"} : step' = [step EXCEPT ![c] = x]
      /\ emitted' = emitted \/ \E n \in 1..MaxEmitted : emitted' = [emitted EXCEPT ![c] = n]
  BY DEF Decide, Goto
<1>3. CommandTypeOK'
  <2>1. emitted' \in [Commands -> 0..MaxEmitted]
    BY <1>1, <1>2, AggregateAssumption DEF CommandTypeOK
  <2>2. step' \in [Commands -> {"load", "read", "decide", "append", "save", "done", "failed"}]
    BY <1>1, <1>2 DEF CommandTypeOK
  <2> QED
    BY <1>1, <1>2, <2>1, <2>2 DEF CommandTypeOK
<1>4. \A d \in Commands : /\ step'[d] = step[d] \/ (d = c /\ step'[d] \in {"failed", "done", "append"})
                          /\ d # c => emitted'[d] = emitted[d]
  BY <1>1, <1>2 DEF CommandTypeOK
<1>5. step'[c] # "save"
  BY <1>1, <1>2 DEF CommandTypeOK
<1> QED
  BY <1>2, <1>3, <1>4, <1>5, LogKept

LEMMA SnapshotKept == ASSUME NEW c \in Commands PROVE AggregateInv /\ KeepSnapshot(c) => AggregateInv'
<1> SUFFICES ASSUME AggregateInv, KeepSnapshot(c) PROVE AggregateInv'
  OBVIOUS
<1> DEFINE r == [version |-> loaded[c].version + emitted[c], state |-> loaded[c].state \o NewEvents(c)]
<1>1. CommandTypeOK
  BY DEF AggregateInv
<1>2. /\ log' = log /\ loaded' = loaded /\ emitted' = emitted /\ step[c] = "save"
      /\ \E x \in {"failed", "done"} : step' = [step EXCEPT ![c] = x]
      /\ snapshot' = snapshot \/ snapshot' = r
  BY DEF KeepSnapshot, Goto
<1>3. IsFold(r)
  BY <1>2 DEF AggregateInv, FoldsInv
<1>4. r \in Fold
  <2>1. loaded[c].version \in Nat /\ loaded[c].state \in Seq(Event) /\ emitted[c] \in Nat
    BY <1>1, AggregateAssumption DEF CommandTypeOK, Loaded
  <2>2. loaded[c].state \o NewEvents(c) \in Seq(Event)
    BY <1>1, <2>1, Emits, ConcatProperties
  <2> QED
    BY <2>1, <2>2 DEF Fold
<1> HIDE DEF r
<1>5. CommandTypeOK'
  BY <1>1, <1>2, <1>4 DEF CommandTypeOK
<1>6. \A d \in Commands : step'[d] = step[d] \/ step'[d] \in {"failed", "done"}
  BY <1>1, <1>2 DEF CommandTypeOK
<1> QED
  BY <1>2, <1>3, <1>5, <1>6, LogKept

LEMMA Erased == AggregateInv /\ (Erase \/ RemoveSnapshot) => AggregateInv'
<1> SUFFICES ASSUME AggregateInv, Erase \/ RemoveSnapshot PROVE AggregateInv'
  OBVIOUS
<1>1. /\ log' = log /\ step' = step /\ loaded' = loaded /\ emitted' = emitted
      /\ snapshot' = snapshot \/ snapshot' = NoSnapshot
  BY DEF Erase, RemoveSnapshot, clientVars
<1>2. CommandTypeOK'
  BY <1>1 DEF AggregateInv, CommandTypeOK
<1> QED
  BY <1>1, <1>2, LogKept

\* An append that is not refused puts the new events after the whole history
\* they were decided on.
LEMMA HistoryWritten ==
  ASSUME NEW c \in Commands, NEW x \in {"save", "done", "failed"}, AggregateInv,
         step[c] = "append", ~Conflicts(c), log' = log \o NewEvents(c), step' = [step EXCEPT ![c] = x],
         UNCHANGED <<snapshot, loaded, emitted>>
  PROVE  AggregateInv'
<1> DEFINE n == Len(log)
           e == NewEvents(c)
<1>1. CommandTypeOK /\ log \in Seq(Event) /\ n \in Nat
  BY LenProperties DEF AggregateInv, CommandTypeOK
<1>2. /\ e \in Seq(Event) /\ Len(e) = emitted[c] /\ emitted[c] \in Nat
      /\ \A i \in 1..emitted[c] : e[i].by = c /\ e[i].base = loaded[c].version /\ e[i].nth = i
  BY <1>1, Emits
<1>3. loaded[c].version = n /\ IsFold(loaded[c])
  BY DEF AggregateInv, FoldsInv, Conflicts
<1>4. /\ log' \in Seq(Event) /\ Len(log') = n + emitted[c]
      /\ \A i \in 1..(n + emitted[c]) : log'[i] = IF i <= n THEN log[i] ELSE e[i - n]
  <2>1. log' = log \o e
    OBVIOUS
  <2>2. Len(e) = emitted[c] /\ Len(e) \in Nat
    BY <1>2
  <2> HIDE DEF e
  <2>3. /\ log \o e \in Seq(Event) /\ Len(log \o e) = Len(log) + Len(e)
        /\ \A i \in 1..(Len(log) + Len(e)) : (log \o e)[i] = IF i <= Len(log) THEN log[i] ELSE e[i - Len(log)]
    BY <1>1, <1>2, ConcatProperties
  <2> QED
    BY <2>1, <2>2, <2>3
<1>5. DOMAIN log = 1..n /\ DOMAIN log' = 1..(n + emitted[c])
  BY <1>1, <1>2, <1>4, LenProperties
<1>6. CommandTypeOK'
  BY <1>1, <1>4 DEF CommandTypeOK
<1>7. \A d \in Commands : step'[d] = IF d = c THEN x ELSE step[d]
  BY <1>1 DEF CommandTypeOK
<1>8. \A i \in DOMAIN log' : \/ i \in DOMAIN log /\ log'[i] = log[i]
                             \/ /\ i - n \in 1..emitted[c] /\ log'[i].by = c
                                /\ log'[i].base = n /\ log'[i].nth = i - n
  <2> HIDE DEF n, e
  <2> SUFFICES ASSUME NEW i \in 1..(n + emitted[c])
               PROVE  \/ i \in DOMAIN log /\ log'[i] = log[i]
                      \/ /\ i - n \in 1..emitted[c] /\ log'[i].by = c
                         /\ log'[i].base = n /\ log'[i].nth = i - n
    BY <1>5
  <2>1. CASE i <= n
    BY <2>1, <1>1, <1>2, <1>4, <1>5
  <2>2. CASE ~(i <= n)
    <3>1. i - n \in 1..emitted[c] /\ log'[i] = e[i - n]
      BY <2>2, <1>1, <1>2, <1>4
    <3> QED
      BY <3>1, <1>2, <1>3
  <2> QED
    BY <2>1, <2>2
<1>9. \A i \in DOMAIN log : log[i].by # c
  BY DEF AggregateInv, UnwrittenInv
<1>10. FoldsInv'
  <2>1. ASSUME snapshot' # NoSnapshot PROVE IsFold(snapshot)'
    <3>1. IsFold(snapshot) /\ snapshot.version \in Nat
      BY <2>1, <1>1 DEF AggregateInv, FoldsInv, CommandTypeOK, Fold
    <3>2. IsFold(snapshot')
      BY <3>1
    <3> QED
      BY <1>1, <1>2, <3>1, FoldsGrow DEF IsFold
  <2>2. ASSUME NEW d \in Commands, step'[d] \in {"read", "decide", "append"} PROVE IsFold(loaded[d])'
    <3>1. IsFold(loaded[d]) /\ loaded[d].version \in Nat
      BY <2>2, <1>1, <1>7 DEF AggregateInv, FoldsInv, CommandTypeOK, Loaded
    <3> QED
      BY <1>1, <1>2, <3>1, FoldsGrow DEF IsFold
  <2>3. ASSUME NEW d \in Commands, step'[d] = "save"
        PROVE  IsFold([version |-> loaded[d].version + emitted[d], state |-> loaded[d].state \o NewEvents(d)])'
    <3> DEFINE r == [version |-> loaded[d].version + emitted[d], state |-> loaded[d].state \o NewEvents(d)]
    <3>1. r' = r
      BY DEF NewEvents
    <3>2. loaded[d].version \in Nat /\ emitted[d] \in Nat
      BY <1>1, AggregateAssumption DEF CommandTypeOK, Loaded
    <3>3. r.version \in Nat
      BY <3>2
    <3>4. IsFold(r)'
      <4>1. CASE d = c
        <5>1. SubSeq(log, 1, n) = log
          BY <1>1, SubSeqFull
        <5>2. loaded[c].state = log
          BY <5>1, <1>3 DEF IsFold
        <5>3. r.state = log' /\ r.version = Len(log')
          BY <4>1, <5>2, <1>3, <1>4
        <5>4. SubSeq(log', 1, Len(log')) = log' /\ Len(log') \in Nat
          BY <1>4, SubSeqFull, LenProperties
        <5> HIDE DEF r
        <5> QED
          BY <3>1, <5>3, <5>4 DEF IsFold
      <4>2. CASE d # c
        <5>1. IsFold(r)
          BY <2>3, <4>2, <1>7 DEF AggregateInv, FoldsInv
        <5> HIDE DEF r
        <5>2. log \in Seq(Event) /\ e \in Seq(Event) /\ log' = log \o e
          BY <1>1, <1>2
        <5> HIDE DEF e
        <5> QED
          BY <3>1, <3>3, <5>1, <5>2, FoldsGrow DEF IsFold
      <4> QED
        BY <4>1, <4>2
    <3> QED
      BY <3>4
  <2> QED
    BY <2>1, <2>2, <2>3 DEF FoldsInv
<1>11. DecisionsAreSerial'
  <2>1. SUFFICES ASSUME NEW i \in DOMAIN log' PROVE log'[i].base + log'[i].nth = i
    BY DEF DecisionsAreSerial
  <2>2. CASE i \in DOMAIN log /\ log'[i] = log[i]
    BY <2>2 DEF AggregateInv, DecisionsAreSerial
  <2>3. CASE i - n \in 1..emitted[c] /\ log'[i].by = c /\ log'[i].base = n /\ log'[i].nth = i - n
    BY <2>1, <2>3, <1>1, <1>2, <1>5
  <2> QED
    BY <2>2, <2>3, <1>8
<1>12. WrittenOnce'
  <2> SUFFICES ASSUME NEW i \in DOMAIN log', NEW k \in DOMAIN log', log'[i].by = log'[k].by
               PROVE  log'[i].base = log'[k].base
    BY DEF WrittenOnce
  <2> QED
    BY <1>8, <1>9 DEF AggregateInv, WrittenOnce
<1>13. UnwrittenInv'
  <2> SUFFICES ASSUME NEW d \in Commands, step'[d] \in {"load", "read", "decide", "append"}, NEW i \in DOMAIN log'
               PROVE  log'[i].by # d
    BY DEF UnwrittenInv
  <2>1. d # c /\ step[d] \in {"load", "read", "decide", "append"}
    BY <1>7
  <2> QED
    BY <2>1, <1>8 DEF AggregateInv, UnwrittenInv
<1> QED
  BY <1>6, <1>10, <1>11, <1>12, <1>13 DEF AggregateInv

\* An append that was refused, or of which nothing was written.
LEMMA NothingWritten ==
  ASSUME NEW c \in Commands, NEW x \in {"load", "failed"}, AggregateInv, step[c] = "append",
         step' = [step EXCEPT ![c] = x], UNCHANGED <<log, snapshot, loaded, emitted>>
  PROVE  AggregateInv'
<1>1. CommandTypeOK'
  BY DEF AggregateInv, CommandTypeOK
<1>2. \A d \in Commands : step'[d] = IF d = c THEN x ELSE step[d]
  BY DEF AggregateInv, CommandTypeOK
<1> QED
  BY <1>1, <1>2, LogKept

LEMMA EventsAppended == ASSUME NEW c \in Commands PROVE AggregateInv /\ AppendEvents(c) => AggregateInv'
<1> SUFFICES ASSUME AggregateInv, AppendEvents(c) PROVE AggregateInv'
  OBVIOUS
<1>1. step[c] = "append" /\ UNCHANGED <<snapshot, loaded, emitted>>
  BY DEF AppendEvents
<1>2. CASE /\ ~Conflicts(c) /\ log' = log \o NewEvents(c)
           /\ \E x \in {"save", "done", "failed"} : step' = [step EXCEPT ![c] = x]
  BY <1>1, <1>2, HistoryWritten
<1>3. CASE log' = log /\ \E x \in {"load", "failed"} : step' = [step EXCEPT ![c] = x]
  BY <1>1, <1>3, NothingWritten
<1> QED
  BY <1>2, <1>3 DEF AppendEvents, Goto

LEMMA AggregateInvariance == AggregateSpec => []AggregateInv
<1>1. AggregateInv /\ [AggregateNext]_aggregateVars => AggregateInv'
  <2>1. AggregateInv /\ UNCHANGED aggregateVars => AggregateInv'
    BY LogKept DEF AggregateInv, CommandTypeOK, aggregateVars, clientVars
  <2> QED
    BY <2>1, SnapshotLoaded, EventsRead, Decided, EventsAppended, SnapshotKept, Erased
       DEF AggregateNext, Execute
<1> QED
  BY <1>1, AggregateStart, PTL DEF AggregateSpec

\* Commands that race on an aggregate (execute, executeWithRetry), with any number of retries,
\* snapshots and erasures: every event was decided on the fold of all events before it, whichever
\* snapshot it was loaded from, and no command was written twice.
THEOREM CommandsSerialize == AggregateSpec => []CommandsAreSerial
<1>1. AggregateInv => CommandsAreSerial
  BY DEF AggregateInv, FoldsInv, IsFold, CommandsAreSerial, SnapshotIsPrefix, DecidesOnHistory
<1> QED
  BY <1>1, AggregateInvariance, PTL

-----------------------------------------------------------------------------
\* The Nisshi store.

Record == [stream : Topics, version : Nat \ {0}, payload : Appends]
AppendCall == [pc : {"new", "reserve", "conflict", "produce", "confirm", "rollback", "interrupted", "failed",
                     "ok", "crashed"},
               stream : Topics, expected : Nat]

NisshiTypeOK ==
    /\ topic \in Seq(Record) /\ pendingRows \in SUBSET Record
    /\ appendCalls \in [Appends -> AppendCall]
    /\ relay \in [page : Seq(Record), produced : BOOLEAN]

\* The records there are, what a reader of a stream finds, and the rows of an append, as functions.
Held == ToSet(topic)
Found == [s \in Topics |-> ReadVersions(s)]
Slots == [a \in Appends |-> RowsOf(a)]

Stored(x) == x.version \in Found[x.stream]

TopicInv == \A s \in Topics : \E n \in Nat : Found[s] = 1..n

\* Who appends has read everything before.
DecidedInv == \A a \in Appends : 1..appendCalls[a].expected \subseteq Found[appendCalls[a].stream]

\* A pending row is of an append that reserved, and the only one in its slot.
OwnedInv ==
    /\ \A x \in pendingRows : x \in Slots[x.payload] /\ appendCalls[x.payload].pc \notin {"new", "reserve"}
    /\ \A x, y \in pendingRows : x.stream = y.stream /\ x.version = y.version => x = y

\* The rows of a running append are pending or stored, and so are those before a pending row.
CoveredInv ==
    /\ \A a \in Appends : appendCalls[a].pc \in {"produce", "rollback", "confirm"} =>
          \A x \in Slots[a] : x \in pendingRows \/ Stored(x)
    /\ \A x \in pendingRows : \A y \in Slots[x.payload] :
          y.version < x.version => y \in pendingRows \/ Stored(y)

ProducedInv == \A a \in Appends : appendCalls[a].pc \in {"confirm", "ok"} => Slots[a] \subseteq Held

\* What comes before a row of the relay's page is stored, or earlier in the page.
PageInOrder(page, found) ==
    \A i \in 1..Len(page) : \A v \in 1..(page[i].version - 1) :
       \/ v \in found[page[i].stream]
       \/ \E j \in 1..(i - 1) : page[j].stream = page[i].stream /\ page[j].version = v

PageInv ==
    /\ PageInOrder(relay.page, Found)
    /\ relay.produced => relay.page # <<>> /\ Stored(relay.page[1])

NisshiInv ==
    NisshiTypeOK /\ TopicInv /\ DecidedInv /\ OwnedInv /\ CoveredInv /\ ProducedInv /\ PageInv

-----------------------------------------------------------------------------
\* The rows of an append.
LEMMA OwnSlots ==
  ASSUME NisshiTypeOK, NEW a \in Appends
  PROVE  /\ Records(a) \in Seq(Record) /\ ToSet(Records(a)) = Slots[a] /\ Slots[a] \in SUBSET Record
         /\ \A x : x \in Slots[a] <=> /\ x \in Record /\ x.payload = a /\ x.stream = appendCalls[a].stream
                                      /\ x.version \in VersionsOfAppend(a)
<1> DEFINE e == appendCalls[a].expected
           r(i) == [stream |-> appendCalls[a].stream, version |-> e + i, payload |-> a]
<1>1. e \in Nat /\ appendCalls[a].stream \in Topics /\ Size[a] \in Nat
  BY NisshiAssumption DEF NisshiTypeOK, AppendCall
<1>2. \A i \in 1..Size[a] : r(i) \in Record
  BY <1>1 DEF Record
<1>3. Records(a) = [i \in 1..Size[a] |-> r(i)]
  BY DEF Records
<1>4. Records(a) \in Seq(Record)
  <2> HIDE DEF r
  <2> QED
    BY <1>1, <1>2, <1>3, IsASeq
<1>5. RowsOf(a) = {r(i) : i \in 1..Size[a]}
  BY <1>3 DEF RowsOf, ToSet
<1>6. ASSUME NEW x \in Record, x.payload = a, x.stream = appendCalls[a].stream, x.version \in VersionsOfAppend(a)
      PROVE  x \in RowsOf(a)
  <2>1. x.version - e \in 1..Size[a] /\ e + (x.version - e) = x.version
    BY <1>1, <1>6 DEF VersionsOfAppend
  <2>2. x = [stream |-> x.stream, version |-> x.version, payload |-> x.payload]
    BY DEF Record
  <2>3. x = r(x.version - e)
    BY <1>6, <2>1, <2>2
  <2> QED
    BY <1>5, <2>1, <2>3
<1>7. ASSUME NEW x \in RowsOf(a)
      PROVE  x \in Record /\ x.payload = a /\ x.stream = appendCalls[a].stream /\ x.version \in VersionsOfAppend(a)
  <2>1. PICK i \in 1..Size[a] : x = r(i)
    BY <1>5
  <2> QED
    BY <1>1, <1>2, <2>1 DEF VersionsOfAppend
<1>8. Slots[a] = RowsOf(a)
  BY DEF Slots
<1> QED
  BY <1>4, <1>6, <1>7, <1>8 DEF RowsOf

\* A reader finds what was there and what is added.
LEMMA TopicGrew ==
  ASSUME topic \in Seq(Record), NEW more \in Seq(Record), topic' = topic \o more
  PROVE  /\ topic' \in Seq(Record) /\ Held' = Held \union ToSet(more)
         /\ \A s \in Topics : Found'[s] = Found[s] \union {x.version : x \in {y \in ToSet(more) : y.stream = s}}
<1> DEFINE n == Len(topic)
           m == Len(more)
<1>1. n \in Nat /\ m \in Nat /\ DOMAIN topic = 1..n /\ DOMAIN more = 1..m
  BY LenProperties
<1>2. /\ topic' \in Seq(Record) /\ Len(topic') = n + m
      /\ \A i \in 1..(n + m) : topic'[i] = IF i <= n THEN topic[i] ELSE more[i - n]
  BY ConcatProperties
<1>3. DOMAIN topic' = 1..(n + m)
  BY <1>1, <1>2, LenProperties
<1> HIDE DEF n, m
<1>4. \A i \in 1..n : i \in 1..(n + m) /\ topic'[i] = topic[i]
  BY <1>1, <1>2
<1>5. \A i \in 1..m : n + i \in 1..(n + m) /\ topic'[n + i] = more[i]
  BY <1>1, <1>2
<1>6. \A i \in 1..(n + m) : (i \in 1..n /\ topic'[i] = topic[i]) \/ (i - n \in 1..m /\ topic'[i] = more[i - n])
  BY <1>1, <1>2
<1>7. ToSet(topic') = ToSet(topic) \union ToSet(more)
  <2>1. ASSUME NEW x \in ToSet(topic') PROVE x \in ToSet(topic) \union ToSet(more)
    <3>1. PICK i \in 1..(n + m) : x = topic'[i]
      BY <1>3 DEF ToSet
    <3> QED
      BY <1>1, <1>6, <3>1 DEF ToSet
  <2>2. ASSUME NEW x \in ToSet(topic) PROVE x \in ToSet(topic')
    <3>1. PICK i \in 1..n : x = topic[i]
      BY <1>1 DEF ToSet
    <3> QED
      BY <1>3, <1>4, <3>1 DEF ToSet
  <2>3. ASSUME NEW x \in ToSet(more) PROVE x \in ToSet(topic')
    <3>1. PICK i \in 1..m : x = more[i]
      BY <1>1 DEF ToSet
    <3> QED
      BY <1>3, <1>5, <3>1 DEF ToSet
  <2> QED
    BY <2>1, <2>2, <2>3
<1>8. /\ \A s \in Topics : Found[s] = {x.version : x \in {y \in ToSet(topic) : y.stream = s}}
      /\ \A s \in Topics : Found'[s] = {x.version : x \in {y \in ToSet(topic') : y.stream = s}}
  BY DEF Found, ReadVersions, ToSet
<1> QED
  BY <1>2, <1>7, <1>8 DEF Held

LEMMA FoundMax ==
  ASSUME NEW s, NEW n \in Nat, ReadVersions(s) = 1..n
  PROVE  Max({0} \cup ReadVersions(s)) = n
<1>1. n \in 0..n /\ \A p \in 0..n : n >= p
  OBVIOUS
<1>2. {0} \cup ReadVersions(s) = 0..n
  OBVIOUS
<1>3. \A m \in 0..n : (\A p \in 0..n : m >= p) => m = n
  OBVIOUS
<1> QED
  BY <1>1, <1>2, <1>3 DEF Max

-----------------------------------------------------------------------------
\* The calls keep their stream and version, hence their rows.
LEMMA SameSlots ==
  ASSUME NisshiTypeOK, NEW a \in Appends, NEW next, Go(a, next)
  PROVE  /\ \A b \in Appends : /\ appendCalls'[b].stream = appendCalls[b].stream
                               /\ appendCalls'[b].expected = appendCalls[b].expected
                               /\ b # a => appendCalls'[b].pc = appendCalls[b].pc
         /\ appendCalls'[a].pc = next /\ Slots' = Slots
<1>1. \A b \in Appends : /\ appendCalls'[b].stream = appendCalls[b].stream
                         /\ appendCalls'[b].expected = appendCalls[b].expected
                         /\ b # a => appendCalls'[b].pc = appendCalls[b].pc
  BY DEF NisshiTypeOK, AppendCall, Go
<1>2. appendCalls'[a].pc = next
  BY DEF NisshiTypeOK, AppendCall, Go
<1>3. Slots' = Slots
  BY <1>1 DEF Slots, RowsOf, Records, ToSet
<1> QED
  BY <1>1, <1>2, <1>3

\* An append begins: it reads its stream.
LEMMA LoadStep ==
  ASSUME NisshiInv, NEW a \in Appends, NEW s \in Topics, LoadStream(a, s)
  PROVE  NisshiInv'
<1>1. PICK n \in Nat : Found[s] = 1..n /\ ReadVersions(s) = 1..n
  BY DEF NisshiInv, TopicInv, Found
<1>2. appendCalls' = [appendCalls EXCEPT ![a] = [pc |-> "reserve", stream |-> s, expected |-> n]]
  BY <1>1, FoundMax DEF LoadStream
<1>3. /\ appendCalls'[a].pc = "reserve" /\ appendCalls'[a].stream = s /\ appendCalls'[a].expected = n
      /\ \A b \in Appends : b # a => appendCalls'[b] = appendCalls[b]
      /\ appendCalls' \in [Appends -> AppendCall]
  BY <1>2 DEF NisshiInv, NisshiTypeOK, AppendCall
<1>4. topic' = topic /\ pendingRows' = pendingRows /\ relay' = relay /\ appendCalls[a].pc = "new"
  BY DEF LoadStream
<1>5. Found' = Found /\ Held' = Held /\ \A b \in Appends : b # a => Slots'[b] = Slots[b]
  BY <1>3, <1>4 DEF Found, ReadVersions, Held, Slots, RowsOf, Records, ToSet
<1>6. NisshiTypeOK'
  BY <1>3, <1>4 DEF NisshiInv, NisshiTypeOK
<1>7. TopicInv' /\ DecidedInv'
  BY <1>1, <1>3, <1>5 DEF NisshiInv, TopicInv, DecidedInv
<1>8. \A x \in pendingRows : x.payload \in Appends /\ x.payload # a
  BY <1>4 DEF NisshiInv, NisshiTypeOK, Record, OwnedInv
<1>9. OwnedInv'
  BY <1>3, <1>4, <1>5, <1>8 DEF NisshiInv, OwnedInv
<1>10. CoveredInv'
  BY <1>3, <1>4, <1>5, <1>8 DEF NisshiInv, CoveredInv, Stored
<1>11. ProducedInv'
  BY <1>3, <1>4, <1>5 DEF NisshiInv, ProducedInv
<1>12. PageInv'
  BY <1>4, <1>5 DEF NisshiInv, PageInv, Stored
<1> QED
  BY <1>6, <1>7, <1>9, <1>10, <1>11, <1>12 DEF NisshiInv

\* A step of a call that changes no table and no topic, and does not claim to have produced.
LEMMA QuietStep ==
  ASSUME NisshiInv, NEW a \in Appends, NEW next \in {"conflict", "rollback", "interrupted", "failed", "crashed", "ok"},
         Go(a, next), UNCHANGED <<topic, pendingRows, relay>>, appendCalls[a].pc # "new",
         next = "rollback" => appendCalls[a].pc = "produce", next = "ok" => appendCalls[a].pc = "confirm"
  PROVE  NisshiInv'
<1>1. /\ \A b \in Appends : /\ appendCalls'[b].stream = appendCalls[b].stream
                            /\ appendCalls'[b].expected = appendCalls[b].expected
                            /\ b # a => appendCalls'[b].pc = appendCalls[b].pc
      /\ appendCalls'[a].pc = next /\ Slots' = Slots
  BY SameSlots DEF NisshiInv
<1>2. Found' = Found /\ Held' = Held
  BY DEF Found, ReadVersions, Held
<1>3. NisshiTypeOK'
  BY DEF NisshiInv, NisshiTypeOK, AppendCall, Go
<1>4. TopicInv' /\ DecidedInv' /\ PageInv'
  BY <1>1, <1>2 DEF NisshiInv, TopicInv, DecidedInv, PageInv, Stored
<1>5. \A x \in pendingRows : x.payload \in Appends
  BY DEF NisshiInv, NisshiTypeOK, Record
<1>6. OwnedInv'
  BY <1>1, <1>5 DEF NisshiInv, OwnedInv
<1>7. CoveredInv'
  BY <1>1, <1>2, <1>5 DEF NisshiInv, CoveredInv, Stored
<1>8. ProducedInv'
  BY <1>1, <1>2 DEF NisshiInv, ProducedInv
<1> QED
  BY <1>3, <1>4, <1>6, <1>7, <1>8 DEF NisshiInv

\* A reservation that holds.
LEMMA ReserveStep ==
  ASSUME NisshiInv, NEW a \in Appends, Reserve(a)
  PROVE  NisshiInv'
<1>1. CASE Go(a, "conflict") /\ pendingRows' = pendingRows
  BY <1>1, QuietStep DEF Reserve
<1>2. CASE /\ Go(a, "produce") /\ pendingRows' = pendingRows \cup Slots[a]
           /\ \A x \in pendingRows : x.stream = appendCalls[a].stream => x.version \notin VersionsOfAppend(a)
  <2>1. topic' = topic /\ relay' = relay /\ appendCalls[a].pc = "reserve"
    BY DEF Reserve
  <2>2. /\ \A b \in Appends : /\ appendCalls'[b].stream = appendCalls[b].stream
                              /\ appendCalls'[b].expected = appendCalls[b].expected
                              /\ b # a => appendCalls'[b].pc = appendCalls[b].pc
        /\ appendCalls'[a].pc = "produce" /\ Slots' = Slots
    BY <1>2, SameSlots DEF NisshiInv
  <2>3. Found' = Found /\ Held' = Held
    BY <2>1 DEF Found, ReadVersions, Held
  <2>4. /\ Slots[a] \in SUBSET Record
        /\ \A x \in Slots[a] : x.payload = a /\ x.stream = appendCalls[a].stream /\ x.version \in VersionsOfAppend(a)
    BY OwnSlots DEF NisshiInv
  <2>5. \A x, y \in Slots[a] : x.stream = y.stream /\ x.version = y.version => x = y
    BY <2>4 DEF Record
  <2>6. NisshiTypeOK'
    BY <1>2, <2>1, <2>4 DEF NisshiInv, NisshiTypeOK, AppendCall, Go
  <2>7. TopicInv' /\ DecidedInv' /\ PageInv'
    BY <2>1, <2>2, <2>3 DEF NisshiInv, TopicInv, DecidedInv, PageInv, Stored
  <2>8. \A x \in pendingRows : x.payload \in Appends /\ x.payload # a
    BY <2>1 DEF NisshiInv, NisshiTypeOK, Record, OwnedInv
  <2>9. OwnedInv'
    BY <1>2, <2>2, <2>4, <2>5, <2>8 DEF NisshiInv, OwnedInv
  <2>10. CoveredInv'
    BY <1>2, <2>2, <2>3, <2>4, <2>8 DEF NisshiInv, CoveredInv, Stored
  <2>11. ProducedInv'
    BY <2>1, <2>2, <2>3 DEF NisshiInv, ProducedInv
  <2> QED
    BY <2>6, <2>7, <2>9, <2>10, <2>11 DEF NisshiInv
<1> QED
  <2>1. Slots[a] = RowsOf(a)
    BY DEF Slots
  <2> QED
    BY <1>1, <1>2, <2>1 DEF Reserve

\* A page stays in order when more is stored.
LEMMA OrderKept ==
  ASSUME NEW page \in Seq(Record), NEW f, NEW g, \A s \in Topics : f[s] \subseteq g[s], PageInOrder(page, f)
  PROVE  PageInOrder(page, g)
<1>1. \A i \in 1..Len(page) : page[i] \in Record
  BY LenProperties
<1>2. \A i \in 1..Len(page) : page[i].stream \in Topics
  BY <1>1 DEF Record
<1> QED
  BY <1>2 DEF PageInOrder

\* The broker stores the records of an append; its call succeeds, fails or is interrupted.
LEMMA StoredStep ==
  ASSUME NisshiInv, NEW a \in Appends, NEW next \in {"confirm", "rollback", "interrupted"}, Go(a, next),
         appendCalls[a].pc = "produce", topic' = topic \o Records(a), UNCHANGED <<pendingRows, relay>>
  PROVE  NisshiInv'
<1> DEFINE e == appendCalls[a].expected
           t == appendCalls[a].stream
<1>1. /\ \A b \in Appends : /\ appendCalls'[b].stream = appendCalls[b].stream
                            /\ appendCalls'[b].expected = appendCalls[b].expected
                            /\ b # a => appendCalls'[b].pc = appendCalls[b].pc
      /\ appendCalls'[a].pc = next /\ Slots' = Slots
  BY SameSlots DEF NisshiInv
<1>2. /\ Records(a) \in Seq(Record) /\ ToSet(Records(a)) = Slots[a]
      /\ \A x : x \in Slots[a] <=> /\ x \in Record /\ x.payload = a /\ x.stream = t
                                   /\ x.version \in VersionsOfAppend(a)
  BY OwnSlots DEF NisshiInv
<1>3. /\ topic' \in Seq(Record) /\ Held' = Held \union Slots[a]
      /\ \A s \in Topics : Found'[s] = Found[s] \union {x.version : x \in {y \in Slots[a] : y.stream = s}}
  BY <1>2, TopicGrew DEF NisshiInv, NisshiTypeOK
<1>4. e \in Nat /\ t \in Topics /\ Size[a] \in Nat /\ VersionsOfAppend(a) = (e + 1)..(e + Size[a])
  BY NisshiAssumption DEF NisshiInv, NisshiTypeOK, AppendCall, VersionsOfAppend
<1>5. {x.version : x \in {y \in Slots[a] : y.stream = t}} = VersionsOfAppend(a)
  <2>1. \A v \in VersionsOfAppend(a) : [stream |-> t, version |-> v, payload |-> a] \in Slots[a]
    BY <1>2, <1>4 DEF Record
  <2>2. \A v \in VersionsOfAppend(a) : \E x \in Slots[a] : x.stream = t /\ x.version = v
    BY <2>1
  <2> QED
    BY <1>2, <2>2
<1>6. \A s \in Topics : Found[s] \subseteq Found'[s] /\ (s # t => Found'[s] = Found[s])
  <2>1. \A s \in Topics : s # t => {x.version : x \in {y \in Slots[a] : y.stream = s}} = {}
    BY <1>2
  <2> QED
    BY <1>3, <2>1
<1>7. NisshiTypeOK'
  BY <1>3 DEF NisshiInv, NisshiTypeOK, AppendCall, Go
<1>8. TopicInv'
  <2>1. PICK n \in Nat : Found[t] = 1..n
    BY <1>4 DEF NisshiInv, TopicInv
  <2>2. 1..e \subseteq 1..n
    BY <2>1 DEF NisshiInv, DecidedInv
  <2>3. Found'[t] = (1..n) \union ((e + 1)..(e + Size[a]))
    BY <1>3, <1>4, <1>5, <2>1
  <2>4. e <= n
    <3>1. e = 0 \/ e \in 1..e
      BY <1>4
    <3> QED
      BY <2>2, <3>1
  <2>5. \E m \in Nat : Found'[t] = 1..m
    <3>1. CASE e + Size[a] <= n
      <4>1. Found'[t] = 1..n
        BY <1>4, <2>3, <2>4, <3>1
      <4> QED
        BY <4>1
    <3>2. CASE n < e + Size[a]
      <4>1. PICK m \in Nat : m = e + Size[a]
        BY <1>4
      <4>2. (1..n) \union ((e + 1)..m) = 1..m
        BY <1>4, <2>4, <3>2, <4>1
      <4>3. Found'[t] = 1..m
        BY <2>3, <4>1, <4>2
      <4> QED
        BY <4>3
    <3> QED
      BY <1>4, <3>1, <3>2
  <2> QED
    BY <1>6, <2>5 DEF NisshiInv, TopicInv
<1>9. \A b \in Appends : appendCalls[b].stream \in Topics
  BY DEF NisshiInv, NisshiTypeOK, AppendCall
<1>10. DecidedInv'
  BY <1>1, <1>6, <1>9 DEF NisshiInv, DecidedInv
<1>11. \A x \in pendingRows : x.payload \in Appends /\ x.stream \in Topics
  BY DEF NisshiInv, NisshiTypeOK, Record
<1>12. OwnedInv'
  BY <1>1, <1>11 DEF NisshiInv, OwnedInv
<1>13. \A b \in Appends : \A x \in Slots[b] : x.stream \in Topics
  BY OwnSlots DEF NisshiInv, Record
<1>14. CoveredInv'
  BY <1>1, <1>6, <1>11, <1>13 DEF NisshiInv, CoveredInv, Stored
<1>15. ProducedInv'
  BY <1>1, <1>3 DEF NisshiInv, ProducedInv
<1>16. PageInv'
  <2>1. relay.page \in Seq(Record) /\ relay' = relay
    BY DEF NisshiInv, NisshiTypeOK
  <2>2. PageInOrder(relay'.page, Found')
    BY <1>6, <2>1, OrderKept DEF NisshiInv, PageInv
  <2>3. relay.page # <<>> => relay.page[1] \in Record
    BY <2>1, EmptySeq, LenProperties
  <2> QED
    BY <1>6, <2>1, <2>2, <2>3 DEF NisshiInv, PageInv, Stored, Record
<1> QED
  BY <1>7, <1>8, <1>10, <1>12, <1>14, <1>15, <1>16 DEF NisshiInv

\* An append that ends deletes the rows in its slots: they are its own, or stored.
LEMMA EndStep ==
  ASSUME NisshiInv, NEW a \in Appends, NEW next \in {"failed", "ok"}, Go(a, next),
         appendCalls[a].pc = IF next = "ok" THEN "confirm" ELSE "rollback",
         pendingRows' = pendingRows \ OwnRows(a), UNCHANGED <<topic, relay>>
  PROVE  NisshiInv'
<1>1. /\ \A b \in Appends : /\ appendCalls'[b].stream = appendCalls[b].stream
                            /\ appendCalls'[b].expected = appendCalls[b].expected
                            /\ b # a => appendCalls'[b].pc = appendCalls[b].pc
      /\ appendCalls'[a].pc = next /\ Slots' = Slots
  BY SameSlots DEF NisshiInv
<1>2. Found' = Found /\ Held' = Held
  BY DEF Found, ReadVersions, Held
<1>3. NisshiTypeOK'
  BY DEF NisshiInv, NisshiTypeOK, AppendCall, Go
<1>4. TopicInv' /\ DecidedInv' /\ PageInv'
  BY <1>1, <1>2 DEF NisshiInv, TopicInv, DecidedInv, PageInv, Stored
<1>5. \A x \in pendingRows : x \in Record /\ x.payload \in Appends
  BY DEF NisshiInv, NisshiTypeOK, Record
<1>6. \A b \in Appends : \A x :
         x \in Slots[b] <=> /\ x \in Record /\ x.payload = b /\ x.stream = appendCalls[b].stream
                            /\ x.version \in VersionsOfAppend(b)
  BY OwnSlots DEF NisshiInv
<1>7. ASSUME NEW x \in OwnRows(a), x.payload # a PROVE Stored(x)
  <2> DEFINE y == [stream |-> x.stream, version |-> x.version, payload |-> a]
  <2>1. x \in pendingRows /\ x.stream = appendCalls[a].stream /\ x.version \in VersionsOfAppend(a)
    BY DEF OwnRows
  <2>2. y \in Record /\ y.stream = x.stream /\ y.version = x.version /\ y.payload = a
    BY <1>5, <2>1 DEF Record
  <2> HIDE DEF y
  <2>3. y \in Slots[a]
    BY <1>6, <2>1, <2>2
  <2>4. y \in pendingRows \/ Stored(y)
    BY <2>3 DEF NisshiInv, CoveredInv
  <2>5. y \notin pendingRows
    BY <1>7, <2>1, <2>2 DEF NisshiInv, OwnedInv
  <2> QED
    BY <2>2, <2>4, <2>5 DEF Stored
<1>8. pendingRows' \subseteq pendingRows
  OBVIOUS
<1>9. OwnedInv'
  BY <1>1, <1>5, <1>8 DEF NisshiInv, OwnedInv
<1>10. ASSUME NEW b \in Appends, appendCalls'[b].pc \in {"produce", "rollback", "confirm"}, NEW x \in Slots[b]
       PROVE  x \in pendingRows' \/ Stored(x)
  <2>1. b # a /\ x.payload = b
    BY <1>1, <1>6, <1>10
  <2>2. x \in pendingRows \/ Stored(x)
    BY <1>1, <1>10, <2>1 DEF NisshiInv, CoveredInv
  <2> QED
    BY <1>7, <2>1, <2>2
<1>11. ASSUME NEW x \in pendingRows', NEW y \in Slots[x.payload], y.version < x.version
       PROVE  y \in pendingRows' \/ Stored(y)
  <2>1. x \in pendingRows /\ x \notin OwnRows(a) /\ x.payload \in Appends
    BY <1>5, <1>8
  <2>2. y \in pendingRows \/ Stored(y)
    BY <1>11, <2>1 DEF NisshiInv, CoveredInv
  <2>3. y.payload = x.payload
    BY <1>6, <2>1
  <2>4. x.payload # a
    <3>1. x \in Slots[x.payload]
      BY <2>1 DEF NisshiInv, OwnedInv
    <3> QED
      BY <1>6, <2>1, <3>1 DEF OwnRows
  <2> QED
    BY <1>7, <2>2, <2>3, <2>4
<1>12. CoveredInv'
  BY <1>1, <1>2, <1>10, <1>11 DEF CoveredInv, Stored
<1>13. ProducedInv'
  BY <1>1, <1>2 DEF NisshiInv, ProducedInv
<1> QED
  BY <1>3, <1>4, <1>9, <1>12, <1>13 DEF NisshiInv

\* The relay takes a page of the pending rows.
LEMMA RelayReadsStep ==
  ASSUME NisshiInv, RelayReads
  PROVE  NisshiInv'
<1>1. PICK page \in SeqOf(pendingRows, PageSize) : IsPage(page) /\ relay' = [page |-> page, produced |-> FALSE]
  BY DEF RelayReads
<1>2. topic' = topic /\ pendingRows' = pendingRows /\ appendCalls' = appendCalls
  BY DEF RelayReads
<1>3. Found' = Found /\ Held' = Held /\ Slots' = Slots
  BY <1>2 DEF Found, ReadVersions, Held, Slots, RowsOf, Records, ToSet
<1>4. pendingRows \in SUBSET Record
  BY DEF NisshiInv, NisshiTypeOK
<1>5. /\ page \in Seq(Record) /\ DOMAIN page = 1..Len(page)
      /\ \A i \in 1..Len(page) : page[i] \in pendingRows
  <2>1. PICK m \in 0..PageSize : page \in [1..m -> pendingRows]
    BY <1>1 DEF SeqOf
  <2>2. m \in Nat
    BY NisshiAssumption
  <2>3. page \in Seq(pendingRows) /\ Len(page) = m
    BY <2>1, <2>2, IsASeq
  <2> QED
    BY <1>4, <2>1, <2>3
<1>6. NisshiTypeOK'
  BY <1>1, <1>2, <1>5 DEF NisshiInv, NisshiTypeOK
<1>7. TopicInv' /\ DecidedInv' /\ OwnedInv' /\ ProducedInv'
  BY <1>2, <1>3 DEF NisshiInv, TopicInv, DecidedInv, OwnedInv, ProducedInv
<1>8. CoveredInv'
  BY <1>2, <1>3 DEF NisshiInv, CoveredInv, Stored
<1>9. PageInOrder(page, Found)
  <2> SUFFICES ASSUME NEW i \in 1..Len(page), NEW v \in 1..(page[i].version - 1), v \notin Found[page[i].stream]
               PROVE  \E j \in 1..(i - 1) : page[j].stream = page[i].stream /\ page[j].version = v
    BY DEF PageInOrder
  <2> DEFINE x == page[i]
             a == x.payload
             y == [stream |-> x.stream, version |-> v, payload |-> a]
  <2>1. x \in pendingRows /\ x \in Record /\ a \in Appends /\ x \in Slots[a]
    BY <1>4, <1>5 DEF NisshiInv, OwnedInv, Record
  <2>2. x.stream = appendCalls[a].stream /\ x.version \in VersionsOfAppend(a)
    BY <2>1, OwnSlots DEF NisshiInv
  <2>3. appendCalls[a].expected \in Nat /\ Size[a] \in Nat /\ x.version \in Nat
    BY <2>1, NisshiAssumption DEF NisshiInv, NisshiTypeOK, AppendCall, Record
  <2>4. v \in VersionsOfAppend(a)
    <3>1. v \notin 1..appendCalls[a].expected
      BY <2>1, <2>2 DEF NisshiInv, DecidedInv
    <3>2. x.version <= appendCalls[a].expected + Size[a]
      BY <2>2, <2>3 DEF VersionsOfAppend
    <3>3. v \in Nat /\ 1 <= v /\ v < x.version
      BY <2>3
    <3>4. appendCalls[a].expected < v
      BY <2>3, <3>1, <3>3
    <3> QED
      BY <2>3, <3>2, <3>3, <3>4 DEF VersionsOfAppend
  <2>5. y \in Record /\ y.stream = x.stream /\ y.version = v /\ y.payload = a /\ v < x.version
    BY <2>1, <2>3 DEF Record
  <2> HIDE DEF y
  <2>6. y \in Slots[a]
    BY <2>1, <2>2, <2>4, <2>5, OwnSlots DEF NisshiInv
  <2>7. y \in pendingRows
    BY <2>1, <2>5, <2>6 DEF NisshiInv, CoveredInv, Stored
  <2>8. Precedes(y, page[i])
    BY <2>5 DEF Precedes
  <2>9. \E j \in 1..(i - 1) : page[j] = y
    BY <1>1, <1>5, <2>7, <2>8 DEF IsPage
  <2> QED
    BY <2>5, <2>9
<1>10. PageInv'
  BY <1>1, <1>3, <1>9 DEF PageInv
<1> QED
  BY <1>6, <1>7, <1>8, <1>10 DEF NisshiInv

\* The relay produces the first row of its page.
LEMMA RelayProducesStep ==
  ASSUME NisshiInv, RelayProduces
  PROVE  NisshiInv'
<1> DEFINE h == relay.page[1]
<1>1. /\ relay.page \in Seq(Record) /\ Head(relay.page) = h /\ h \in Record /\ 1 \in 1..Len(relay.page)
      /\ relay.page # <<>>
  BY EmptySeq, LenProperties, HeadTailProperties DEF NisshiInv, NisshiTypeOK, RelayProduces
<1>2. /\ topic' = Append(topic, h) /\ pendingRows' = pendingRows /\ appendCalls' = appendCalls
      /\ relay' = [relay EXCEPT !.produced = TRUE]
  BY <1>1 DEF RelayProduces
<1>3. topic \in Seq(Record) /\ <<h>> \in Seq(Record) /\ topic' = topic \o <<h>> /\ ToSet(<<h>>) = {h}
  BY <1>1, <1>2, AppendIsConcat DEF NisshiInv, NisshiTypeOK, ToSet
<1>4. /\ topic' \in Seq(Record) /\ Held' = Held \union {h}
      /\ \A s \in Topics : Found'[s] = Found[s] \union (IF h.stream = s THEN {h.version} ELSE {})
  <2> DEFINE more == <<h>>
  <2>1. more \in Seq(Record) /\ topic \in Seq(Record) /\ topic' = topic \o more /\ ToSet(more) = {h}
    BY <1>3
  <2> HIDE DEF more
  <2>2. /\ topic' \in Seq(Record) /\ Held' = Held \union ToSet(more)
        /\ \A s \in Topics : Found'[s] = Found[s] \union {x.version : x \in {y \in ToSet(more) : y.stream = s}}
    BY <2>1, TopicGrew
  <2>3. \A s : {x.version : x \in {y \in ToSet(more) : y.stream = s}} = IF h.stream = s THEN {h.version} ELSE {}
    BY <2>1
  <2> QED
    BY <2>1, <2>2, <2>3
<1>5. Slots' = Slots
  BY <1>2 DEF Slots, RowsOf, Records, ToSet
<1> HIDE DEF h
<1>6. h.stream \in Topics /\ h.version \in Nat /\ Found'[h.stream] = Found[h.stream] \union {h.version}
  BY <1>1, <1>4 DEF Record
<1>7. \A s \in Topics : Found[s] \subseteq Found'[s] /\ (s # h.stream => Found'[s] = Found[s])
  BY <1>4
<1>8. relay'.page = relay.page /\ relay'.produced = TRUE /\ relay' \in [page : Seq(Record), produced : BOOLEAN]
  BY <1>2 DEF NisshiInv, NisshiTypeOK
<1>9. NisshiTypeOK'
  BY <1>2, <1>4, <1>8 DEF NisshiInv, NisshiTypeOK
<1>10. TopicInv'
  <2>1. PICK n \in Nat : Found[h.stream] = 1..n
    BY <1>6 DEF NisshiInv, TopicInv
  <2>2. 1..(h.version - 1) \subseteq 1..n
    <3>1. \A v \in 1..(h.version - 1) : v \in Found[h.stream]
      BY <1>1 DEF NisshiInv, PageInv, PageInOrder, h
    <3> QED
      BY <2>1, <3>1
  <2>3. h.version \in 1..(n + 1)
    <3>1. h.version - 1 \in Nat
      BY <1>1 DEF Record
    <3>2. \A k, m \in Nat : 1..k \subseteq 1..m => k <= m
      <4>1. ASSUME NEW k \in Nat, NEW m \in Nat, 1..k \subseteq 1..m
            PROVE  k <= m
        <5>1. CASE k = 0
          BY <5>1
        <5>2. CASE k # 0
          <6>1. k \in 1..k
            BY <5>2
          <6> QED
            BY <4>1, <6>1
        <5> QED
          BY <5>1, <5>2
      <4> QED
        BY <4>1
    <3>3. h.version - 1 <= n
      BY <2>2, <3>1, <3>2
    <3> QED
      BY <1>6, <3>1, <3>3
  <2>4. \E m \in Nat : Found'[h.stream] = 1..m
    <3>1. CASE h.version \in 1..n
      BY <1>6, <2>1, <3>1
    <3>2. CASE h.version = n + 1
      <4>1. (1..n) \union {n + 1} = 1..(n + 1) /\ n + 1 \in Nat
        OBVIOUS
      <4> QED
        BY <1>6, <2>1, <3>2, <4>1
    <3> QED
      BY <2>3, <3>1, <3>2
  <2> QED
    BY <1>7, <2>4 DEF NisshiInv, TopicInv
<1>11. \A b \in Appends : appendCalls[b].stream \in Topics
  BY DEF NisshiInv, NisshiTypeOK, AppendCall
<1>12. DecidedInv'
  BY <1>2, <1>7, <1>11 DEF NisshiInv, DecidedInv
<1>13. \A x \in pendingRows : x.payload \in Appends
  BY DEF NisshiInv, NisshiTypeOK, Record
<1>14. OwnedInv'
  BY <1>2, <1>5 DEF NisshiInv, OwnedInv
<1>15. \A b \in Appends : \A x \in Slots[b] : x.stream \in Topics
  BY OwnSlots DEF NisshiInv, Record
<1>16. CoveredInv'
  BY <1>2, <1>5, <1>7, <1>13, <1>15 DEF NisshiInv, CoveredInv, Stored
<1>17. ProducedInv'
  BY <1>2, <1>4, <1>5 DEF NisshiInv, ProducedInv
<1>18. PageInv'
  <2>1. PageInOrder(relay'.page, Found')
    BY <1>1, <1>7, <1>8, OrderKept DEF NisshiInv, PageInv
  <2>2. h.version \in Found'[h.stream]
    BY <1>6
  <2> QED
    BY <1>1, <1>8, <2>1, <2>2 DEF PageInv, Stored, h
<1> QED
  BY <1>9, <1>10, <1>12, <1>14, <1>16, <1>17, <1>18 DEF NisshiInv

\* The relay deletes the row it has produced.
LEMMA RelayDeletesStep ==
  ASSUME NisshiInv, RelayDeletes
  PROVE  NisshiInv'
<1> DEFINE h == relay.page[1]
           page == relay.page
<1>1. /\ page \in Seq(Record) /\ Head(page) = h /\ h \in Record /\ Len(page) \in Nat /\ Len(page) # 0
      /\ Tail(page) \in Seq(Record) /\ Len(Tail(page)) = Len(page) - 1
      /\ \A i \in 1..Len(Tail(page)) : Tail(page)[i] = page[i + 1]
  BY EmptySeq, LenProperties, HeadTailProperties DEF NisshiInv, NisshiTypeOK, PageInv, RelayDeletes
<1>2. /\ topic' = topic /\ appendCalls' = appendCalls /\ relay' = [page |-> Tail(page), produced |-> FALSE]
      /\ pendingRows' = {x \in pendingRows : x.stream # h.stream \/ x.version # h.version}
  BY <1>1 DEF RelayDeletes
<1>3. Found' = Found /\ Held' = Held /\ Slots' = Slots
  BY <1>2 DEF Found, ReadVersions, Held, Slots, RowsOf, Records, ToSet
<1>4. Stored(h)
  BY DEF NisshiInv, PageInv, RelayDeletes
<1>5. pendingRows' \subseteq pendingRows /\ \A x \in pendingRows : x \in pendingRows' \/ Stored(x)
  BY <1>2, <1>4 DEF Stored
<1>6. NisshiTypeOK'
  BY <1>1, <1>2, <1>5 DEF NisshiInv, NisshiTypeOK
<1>7. TopicInv' /\ DecidedInv' /\ OwnedInv' /\ ProducedInv'
  BY <1>2, <1>3, <1>5 DEF NisshiInv, TopicInv, DecidedInv, OwnedInv, ProducedInv
<1>8. CoveredInv'
  BY <1>2, <1>3, <1>5 DEF NisshiInv, CoveredInv, Stored
<1>9. PageInOrder(Tail(page), Found)
  <2> DEFINE rest == Tail(page)
  <2> SUFFICES ASSUME NEW i \in 1..Len(rest), NEW v \in 1..(rest[i].version - 1), v \notin Found[rest[i].stream]
               PROVE  \E j \in 1..(i - 1) : rest[j].stream = rest[i].stream /\ rest[j].version = v
    BY DEF PageInOrder
  <2>1. rest[i] = page[i + 1] /\ i + 1 \in 1..Len(page) /\ (i + 1) - 1 = i
    BY <1>1
  <2>2. PICK j \in 1..i : page[j].stream = page[i + 1].stream /\ page[j].version = v
    BY <2>1 DEF NisshiInv, PageInv, PageInOrder
  <2>3. j # 1
    BY <1>4, <2>1, <2>2 DEF Stored
  <2>4. j - 1 \in 1..(i - 1) /\ j - 1 \in 1..Len(rest) /\ (j - 1) + 1 = j
    BY <1>1, <2>2, <2>3
  <2>5. rest[j - 1] = page[j]
    BY <1>1, <2>4
  <2> QED
    BY <2>1, <2>2, <2>4, <2>5
<1>10. PageInv'
  BY <1>2, <1>3, <1>9 DEF PageInv
<1> QED
  BY <1>6, <1>7, <1>8, <1>10 DEF NisshiInv

LEMMA RelayFailsStep ==
  ASSUME NisshiInv, RelayFails
  PROVE  NisshiInv'
<1>1. /\ topic' = topic /\ pendingRows' = pendingRows /\ appendCalls' = appendCalls
      /\ relay' = [page |-> <<>>, produced |-> FALSE]
  BY DEF RelayFails
<1>2. Found' = Found /\ Held' = Held /\ Slots' = Slots
  BY <1>1 DEF Found, ReadVersions, Held, Slots, RowsOf, Records, ToSet
<1>3. <<>> \in Seq(Record) /\ PageInOrder(<<>>, Found)
  BY DEF PageInOrder
<1>4. NisshiTypeOK' /\ PageInv'
  BY <1>1, <1>2, <1>3 DEF NisshiInv, NisshiTypeOK, PageInv
<1>5. TopicInv' /\ DecidedInv' /\ OwnedInv' /\ ProducedInv'
  BY <1>1, <1>2 DEF NisshiInv, TopicInv, DecidedInv, OwnedInv, ProducedInv
<1>6. CoveredInv'
  BY <1>1, <1>2 DEF NisshiInv, CoveredInv, Stored
<1> QED
  BY <1>4, <1>5, <1>6 DEF NisshiInv

LEMMA NisshiStep ==
  ASSUME NisshiInv, [NisshiNext]_nisshiVars
  PROVE  NisshiInv'
<1>1. ASSUME NEW a \in Appends, Produce(a) PROVE NisshiInv'
  <2>1. ASSUME NEW next \in {"confirm", "rollback", "interrupted"}, Go(a, next), topic' = topic \o Records(a)
        PROVE  NisshiInv'
    BY <1>1, <2>1, StoredStep DEF Produce
  <2>2. ASSUME NEW next \in {"rollback", "interrupted"}, Go(a, next), topic' = topic
        PROVE  NisshiInv'
    BY <1>1, <2>2, QuietStep DEF Produce
  <2> QED
    BY <1>1, <2>1, <2>2 DEF Produce
<1>2. ASSUME NEW a \in Appends, RollbackReservation(a) PROVE NisshiInv'
  <2>1. CASE pendingRows' = pendingRows \ OwnRows(a)
    BY <1>2, <2>1, EndStep DEF RollbackReservation
  <2>2. CASE pendingRows' = pendingRows
    BY <1>2, <2>2, QuietStep DEF RollbackReservation
  <2> QED
    BY <1>2, <2>1, <2>2 DEF RollbackReservation
<1>3. ASSUME NEW a \in Appends, Confirm(a) PROVE NisshiInv'
  <2>1. CASE pendingRows' = pendingRows \ OwnRows(a)
    BY <1>3, <2>1, EndStep DEF Confirm
  <2>2. CASE pendingRows' = pendingRows
    BY <1>3, <2>2, QuietStep DEF Confirm
  <2> QED
    BY <1>3, <2>1, <2>2 DEF Confirm
<1>4. ASSUME NEW a \in Appends, Crash(a) PROVE NisshiInv'
  BY <1>4, QuietStep DEF Crash
<1>5. CASE UNCHANGED nisshiVars
  <2>1. topic' = topic /\ pendingRows' = pendingRows /\ appendCalls' = appendCalls /\ relay' = relay
    BY <1>5 DEF nisshiVars
  <2>2. Found' = Found /\ Held' = Held /\ Slots' = Slots
    BY <2>1 DEF Found, ReadVersions, Held, Slots, RowsOf, Records, ToSet
  <2>3. NisshiTypeOK' /\ PageInv'
    BY <2>1, <2>2 DEF NisshiInv, NisshiTypeOK, PageInv, Stored
  <2>4. TopicInv' /\ DecidedInv' /\ OwnedInv' /\ ProducedInv'
    BY <2>1, <2>2 DEF NisshiInv, TopicInv, DecidedInv, OwnedInv, ProducedInv
  <2>5. CoveredInv'
    BY <2>1, <2>2 DEF NisshiInv, CoveredInv, Stored
  <2> QED
    BY <2>3, <2>4, <2>5 DEF NisshiInv
<1> QED
  BY <1>1, <1>2, <1>3, <1>4, <1>5, LoadStep, ReserveStep, RelayReadsStep, RelayProducesStep, RelayDeletesStep,
     RelayFailsStep DEF NisshiNext

\* A reader of a stream on Nisshi (EventStore.ts, relay.ts) sees versions 1 to n and every event of an
\* answered append, for any number of appends, streams, sizes and pages, whatever crashes, fails after the
\* broker stored it, is rolled back or is relayed again; even when stale appends write a version twice
\* (nisshi_stale_append).
THEOREM NisshiReadsAreGapless == NisshiSpec => []ReadIsGapless
<1>1. NisshiInit => NisshiInv
  <2> SUFFICES ASSUME NisshiInit PROVE NisshiInv
    OBVIOUS
  <2>1. (CHOOSE s \in Topics : TRUE) \in Topics
    BY NisshiAssumption
  <2>2. NisshiTypeOK
    BY <2>1 DEF NisshiInit, NisshiTypeOK, AppendCall
  <2>3. \A s \in Topics : Found[s] = 1..0
    BY DEF NisshiInit, Found, ReadVersions
  <2>4. TopicInv /\ DecidedInv
    BY <2>1, <2>3 DEF NisshiInit, TopicInv, DecidedInv
  <2>5. OwnedInv /\ CoveredInv /\ ProducedInv
    BY DEF NisshiInit, OwnedInv, CoveredInv, ProducedInv
  <2>6. PageInv
    BY DEF NisshiInit, PageInv, PageInOrder
  <2> QED
    BY <2>2, <2>4, <2>5, <2>6 DEF NisshiInv
<1>2. NisshiInv => ReadIsGapless
  <2> SUFFICES ASSUME NisshiInv PROVE ReadIsGapless
    OBVIOUS
  <2>1. ASSUME NEW s \in Topics PROVE ReadVersions(s) = 1..Cardinality(ReadVersions(s))
    <3>1. PICK n \in Nat : ReadVersions(s) = 1..n
      BY DEF NisshiInv, TopicInv, Found
    <3>2. Cardinality(1..n) = n
      BY FS_Interval
    <3> QED
      BY <3>1, <3>2
  <2>2. ASSUME NEW a \in Appends, appendCalls[a].pc = "ok", NEW x \in RowsOf(a) PROVE Contains(topic, x)
    <3>1. x \in ToSet(topic)
      BY <2>2 DEF NisshiInv, ProducedInv, Slots, Held
    <3> QED
      BY <3>1, LenProperties DEF NisshiInv, NisshiTypeOK, ToSet, Contains
  <2> QED
    BY <2>1, <2>2 DEF ReadIsGapless
<1> QED
  BY <1>1, <1>2, NisshiStep, PTL DEF NisshiSpec

-----------------------------------------------------------------------------
\* The Nisshi client.

LogRecord == [base : Nat, by : Nat, offset : Nat]
Answer ==
    [got : {"refusal", "versions", "created", "closed"}] \union [got : {"partitions"}, n : Nat]
    \union [got : {"names"}, names : SUBSET BrokerTopics] \union [got : {"base"}, base : Nat]
    \union [got : {"batches"}, records : Seq(LogRecord), watermark : Nat]
Result ==
    [got : {"nothing", "error", "ensured"}] \union [got : {"names"}, names : SUBSET BrokerTopics]
    \union [got : {"base"}, base : Nat] \union [got : {"end"}, n : Nat]
    \union [got : {"page"}, records : Seq(LogRecord), watermark : Nat]
Apis == {"versions", "create", "metadata", "produce", "fetch"}
WireCall ==
    [op : {"none", "ensure", "list", "produce", "fetch", "end"}, topic : BrokerTopics, offset : Nat, size : Nat,
     since : Nat, at : {"idle", "done"} \union Apis, corr : Nat, deferred : Answer \union {Nothing}, result : Result]
WireRequest == [api : Apis, corr : Nat, c : WireCall]
Header == [corr : Nat]
Body == [body : Answer]
Logs == [BrokerTopics -> Seq(LogRecord)]
Parts == [BrokerTopics -> Nat]

WireTypeOK ==
    /\ conn \in {"new", "opening", "open", "failed", "closed"} /\ correlation \in Nat
    /\ pending \in [DOMAIN pending -> Fibers] /\ DOMAIN pending \subseteq Nat
    /\ requests \in Seq(WireRequest)
    /\ chunks \in Seq(Header \union Body) /\ receive \in Seq(Header \union Body)
    /\ call \in [Fibers -> WireCall]
    /\ parts \in Parts /\ brokerLog \in Logs

\* The log of a topic: offsets count from 0, and a batch lies before its records.
LogOK(l) == \A t \in BrokerTopics : \A i \in 1..Len(l[t]) : l[t][i].offset = i - 1 /\ l[t][i].base < i

\* What the broker tells stays true: partitions stay, records are only added.
Grew(p, l, p2, l2) ==
    \A t \in BrokerTopics :
       /\ p[t] # 0 => p2[t] = p[t]
       /\ Len(l[t]) <= Len(l2[t]) /\ \A i \in 1..Len(l[t]) : l2[t][i] = l[t][i]

ApisOf(op) == CASE op = "ensure" -> {"create", "metadata"}
                [] op = "list" -> {"metadata"}
                [] op = "produce" -> {"produce"}
                [] op \in {"fetch", "end"} -> {"fetch"}
                [] OTHER -> {}

\* An answer the broker may give to the request a call is waiting for.
Fits(c, d, p, l) ==
    /\ d.got # "versions"
    /\ d.got = "created" => c.at = "create"
    /\ d.got = "partitions" => c.op = "ensure" /\ d.n = p[c.topic] /\ d.n # 0
    /\ d.got = "names" => c.op = "list" /\ \A t \in d.names : p[t] # 0
    /\ d.got = "base" => /\ c.op = "produce" /\ d.base + c.size <= Len(l[c.topic])
                         /\ \A i \in 1..c.size : l[c.topic][d.base + i].by = c.corr
    /\ d.got = "batches" =>
          /\ c.op \in {"fetch", "end"}
          /\ \E from, to \in Nat :
                /\ from <= c.offset /\ c.since <= to /\ to <= Len(l[c.topic])
                /\ Len(d.records) = to - from
                /\ \A i \in 1..(to - from) : d.records[i] = l[c.topic][from + i]
                /\ d.watermark = IF to = 0 THEN 1 ELSE to

\* Honest, record by record.
Told(c, p, l) ==
    LET r == c.result IN
    /\ r.got = "ensured" => c.op = "ensure" /\ p[c.topic] = 1
    /\ r.got = "base" => /\ c.op = "produce" /\ r.base + c.size <= Len(l[c.topic])
                         /\ \A i \in 1..c.size : l[c.topic][r.base + i].by = c.corr
    /\ r.got = "page" => /\ c.op = "fetch" /\ c.offset + Len(r.records) <= Len(l[c.topic])
                         /\ \A i \in 1..Len(r.records) : r.records[i] = l[c.topic][c.offset + i]
    /\ r.got = "end" => c.op = "end" /\ c.since <= r.n /\ r.n <= Len(l[c.topic])
    /\ r.got = "names" => c.op = "list" /\ \A t \in r.names : p[t] # 0

\* A call: it asked at a moment the log had reached, waits for an answer to its own request, and
\* reports what is so.
CallFits(c, p, l, n) ==
    /\ c.offset <= c.since /\ c.since <= Len(l[c.topic]) /\ (c.op # "fetch" => c.offset = 0)
    /\ c.at # "done" => c.result = Nothing
    /\ c.at = "done" => Told(c, p, l)
    /\ c.at \notin {"idle", "done"} =>
          c.corr <= n /\ c.at \in ApisOf(c.op) /\ (c.deferred # Nothing => Fits(c, c.deferred, p, l))

CallsInv == \A f \in Callers : CallFits(call[f], parts, brokerLog, correlation)

\* Whose deferred is kept is waiting for just that request, and has no answer yet.
PendingInv ==
    \A k \in DOMAIN pending :
       Waits(pending[k]) /\ call[pending[k]].corr = k /\ call[pending[k]].deferred = Nothing

\* Only the opener asks for the versions, and there is no traffic before it does.
OpenerInv ==
    /\ call[Opener].at \in {"idle", "versions", "done"}
    /\ call[Opener].at = "versions" => conn \in {"opening", "closed"}
    /\ conn = "new" => requests = << >> /\ receive = << >> /\ chunks = << >> /\ \A f \in Fibers : call[f].at = "idle"

\* A request on its way is what the call that waits under its id asked.
Asked(r, c) ==
    /\ r.api = c.at /\ r.c.op = c.op /\ r.c.topic = c.topic
    /\ r.c.offset = c.offset /\ r.c.size = c.size /\ r.c.since = c.since
RequestOK(r) ==
    /\ r.corr <= correlation /\ r.c.offset <= r.c.since
    /\ \A f \in Callers : Waits(f) /\ call[f].corr = r.corr => Asked(r, call[f])
RequestsInv == \A i \in 1..Len(requests) : RequestOK(requests[i])

\* While the socket lives its chunks are header, body, header, body, ...: an answer fits the call that
\* waits under its id.
Sent == receive \o chunks
PairOK(h, b) ==
    /\ h \in Header /\ b \in Body /\ h.corr <= correlation
    /\ \A f \in Callers : Waits(f) /\ call[f].corr = h.corr => Fits(call[f], b.body, parts, brokerLog)
WireInv ==
    conn \in {"opening", "open"} =>
       /\ Len(receive) <= 1
       /\ \E n \in Nat : Len(Sent) = 2 * n /\ \A i \in 1..n : PairOK(Sent[2 * i - 1], Sent[2 * i])

ClientInv ==
    /\ WireTypeOK /\ LogOK(brokerLog) /\ CallsInv /\ PendingInv /\ OpenerInv /\ RequestsInv /\ WireInv

SameCall(c, e) ==
    /\ c.op = e.op /\ c.topic = e.topic /\ c.offset = e.offset /\ c.size = e.size /\ c.since = e.since
    /\ c.at = e.at /\ c.corr = e.corr

-----------------------------------------------------------------------------
\* What fitted fits a broker that only grew.
LEMMA FitsGrows ==
  ASSUME NEW c \in WireCall, NEW e \in WireCall, NEW d \in Answer, NEW p \in Parts, NEW l \in Logs,
         NEW p2 \in Parts, NEW l2 \in Logs, Grew(p, l, p2, l2), SameCall(c, e), Fits(c, d, p, l)
  PROVE  Fits(e, d, p2, l2)
<1>1. /\ e.topic = c.topic /\ e.op = c.op /\ e.at = c.at /\ e.size = c.size /\ e.corr = c.corr
      /\ e.offset = c.offset /\ e.since = c.since
  BY DEF SameCall
<1>2. c.topic \in BrokerTopics /\ c.size \in Nat /\ Len(l[c.topic]) \in Nat /\ Len(l2[c.topic]) \in Nat
  BY LenProperties DEF WireCall, Logs
<1>3. d.got = "partitions" => e.op = "ensure" /\ d.n = p2[e.topic] /\ d.n # 0
  BY <1>1, <1>2 DEF Fits, Grew
<1>4. d.got = "names" => e.op = "list" /\ \A t \in d.names : p2[t] # 0
  BY <1>1 DEF Fits, Grew, Answer
<1>5. ASSUME d.got = "base"
      PROVE  /\ e.op = "produce" /\ d.base + e.size <= Len(l2[e.topic])
             /\ \A i \in 1..e.size : l2[e.topic][d.base + i].by = e.corr
  <2>1. d.base \in Nat
    BY <1>5 DEF Answer
  <2>2. /\ c.op = "produce" /\ d.base + c.size <= Len(l[c.topic])
        /\ \A i \in 1..c.size : l[c.topic][d.base + i].by = c.corr
    BY <1>5 DEF Fits
  <2>3. \A i \in 1..c.size : d.base + i \in 1..Len(l[c.topic])
    BY <1>2, <2>1, <2>2
  <2>4. \A i \in 1..c.size : l2[c.topic][d.base + i].by = c.corr
    BY <1>2, <2>2, <2>3 DEF Grew
  <2>5. d.base + c.size <= Len(l2[c.topic])
    BY <1>2, <2>1, <2>2 DEF Grew
  <2> QED
    BY <1>1, <2>2, <2>4, <2>5
<1>6. ASSUME d.got = "batches"
      PROVE  /\ e.op \in {"fetch", "end"}
             /\ \E from, to \in Nat :
                   /\ from <= e.offset /\ e.since <= to /\ to <= Len(l2[e.topic])
                   /\ Len(d.records) = to - from
                   /\ \A i \in 1..(to - from) : d.records[i] = l2[e.topic][from + i]
                   /\ d.watermark = IF to = 0 THEN 1 ELSE to
  <2>1. PICK from \in Nat, to \in Nat :
               /\ from <= c.offset /\ c.since <= to /\ to <= Len(l[c.topic])
               /\ Len(d.records) = to - from
               /\ \A i \in 1..(to - from) : d.records[i] = l[c.topic][from + i]
               /\ d.watermark = IF to = 0 THEN 1 ELSE to
    BY <1>6 DEF Fits
  <2>2. \A i \in 1..(to - from) : from + i \in 1..Len(l[c.topic])
    BY <1>2, <2>1
  <2>3. \A i \in 1..(to - from) : d.records[i] = l2[c.topic][from + i]
    BY <1>2, <2>1, <2>2 DEF Grew
  <2>4. to <= Len(l2[c.topic])
    BY <1>2, <2>1 DEF Grew
  <2> QED
    BY <1>1, <1>6, <2>1, <2>3, <2>4 DEF Fits
<1> QED
  BY <1>1, <1>3, <1>4, <1>5, <1>6 DEF Fits

LEMMA ToldGrows ==
  ASSUME NEW c \in WireCall, NEW p \in Parts, NEW l \in Logs,
         NEW p2 \in Parts, NEW l2 \in Logs, Grew(p, l, p2, l2), Told(c, p, l)
  PROVE  Told(c, p2, l2)
<1> DEFINE r == c.result
<1>1. c.topic \in BrokerTopics /\ c.size \in Nat /\ c.offset \in Nat /\ r \in Result
  BY DEF WireCall
<1>2. Len(l[c.topic]) \in Nat /\ Len(l2[c.topic]) \in Nat /\ Len(l[c.topic]) <= Len(l2[c.topic])
  BY <1>1, LenProperties DEF Logs, Grew
<1>3. \A i \in 1..Len(l[c.topic]) : l2[c.topic][i] = l[c.topic][i]
  BY <1>1 DEF Grew
<1>4. r.got = "ensured" => c.op = "ensure" /\ p2[c.topic] = 1
  BY <1>1 DEF Told, Grew
<1>5. r.got = "names" => c.op = "list" /\ \A t \in r.names : p2[t] # 0
  BY <1>1 DEF Told, Grew, Result
<1>6. ASSUME r.got = "base"
      PROVE  /\ c.op = "produce" /\ r.base + c.size <= Len(l2[c.topic])
             /\ \A i \in 1..c.size : l2[c.topic][r.base + i].by = c.corr
  <2>1. r.base \in Nat
    BY <1>1, <1>6 DEF Result
  <2>2. r.base + c.size <= Len(l[c.topic]) /\ \A i \in 1..c.size : l[c.topic][r.base + i].by = c.corr
    BY <1>6 DEF Told
  <2>3. \A i \in 1..c.size : r.base + i \in 1..Len(l[c.topic])
    BY <1>1, <1>2, <2>1, <2>2
  <2>4. \A i \in 1..c.size : l2[c.topic][r.base + i].by = c.corr
    BY <1>3, <2>2, <2>3
  <2>5. r.base + c.size <= Len(l2[c.topic])
    BY <1>1, <1>2, <2>1, <2>2
  <2> QED
    BY <1>6, <2>4, <2>5 DEF Told
<1>7. ASSUME r.got = "page"
      PROVE  /\ c.op = "fetch" /\ c.offset + Len(r.records) <= Len(l2[c.topic])
             /\ \A i \in 1..Len(r.records) : r.records[i] = l2[c.topic][c.offset + i]
  <2>1. r.records \in Seq(LogRecord)
    BY <1>1, <1>7 DEF Result
  <2>2. PICK m \in Nat : m = Len(r.records)
    BY <2>1, LenProperties
  <2>3. /\ c.offset + Len(r.records) <= Len(l[c.topic])
        /\ \A i \in 1..Len(r.records) : r.records[i] = l[c.topic][c.offset + i]
    BY <1>7 DEF Told
  <2>4. \A i \in 1..Len(r.records) : c.offset + i \in 1..Len(l[c.topic])
    <3>1. PICK k \in Nat, o \in Nat : k = Len(l[c.topic]) /\ o = c.offset
      BY <1>1, <1>2
    <3>2. o + m <= k
      BY <2>2, <2>3, <3>1
    <3>3. \A i \in 1..m : o + i \in 1..k
      BY <3>2
    <3> QED
      BY <2>2, <3>1, <3>3
  <2>5. \A i \in 1..Len(r.records) : r.records[i] = l2[c.topic][c.offset + i]
    BY <1>3, <2>3, <2>4
  <2>6. c.offset + Len(r.records) <= Len(l2[c.topic])
    <3>1. c.offset + Len(r.records) \in Nat
      BY <1>1, <2>2
    <3> QED
      BY <1>2, <2>3, <3>1
  <2> QED
    BY <1>7, <2>5, <2>6 DEF Told
<1>8. r.got = "end" => c.op = "end" /\ c.since <= r.n /\ r.n <= Len(l2[c.topic])
  BY <1>1, <1>2 DEF Told, Result
<1> QED
  BY <1>4, <1>5, <1>6, <1>7, <1>8 DEF Told

LEMMA CallGrows ==
  ASSUME NEW c \in WireCall, NEW p \in Parts, NEW l \in Logs, NEW n \in Nat,
         NEW p2 \in Parts, NEW l2 \in Logs, NEW n2 \in Nat, Grew(p, l, p2, l2), n <= n2, CallFits(c, p, l, n)
  PROVE  CallFits(c, p2, l2, n2)
<1>1. /\ c.topic \in BrokerTopics /\ c.since \in Nat /\ c.corr \in Nat
      /\ c.deferred # Nothing => c.deferred \in Answer
  BY DEF WireCall
<1>2. Len(l[c.topic]) \in Nat /\ Len(l2[c.topic]) \in Nat /\ Len(l[c.topic]) <= Len(l2[c.topic])
  BY <1>1, LenProperties DEF Logs, Grew
<1>3. c.at = "done" => Told(c, p2, l2)
  BY ToldGrows DEF CallFits
<1>4. c.at \notin {"idle", "done"} /\ c.deferred # Nothing => Fits(c, c.deferred, p2, l2)
  BY <1>1, FitsGrows DEF CallFits, SameCall
<1> QED
  BY <1>1, <1>2, <1>3, <1>4 DEF CallFits

LEMMA IntervalCount ==
  ASSUME NEW m \in Nat, NEW i \in Int, i >= m
  PROVE  Cardinality((m + 1)..i) = i - m
<1>1. m + 1 \in Int
  OBVIOUS
<1>2. Cardinality((m + 1)..i) = IF m + 1 > i THEN 0 ELSE i - (m + 1) + 1
  BY <1>1, FS_Interval
<1> QED
  BY <1>2

\* A record tells its place in the log.
Consecutive(records, from) == \A i \in 1..Len(records) : records[i].offset = from + i - 1

\* The records of from..to-1 without those before an offset.
IsTail(tail, records, from, to, o) ==
    /\ tail \in Seq(LogRecord) /\ Len(tail) = to - o
    /\ \A n \in 1..(to - o) : tail[n] = records[(o - from) + n]

\* Of consecutive records those from an offset on are kept, in their order.
LEMMA FromOffsetIs ==
  ASSUME NEW from \in Nat, NEW to \in Nat, NEW o \in Nat, from <= o, o <= to,
         NEW records \in Seq(LogRecord), Len(records) = to - from, Consecutive(records, from)
  PROVE  IsTail(FromOffset(records, o), records, from, to, o)
<1> DEFINE kept == {i \in DOMAIN records : records[i].offset >= o}
           nth(n) == CHOOSE i \in kept : Cardinality({j \in kept : j <= i}) = n
<1>0. PICK m \in Nat : m = o - from
  OBVIOUS
<1>1. m \in Nat /\ to - from \in Nat /\ to - o \in Nat /\ m + (to - o) = to - from
  BY <1>0
<1>2. DOMAIN records = 1..(to - from) /\ \A i \in 1..(to - from) : records[i] \in LogRecord
  BY LenProperties, ElementOfSeq
<1>3. kept = (m + 1)..(to - from)
  <2>1. \A i \in 1..(to - from) : records[i].offset >= o <=> i >= m + 1
    BY <1>0, <1>1, <1>2 DEF Consecutive, LogRecord
  <2> QED
    BY <1>1, <1>2, <2>1
<1>4. Cardinality(kept) = to - o
  <2>1. to - from \in Int /\ to - from >= m /\ (to - from) - m = to - o
    BY <1>1
  <2>2. Cardinality((m + 1)..(to - from)) = (to - from) - m
    BY IntervalCount, <2>1
  <2> QED
    BY <1>3, <2>1, <2>2
<1>5. ASSUME NEW n \in 1..(to - o) PROVE nth(n) = m + n /\ m + n \in 1..(to - from)
  <2>1. ASSUME NEW i \in kept PROVE Cardinality({j \in kept : j <= i}) = i - m
    <3>1. {j \in kept : j <= i} = (m + 1)..i
      BY <1>1, <1>3, <2>1
    <3>2. Cardinality((m + 1)..i) = i - m
      BY <1>1, <1>3, IntervalCount, <2>1
    <3> QED
      BY <3>1, <3>2
  <2>2. m + n \in kept /\ m + n \in 1..(to - from)
    <3>1. n \in Nat /\ 1 <= n /\ n <= to - o
      BY <1>1, <1>5
    <3>2. m + n \in (m + 1)..(to - from) /\ m + n \in 1..(to - from)
      BY <1>1, <3>1
    <3> QED
      BY <1>3, <3>2
  <2> HIDE DEF kept
  <2>3. \A i \in kept : i \in Int
    BY <1>3
  <2>4. (m + n) - m = n
    BY <1>1, <1>5
  <2>5. Cardinality({j \in kept : j <= m + n}) = n
    BY <2>1, <2>2, <2>4
  <2>6. nth(n) \in kept /\ Cardinality({j \in kept : j <= nth(n)}) = n
    BY <2>2, <2>5
  <2> HIDE DEF nth
  <2>7. nth(n) - m = n
    BY <2>1, <2>6
  <2> QED
    BY <1>1, <1>5, <2>2, <2>3, <2>6, <2>7
<1> HIDE DEF nth
<1>6. FromOffset(records, o) = [n \in 1..(to - o) |-> records[nth(n)]]
  BY <1>4 DEF FromOffset, nth
<1> HIDE DEF kept
<1>7. \A n \in 1..(to - o) : FromOffset(records, o)[n] = records[m + n] /\ records[m + n] \in LogRecord
  BY <1>2, <1>5, <1>6
<1>8. FromOffset(records, o) \in [1..(to - o) -> LogRecord]
  BY <1>6, <1>2, <1>5
<1>9. FromOffset(records, o) \in Seq(LogRecord) /\ Len(FromOffset(records, o)) = to - o
  BY <1>1, <1>8, SeqDef, LenProperties
<1> QED
  BY <1>0, <1>7, <1>9 DEF IsTail

\* What a waiting call makes of an answer that fits is so.
LEMMA OutcomeIsTold ==
  ASSUME NEW c \in WireCall, NEW p \in Parts, NEW l \in Logs, LogOK(l), NEW n \in Nat, CallFits(c, p, l, n),
         c.at \notin {"idle", "done"}, c.deferred # Nothing, c.deferred.got # "created"
  PROVE  /\ Outcome(c) \in Result
         /\ Told([c EXCEPT !.at = "done", !.result = Outcome(c)], p, l)
<1> DEFINE d == c.deferred
           e == [c EXCEPT !.at = "done", !.result = Outcome(c)]
<1>1. d \in Answer /\ Fits(c, d, p, l) /\ c.topic \in BrokerTopics /\ c.offset \in Nat /\ c.since \in Nat
  BY DEF CallFits, WireCall
<1>2. /\ e.op = c.op /\ e.topic = c.topic /\ e.offset = c.offset /\ e.size = c.size /\ e.since = c.since
      /\ e.corr = c.corr /\ e.result = Outcome(c)
  BY DEF WireCall
<1>3. Len(l[c.topic]) \in Nat
  BY <1>1, LenProperties DEF Logs
<1> SUFFICES /\ Outcome(c) \in Result
             /\ \A x : x.result = Outcome(c) /\ x.op = c.op /\ x.topic = c.topic /\ x.offset = c.offset
                       /\ x.size = c.size /\ x.since = c.since /\ x.corr = c.corr => Told(x, p, l)
  BY <1>2
<1> HIDE DEF d, e
<1>4. CASE d.got \in {"refusal", "closed"}
  <2>1. Outcome(c) = Error
    BY <1>4 DEF Outcome, d
  <2> QED
    BY <2>1 DEF Error, Result, Told
<1>5. CASE d.got = "partitions"
  <2>1. Outcome(c) = IF d.n = 1 THEN [got |-> "ensured"] ELSE Error
    BY <1>5 DEF Outcome, Ensured, PartitionCount, d
  <2> QED
    BY <1>1, <1>5, <2>1 DEF Error, Result, Told, Fits
<1>6. CASE d.got = "names"
  <2>1. Outcome(c) = [got |-> "names", names |-> d.names] /\ d.names \in SUBSET BrokerTopics
    BY <1>1, <1>6 DEF Outcome, Listed, Answer, d
  <2> QED
    BY <1>1, <1>6, <2>1 DEF Result, Told, Fits
<1>7. CASE d.got = "base"
  <2>1. Outcome(c) = [got |-> "base", base |-> d.base] /\ d.base \in Nat
    BY <1>1, <1>7 DEF Outcome, Produced, Answer, d
  <2>2. Outcome(c) \in Result
    BY <2>1 DEF Result
  <2>3. /\ c.op = "produce" /\ d.base + c.size <= Len(l[c.topic])
        /\ \A i \in 1..c.size : l[c.topic][d.base + i].by = c.corr
    BY <1>1, <1>7 DEF Fits
  <2> QED
    BY <2>1, <2>2, <2>3 DEF Told
<1>8. CASE d.got = "batches"
  <2>1. PICK from \in Nat, to \in Nat :
               /\ from <= c.offset /\ c.since <= to /\ to <= Len(l[c.topic])
               /\ Len(d.records) = to - from
               /\ \A i \in 1..(to - from) : d.records[i] = l[c.topic][from + i]
               /\ d.watermark = IF to = 0 THEN 1 ELSE to
    BY <1>1, <1>8 DEF Fits
  <2>2. d.records \in Seq(LogRecord) /\ d.watermark \in Nat
    BY <1>1, <1>8 DEF Answer
  <2>3. c.offset <= c.since /\ (c.op # "fetch" => c.offset = 0)
    BY DEF CallFits
  <2>4. c.offset <= to /\ Consecutive(d.records, from)
    <3>1. \A i \in 1..(to - from) : from + i \in 1..Len(l[c.topic])
      BY <1>3, <2>1
    <3>2. \A i \in 1..(to - from) : d.records[i].offset = from + i - 1
      <4>1. ASSUME NEW i \in 1..(to - from) PROVE d.records[i].offset = from + i - 1
        <5>1. from + i \in 1..Len(l[c.topic]) /\ d.records[i] = l[c.topic][from + i]
          BY <2>1, <3>1
        <5>2. l[c.topic][from + i].offset = (from + i) - 1
          BY <1>1, <5>1 DEF LogOK
        <5> QED
          BY <5>1, <5>2
      <4> QED
        BY <4>1
    <3> QED
      BY <1>1, <2>1, <2>3, <3>2 DEF Consecutive
  <2> DEFINE kept == FromOffset(d.records, c.offset)
  <2>5. /\ kept \in Seq(LogRecord) /\ Len(kept) = to - c.offset
        /\ \A i \in 1..(to - c.offset) : kept[i] = d.records[(c.offset - from) + i]
    <3>1. ASSUME NEW rs, NEW o, rs = d.records, o = c.offset
          PROVE  IsTail(FromOffset(rs, o), rs, from, to, o)
      <4>1. from \in Nat /\ to \in Nat /\ o \in Nat /\ from <= o /\ o <= to
        BY <1>1, <2>1, <2>4, <3>1
      <4>2. rs \in Seq(LogRecord) /\ Len(rs) = to - from /\ Consecutive(rs, from)
        BY <2>1, <2>2, <2>4, <3>1
      <4> QED
        BY <4>1, <4>2, FromOffsetIs
    <3> QED
      BY <3>1 DEF IsTail
  <2> HIDE DEF kept
  <2>6. \A i \in 1..(to - c.offset) : kept[i] = l[c.topic][c.offset + i]
    <3>1. \A i \in 1..(to - c.offset) :
             (c.offset - from) + i \in 1..(to - from) /\ from + ((c.offset - from) + i) = c.offset + i
      BY <1>1, <2>1, <2>4
    <3> QED
      BY <2>1, <2>5, <3>1
  <2>7. CASE c.op = "fetch"
    <3>1. Outcome(c) = [got |-> "page", records |-> kept, watermark |-> d.watermark]
      BY <1>8, <2>7 DEF Outcome, Page, kept, d
    <3>2. c.offset + (to - c.offset) = to
      BY <1>1, <2>1
    <3>3. Outcome(c) \in Result
      BY <2>2, <2>5, <3>1 DEF Result
    <3>4. Outcome(c).got = "page" /\ Outcome(c).records = kept
      BY <3>1
    <3> HIDE DEF Outcome
    <3> QED
      BY <1>1, <2>1, <2>5, <2>6, <2>7, <3>2, <3>3, <3>4 DEF Told
  <2>8. CASE c.op = "end"
    <3>1. c.offset = 0 /\ to - c.offset = to
      BY <2>1, <2>3, <2>8
    <3>2. Outcome(c) = [got |-> "end", n |-> IF kept = << >> THEN 0 ELSE d.watermark]
      BY <1>8, <2>8, <3>1 DEF Outcome, Page, EndOffset, kept, d
    <3>3. kept = << >> <=> to = 0
      BY <2>5, <3>1, EmptySeq
    <3>4. Outcome(c) = [got |-> "end", n |-> to]
      BY <2>1, <3>2, <3>3
    <3> QED
      BY <2>1, <2>8, <3>4 DEF Result, Told
  <2> QED
    BY <1>1, <1>8, <2>7, <2>8 DEF Fits
<1> QED
  BY <1>1, <1>4, <1>5, <1>6, <1>7, <1>8 DEF Fits, Answer, d

-----------------------------------------------------------------------------
\* What a step keeps: a call that waits after it asked before it, or anew; and the broker only grew.
Keeps ==
    /\ correlation <= correlation' /\ Grew(parts, brokerLog, parts', brokerLog')
    /\ \A g \in Callers : call'[g].at \notin {"idle", "done"} =>
          call'[g].corr > correlation \/ (Waits(g) /\ SameCall(call[g], call'[g]))

LEMMA SameLogs ==
  ASSUME NEW p \in Parts, NEW l \in Logs
  PROVE  Grew(p, l, p, l)
<1> QED
  BY LenProperties DEF Grew, Logs

LEMMA MessagesKept ==
  ASSUME WireTypeOK, WireTypeOK', Keeps
  PROVE  /\ \A h, b : PairOK(h, b) => PairOK(h, b)'
         /\ \A r \in WireRequest : RequestOK(r) => RequestOK(r)'
<1>0. Callers \subseteq Fibers
  BY DEF Fibers
<1>1. ASSUME NEW h, NEW b, PairOK(h, b) PROVE PairOK(h, b)'
  <2>1. h \in Header /\ b \in Body /\ h.corr <= correlation
    BY <1>1 DEF PairOK
  <2>2. h.corr <= correlation'
    BY <2>1 DEF Header, WireTypeOK, Keeps
  <2>3. ASSUME NEW g \in Callers, call'[g].at \notin {"idle", "done"}, call'[g].corr = h.corr
        PROVE  Fits(call'[g], b.body, parts', brokerLog')
    <3>1. Waits(g) /\ SameCall(call[g], call'[g])
      BY <2>1, <2>3 DEF Keeps, Header, WireTypeOK
    <3>2. Fits(call[g], b.body, parts, brokerLog)
      BY <1>1, <2>3, <3>1 DEF PairOK, SameCall
    <3>3. /\ call[g] \in WireCall /\ call'[g] \in WireCall /\ b.body \in Answer /\ parts \in Parts /\ brokerLog \in Logs
          /\ parts' \in Parts /\ brokerLog' \in Logs
      BY <1>0, <2>1 DEF WireTypeOK, Body
    <3> QED
      BY <3>1, <3>2, <3>3, FitsGrows DEF Keeps
  <2> QED
    BY <2>1, <2>2, <2>3 DEF PairOK, Waits
<1>2. ASSUME NEW r \in WireRequest, RequestOK(r) PROVE RequestOK(r)'
  <2>1. r.corr \in Nat /\ r.corr <= correlation /\ r.c.offset <= r.c.since
    BY <1>2 DEF RequestOK, WireRequest
  <2>2. r.corr <= correlation'
    BY <2>1 DEF WireTypeOK, Keeps
  <2>3. ASSUME NEW g \in Callers, call'[g].at \notin {"idle", "done"}, call'[g].corr = r.corr
        PROVE  Asked(r, call'[g])
    <3>1. Waits(g) /\ SameCall(call[g], call'[g])
      BY <2>1, <2>3 DEF Keeps, WireTypeOK
    <3> QED
      BY <1>2, <2>3, <3>1 DEF RequestOK, Asked, SameCall
  <2> QED
    BY <2>1, <2>2, <2>3 DEF RequestOK, Waits
<1> QED
  BY <1>1, <1>2

LEMMA RequestsKept ==
  ASSUME WireTypeOK, WireTypeOK', Keeps, RequestsInv, requests' = requests
  PROVE  RequestsInv'
<1>1. \A x \in WireRequest : RequestOK(x) => RequestOK(x)'
  BY MessagesKept
<1>2. \A i \in 1..Len(requests) : requests[i] \in WireRequest /\ RequestOK(requests[i])
  BY ElementOfSeq DEF WireTypeOK, RequestsInv
<1> SUFFICES ASSUME NEW i \in 1..Len(requests'), NEW q, q = requests'[i] PROVE RequestOK(q)'
  BY DEF RequestsInv, RequestOK
<1> QED
  BY <1>1, <1>2

\* Calls that a step leaves alone stay as they are.
LEMMA CallsKept ==
  ASSUME WireTypeOK, WireTypeOK', Keeps, CallsInv
  PROVE  \A g \in Callers : call'[g] = call[g] => CallFits(call'[g], parts', brokerLog', correlation')
<1>1. /\ parts \in Parts /\ brokerLog \in Logs /\ parts' \in Parts /\ brokerLog' \in Logs
      /\ correlation \in Nat /\ correlation' \in Nat
  BY DEF WireTypeOK
<1>2. ASSUME NEW g \in Callers PROVE CallFits(call[g], parts', brokerLog', correlation')
  <2>1. call[g] \in WireCall /\ CallFits(call[g], parts, brokerLog, correlation)
    BY DEF WireTypeOK, CallsInv, Fibers
  <2> QED
    BY <1>1, <2>1, CallGrows DEF Keeps
<1> QED
  BY <1>2

\* Nothing new on the wire.
LEMMA WireStands ==
  ASSUME WireTypeOK, WireTypeOK', Keeps, RequestsInv, WireInv, UNCHANGED <<chunks, receive>>,
         conn' \in {"opening", "open"} => conn \in {"opening", "open"}
  PROVE  WireInv' /\ (requests' = requests => RequestsInv')
<1>2. requests' = requests => RequestsInv'
  BY RequestsKept
<1>3. ASSUME conn' \in {"opening", "open"} PROVE WireInv'
  <2>1. PICK n \in Nat : Len(Sent) = 2 * n /\ \A i \in 1..n : PairOK(Sent[2 * i - 1], Sent[2 * i])
    BY <1>3 DEF WireInv
  <2>2. Sent' = Sent /\ Len(receive') <= 1
    BY <1>3 DEF Sent, WireInv
  <2>3. \A i \in 1..n : PairOK(Sent[2 * i - 1], Sent[2 * i])'
    <3>1. \A h, b : PairOK(h, b) => PairOK(h, b)'
      BY MessagesKept
    <3>2. ASSUME NEW i \in 1..n PROVE PairOK(Sent[2 * i - 1], Sent[2 * i])'
      <4> DEFINE h == Sent[2 * i - 1]
                 b == Sent[2 * i]
      <4>1. h' = h /\ b' = b
        BY <2>2
      <4>2. PairOK(h, b)
        BY <2>1
      <4> QED
        BY <3>1, <4>1, <4>2 DEF PairOK
    <3> QED
      BY <3>2
  <2> QED
    BY <2>1, <2>2, <2>3 DEF WireInv
<1> QED
  BY <1>2, <1>3 DEF WireInv

\* A request under a fresh id, asked by a fiber that waits for nothing.
LEMMA RequestSent ==
  ASSUME ClientInv, NEW f \in Fibers, NEW api \in Apis, NEW c \in WireCall, SendRequest(f, api, c),
         UNCHANGED <<chunks, receive, parts, brokerLog>>, conn' \in {"new", "opening", "open", "failed", "closed"},
         \A k \in DOMAIN pending : pending[k] # f, c.offset <= c.since,
         f \in Callers => /\ c.since <= Len(brokerLog[c.topic]) /\ (c.op # "fetch" => c.offset = 0)
                          /\ c.result = Nothing /\ api \in ApisOf(c.op)
  PROVE  WireTypeOK' /\ Keeps /\ CallsInv' /\ PendingInv' /\ RequestsInv'
<1> USE ClientInv DEF ClientInv
<1> DEFINE corr == correlation + 1
           asked == [c EXCEPT !.at = api, !.corr = corr, !.deferred = Nothing]
           r == [api |-> api, corr |-> corr, c |-> c]
<1>1. /\ corr \in Nat /\ correlation' = corr /\ correlation < corr
      /\ call' = [call EXCEPT ![f] = asked]
      /\ pending' = [k \in DOMAIN pending \union {corr} |-> IF k = corr THEN f ELSE pending[k]]
      /\ requests' = requests \/ requests' = Append(requests, r)
  BY DEF SendRequest, WireTypeOK
<1>2. /\ asked \in WireCall /\ asked.corr = corr /\ asked.at = api /\ asked.deferred = Nothing
      /\ asked.op = c.op /\ asked.topic = c.topic /\ asked.offset = c.offset /\ asked.size = c.size
      /\ asked.since = c.since /\ asked.result = c.result
  BY <1>1 DEF WireCall
<1>3. r \in WireRequest /\ r.api = api /\ r.corr = corr /\ r.c = c
  BY <1>1 DEF WireRequest
<1>4. /\ c.topic \in BrokerTopics /\ api \notin {"idle", "done"}
  BY DEF WireCall, Apis
<1> HIDE DEF asked, r, corr
<1>5. WireTypeOK'
  <2>1. call' \in [Fibers -> WireCall] /\ correlation' \in Nat
    BY <1>1, <1>2 DEF WireTypeOK
  <2>2. pending' \in [DOMAIN pending' -> Fibers] /\ DOMAIN pending' \subseteq Nat
    BY <1>1 DEF WireTypeOK
  <2>3. requests' \in Seq(WireRequest)
    <3>1. requests \in Seq(WireRequest)
      BY DEF WireTypeOK
    <3>2. Append(requests, r) \in Seq(WireRequest)
      BY <1>3, <3>1, AppendProperties
    <3> QED
      BY <1>1, <3>1, <3>2
  <2> QED
    BY <2>1, <2>2, <2>3 DEF WireTypeOK
<1>6. call'[f] = asked /\ \A g \in Fibers : g # f => call'[g] = call[g]
  BY <1>1 DEF WireTypeOK
<1>7. Keeps
  <2>1. Grew(parts, brokerLog, parts', brokerLog')
    BY SameLogs DEF WireTypeOK
  <2>2. correlation <= correlation'
    BY <1>1 DEF WireTypeOK
  <2>3. asked.corr > correlation
    BY <1>1, <1>2 DEF WireTypeOK
  <2> QED
    BY <1>6, <2>1, <2>2, <2>3 DEF Keeps, Fibers, Waits, SameCall
<1>8. CallsInv'
  <2>1. \A g \in Callers : g # f => CallFits(call'[g], parts', brokerLog', correlation')
    BY <1>5, <1>6, <1>7, CallsKept DEF Fibers
  <2>2. ASSUME f \in Callers PROVE CallFits(asked, parts', brokerLog', correlation')
    BY <1>1, <1>2, <1>4, <2>2 DEF CallFits
  <2> QED
    BY <1>6, <2>1, <2>2 DEF CallsInv
<1>9. PendingInv'
  <2>1. ASSUME NEW k \in DOMAIN pending, k # corr
        PROVE  /\ call'[pending[k]].at \notin {"idle", "done"} /\ call'[pending[k]].corr = k
               /\ call'[pending[k]].deferred = Nothing
    BY <1>6, <2>1 DEF PendingInv, Waits, WireTypeOK
  <2>2. f \in Fibers /\ Waits(f)' /\ call'[f].corr = corr /\ call'[f].deferred = Nothing
    BY <1>2, <1>4, <1>6 DEF Waits
  <2> QED
    BY <1>1, <2>1, <2>2 DEF PendingInv, Waits
<1>10. RequestsInv'
  <2>1. ASSUME NEW j \in 1..Len(requests), NEW q, q = requests[j] PROVE RequestOK(q)'
    <3>1. \A i \in 1..Len(requests) : requests[i] \in WireRequest /\ RequestOK(requests[i])
      BY ElementOfSeq DEF WireTypeOK, RequestsInv
    <3>2. \A x \in WireRequest : RequestOK(x) => RequestOK(x)'
      BY <1>5, <1>7, MessagesKept
    <3> QED
      BY <2>1, <3>1, <3>2
  <2>2. ASSUME NEW q, q = r PROVE RequestOK(q)'
    <3>1. r.corr <= correlation' /\ r.c.offset <= r.c.since
      BY <1>1, <1>3
    <3>2. ASSUME NEW g \in Callers, g # f, Waits(g)' PROVE call'[g].corr # corr
      <4>1. Waits(g) /\ call'[g] = call[g] /\ call[g] \in WireCall /\ CallFits(call[g], parts, brokerLog, correlation)
        BY <1>6, <3>2 DEF Waits, Fibers, CallsInv, WireTypeOK
      <4>2. call[g].corr <= correlation /\ call[g].corr \in Nat
        BY <4>1 DEF Waits, CallFits, WireCall
      <4> QED
        BY <1>1, <4>1, <4>2 DEF WireTypeOK
    <3>3. Asked(r, asked)
      BY <1>2, <1>3 DEF Asked
    <3> QED
      BY <1>3, <1>6, <2>2, <3>1, <3>2, <3>3 DEF RequestOK
  <2> SUFFICES ASSUME NEW i \in 1..Len(requests'), NEW q, q = requests'[i] PROVE RequestOK(q)'
    BY DEF RequestsInv, RequestOK
  <2>3. CASE requests' = requests
    BY <2>1, <2>3
  <2>4. CASE requests' = Append(requests, r)
    <3>1. /\ Len(requests') = Len(requests) + 1 /\ requests'[Len(requests) + 1] = r
          /\ \A j \in 1..Len(requests) : requests'[j] = requests[j]
      BY <1>3, <2>4, AppendProperties DEF WireTypeOK
    <3> QED
      BY <2>1, <2>2, <3>1, LenProperties DEF WireTypeOK
  <2> QED
    BY <1>1, <2>3, <2>4
<1> QED
  BY <1>5, <1>7, <1>8, <1>9, <1>10

\* A step that only moves calls on.
LEMMA CallsMove ==
  ASSUME ClientInv, WireTypeOK', UNCHANGED <<correlation, requests, chunks, receive, parts, brokerLog>>,
         conn' \in {"opening", "open"} => conn \in {"opening", "open"},
         \A g \in Callers :
            \/ call'[g] = call[g]
            \/ /\ CallFits(call'[g], parts, brokerLog, correlation)
               /\ call'[g].at \notin {"idle", "done"} => Waits(g) /\ SameCall(call[g], call'[g])
  PROVE  CallsInv' /\ RequestsInv' /\ WireInv'
<1>1. Keeps
  <2>1. Grew(parts, brokerLog, parts', brokerLog')
    BY SameLogs DEF ClientInv, WireTypeOK
  <2>2. correlation <= correlation'
    BY DEF ClientInv, WireTypeOK
  <2> QED
    BY <2>1, <2>2 DEF Keeps, Waits, SameCall
<1>2. RequestsInv' /\ WireInv'
  BY <1>1, WireStands DEF ClientInv
<1>3. CallsInv'
  BY <1>1, CallsKept DEF ClientInv, CallsInv
<1> QED
  BY <1>2, <1>3

LEMMA ConnectStep == ASSUME ClientInv, Connect PROVE ClientInv'
<1> USE ClientInv DEF ClientInv
<1>1. /\ conn = "new" /\ chunks = << >> /\ receive = << >> /\ call[Opener].at = "idle"
      /\ UNCHANGED << chunks, receive, parts, brokerLog >>
  BY DEF Connect, OpenerInv, Fibers
<1>2. CASE conn' = "failed" /\ UNCHANGED << correlation, pending, requests, call >>
  <2>1. WireTypeOK' /\ PendingInv' /\ OpenerInv'
    BY <1>1, <1>2 DEF WireTypeOK, PendingInv, Waits, OpenerInv
  <2>2. CallsInv' /\ RequestsInv' /\ WireInv'
    BY <1>1, <1>2, <2>1, CallsMove
  <2> QED
    BY <1>1, <2>1, <2>2
<1>3. CASE conn' = "opening" /\ SendRequest(Opener, "versions", Quiet)
  <2>1. Opener \in Fibers /\ Opener \notin Callers
    BY ClientAssumption DEF Fibers
  <2>2. \A k \in DOMAIN pending : pending[k] # Opener
    BY <1>1 DEF PendingInv, Waits
  <2>3. Quiet \in WireCall /\ Quiet.offset <= Quiet.since /\ "versions" \in Apis
    <3>1. (CHOOSE t \in BrokerTopics : TRUE) \in BrokerTopics
      BY ClientAssumption
    <3> QED
      BY <3>1 DEF Quiet, WireCall, Apis, Result, Nothing
  <2>4. WireTypeOK' /\ Keeps /\ CallsInv' /\ PendingInv' /\ RequestsInv'
    BY <1>1, <1>3, <2>1, <2>2, <2>3, RequestSent
  <2>5. OpenerInv'
    <3>1. call'[Opener].at = "versions"
      BY <1>3, <2>1, <2>3 DEF SendRequest, WireTypeOK, WireCall
    <3> QED
      BY <1>3, <3>1 DEF OpenerInv
  <2>6. WireInv'
    <3>1. Sent' = << >> /\ Len(receive') = 0
      BY <1>1 DEF Sent
    <3>2. Len(Sent') = 2 * 0 /\ \A i \in 1..0 : PairOK(Sent[2 * i - 1], Sent[2 * i])'
      BY <3>1
    <3> QED
      BY <3>1, <3>2 DEF WireInv
  <2> QED
    BY <1>1, <2>4, <2>5, <2>6
<1> QED
  BY <1>2, <1>3 DEF Connect

LEMMA BeginStep == ASSUME ClientInv, NEW f \in Callers, Begin(f) PROVE ClientInv'
<1> USE ClientInv DEF ClientInv
<1>1. /\ conn \in {"open", "closed"} /\ call[f].at = "idle" /\ f \in Fibers
      /\ UNCHANGED << conn, chunks, receive, parts, brokerLog >>
  BY DEF Begin, Fibers
<1>2. PICK op \in {"ensure", "list", "produce", "fetch", "end"}, t \in BrokerTopics, n \in BatchSizes :
           \E offset \in IF op = "fetch" THEN 0 .. Len(brokerLog[t]) ELSE {0} :
              SendRequest(f, FirstApi(op), [Quiet EXCEPT !.op = op, !.topic = t, !.offset = offset, !.size = n,
                                                         !.since = Len(brokerLog[t])])
  BY DEF Begin
<1>3. PICK offset \in IF op = "fetch" THEN 0 .. Len(brokerLog[t]) ELSE {0} :
           SendRequest(f, FirstApi(op), [Quiet EXCEPT !.op = op, !.topic = t, !.offset = offset, !.size = n,
                                                      !.since = Len(brokerLog[t])])
  BY <1>2
<1> DEFINE c == [Quiet EXCEPT !.op = op, !.topic = t, !.offset = offset, !.size = n, !.since = Len(brokerLog[t])]
<1>4. Len(brokerLog[t]) \in Nat /\ n \in Nat
  BY ClientAssumption, LenProperties DEF WireTypeOK, Logs
<1>5. offset \in Nat /\ offset <= Len(brokerLog[t]) /\ (op # "fetch" => offset = 0)
  BY <1>4
<1>6. /\ c \in WireCall /\ c.op = op /\ c.topic = t /\ c.offset = offset /\ c.since = Len(brokerLog[t])
      /\ c.result = Nothing
  BY <1>4, <1>5 DEF Quiet, WireCall, Result, Nothing
<1>7. FirstApi(op) \in Apis /\ FirstApi(op) \in ApisOf(op)
  BY DEF FirstApi, Apis, ApisOf
<1>8. \A k \in DOMAIN pending : pending[k] # f
  BY <1>1 DEF PendingInv, Waits
<1> HIDE DEF c
<1>9. SendRequest(f, FirstApi(op), c)
  BY <1>3 DEF c
<1>10. c.offset <= c.since /\ c.since <= Len(brokerLog[c.topic]) /\ (c.op # "fetch" => c.offset = 0)
  BY <1>4, <1>5, <1>6
<1>11. WireTypeOK' /\ Keeps /\ CallsInv' /\ PendingInv' /\ RequestsInv'
  <2>1. conn' \in {"new", "opening", "open", "failed", "closed"} /\ FirstApi(op) \in ApisOf(c.op)
    BY <1>1, <1>6, <1>7
  <2>2. UNCHANGED <<chunks, receive, parts, brokerLog>>
    BY <1>1
  <2> QED
    BY <1>1, <1>6, <1>7, <1>8, <1>9, <1>10, <2>1, <2>2, RequestSent
<1>12. WireInv'
  BY <1>1, <1>11, WireStands
<1>13. OpenerInv'
  <2>1. call'[Opener] = call[Opener]
    BY <1>9, ClientAssumption DEF SendRequest, WireTypeOK, Fibers
  <2> QED
    BY <1>1, <2>1 DEF OpenerInv
<1> QED
  BY <1>1, <1>11, <1>12, <1>13

LEMMA ProbeStep == ASSUME ClientInv, Probe PROVE ClientInv'
<1> USE ClientInv DEF ClientInv
<1>1. PICK t \in BrokerTopics : parts[t] = 0 /\ parts' = [parts EXCEPT ![t] = 4]
  BY DEF Probe
<1>2. UNCHANGED << conn, correlation, pending, requests, chunks, receive, call, brokerLog >>
  BY DEF Probe
<1>3. WireTypeOK'
  BY <1>1, <1>2 DEF WireTypeOK, Parts
<1>4. Keeps
  <2>1. Grew(parts, brokerLog, parts', brokerLog')
    BY <1>1, <1>2, LenProperties DEF Grew, WireTypeOK, Logs, Parts
  <2>2. correlation <= correlation'
    BY <1>2 DEF WireTypeOK
  <2> QED
    BY <1>2, <2>1, <2>2 DEF Keeps, Waits, SameCall
<1>5. RequestsInv' /\ WireInv'
  BY <1>2, <1>3, <1>4, WireStands
<1>6. CallsInv'
  BY <1>2, <1>3, <1>4, CallsKept DEF CallsInv
<1>7. PendingInv' /\ OpenerInv' /\ LogOK(brokerLog')
  BY <1>2 DEF PendingInv, Waits, OpenerInv
<1> QED
  BY <1>3, <1>5, <1>6, <1>7

\* A fiber whose wait is over owns no deferred.
LEMMA EndOfWait ==
  ASSUME ClientInv, NEW f \in Fibers, NEW c \in WireCall, c.at \in {"idle", "done"},
         call' = [call EXCEPT ![f] = c],
         (pending' = pending /\ \A k \in DOMAIN pending : pending[k] # f) \/ pending' = Without(call[f].corr),
         f \in Callers => CallFits(c, parts, brokerLog, correlation),
         conn' \in {"opening", "open", "failed", "closed"}, call[f].at # "idle",
         conn' \in {"opening", "open"} => conn \in {"opening", "open"},
         f \in Callers => conn' = conn,
         UNCHANGED << correlation, requests, chunks, receive, parts, brokerLog >>
  PROVE  ClientInv'
<1> USE ClientInv DEF ClientInv
<1>1. call'[f] = c /\ \A g \in Fibers : g # f => call'[g] = call[g]
  BY DEF WireTypeOK
<1>2. DOMAIN pending' \subseteq DOMAIN pending /\ \A k \in DOMAIN pending' : pending'[k] = pending[k] /\ pending[k] # f
  BY DEF Without, PendingInv
<1>3. WireTypeOK'
  <2>1. call' \in [Fibers -> WireCall]
    BY DEF WireTypeOK
  <2>2. pending' \in [DOMAIN pending' -> Fibers] /\ DOMAIN pending' \subseteq Nat
    BY <1>2 DEF WireTypeOK, Without
  <2> QED
    BY <2>1, <2>2 DEF WireTypeOK
<1>4. PendingInv'
  BY <1>1, <1>2 DEF PendingInv, Waits, WireTypeOK
<1>5. CallsInv' /\ RequestsInv' /\ WireInv'
  <2>1. \A g \in Callers :
           \/ call'[g] = call[g]
           \/ /\ CallFits(call'[g], parts, brokerLog, correlation)
              /\ call'[g].at \notin {"idle", "done"} => Waits(g) /\ SameCall(call[g], call'[g])
    BY <1>1 DEF Fibers
  <2> QED
    BY <1>3, <2>1, CallsMove
<1>6. OpenerInv'
  <2>1. Opener \in Fibers /\ Opener \notin Callers
    BY ClientAssumption DEF Fibers
  <2>2. CASE f = Opener
    BY <1>1, <2>1, <2>2 DEF OpenerInv
  <2>3. CASE f # Opener
    BY <1>1, <2>1, <2>3 DEF OpenerInv, Fibers
  <2> QED
    BY <2>2, <2>3
<1> QED
  BY <1>3, <1>4, <1>5, <1>6

LEMMA TimeoutStep == ASSUME ClientInv, NEW f \in Fibers, Timeout(f) PROVE ClientInv'
<1> USE ClientInv DEF ClientInv
<1> DEFINE c == [call[f] EXCEPT !.at = "done", !.result = Error]
<1>1. /\ Waits(f) /\ pending' = Without(call[f].corr)
      /\ call' = [call EXCEPT ![f] = [@ EXCEPT !.at = "done", !.result = Error]]
      /\ conn' = IF f = Opener THEN "failed" ELSE conn
      /\ UNCHANGED << correlation, requests, chunks, receive, parts, brokerLog >>
  BY DEF Timeout, WireTypeOK
<1>2. call[f] \in WireCall
  BY DEF WireTypeOK
<1>3. /\ c \in WireCall /\ c.at = "done" /\ c.result = Error /\ c.op = call[f].op /\ c.topic = call[f].topic
      /\ c.offset = call[f].offset /\ c.since = call[f].since
  BY <1>2 DEF WireCall, Result, Error
<1>4. call' = [call EXCEPT ![f] = c]
  BY <1>1, <1>2 DEF WireTypeOK
<1> HIDE DEF c
<1>5. ASSUME f \in Callers PROVE CallFits(c, parts, brokerLog, correlation)
  BY <1>3, <1>5 DEF CallFits, CallsInv, Told, Error
<1>6. call[f].at # "idle" /\ conn # "new"
  BY <1>1 DEF Waits, OpenerInv
<1>7. f \in Callers => conn' = conn
  BY <1>1, ClientAssumption
<1>8. conn' \in {"opening", "open", "failed", "closed"} /\ (conn' \in {"opening", "open"} => conn \in {"opening", "open"})
  BY <1>1, <1>6 DEF WireTypeOK
<1> QED
  BY <1>1, <1>3, <1>4, <1>5, <1>6, <1>7, <1>8, EndOfWait

LEMMA ReturnStep == ASSUME ClientInv, NEW f \in Callers, Return(f) PROVE ClientInv'
<1> USE ClientInv DEF ClientInv
<1>1. /\ call[f].at = "done" /\ call' = [call EXCEPT ![f] = Quiet]
      /\ UNCHANGED << conn, correlation, pending, requests, chunks, receive, parts, brokerLog >>
  BY DEF Return
<1>2. Quiet \in WireCall /\ Quiet.at = "idle" /\ CallFits(Quiet, parts, brokerLog, correlation)
  <2>1. (CHOOSE t \in BrokerTopics : TRUE) \in BrokerTopics
    BY ClientAssumption
  <2>2. Quiet \in WireCall /\ Quiet.topic \in BrokerTopics
    BY <2>1 DEF Quiet, WireCall, Result, Nothing
  <2>3. Len(brokerLog[Quiet.topic]) \in Nat
    BY <2>2, LenProperties DEF WireTypeOK, Logs
  <2> QED
    BY <2>2, <2>3 DEF Quiet, CallFits
<1>3. \A k \in DOMAIN pending : pending[k] # f
  BY <1>1 DEF PendingInv, Waits
<1>4. f \in Fibers /\ call[f].at # "idle" /\ conn # "new"
  BY <1>1 DEF Fibers, OpenerInv
<1>5. conn' \in {"opening", "open", "failed", "closed"} /\ (conn' \in {"opening", "open"} => conn \in {"opening", "open"})
  BY <1>1, <1>4 DEF WireTypeOK
<1> QED
  BY <1>1, <1>2, <1>3, <1>4, <1>5, EndOfWait

LEMMA HandshakeStep == ASSUME ClientInv, Handshake PROVE ClientInv'
<1> USE ClientInv DEF ClientInv
<1> DEFINE c == [call[Opener] EXCEPT !.at = "done"]
<1>1. /\ Waits(Opener) /\ call[Opener].deferred # Nothing
      /\ conn' = (IF conn = "closed" THEN conn ELSE "open") \/ conn' = "failed"
      /\ call' = [call EXCEPT ![Opener].at = "done"]
      /\ UNCHANGED << correlation, pending, requests, chunks, receive, parts, brokerLog >>
  BY DEF Handshake
<1>2. Opener \in Fibers /\ Opener \notin Callers /\ call[Opener] \in WireCall
  BY ClientAssumption DEF Fibers, WireTypeOK
<1>3. conn \in {"opening", "closed"}
  BY <1>1 DEF OpenerInv, Waits
<1>4. c \in WireCall /\ c.at = "done" /\ call' = [call EXCEPT ![Opener] = c]
  BY <1>1, <1>2 DEF WireCall, WireTypeOK
<1>5. \A k \in DOMAIN pending : pending[k] # Opener
  BY <1>1 DEF PendingInv
<1> HIDE DEF c
<1>6. /\ conn' \in {"opening", "open", "failed", "closed"} /\ call[Opener].at # "idle"
      /\ conn' \in {"opening", "open"} => conn \in {"opening", "open"}
  BY <1>1, <1>3 DEF Waits
<1> QED
  BY <1>1, <1>2, <1>4, <1>5, <1>6, EndOfWait

LEMMA ResumeStep == ASSUME ClientInv, NEW f \in Callers, Resume(f) PROVE ClientInv'
<1> USE ClientInv DEF ClientInv
<1>1. /\ Waits(f) /\ f # Opener /\ call[f].deferred # Nothing
      /\ UNCHANGED << conn, chunks, receive, parts, brokerLog >>
  BY DEF Resume
<1>2. /\ f \in Fibers /\ call[f] \in WireCall /\ CallFits(call[f], parts, brokerLog, correlation)
      /\ parts \in Parts /\ brokerLog \in Logs /\ correlation \in Nat
  BY DEF CallsInv, WireTypeOK, Fibers
<1>3. \A k \in DOMAIN pending : pending[k] # f
  BY <1>1 DEF PendingInv
<1>4. call[f].at \notin {"idle", "done"}
  BY <1>1 DEF Waits
<1>5. CASE call[f].deferred.got = "created"
  <2>1. SendRequest(f, "metadata", call[f])
    BY <1>5 DEF Resume
  <2>2. call[f].op = "ensure"
    BY <1>1, <1>2, <1>4, <1>5 DEF CallFits, Fits, ApisOf
  <2>3. /\ call[f].offset <= call[f].since /\ call[f].since <= Len(brokerLog[call[f].topic])
        /\ (call[f].op # "fetch" => call[f].offset = 0) /\ call[f].result = Nothing
    BY <1>2, <1>4 DEF CallFits
  <2>4. "metadata" \in Apis /\ "metadata" \in ApisOf(call[f].op)
    BY <2>2 DEF Apis, ApisOf
  <2>5. WireTypeOK' /\ Keeps /\ CallsInv' /\ PendingInv' /\ RequestsInv'
    <3>1. conn' \in {"new", "opening", "open", "failed", "closed"}
      BY <1>1 DEF WireTypeOK
    <3> QED
      BY <1>1, <1>2, <1>3, <2>1, <2>3, <2>4, <3>1, RequestSent
  <2>6. WireInv'
    BY <1>1, <2>5, WireStands
  <2>7. OpenerInv'
    <3>1. call'[Opener] = call[Opener]
      BY <1>1, <2>1 DEF SendRequest, WireTypeOK, Fibers
    <3>2. conn # "new"
      BY <1>2, <1>4 DEF OpenerInv
    <3> QED
      BY <1>1, <3>1, <3>2 DEF OpenerInv
  <2> QED
    BY <1>1, <2>5, <2>6, <2>7
<1>6. CASE call[f].deferred.got # "created"
  <2> DEFINE c == [call[f] EXCEPT !.at = "done", !.result = Outcome(call[f])]
  <2>1. /\ call' = [call EXCEPT ![f] = [@ EXCEPT !.at = "done", !.result = Outcome(call[f])]]
        /\ UNCHANGED << correlation, pending, requests >>
    BY <1>6 DEF Resume
  <2>2. Outcome(call[f]) \in Result /\ Told(c, parts, brokerLog)
    BY <1>1, <1>2, <1>4, <1>6, OutcomeIsTold
  <2>3. /\ c \in WireCall /\ c.at = "done" /\ c.op = call[f].op /\ c.topic = call[f].topic
        /\ c.offset = call[f].offset /\ c.since = call[f].since
    BY <1>2, <2>2 DEF WireCall
  <2>4. call' = [call EXCEPT ![f] = c]
    BY <1>2, <2>1 DEF WireTypeOK
  <2> HIDE DEF c
  <2>5. CallFits(c, parts, brokerLog, correlation)
    BY <1>2, <2>2, <2>3 DEF CallFits
  <2>6. /\ conn' \in {"opening", "open", "failed", "closed"} /\ call[f].at # "idle"
        /\ conn' \in {"opening", "open"} => conn \in {"opening", "open"}
    BY <1>1, <1>2, <1>4 DEF WireTypeOK, OpenerInv
  <2> QED
    BY <1>1, <1>2, <1>3, <2>1, <2>3, <2>4, <2>5, <2>6, EndOfWait
<1> QED
  BY <1>5, <1>6

LEMMA FailAllStep == ASSUME ClientInv, FailAll PROVE ClientInv'
<1> USE ClientInv DEF ClientInv
<1> DEFINE closed == [got |-> "closed"]
           c(g) == [call[g] EXCEPT !.deferred = closed]
<1>1. /\ conn \in {"opening", "open"} /\ conn' = "closed"
      /\ call' = [g \in Fibers |-> IF \E k \in DOMAIN pending : pending[k] = g THEN c(g) ELSE call[g]]
      /\ pending' = << >> /\ chunks' = << >>
      /\ UNCHANGED << correlation, requests, receive, parts, brokerLog >>
  BY DEF FailAll
<1>2. closed \in Answer /\ closed # Nothing
  BY DEF Answer, Nothing
<1>3. ASSUME NEW g \in Fibers
      PROVE  /\ c(g) \in WireCall /\ c(g).at = call[g].at /\ SameCall(call[g], c(g)) /\ c(g).result = call[g].result
             /\ c(g).deferred = closed
  BY <1>2, <1>3 DEF WireTypeOK, WireCall, SameCall
<1>4. ASSUME NEW g \in Callers, NEW k \in DOMAIN pending, pending[k] = g
      PROVE  CallFits(c(g), parts, brokerLog, correlation)
  <2>1. g \in Fibers /\ CallFits(call[g], parts, brokerLog, correlation) /\ Waits(g)
    BY <1>4 DEF CallsInv, Fibers, PendingInv
  <2>2. Fits(c(g), closed, parts, brokerLog)
    BY DEF Fits
  <2> QED
    BY <1>3, <2>1, <2>2 DEF CallFits, SameCall, Waits
<1>5. \A g \in Fibers : call'[g].at = call[g].at /\ SameCall(call[g], call'[g])
  BY <1>1, <1>3 DEF SameCall
<1> HIDE DEF c, closed
<1>6. WireTypeOK'
  <2>1. call' \in [Fibers -> WireCall]
    BY <1>1, <1>3 DEF WireTypeOK
  <2>2. chunks' \in Seq(Header \union Body) /\ pending' \in [DOMAIN pending' -> Fibers] /\ DOMAIN pending' \subseteq Nat
    BY <1>1
  <2> QED
    BY <1>1, <2>1, <2>2 DEF WireTypeOK
<1>7. Keeps
  <2>1. Grew(parts, brokerLog, parts', brokerLog')
    BY <1>1, SameLogs DEF WireTypeOK
  <2>2. correlation <= correlation'
    BY <1>1 DEF WireTypeOK
  <2> QED
    BY <1>5, <2>1, <2>2 DEF Keeps, Waits, Fibers
<1>8. CallsInv'
  <2>1. \A g \in Callers : CallFits(call[g], parts, brokerLog, correlation)
    BY DEF CallsInv
  <2> QED
    BY <1>1, <1>4, <2>1 DEF CallsInv, Fibers
<1>9. RequestsInv'
  BY <1>1, <1>6, <1>7, RequestsKept
<1>10. WireInv' /\ PendingInv' /\ OpenerInv'
  <2>1. Opener \in Fibers
    BY DEF Fibers
  <2> QED
    BY <1>1, <1>5, <2>1 DEF WireInv, PendingInv, OpenerInv
<1> QED
  BY <1>1, <1>6, <1>8, <1>9, <1>10

\* A chunk completes a frame, and its answer goes to whoever waits under its id, or it does not.
LEMMA DataStep == ASSUME ClientInv, Data PROVE ClientInv'
<1> USE ClientInv DEF ClientInv
<1> DEFINE got == Append(receive, Head(chunks))
           k == got[1].corr
           b == got[2].body
<1>1. /\ chunks # << >> /\ conn \in {"opening", "open"} /\ chunks' = Tail(chunks)
      /\ UNCHANGED << conn, correlation, requests, parts, brokerLog >>
      /\ IF Len(got) < 2
         THEN receive' = got /\ UNCHANGED << pending, call >>
         ELSE /\ receive' = << >> /\ pending' = Without(k)
              /\ call' = IF k \in DOMAIN pending THEN [call EXCEPT ![pending[k]].deferred = b] ELSE call
  BY DEF Data, TakePending
<1>2. PICK n \in Nat : Len(Sent) = 2 * n /\ \A i \in 1..n : PairOK(Sent[2 * i - 1], Sent[2 * i])
  BY <1>1 DEF WireInv
<1>3. /\ chunks \in Seq(Header \union Body) /\ receive \in Seq(Header \union Body) /\ Len(receive) <= 1
      /\ Len(chunks) \in Nat /\ Len(receive) \in Nat /\ Len(chunks) > 0
  BY <1>1, LenProperties, EmptySeq DEF WireTypeOK, WireInv
<1>4. /\ Len(Sent) = Len(receive) + Len(chunks)
      /\ \A i \in 1..Len(Sent) : Sent[i] = IF i <= Len(receive) THEN receive[i] ELSE chunks[i - Len(receive)]
  BY <1>3, ConcatProperties DEF Sent
<1>5. /\ Head(chunks) = chunks[1] /\ Head(chunks) \in Header \union Body /\ chunks' \in Seq(Header \union Body)
      /\ Len(chunks') = Len(chunks) - 1 /\ \A i \in 1..Len(chunks') : chunks'[i] = chunks[i + 1]
  BY <1>1, <1>3, HeadTailProperties, ElementOfSeq
<1>6. /\ got \in Seq(Header \union Body) /\ Len(got) = Len(receive) + 1
      /\ got[Len(receive) + 1] = chunks[1] /\ \A i \in 1..Len(receive) : got[i] = receive[i]
  BY <1>3, <1>5, AppendProperties
<1> HIDE DEF got, k, b
<1>7. CASE Len(receive) = 0
  <2>1. receive' = got /\ UNCHANGED << pending, call >>
    BY <1>1, <1>6, <1>7
  <2>2. WireTypeOK'
    BY <1>1, <1>5, <1>6, <2>1 DEF WireTypeOK
  <2>3. Keeps
    <3>1. Grew(parts, brokerLog, parts', brokerLog')
      BY <1>1, SameLogs DEF WireTypeOK
    <3>2. correlation <= correlation'
      BY <1>1 DEF WireTypeOK
    <3> QED
      BY <2>1, <3>1, <3>2 DEF Keeps, Waits, SameCall
  <2>4. Len(Sent') = 2 * n /\ \A i \in 1..Len(Sent') : Sent'[i] = Sent[i]
    <3>1. /\ Len(Sent') = Len(receive') + Len(chunks')
          /\ \A i \in 1..Len(Sent') : Sent'[i] = IF i <= Len(receive') THEN receive'[i] ELSE chunks'[i - Len(receive')]
      <4>1. receive' \in Seq(Header \union Body) /\ chunks' \in Seq(Header \union Body)
        BY <1>5, <1>6, <2>1
      <4> QED
        BY <4>1, ConcatProperties DEF Sent
    <3>2. Len(receive') = 1 /\ receive'[1] = chunks[1]
      BY <1>6, <1>7, <2>1
    <3>3. ASSUME NEW i \in 1..Len(Sent') PROVE Sent'[i] = Sent[i]
      <4>1. i \in 1..Len(chunks) /\ Sent[i] = chunks[i]
        BY <1>3, <1>4, <1>5, <1>7, <3>1, <3>2, <3>3
      <4>2. i # 1 => i - 1 \in 1..Len(chunks') /\ (i - 1) + 1 = i
        BY <1>3, <1>5, <4>1
      <4> QED
        BY <1>3, <1>5, <3>1, <3>2, <4>1, <4>2
    <3> QED
      BY <1>2, <1>3, <1>4, <1>5, <1>7, <3>1, <3>2, <3>3
  <2>5. WireInv'
    <3>1. \A x, y : PairOK(x, y) => PairOK(x, y)'
      BY <2>2, <2>3, MessagesKept
    <3>2. ASSUME NEW i \in 1..n, NEW x, NEW y, x = Sent'[2 * i - 1], y = Sent'[2 * i] PROVE PairOK(x, y)'
      <4>1. 2 * i - 1 \in 1..(2 * n) /\ 2 * i \in 1..(2 * n)
        OBVIOUS
      <4>2. x = Sent[2 * i - 1] /\ y = Sent[2 * i]
        BY <2>4, <3>2, <4>1
      <4> QED
        BY <1>2, <3>1, <4>2
    <3>3. \A i \in 1..n : PairOK(Sent[2 * i - 1], Sent[2 * i])'
      BY <3>2 DEF PairOK
    <3> QED
      <4>1. Len(receive') <= 1 /\ Len(Sent') = 2 * n /\ n \in Nat
        <5>1. receive' = got /\ Len(got) = 0 + 1
          BY <1>6, <1>7, <2>1
        <5>2. Len(receive') <= 1
          BY <5>1
        <5> QED
          BY <2>4, <5>2
      <4> QED
        BY <3>3, <4>1 DEF WireInv
  <2>6. RequestsInv'
    BY <1>1, <2>2, <2>3, RequestsKept
  <2>7. CallsInv' /\ PendingInv' /\ OpenerInv'
    BY <1>1, <2>1 DEF CallsInv, PendingInv, Waits, OpenerInv
  <2> QED
    BY <1>1, <2>2, <2>5, <2>6, <2>7
<1>8. CASE Len(receive) = 1
  <2>1. /\ receive' = << >> /\ pending' = Without(k)
        /\ call' = IF k \in DOMAIN pending THEN [call EXCEPT ![pending[k]].deferred = b] ELSE call
    BY <1>1, <1>6, <1>8
  <2>2. Sent[1] = got[1] /\ Sent[2] = got[2] /\ n >= 1
    <3>1. n >= 1
      BY <1>2, <1>3, <1>4, <1>8
    <3>2. 1 \in 1..Len(Sent) /\ 2 \in 1..Len(Sent)
      BY <1>2, <3>1
    <3> QED
      BY <1>3, <1>4, <1>6, <1>8, <3>1, <3>2
  <2>3. PairOK(got[1], got[2])
    <3>1. PairOK(Sent[2 * 1 - 1], Sent[2 * 1])
      BY <1>2, <2>2
    <3> QED
      BY <2>2, <3>1
  <2>4. k \in Nat /\ b \in Answer
    BY <2>3 DEF PairOK, Header, Body, k, b
  <2>5. /\ call' \in [Fibers -> WireCall]
        /\ \A g \in Fibers : call'[g].at = call[g].at /\ SameCall(call[g], call'[g]) /\ call'[g].result = call[g].result
        /\ \A g \in Fibers : call'[g] = call[g] \/ (call'[g].deferred = b /\ call[g].corr = k /\ Waits(g))
        /\ \A g \in Fibers : call'[g] # call[g] => k \in DOMAIN pending /\ pending[k] = g
    <3>1. CASE k \in DOMAIN pending
      <4> DEFINE f == pending[k]
                 c == [call[f] EXCEPT !.deferred = b]
      <4>1. f \in Fibers /\ Waits(f) /\ call[f].corr = k /\ call[f] \in WireCall
        BY <3>1 DEF PendingInv, WireTypeOK
      <4>2. /\ c \in WireCall /\ c.at = call[f].at /\ SameCall(call[f], c) /\ c.result = call[f].result
            /\ c.deferred = b
        BY <2>4, <4>1 DEF WireCall, SameCall
      <4>3. call' = [call EXCEPT ![f] = c]
        BY <2>1, <3>1, <4>1 DEF WireTypeOK
      <4> HIDE DEF c
      <4> QED
        BY <3>1, <4>1, <4>2, <4>3 DEF WireTypeOK, SameCall
    <3>2. CASE k \notin DOMAIN pending
      BY <2>1, <3>2 DEF WireTypeOK, SameCall
    <3> QED
      BY <3>1, <3>2
  <2>6. WireTypeOK'
    <3>1. pending' \in [DOMAIN pending' -> Fibers] /\ DOMAIN pending' \subseteq Nat
      BY <2>1 DEF WireTypeOK, Without
    <3> QED
      BY <1>1, <1>5, <2>1, <2>5, <3>1 DEF WireTypeOK
  <2>7. Keeps
    <3>1. Grew(parts, brokerLog, parts', brokerLog')
      BY <1>1, SameLogs DEF WireTypeOK
    <3>2. correlation <= correlation'
      BY <1>1 DEF WireTypeOK
    <3> QED
      BY <2>5, <3>1, <3>2 DEF Keeps, Waits, Fibers
  <2>8. CallsInv'
    <3>1. ASSUME NEW g \in Callers PROVE CallFits(call'[g], parts, brokerLog, correlation)
      <4>1. /\ g \in Fibers /\ CallFits(call[g], parts, brokerLog, correlation) /\ call[g] \in WireCall
            /\ call'[g] \in WireCall
        BY <2>5 DEF CallsInv, Fibers, WireTypeOK
      <4>2. CASE call'[g] = call[g]
        BY <4>1, <4>2
      <4>3. CASE call'[g].deferred = b /\ call[g].corr = k /\ Waits(g)
        <5>1. Fits(call[g], b, parts, brokerLog)
          BY <2>3, <4>3 DEF PairOK, k, b
        <5>2. Fits(call'[g], b, parts, brokerLog)
          BY <2>4, <2>5, <4>1, <5>1, FitsGrows, SameLogs DEF WireTypeOK
        <5>3. call[g].at \notin {"idle", "done"}
          BY <4>3 DEF Waits
        <5> QED
          BY <2>5, <4>1, <4>3, <5>2, <5>3 DEF CallFits, SameCall
      <4> QED
        BY <2>5, <4>1, <4>2, <4>3
    <3> QED
      BY <1>1, <3>1 DEF CallsInv
  <2>9. PendingInv'
    BY <2>1, <2>5 DEF PendingInv, Waits, Without, SameCall, WireTypeOK
  <2>10. OpenerInv'
    BY <1>1, <2>5 DEF OpenerInv, Fibers
  <2>11. WireInv'
    <3>1. Sent' = chunks' /\ Len(receive') = 0 /\ Len(Sent') = 2 * (n - 1) /\ n - 1 \in Nat
      BY <1>2, <1>3, <1>4, <1>5, <1>8, <2>1, <2>2 DEF Sent
    <3>2. ASSUME NEW i \in 1..Len(Sent') PROVE Sent'[i] = Sent[i + 2]
      <4>1. i \in 1..Len(chunks') /\ i + 2 \in 1..Len(Sent) /\ (i + 2) - 1 = i + 1
        BY <1>2, <3>1
      <4> QED
        BY <1>3, <1>4, <1>5, <1>8, <3>1, <4>1
    <3>3. \A x, y : PairOK(x, y) => PairOK(x, y)'
      BY <2>6, <2>7, MessagesKept
    <3>4. ASSUME NEW i \in 1..(n - 1), NEW x, NEW y, x = Sent'[2 * i - 1], y = Sent'[2 * i] PROVE PairOK(x, y)'
      <4>1. /\ 2 * i - 1 \in 1..(2 * (n - 1)) /\ 2 * i \in 1..(2 * (n - 1)) /\ i + 1 \in 1..n
            /\ (2 * i - 1) + 2 = 2 * (i + 1) - 1 /\ 2 * i + 2 = 2 * (i + 1)
        BY <3>1
      <4>2. x = Sent[2 * (i + 1) - 1] /\ y = Sent[2 * (i + 1)]
        BY <3>1, <3>2, <3>4, <4>1
      <4>3. PairOK(Sent[2 * (i + 1) - 1], Sent[2 * (i + 1)])
        BY <1>2, <4>1
      <4> QED
        BY <3>3, <4>2, <4>3
    <3>5. \A i \in 1..(n - 1) : PairOK(Sent[2 * i - 1], Sent[2 * i])'
      BY <3>4 DEF PairOK
    <3> QED
      BY <3>1, <3>5 DEF WireInv
  <2>12. RequestsInv'
    BY <1>1, <2>6, <2>7, RequestsKept
  <2> QED
    BY <1>1, <2>6, <2>8, <2>9, <2>10, <2>11, <2>12
<1>9. Len(receive) = 0 \/ Len(receive) = 1
  <2>1. \A m \in Nat : m <= 1 => m = 0 \/ m = 1
    OBVIOUS
  <2> QED
    BY <1>3, <2>1, Zenon
<1> QED
  BY <1>7, <1>8, <1>9

\* The broker answers a request, and the answer fits whoever waits under its id.
LEMMA Answered ==
  ASSUME ClientInv, requests # << >>, NEW r, r = Head(requests), requests' = Tail(requests),
         NEW body \in Answer, Sends(r, body), UNCHANGED << conn, correlation, pending, receive, call >>,
         parts' \in Parts, brokerLog' \in Logs, LogOK(brokerLog'), Grew(parts, brokerLog, parts', brokerLog'),
         \A g \in Callers : Waits(g) /\ call[g].corr = r.corr => Fits(call[g], body, parts', brokerLog')
  PROVE  ClientInv'
<1> USE ClientInv DEF ClientInv
<1> DEFINE h == [corr |-> r.corr]
           b == [body |-> body]
<1>1. /\ r \in WireRequest /\ RequestOK(r) /\ requests' \in Seq(WireRequest)
      /\ \A i \in 1..Len(requests') : requests'[i] \in WireRequest /\ RequestOK(requests'[i])
  <2>1. requests \in Seq(WireRequest) /\ Len(requests) \in Nat /\ Len(requests) > 0
    BY LenProperties, EmptySeq DEF WireTypeOK
  <2>2. /\ r = requests[1] /\ requests' \in Seq(WireRequest) /\ Len(requests') = Len(requests) - 1
        /\ \A i \in 1..Len(requests') : requests'[i] = requests[i + 1]
    BY <2>1, HeadTailProperties
  <2>3. \A i \in 1..Len(requests) : requests[i] \in WireRequest /\ RequestOK(requests[i])
    BY <2>1, ElementOfSeq DEF RequestsInv
  <2> QED
    BY <2>1, <2>2, <2>3
<1>2. h \in Header /\ b \in Body /\ b.body = body /\ h.corr = r.corr /\ r.corr <= correlation
  BY <1>1 DEF Header, Body, WireRequest, RequestOK
<1>3. chunks' = chunks \/ (conn # "closed" /\ chunks' = chunks \o << h, b >>)
  BY DEF Sends
<1> HIDE DEF h, b
<1>4. << h, b >> \in Seq(Header \union Body)
  BY <1>2
<1>5. WireTypeOK'
  <2>1. chunks' \in Seq(Header \union Body)
    <3>1. chunks \in Seq(Header \union Body)
      BY DEF WireTypeOK
    <3>2. chunks \o << h, b >> \in Seq(Header \union Body)
      BY <1>4, <3>1, ConcatProperties
    <3> QED
      BY <1>3, <3>1, <3>2
  <2> QED
    BY <1>1, <2>1 DEF WireTypeOK
<1>6. Keeps
  <2>1. correlation <= correlation'
    BY DEF WireTypeOK
  <2> QED
    BY <2>1 DEF Keeps, Waits, SameCall
<1>7. CallsInv'
  BY <1>5, <1>6, CallsKept DEF CallsInv
<1>8. PendingInv'
  BY DEF PendingInv, Waits
<1>9. ASSUME NEW x, NEW y, x = h, y = b PROVE PairOK(x, y)'
  <2>1. \A g \in Callers : Waits(g)' /\ call'[g].corr = x.corr => Fits(call'[g], y.body, parts', brokerLog')
    BY <1>2, <1>9 DEF Waits
  <2>2. x.corr <= correlation'
    BY <1>2, <1>9
  <2> QED
    BY <1>2, <1>9, <2>1, <2>2 DEF PairOK
<1>10. OpenerInv'
  <2>1. conn # "new"
    BY DEF OpenerInv
  <2> QED
    BY <2>1 DEF OpenerInv
<1>11. RequestsInv'
  <2>1. \A x \in WireRequest : RequestOK(x) => RequestOK(x)'
    BY <1>5, <1>6, MessagesKept
  <2> SUFFICES ASSUME NEW i \in 1..Len(requests'), NEW q, q = requests'[i] PROVE RequestOK(q)'
    BY DEF RequestsInv, RequestOK
  <2> QED
    BY <1>1, <2>1
<1>12. WireInv'
  <2> SUFFICES ASSUME conn \in {"opening", "open"} PROVE WireInv'
    BY DEF WireInv
  <2>1. PICK n \in Nat : Len(Sent) = 2 * n /\ \A i \in 1..n : PairOK(Sent[2 * i - 1], Sent[2 * i])
    BY DEF WireInv
  <2>2. \A x, y : PairOK(x, y) => PairOK(x, y)'
    BY <1>5, <1>6, MessagesKept
  <2>3. Len(receive') <= 1
    BY DEF WireInv
  <2>4. CASE chunks' = chunks
    <3>1. ASSUME NEW i \in 1..n, NEW x, NEW y, x = Sent'[2 * i - 1], y = Sent'[2 * i] PROVE PairOK(x, y)'
      BY <2>1, <2>2, <2>4, <3>1 DEF Sent
    <3>2. \A i \in 1..n : PairOK(Sent[2 * i - 1], Sent[2 * i])'
      BY <3>1 DEF PairOK
    <3>3. Len(Sent') = 2 * n
      BY <2>1, <2>4 DEF Sent
    <3> QED
      BY <2>3, <3>2, <3>3 DEF WireInv
  <2>5. CASE chunks' = chunks \o << h, b >>
    <3>1. receive \in Seq(Header \union Body) /\ chunks \in Seq(Header \union Body)
      BY DEF WireTypeOK
    <3>2. Sent \in Seq(Header \union Body) /\ Sent' = Sent \o << h, b >>
      <4>1. receive \o chunks \in Seq(Header \union Body)
        BY <3>1, ConcatProperties
      <4>2. ASSUME NEW two \in Seq(Header \union Body)
            PROVE  (receive \o chunks) \o two = receive \o (chunks \o two)
        BY ONLY <3>1, <4>2, ConcatAssociative
      <4> QED
        BY <1>4, <2>5, <4>1, <4>2 DEF Sent
    <3>3. /\ Len(<< h, b >>) = 2 /\ << h, b >>[1] = h /\ << h, b >>[2] = b
      OBVIOUS
    <3>4. /\ Len(Sent') = 2 * (n + 1) /\ \A j \in 1..(2 * n) : Sent'[j] = Sent[j]
          /\ Sent'[2 * n + 1] = h /\ Sent'[2 * n + 2] = b
      <4>1. /\ Len(Sent \o << h, b >>) = Len(Sent) + Len(<< h, b >>)
            /\ \A j \in 1..(Len(Sent) + Len(<< h, b >>)) :
                  (Sent \o << h, b >>)[j] = IF j <= Len(Sent) THEN Sent[j] ELSE << h, b >>[j - Len(Sent)]
        BY <1>4, <3>2, ConcatProperties
      <4>2. /\ \A j \in 1..(2 * n) : j \in 1..(2 * n + 2) /\ j <= 2 * n
            /\ 2 * n + 1 \in 1..(2 * n + 2) /\ 2 * n + 2 \in 1..(2 * n + 2)
            /\ (2 * n + 1) - 2 * n = 1 /\ (2 * n + 2) - 2 * n = 2 /\ 2 * n + 2 = 2 * (n + 1)
            /\ ~(2 * n + 1 <= 2 * n) /\ ~(2 * n + 2 <= 2 * n)
        BY <2>1
      <4> QED
        BY <2>1, <3>2, <3>3, <4>1, <4>2
    <3>5. ASSUME NEW i \in 1..(n + 1), NEW x, NEW y, x = Sent'[2 * i - 1], y = Sent'[2 * i] PROVE PairOK(x, y)'
      <4>1. CASE i \in 1..n
        <5>1. 2 * i - 1 \in 1..(2 * n) /\ 2 * i \in 1..(2 * n)
          BY <4>1
        <5>2. PairOK(Sent[2 * i - 1], Sent[2 * i]) /\ x = Sent[2 * i - 1] /\ y = Sent[2 * i]
          BY <2>1, <3>4, <3>5, <4>1, <5>1
        <5> QED
          BY <2>2, <5>2
      <4>2. CASE i = n + 1
        <5>1. 2 * i - 1 = 2 * n + 1 /\ 2 * i = 2 * n + 2
          BY <4>2
        <5> QED
          BY <1>9, <3>4, <3>5, <5>1
      <4> QED
        BY <4>1, <4>2
    <3>6. \A i \in 1..(n + 1) : PairOK(Sent[2 * i - 1], Sent[2 * i])'
      BY <3>5 DEF PairOK
    <3>7. (\E m \in Nat : Len(Sent) = 2 * m /\ \A i \in 1..m : PairOK(Sent[2 * i - 1], Sent[2 * i]))'
      <4>1. n + 1 \in Nat
        OBVIOUS
      <4> QED
        BY <3>4, <3>6, <4>1
    <3> QED
      BY <2>3, <3>7 DEF WireInv
  <2> QED
    BY <1>3, <2>4, <2>5
<1> QED
  BY <1>5, <1>7, <1>8, <1>10, <1>11, <1>12

\* The log from a record on.
LEMMA RestOfLog ==
  ASSUME NEW l \in Seq(LogRecord), NEW o \in Nat, o <= Len(l)
  PROVE  /\ SubSeq(l, o + 1, Len(l)) \in Seq(LogRecord) /\ Len(SubSeq(l, o + 1, Len(l))) = Len(l) - o
         /\ \A i \in 1..(Len(l) - o) : SubSeq(l, o + 1, Len(l))[i] = l[o + i]
<1> DEFINE k == Len(l)
<1>1. k \in Nat /\ \A i \in (o + 1)..k : i \in 1..k /\ l[i] \in LogRecord
  BY LenProperties, ElementOfSeq
<1>2. /\ SubSeq(l, o + 1, k) \in Seq(LogRecord) /\ Len(SubSeq(l, o + 1, k)) = IF o + 1 <= k THEN k - (o + 1) + 1 ELSE 0
      /\ \A i \in 1..(k - (o + 1) + 1) : SubSeq(l, o + 1, k)[i] = l[(o + 1) + i - 1]
  <2>1. o + 1 \in Int /\ k \in Int
    BY <1>1
  <2> HIDE DEF k
  <2> QED
    BY ONLY <1>1, <2>1, SubSeqProperties
<1> HIDE DEF k
<1>3. o <= k
  BY DEF k
<1>4. k - (o + 1) + 1 = k - o /\ (IF o + 1 <= k THEN k - (o + 1) + 1 ELSE 0) = k - o
      /\ \A i \in 1..(k - o) : (o + 1) + i - 1 = o + i
  BY <1>1, <1>3
<1> QED
  BY <1>2, <1>4 DEF k

LEMMA BrokerStep == ASSUME ClientInv, Broker PROVE ClientInv'
<1> USE ClientInv DEF ClientInv
<1> DEFINE r == Head(requests)
           t == r.c.topic
           tlog == brokerLog[t]
<1>1. requests # << >> /\ requests' = Tail(requests) /\ UNCHANGED << conn, correlation, pending, receive, call >>
  BY DEF Broker
<1>2. r \in WireRequest /\ RequestOK(r)
  <2>1. requests \in Seq(WireRequest) /\ Len(requests) \in Nat /\ Len(requests) > 0
    BY <1>1, LenProperties, EmptySeq DEF WireTypeOK
  <2>2. r = requests[1] /\ 1 \in 1..Len(requests)
    BY <2>1, HeadTailProperties
  <2> QED
    BY <2>1, <2>2, ElementOfSeq DEF RequestsInv
<1>3. /\ t \in BrokerTopics /\ r.corr \in Nat /\ r.c.offset \in Nat /\ r.c.size \in Nat /\ r.c.since \in Nat
      /\ r.c.offset <= r.c.since
  BY <1>2 DEF WireRequest, WireCall, RequestOK
<1>4. ASSUME NEW g \in Callers, Waits(g), call[g].corr = r.corr
      PROVE  /\ call[g].at = r.api /\ call[g].op = r.c.op /\ call[g].topic = t /\ call[g].offset = r.c.offset
             /\ call[g].size = r.c.size /\ call[g].since = r.c.since
             /\ r.api \in ApisOf(r.c.op) /\ r.c.since <= Len(tlog)
  <2>1. Asked(r, call[g]) /\ CallFits(call[g], parts, brokerLog, correlation)
    BY <1>2, <1>4 DEF RequestOK, CallsInv
  <2> QED
    BY <1>4, <2>1 DEF Asked, CallFits, Waits
<1>5. /\ parts \in Parts /\ brokerLog \in Logs /\ tlog \in Seq(LogRecord) /\ Len(tlog) \in Nat
      /\ Grew(parts, brokerLog, parts, brokerLog)
  BY <1>3, SameLogs, LenProperties DEF WireTypeOK, Logs
<1> HIDE DEF r, t, tlog
<1>6. ASSUME Sends(r, [got |-> "refusal"]), UNCHANGED << parts, brokerLog >> PROVE ClientInv'
  <2>1. [got |-> "refusal"] \in Answer
    BY DEF Answer
  <2>2. \A g \in Callers : Fits(call[g], [got |-> "refusal"], parts', brokerLog')
    BY DEF Fits
  <2> QED
    BY <1>1, <1>5, <1>6, <2>1, <2>2, Answered DEF r
<1>7. ASSUME r.api = "versions", Sends(r, [got |-> "versions"]), UNCHANGED << parts, brokerLog >> PROVE ClientInv'
  <2>1. [got |-> "versions"] \in Answer
    BY DEF Answer
  <2>2. \A g \in Callers : Waits(g) => call[g].corr # r.corr
    BY <1>4, <1>7 DEF ApisOf
  <2> QED
    BY <1>1, <1>5, <1>7, <2>1, <2>2, Answered DEF r
<1>8. ASSUME r.api = "create", parts' = [parts EXCEPT ![t] = IF @ = 0 THEN 1 ELSE @],
             Sends(r, [got |-> "created"]), UNCHANGED brokerLog
      PROVE  ClientInv'
  <2>1. [got |-> "created"] \in Answer
    BY DEF Answer
  <2>2. parts' \in Parts /\ Grew(parts, brokerLog, parts', brokerLog')
    BY <1>3, <1>5, <1>8 DEF Parts, Grew
  <2>3. \A g \in Callers : Waits(g) /\ call[g].corr = r.corr => Fits(call[g], [got |-> "created"], parts', brokerLog')
    BY <1>4, <1>8 DEF Fits
  <2> QED
    BY <1>1, <1>5, <1>8, <2>1, <2>2, <2>3, Answered DEF r
<1>9. ASSUME r.api = "metadata", r.c.op = "ensure", parts' = [parts EXCEPT ![t] = IF @ = 0 THEN 4 ELSE @],
             Sends(r, [got |-> "partitions", n |-> parts'[t]]), UNCHANGED brokerLog
      PROVE  ClientInv'
  <2>1. parts' \in Parts /\ Grew(parts, brokerLog, parts', brokerLog') /\ parts'[t] \in Nat /\ parts'[t] # 0
    BY <1>3, <1>5, <1>9 DEF Parts, Grew
  <2>2. [got |-> "partitions", n |-> parts'[t]] \in Answer
    BY <2>1 DEF Answer
  <2>3. \A g \in Callers : Waits(g) /\ call[g].corr = r.corr =>
            Fits(call[g], [got |-> "partitions", n |-> parts'[t]], parts', brokerLog')
    BY <1>4, <1>9, <2>1 DEF Fits
  <2> QED
    BY <1>1, <1>5, <1>9, <2>1, <2>2, <2>3, Answered DEF r
<1>10. ASSUME r.api = "metadata", r.c.op = "list",
              Sends(r, [got |-> "names", names |-> {n \in BrokerTopics : parts[n] > 0}]), UNCHANGED << parts, brokerLog >>
       PROVE  ClientInv'
  <2> DEFINE body == [got |-> "names", names |-> {n \in BrokerTopics : parts[n] > 0}]
  <2>1. body \in Answer
    BY DEF Answer
  <2>2. \A n \in body.names : parts[n] # 0
    BY ONLY <1>5 DEF Parts
  <2>3. \A g \in Callers : Waits(g) /\ call[g].corr = r.corr => Fits(call[g], body, parts', brokerLog')
    BY <1>4, <1>10, <2>2 DEF Fits
  <2> QED
    BY <1>1, <1>5, <1>10, <2>1, <2>3, Answered DEF r
<1>11. ASSUME r.api = "produce", parts' = [parts EXCEPT ![t] = IF @ = 0 THEN 4 ELSE @],
              brokerLog' = [brokerLog EXCEPT ![t] = @ \o [i \in 1 .. r.c.size |->
                               [base |-> Len(tlog), by |-> r.corr, offset |-> Len(tlog) + i - 1]]],
              Sends(r, [got |-> "base", base |-> Len(tlog)])
       PROVE  ClientInv'
  <2> DEFINE record(i) == [base |-> Len(tlog), by |-> r.corr, offset |-> Len(tlog) + i - 1]
             batch == [i \in 1 .. r.c.size |-> record(i)]
             body == [got |-> "base", base |-> Len(tlog)]
  <2>1. \A i \in 1..r.c.size : /\ record(i) \in LogRecord /\ record(i).base = Len(tlog) /\ record(i).by = r.corr
                               /\ record(i).offset = Len(tlog) + i - 1
    BY <1>3, <1>5 DEF LogRecord
  <2> HIDE DEF record
  <2>2. batch \in Seq(LogRecord) /\ Len(batch) = r.c.size /\ \A i \in 1..r.c.size : batch[i] = record(i)
    <3>1. batch \in Seq(LogRecord)
      <4>1. batch \in [1..r.c.size -> LogRecord]
        BY <2>1
      <4> QED
        BY <1>3, <4>1, SeqDef
    <3> QED
      BY <1>3, <3>1, LenProperties
  <2> HIDE DEF batch
  <2>3. brokerLog' = [brokerLog EXCEPT ![t] = tlog \o batch]
    BY <1>11 DEF batch, record, tlog
  <2>4. /\ tlog \o batch \in Seq(LogRecord) /\ Len(tlog \o batch) = Len(tlog) + r.c.size
        /\ \A i \in 1..(Len(tlog) + r.c.size) :
              (tlog \o batch)[i] = IF i <= Len(tlog) THEN tlog[i] ELSE batch[i - Len(tlog)]
    BY <1>5, <2>2, ConcatProperties
  <2> DEFINE new == brokerLog'[t]
  <2>5. /\ new = tlog \o batch /\ brokerLog' \in Logs
        /\ \A s \in BrokerTopics : s # t => brokerLog'[s] = brokerLog[s]
    BY <1>3, <1>5, <2>3, <2>4 DEF Logs
  <2>6. /\ Len(new) = Len(tlog) + r.c.size
        /\ \A i \in 1..Len(tlog) : new[i] = tlog[i]
        /\ \A i \in 1..r.c.size : new[Len(tlog) + i] = record(i)
    <3>1. \A i \in 1..Len(tlog) : i \in 1..(Len(tlog) + r.c.size) /\ i <= Len(tlog)
      BY <1>3, <1>5
    <3>2. \A i \in 1..r.c.size : /\ Len(tlog) + i \in 1..(Len(tlog) + r.c.size) /\ ~(Len(tlog) + i <= Len(tlog))
                                 /\ (Len(tlog) + i) - Len(tlog) = i
      BY <1>3, <1>5
    <3> QED
      BY <2>2, <2>4, <2>5, <3>1, <3>2
  <2> HIDE DEF new
  <2>7. parts' \in Parts /\ Grew(parts, brokerLog, parts', brokerLog')
    <3>1. parts' \in Parts /\ \A s \in BrokerTopics : parts[s] # 0 => parts'[s] = parts[s]
      BY <1>3, <1>5, <1>11 DEF Parts
    <3>2. \A s \in BrokerTopics : Len(brokerLog[s]) \in Nat
      BY LenProperties DEF WireTypeOK, Logs
    <3>3. ASSUME NEW s \in BrokerTopics
          PROVE  /\ Len(brokerLog[s]) <= Len(brokerLog'[s])
                 /\ \A i \in 1..Len(brokerLog[s]) : brokerLog'[s][i] = brokerLog[s][i]
      <4>1. CASE s = t
        BY <1>3, <1>5, <2>6, <4>1 DEF new, tlog
      <4>2. CASE s # t
        BY <2>5, <3>2, <4>2
      <4> QED
        BY <4>1, <4>2
    <3> QED
      BY <3>1, <3>3 DEF Grew
  <2>8. LogOK(brokerLog')
    <3>1. ASSUME NEW i \in 1..Len(new) PROVE new[i].offset = i - 1 /\ new[i].base < i
      <4>1. CASE i \in 1..Len(tlog)
        BY <1>3, <2>6, <4>1 DEF LogOK, tlog
      <4>2. CASE i \notin 1..Len(tlog)
        <5>1. i - Len(tlog) \in 1..r.c.size /\ Len(tlog) + (i - Len(tlog)) = i /\ Len(tlog) < i
          BY <1>3, <1>5, <2>6, <3>1, <4>2
        <5>2. new[i] = record(i - Len(tlog))
          BY <2>6, <5>1
        <5>3. new[i].offset = Len(tlog) + (i - Len(tlog)) - 1 /\ new[i].base = Len(tlog)
          BY <2>1, <5>1, <5>2
        <5> QED
          BY <1>5, <5>1, <5>3
      <4> QED
        BY <4>1, <4>2
    <3> QED
      BY <2>5, <3>1 DEF LogOK, new
  <2>9. body \in Answer
    BY <1>5 DEF Answer
  <2>10. ASSUME NEW g \in Callers, Waits(g), call[g].corr = r.corr PROVE Fits(call[g], body, parts', brokerLog')
    <3>1. call[g].op = "produce" /\ call[g].topic = t /\ call[g].size = r.c.size
      BY <1>4, <1>11, <2>10 DEF ApisOf
    <3>2. body.base + call[g].size <= Len(brokerLog'[t])
      BY <1>3, <1>5, <2>6, <3>1 DEF new
    <3>3. \A i \in 1..call[g].size : brokerLog'[t][body.base + i].by = call[g].corr
      BY <2>1, <2>6, <2>10, <3>1 DEF new
    <3> QED
      BY <3>1, <3>2, <3>3 DEF Fits
  <2> QED
    BY <1>1, <1>11, <2>5, <2>7, <2>8, <2>9, <2>10, Answered DEF r
<1>12. ASSUME r.api = "fetch", UNCHANGED << parts, brokerLog >>,
              LET from == IF r.c.offset < Len(tlog) THEN tlog[r.c.offset + 1].base ELSE Len(tlog)
              IN  Sends(r, [got |-> "batches", records |-> SubSeq(tlog, from + 1, Len(tlog)),
                            watermark |-> IF tlog = << >> THEN 1 ELSE Len(tlog)])
       PROVE  ClientInv'
  <2> DEFINE from == IF r.c.offset < Len(tlog) THEN tlog[r.c.offset + 1].base ELSE Len(tlog)
             body == [got |-> "batches", records |-> SubSeq(tlog, from + 1, Len(tlog)),
                      watermark |-> IF tlog = << >> THEN 1 ELSE Len(tlog)]
  <2>1. from \in Nat /\ from <= Len(tlog) /\ (r.c.offset <= Len(tlog) => from <= r.c.offset)
    <3>1. CASE r.c.offset < Len(tlog)
      <4>1. r.c.offset + 1 \in 1..Len(tlog)
        BY <1>3, <1>5, <3>1
      <4>2. tlog[r.c.offset + 1] \in LogRecord /\ tlog[r.c.offset + 1].base < r.c.offset + 1
        BY <1>3, <1>5, <4>1, ElementOfSeq DEF LogOK, tlog
      <4>3. tlog[r.c.offset + 1].base \in Nat
        BY ONLY <4>2 DEF LogRecord
      <4>4. from = tlog[r.c.offset + 1].base
        BY <3>1
      <4> QED
        BY ONLY <1>3, <1>5, <3>1, <4>2, <4>3, <4>4
    <3>2. CASE ~(r.c.offset < Len(tlog))
      BY <1>3, <1>5, <3>2
    <3> QED
      BY <3>1, <3>2
  <2>2. Sends(r, body)
    BY <1>12
  <2> HIDE DEF from
  <2>3. /\ SubSeq(tlog, from + 1, Len(tlog)) \in Seq(LogRecord) /\ Len(SubSeq(tlog, from + 1, Len(tlog))) = Len(tlog) - from
        /\ \A i \in 1..(Len(tlog) - from) : SubSeq(tlog, from + 1, Len(tlog))[i] = tlog[from + i]
    BY <1>5, <2>1, RestOfLog
  <2>4. body.watermark = IF Len(tlog) = 0 THEN 1 ELSE Len(tlog)
    BY <1>5, EmptySeq
  <2>5. body \in Answer /\ body.got = "batches" /\ body.records = SubSeq(tlog, from + 1, Len(tlog))
    BY <1>5, <2>3 DEF Answer
  <2> HIDE DEF body
  <2>6. ASSUME NEW g \in Callers, Waits(g), call[g].corr = r.corr PROVE Fits(call[g], body, parts', brokerLog')
    <3>1. /\ call[g].op \in {"fetch", "end"} /\ call[g].topic = t /\ call[g].offset = r.c.offset
          /\ call[g].since = r.c.since /\ r.c.since <= Len(tlog)
      <4>1. /\ call[g].op = r.c.op /\ r.api \in ApisOf(r.c.op) /\ call[g].topic = t /\ call[g].offset = r.c.offset
            /\ call[g].since = r.c.since /\ r.c.since <= Len(tlog)
        BY <1>4, <2>6
      <4>2. r.c.op \in {"none", "fetch", "end"}
        BY <1>2, <1>12, <4>1 DEF ApisOf, WireRequest, WireCall
      <4> QED
        BY <1>12, <4>1, <4>2 DEF ApisOf
    <3>2. /\ from <= call[g].offset /\ call[g].since <= Len(tlog) /\ Len(body.records) = Len(tlog) - from
          /\ \A i \in 1..(Len(tlog) - from) : body.records[i] = brokerLog'[t][from + i]
          /\ body.watermark = (IF Len(tlog) = 0 THEN 1 ELSE Len(tlog)) /\ Len(tlog) <= Len(brokerLog'[t])
      <4>1. from <= call[g].offset
        BY <1>3, <1>5, <2>1, <3>1
      <4> QED
        BY <1>5, <1>12, <2>3, <2>4, <2>5, <3>1, <4>1 DEF tlog
    <3> QED
      BY <1>5, <2>1, <2>5, <3>1, <3>2 DEF Fits
  <2> QED
    BY <1>1, <1>5, <1>12, <2>2, <2>5, <2>6, Answered DEF r
<1> HIDE DEF ClientInv
<1> QED
  BY <1>6, <1>7, <1>8, <1>9, <1>10, <1>11, <1>12, ZenonT(40) DEF Broker, r, t, tlog

LEMMA WireStart == NisshiClientInit => ClientInv
<1> SUFFICES ASSUME NisshiClientInit PROVE ClientInv
  OBVIOUS
<1>1. (CHOOSE t \in BrokerTopics : TRUE) \in BrokerTopics
  BY ClientAssumption
<1>2. Quiet \in WireCall /\ Quiet.at = "idle" /\ Quiet.result = Nothing /\ Quiet.offset = 0 /\ Quiet.since = 0
  BY <1>1 DEF Quiet, WireCall, Result, Nothing
<1>3. WireTypeOK
  BY <1>2 DEF NisshiClientInit, WireTypeOK, Parts, Logs
<1>4. LogOK(brokerLog)
  BY DEF NisshiClientInit, LogOK
<1>5. Opener \in Fibers /\ Callers \subseteq Fibers
  BY DEF Fibers
<1>6. CallsInv
  BY <1>1, <1>2, <1>5 DEF NisshiClientInit, CallsInv, CallFits, Quiet
<1>7. PendingInv /\ OpenerInv
  BY <1>2, <1>5 DEF NisshiClientInit, PendingInv, OpenerInv
<1>8. RequestsInv /\ WireInv
  BY DEF NisshiClientInit, RequestsInv, WireInv
<1> QED
  BY <1>3, <1>4, <1>6, <1>7, <1>8 DEF ClientInv

LEMMA WireStep == ClientInv /\ [NisshiClientNext]_wireVars => ClientInv'
<1> SUFFICES ASSUME ClientInv, [NisshiClientNext]_wireVars PROVE ClientInv'
  OBVIOUS
<1>1. CASE UNCHANGED wireVars
  <2>1. /\ conn' = conn /\ correlation' = correlation /\ pending' = pending /\ requests' = requests
        /\ chunks' = chunks /\ receive' = receive /\ call' = call /\ parts' = parts /\ brokerLog' = brokerLog
    BY <1>1 DEF wireVars
  <2>2. WireTypeOK' /\ PendingInv' /\ OpenerInv' /\ LogOK(brokerLog')
    BY <2>1 DEF ClientInv, WireTypeOK, PendingInv, Waits, OpenerInv
  <2>3. CallsInv' /\ RequestsInv' /\ WireInv'
    BY <2>1, <2>2, CallsMove
  <2> QED
    BY <2>2, <2>3 DEF ClientInv
<1>2. ASSUME NEW f \in Callers, Begin(f) \/ Resume(f) \/ Timeout(f) \/ Return(f) PROVE ClientInv'
  <2>1. f \in Fibers
    BY DEF Fibers
  <2> QED
    BY <1>2, <2>1, BeginStep, ResumeStep, TimeoutStep, ReturnStep
<1>3. CASE Timeout(Opener)
  <2>1. Opener \in Fibers
    BY DEF Fibers
  <2> QED
    BY <1>3, <2>1, TimeoutStep
<1> QED
  BY <1>1, <1>2, <1>3, ConnectStep, BrokerStep, ProbeStep, DataStep, FailAllStep, HandshakeStep DEF NisshiClientNext

\* What was told record by record is honest.
LEMMA ToldIsHonest ==
  ASSUME NEW c \in WireCall, parts \in Parts, brokerLog \in Logs, c.offset <= c.since,
         c.since <= Len(brokerLog[c.topic]), Told(c, parts, brokerLog)
  PROVE  Honest(c)
<1> DEFINE r == c.result
           tlog == brokerLog[c.topic]
<1>1. c.topic \in BrokerTopics /\ c.offset \in Nat /\ c.since \in Nat /\ r \in Result /\ tlog \in Seq(LogRecord)
  BY DEF WireCall, Logs
<1>2. Len(tlog) \in Nat
  BY <1>1, LenProperties
<1>3. CASE r.got \in {"nothing", "error"}
  <2>1. r = Nothing \/ r = Error
    BY <1>1, <1>3 DEF Result, Nothing, Error
  <2>2. Honest(c) <=> r \in {Nothing, Error}
    BY <1>3 DEF Honest
  <2> QED
    BY <2>1, <2>2
<1>4. CASE r.got = "ensured"
  <2>1. Honest(c) <=> c.op = "ensure" /\ parts[c.topic] = 1
    BY <1>4 DEF Honest
  <2> QED
    BY <1>4, <2>1 DEF Told
<1>5. CASE r.got = "base"
  <2>1. Honest(c) <=> c.op = "produce" /\ \A i \in 1..c.size : tlog[r.base + i].by = c.corr
    BY <1>5 DEF Honest
  <2> QED
    BY <1>5, <2>1 DEF Told
<1>6. CASE r.got = "names"
  <2>1. Honest(c) <=> c.op = "list" /\ \A t \in r.names : parts[t] > 0
    BY <1>6 DEF Honest
  <2>2. \A t \in r.names : parts[t] \in Nat /\ parts[t] # 0
    BY <1>1, <1>6 DEF Told, Result, Parts
  <2> QED
    BY <1>6, <2>1, <2>2 DEF Told
<1>7. CASE r.got = "end"
  <2>1. Honest(c) <=> c.op = "end" /\ r.n \in c.since..Len(tlog)
    BY <1>7 DEF Honest
  <2>2. c.op = "end" /\ c.since <= r.n /\ r.n <= Len(tlog) /\ r.n \in Nat
    BY <1>1, <1>7 DEF Told, Result
  <2> QED
    BY <1>1, <1>2, <2>1, <2>2
<1>8. CASE r.got = "page"
  <2> DEFINE rest == SubSeq(tlog, c.offset + 1, Len(tlog))
             m == Len(r.records)
  <2>1. Honest(c) <=> c.op = "fetch" /\ IsPrefix(r.records, rest)
    BY <1>8 DEF Honest
  <2>2. r.records \in Seq(LogRecord) /\ m \in Nat /\ \A i \in 1..m : r.records[i] \in LogRecord
    BY <1>1, <1>8, LenProperties, ElementOfSeq DEF Result
  <2>3. c.op = "fetch" /\ c.offset + m <= Len(tlog) /\ \A i \in 1..m : r.records[i] = tlog[c.offset + i]
    BY <1>8 DEF Told
  <2>4. /\ rest \in Seq(LogRecord) /\ Len(rest) = Len(tlog) - c.offset
        /\ \A i \in 1..(Len(tlog) - c.offset) : rest[i] = tlog[c.offset + i]
    <3>1. c.offset \in Nat /\ c.offset <= Len(tlog)
      BY <1>1, <1>2
    <3> QED
      BY <1>1, <3>1, RestOfLog
  <2>5. m <= Len(rest) /\ m <= Len(tlog) - c.offset
    BY <1>1, <1>2, <2>2, <2>3, <2>4
  <2> HIDE DEF rest, m
  <2>6. \A i \in 1..m : rest[i] = r.records[i]
    <3>1. \A i \in 1..m : i \in 1..(Len(tlog) - c.offset)
      BY <1>1, <1>2, <2>2, <2>5 DEF m
    <3> QED
      BY <2>3, <2>4, <3>1 DEF m
  <2>7. SubSeq(r.records, 1, m) = SubSeq(rest, 1, m)
    <3>1. SubSeq(r.records, 1, m) = [i \in 1..m |-> r.records[i]]
      BY <2>2
    <3>2. SubSeq(rest, 1, m) = [i \in 1..m |-> rest[i]]
      BY <2>2
    <3> QED
      BY <2>6, <3>1, <3>2
  <2> QED
    BY <2>1, <2>3, <2>5, <2>7 DEF IsPrefix, m
<1> QED
  BY <1>1, <1>3, <1>4, <1>5, <1>6, <1>7, <1>8 DEF Result

\* The Nisshi client (protocol/connection.ts, protocol/client.ts): an operation reports what is so or
\* fails, and a deferred is kept only for a request somebody awaits; for any number of callers, topics,
\* requests and records, however answers are split, late, refused or cut off by a closed socket.
THEOREM WireAnswersAreOwn == NisshiClientSpec => []AnswersAreOwn
<1>1. ClientInv => AnswersAreOwn
  <2> SUFFICES ASSUME ClientInv PROVE AnswersAreOwn
    OBVIOUS
  <2>1. \A k \in DOMAIN pending : Waits(pending[k]) /\ call[pending[k]].corr = k
    BY DEF ClientInv, PendingInv
  <2>2. ASSUME NEW f \in Callers PROVE Honest(call[f])
    <3>1. /\ CallFits(call[f], parts, brokerLog, correlation) /\ call[f] \in WireCall
          /\ parts \in Parts /\ brokerLog \in Logs
      BY DEF ClientInv, CallsInv, WireTypeOK, Fibers
    <3>2. Told(call[f], parts, brokerLog)
      BY <3>1 DEF CallFits, Told, Nothing
    <3> QED
      BY <3>1, <3>2, ToldIsHonest DEF CallFits
  <2> QED
    BY <2>1, <2>2 DEF AnswersAreOwn
<1> QED
  BY <1>1, WireStart, WireStep, PTL DEF NisshiClientSpec
=============================================================================
