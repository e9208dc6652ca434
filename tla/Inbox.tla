------------------------------- MODULE Inbox -------------------------------
(***************************************************************************)
(* Inbox.dedupe: a consumer that is handed messages at least once asks     *)
(* whether it has seen one, runs its effect and marks the message, in three*)
(* steps (packages/eventsourcing/src/Outbox.ts and the three adapters of   *)
(* the port).  Inside a unit of work the effect and the mark commit        *)
(* together; outside, a crash can come between them.                       *)
(***************************************************************************)
EXTENDS Naturals

CONSTANTS Pairs,        \* (consumer, message) pairs, the key of the table
          Deliveries,   \* deliveries that may run at the same time
          MaxDeliveries

VARIABLES inUnitOfWork,  \* dedupe wraps a unit of work (PostgreSQL, SQLite)
          processed,     \* the pairs recorded
          effects,       \* how often the effect of a pair took place
          run,           \* what each delivery is doing
          excused,       \* pairs whose deliveries overlapped, or lost a mark
          skipped,       \* pairs a delivery of which was a duplicate
          deliveries

inboxVars == << inUnitOfWork, processed, effects, run, excused, skipped, deliveries >>

Resting == [at |-> "idle"]

InboxInit ==
    /\ inUnitOfWork \in BOOLEAN
    /\ processed = {} /\ excused = {} /\ skipped = {} /\ deliveries = 0
    /\ effects = [k \in Pairs |-> 0] /\ run = [d \in Deliveries |-> Resting]

Go(d, at) == run' = [run EXCEPT ![d].at = at]
Overlaps(d, k) == \E o \in Deliveries \ {d} : run[o].at # "idle" /\ run[o].key = k

\* External: the transport hands over a message, again perhaps.
DeliverTo(d, k) ==
    /\ run[d].at = "idle" /\ deliveries < MaxDeliveries /\ deliveries' = deliveries + 1
    /\ run' = [run EXCEPT ![d] = [at |-> "seen", key |-> k]]
    /\ excused' = IF Overlaps(d, k) THEN excused \cup {k} ELSE excused
    /\ UNCHANGED << inUnitOfWork, processed, effects, skipped >>

\* Mutant: the message is marked before its effect ran.
SeenMarksFirst(d) ==
    /\ run[d].at = "seen"
    /\ IF run[d].key \in processed
       THEN run' = [run EXCEPT ![d] = Resting] /\ skipped' = skipped \cup {run[d].key}
       ELSE Go(d, "effect") /\ UNCHANGED skipped
    /\ processed' = processed \cup {run[d].key}
    /\ UNCHANGED << inUnitOfWork, effects, excused, deliveries >>

\* seen: a duplicate returns none and the effect is skipped.
Seen(d) ==
    /\ run[d].at = "seen"
    /\ IF run[d].key \in processed
       THEN run' = [run EXCEPT ![d] = Resting] /\ skipped' = skipped \cup {run[d].key}
       ELSE Go(d, "effect") /\ UNCHANGED skipped
    /\ UNCHANGED << inUnitOfWork, processed, effects, excused, deliveries >>

\* The effect: a failure leaves the message unmarked.  In a unit of work it counts at the commit.
RunEffect(d) ==
    /\ run[d].at = "effect"
    /\ \/ run' = [run EXCEPT ![d] = Resting] /\ UNCHANGED effects
       \/ /\ Go(d, "mark")
          /\ effects' = IF inUnitOfWork THEN effects ELSE [effects EXCEPT ![run[d].key] = @ + 1]
    /\ UNCHANGED << inUnitOfWork, processed, excused, skipped, deliveries >>

\* markProcessed: ON CONFLICT DO NOTHING.
MarkProcessed(d) ==
    /\ run[d].at = "mark"
    /\ processed' = processed \cup {run[d].key}
    /\ effects' = IF inUnitOfWork THEN [effects EXCEPT ![run[d].key] = @ + 1] ELSE effects
    /\ run' = [run EXCEPT ![d] = Resting]
    /\ UNCHANGED << inUnitOfWork, excused, skipped, deliveries >>

\* The process dies, or a statement fails: an open unit of work rolls back.
CutOff(d) ==
    /\ run[d].at # "idle"
    /\ run' = [run EXCEPT ![d] = Resting]
    /\ excused' = IF run[d].at = "mark" /\ ~inUnitOfWork THEN excused \cup {run[d].key} ELSE excused
    /\ UNCHANGED << inUnitOfWork, processed, effects, skipped, deliveries >>

InboxNext == \E d \in Deliveries : \/ \E k \in Pairs : DeliverTo(d, k)
                                   \/ Seen(d) \/ RunEffect(d) \/ MarkProcessed(d) \/ CutOff(d)

InboxSpec == InboxInit /\ [][InboxNext]_inboxVars

(***************************************************************************)
(* A message is skipped only when its effect took place, so at-least-once  *)
(* delivery loses nothing; and its effect takes place twice only when two  *)
(* deliveries overlapped or a mark was lost outside a unit of work         *)
(* (packages/eventsourcing/src/Outbox.ts, Inbox.dedupe).                   *)
(***************************************************************************)
EffectivelyOnce ==
    \A k \in Pairs : /\ k \in skipped \cup processed => effects[k] > 0
                     /\ effects[k] > 1 => k \in excused
=============================================================================
