----------------------------- MODULE Projections ----------------------------
(***************************************************************************)
(* One projection of packages/eventsourcing/src/Projection.ts: the live    *)
(* worker (`run`), woken by the EventBus, and the operator's `rebuild`,    *)
(* which takes the worker's place (docs/operations.md: one active worker   *)
(* per projection).                                                        *)
(*                                                                         *)
(* The feed is the one PgEventStore provides: positions become visible in  *)
(* order.  Events are numbered 1, 2, ... by position.  The read model is   *)
(* the set of events its (idempotent) handlers were applied to.            *)
(***************************************************************************)
EXTENDS Integers

CONSTANTS
    MaxEvents,          \* bound: events committed
    BatchSize,          \* RunOptions.batchSize
    Unknown,            \* events whose type the registry does not know
    MaxStops,           \* bound: failures and restarts of the worker
    MaxRebuilds,        \* bound: calls of rebuild
    RebuildsMayStop     \* whether a rebuild may be cut short

ASSUME ConstantsAssumption ==
    /\ MaxEvents \in Nat \ {0} /\ BatchSize \in Nat \ {0}
    /\ Unknown \subseteq 1..MaxEvents
    /\ MaxStops \in Nat /\ MaxRebuilds \in Nat
    /\ RebuildsMayStop \in BOOLEAN

VARIABLES
    head,               \* events committed so far
    inTransit,          \* a commit notification is under way
    subscribed, signal, \* the worker's subscription and its pending wake-up
    checkpoint,         \* CheckpointStore row of the projection
    model,              \* events folded into the read model
    pc,                 \* step of whoever runs the projection
    live,               \* FALSE while a rebuild replays
    position, last,     \* last event of the batch handled, last one fetched
    stops, rebuilds

feedVars == <<head, inTransit>>
busVars == <<subscribed, signal>>
runVars == <<pc, live, position, last>>
counters == <<stops, rebuilds>>
vars == <<feedVars, busVars, checkpoint, model, runVars, counters>>

Events == 1..MaxEvents
Positions == 0..MaxEvents

TypeOK ==
    /\ head \in Positions /\ inTransit \in BOOLEAN
    /\ subscribed \in BOOLEAN /\ signal \in BOOLEAN
    /\ checkpoint \in Positions
    /\ model \subseteq Events
    /\ pc \in {"off", "zero", "load", "apply", "wait"}
    /\ live \in BOOLEAN
    /\ position \in Positions /\ last \in Positions
    /\ checkpoint <= head /\ last <= head
    /\ stops \in 0..MaxStops /\ rebuilds \in 0..MaxRebuilds

Init ==
    /\ head = 0 /\ inTransit = FALSE
    /\ subscribed = FALSE /\ signal = FALSE
    /\ checkpoint = 0
    /\ model = {}
    /\ pc = "off" /\ live = TRUE
    /\ position = 0 /\ last = 0
    /\ stops = 0 /\ rebuilds = 0

-----------------------------------------------------------------------------
\* The feed and the bus.

\* An append commits; its notification follows (notifyAfter, or the trigger of
\* schema revision 5).
Commit ==
    /\ head < MaxEvents
    /\ head' = head + 1
    /\ inTransit' = TRUE
    /\ UNCHANGED <<busVars, checkpoint, model, runVars, counters>>

\* The hub hands it to the subscriber there is; a pending signal absorbs it.
Notify ==
    /\ inTransit
    /\ inTransit' = FALSE
    /\ signal' = subscribed
    /\ UNCHANGED <<head, subscribed, checkpoint, model, runVars, counters>>

-----------------------------------------------------------------------------
\* run and catchupWith.

\* Mutant: the worker waits on a hub it has not subscribed to.
StartUnsubscribed ==
    /\ pc = "off"
    /\ pc' = "load" /\ live' = TRUE
    /\ UNCHANGED <<feedVars, busVars, checkpoint, model, position, last, counters>>

\* The worker comes up and subscribes before its first catch-up.
Start ==
    /\ pc = "off"
    /\ subscribed' = TRUE /\ signal' = FALSE
    /\ pc' = "load" /\ live' = TRUE
    /\ UNCHANGED <<feedVars, checkpoint, model, position, last, counters>>

AtMost(n, bound) == IF n < bound THEN n ELSE bound

\* Load the checkpoint and fetch the next batch.  None left: the worker waits,
\* a rebuild returns.
Load ==
    /\ pc = "load"
    /\ position' = checkpoint
    /\ last' = AtMost(checkpoint + BatchSize, head)
    /\ pc' = IF checkpoint < head THEN "apply" ELSE IF live THEN "wait" ELSE "off"
    /\ UNCHANGED <<feedVars, busVars, checkpoint, model, live, counters>>

\* The next event of the batch: skipped if its type is unknown, else handled.
Apply ==
    /\ pc = "apply"
    /\ position < last
    /\ position' = position + 1
    /\ model' = model \union ({position + 1} \ Unknown)
    /\ UNCHANGED <<feedVars, busVars, checkpoint, pc, live, last, counters>>

\* Mutant: the checkpoint is saved before the batch is handled.
SaveEarly ==
    /\ pc = "apply"
    /\ checkpoint' = last
    /\ pc' = IF position = last THEN "load" ELSE "apply"
    /\ UNCHANGED <<feedVars, busVars, model, live, position, last, counters>>

\* The whole batch is handled: save the checkpoint, go round again.
Save ==
    /\ pc = "apply"
    /\ position = last
    /\ checkpoint' = position
    /\ pc' = "load"
    /\ UNCHANGED <<feedVars, busVars, model, live, position, last, counters>>

\* A signal ends the wait.
Wake ==
    /\ pc = "wait"
    /\ signal
    /\ signal' = FALSE
    /\ pc' = "load"
    /\ UNCHANGED <<feedVars, subscribed, checkpoint, model, live, position, last, counters>>

\* A handler, decode or store failure, the loss of the LISTEN connection, the
\* death of the process: the run ends where it is, its subscription with it.
\* Notifications under way to it are lost.
Stop ==
    /\ pc # "off"
    /\ live \/ RebuildsMayStop
    /\ stops < MaxStops
    /\ stops' = stops + 1
    /\ pc' = "off"
    /\ subscribed' = FALSE /\ signal' = FALSE
    /\ inTransit' = FALSE
    /\ UNCHANGED <<head, checkpoint, model, live, position, last, rebuilds>>

-----------------------------------------------------------------------------
\* rebuild, run while the worker is stopped: reset the read model ...
Reset ==
    /\ pc = "off"
    /\ rebuilds < MaxRebuilds
    /\ rebuilds' = rebuilds + 1
    /\ model' = {}
    /\ pc' = "zero" /\ live' = FALSE
    /\ subscribed' = FALSE /\ signal' = FALSE
    /\ UNCHANGED <<feedVars, checkpoint, position, last, stops>>

\* Mutant: the replay starts at the old checkpoint.
ZeroCheckpointKept ==
    /\ pc = "zero"
    /\ pc' = "load"
    /\ UNCHANGED <<feedVars, busVars, checkpoint, model, live, position, last, counters>>

\* ... zero the checkpoint, and catch up.
ZeroCheckpoint ==
    /\ pc = "zero"
    /\ checkpoint' = 0
    /\ pc' = "load"
    /\ UNCHANGED <<feedVars, busVars, model, live, position, last, counters>>

RunStep == Start \/ Load \/ Apply \/ Save \/ Wake \/ ZeroCheckpoint

Next == Commit \/ Notify \/ RunStep \/ Stop \/ Reset

Spec == Init /\ [][Next]_vars

\* The worker keeps going and is started again when it stops; notifications
\* arrive.  Commits, stops and rebuilds need never happen.
FairSpec == Spec /\ WF_vars(RunStep) /\ WF_vars(Notify)

-----------------------------------------------------------------------------
\* At-least-once into the read model (Projection): what the checkpoint covers
\* has been folded in, through failures, restarts and rebuilds.
CheckpointIsCovered ==
    pc # "zero" => (1..checkpoint) \ Unknown \subseteq model

\* "Events are applied strictly in global position order" (Projection): the
\* read model never holds an event without the known ones before it.
ModelIsPrefix ==
    \A e \in model : (1..e) \ Unknown \subseteq model

\* A committed event reaches the read model without polling: no wake-up is
\* lost between catching up and waiting (ADR-0022).
EveryEventProjected ==
    \A e \in Events \ Unknown : head >= e ~> e \in model
=============================================================================
