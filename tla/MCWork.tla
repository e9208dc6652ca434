------------------------------- MODULE MCWork -------------------------------
(***************************************************************************)
(* Background work and delivery, a small instance of each part: the outbox *)
(* and its relays, the inbox, commands under an idempotency key, a         *)
(* projection, the job queue with its workers, the cron schedule of a      *)
(* recurring job, migrations and the life cycle of a process.  The parts   *)
(* share no state: `part` says which one a behaviour is about, and the     *)
(* others stay where they start.                                           *)
(***************************************************************************)
EXTENDS Projections, Outbox, Inbox, Idempotency, JobQueue, Lifecycle, TLC

CONSTANTS r1, r2, r3, d1, d2, d3, d4, red, blue

VARIABLES part, row

\* The second event has a type the registry does not know.
SecondUnknown == {2}

\* Three dispatches of one payload, one of another
LastIsBlue == [d \in {d1, d2, d3, d4} |-> IF d = d4 THEN blue ELSE red]

\* Expressions around the ends of hours, days, months and a leap February, in zones of fixed offset
Star == <<[form |-> "*", from |-> 0, to |-> 0, step |-> 1]>>
Every(n) == <<[form |-> "*", from |-> 0, to |-> 0, step |-> n]>>
One(n) == [form |-> "one", from |-> n, to |-> n, step |-> 1]
Span(a, b, n) == [form |-> "range", from |-> a, to |-> b, step |-> n]
Fixed(n) == [std |-> n, dst |-> n, from |-> 0, to |-> 0]
Feb28 == 19781 * 1440   \* 28 February 2024, 00:00 UTC, in minutes
Clock == INSTANCE Cron WITH
    Expressions <- { <<Every(20), Star, Star, Star, Star>>,
                     << <<One(30)>>, <<One(0), One(23)>>, Star, Star, <<Span(1, 5, 1)>> >>,
                     << <<One(59)>>, <<One(23)>>, <<One(1), One(31)>>, Star, <<One(0)>> >>,
                     << <<One(0)>>, <<One(0)>>, <<One(29)>>, Every(1), Star>>,
                     << <<One(0)>>, <<One(6)>>, <<One(29)>>, <<One(2)>>, Star>>,
                     << <<Span(5, 40, 15)>>, <<Span(22, 23, 1)>>, <<Span(28, 31, 1)>>, Star, Star>>,
                     << <<One(0)>>, <<One(12)>>, Star, Star, <<One(7)>> >>,
                     << <<One(60)>>, Star, Star, Star, Star>> },
    Zones <- {Fixed(0), Fixed(330), Fixed(-300)},
    Starts <- {Feb28, Feb28 + 1439, Feb28 + 1440 + 720, Feb28 - 1}, Delays <- {0, 45, 1500}, MaxRuns <- 2

\* A build, the next one, and one in which the second migration was edited; both lock modes
Builds == r1 :> (1 :> "a" @@ 2 :> "a") @@ r2 :> (1 :> "a" @@ 2 :> "a" @@ 3 :> "a") @@ r3 :> (1 :> "a" @@ 2 :> "b")
LockModes == r1 :> "session" @@ r2 :> "transaction" @@ r3 :> "session"
FirstOrNone == {<<>>, <<1>>}

-----------------------------------------------------------------------------
WorkInit ==
    /\ part \in {"outbox", "inbox", "dispatch", "projection", "jobs", "cron", "migrations", "process"}
    /\ OutboxInit /\ InboxInit /\ DispatchInit /\ Init /\ JobsInit /\ Clock!CronInit
    /\ DeploymentInit
    /\ part # "outbox" => backend = "memory"
    /\ part # "inbox" => inUnitOfWork
    /\ part # "dispatch" => store = "memory"
    /\ part # "migrations" => dialect = "pg" /\ schema = <<>>

WorkNext ==
    /\ UNCHANGED part
    /\ \/ /\ part = "outbox" /\ OutboxNext
          /\ UNCHANGED <<inboxVars, dispatchVars, vars, jobVars, row, migrationVars, processVars>>
       \/ /\ part = "inbox" /\ InboxNext
          /\ UNCHANGED <<outboxVars, dispatchVars, vars, jobVars, row, migrationVars, processVars>>
       \/ /\ part = "dispatch" /\ DispatchNext
          /\ UNCHANGED <<outboxVars, inboxVars, vars, jobVars, row, migrationVars, processVars>>
       \/ /\ part = "projection" /\ Next
          /\ UNCHANGED <<outboxVars, inboxVars, dispatchVars, jobVars, row, migrationVars, processVars>>
       \/ /\ part = "jobs" /\ JobsNext
          /\ UNCHANGED <<outboxVars, inboxVars, dispatchVars, vars, row, migrationVars, processVars>>
       \/ /\ part = "cron" /\ Clock!CronNext
          /\ UNCHANGED <<outboxVars, inboxVars, dispatchVars, vars, jobVars, migrationVars, processVars>>
       \/ /\ part = "migrations" /\ MigrationsNext
          /\ UNCHANGED <<outboxVars, inboxVars, dispatchVars, vars, jobVars, row, processVars>>
       \/ /\ part = "process" /\ LifecycleNext
          /\ UNCHANGED <<outboxVars, inboxVars, dispatchVars, vars, jobVars, row, migrationVars>>

WorkSpec ==
    WorkInit /\ [][WorkNext]_<<part, outboxVars, inboxVars, dispatchVars, vars, jobVars, row, migrationVars,
                               processVars>>

-----------------------------------------------------------------------------
\* A recurring job is always queued for the first minute its expression is due after the last one,
\* over the ends of months, leap days and late runs (cron.ts next, scheduler.ts complete).
FiresAtTheNextDueMinute == part = "cron" => Clock!FiresAtTheNextDueMinute
=============================================================================
