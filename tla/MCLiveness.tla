----------------------------- MODULE MCLiveness ------------------------------
(***************************************************************************)
(* What must eventually happen, on instances small enough for liveness:    *)
(* messages are settled, jobs end, commands end, events are projected,     *)
(* migration runners end and a process that got a signal exits.  `part`    *)
(* says which of them a behaviour is about.                                *)
(***************************************************************************)
EXTENDS Projections, Sequences, TLC

CONSTANTS j1, j2, w1, mail, NoSlot, NoRow, r1, r2, r3, NoRelay, c1, c2, NoSnapshot, NoSum, Nobody

VARIABLES part,
    backend, entryStatus, attempts, delay, entryOwner, entryLease, relayAt, queue, tried, sleep, delivered,
    upsets, replays,
    status, name, payload, attempt, due, owner, lease, deadLetters, ask, execution, jobRow, phase, toRelease,
    completed, cancelled, faults, shutdowns, operations,
    adapter, log, erased, snapshot, step, loaded, tries, emitted, eraser, erasures,
    dialect, book, schema, lock, runs,
    program, signals, interrupted, watcher, main, registered, onTime, started, drain, taken, ran, ready,
    listening, grpc, calls, deadline, exit

\* The second event has a type the registry does not know.
SecondUnknown == {2}

Box == INSTANCE Outbox WITH
    Entries <- {1}, Relays <- {r1, r2}, Adapters <- {"memory", "postgres", "sqlite"}, MaxPublishes <- 2,
    RelayBatch <- 1, RelayLease <- 1, MaxBackoff <- 1, MaxUpsets <- 1, MaxReplays <- 1
Queue == INSTANCE JobQueue WITH
    Jobs <- {j1, j2}, Recurring <- {j2}, Names <- {mail}, Registered <- {mail}, Workers <- {w1},
    Concurrency <- 1, JobAttempts <- 2, JobLease <- 1, MaxWait <- 1, MaxFaults <- 1, MaxShutdowns <- 1,
    MaxOperations <- 1
Aggregate == INSTANCE Aggregates WITH
    Commands <- {c1, c2}, MaxEmitted <- 2, SnapshotEvery <- 2, Times <- 1, MaxErasures <- 1,
    Adapters <- {"memory", "sql"}
Deployment == INSTANCE Lifecycle WITH
    Runners <- {r1, r2, r3},
    Build <- r1 :> (1 :> "a" @@ 2 :> "a") @@ r2 :> (1 :> "a" @@ 2 :> "a" @@ 3 :> "a") @@ r3 :> (1 :> "a" @@ 2 :> "b"),
    Mode <- r1 :> "session" @@ r2 :> "transaction" @@ r3 :> "session", Histories <- {<<>>, <<1>>},
    Finalizers <- {"a", "grpc"}, Calls <- {"c1"}, Capacity <- 1

-----------------------------------------------------------------------------
outboxVars == <<backend, entryStatus, attempts, delay, entryOwner, entryLease, relayAt, queue, tried, sleep,
                delivered, upsets, replays>>
jobVars == <<status, name, payload, attempt, due, owner, lease, deadLetters, ask, execution, jobRow, phase,
             toRelease, completed, cancelled, faults, shutdowns, operations>>
commandVars == <<adapter, log, erased, snapshot, step, loaded, tries, emitted, eraser, erasures>>
migrationVars == <<dialect, book, schema, lock, runs>>
processVars == <<program, signals, interrupted, watcher, main, registered, onTime, started, drain, taken, ran,
                 ready, listening, grpc, calls, deadline, exit>>

LiveInit ==
    /\ part \in {"outbox", "jobs", "commands", "projection", "migrations", "process"}
    /\ Box!OutboxInit /\ Queue!JobsInit /\ Aggregate!AggregateInit /\ Init /\ Deployment!DeploymentInit
    /\ part # "outbox" => backend = "memory"
    /\ part # "commands" => adapter = "memory"
    /\ part # "migrations" => dialect = "pg" /\ schema = <<>>

LiveNext ==
    /\ UNCHANGED part
    /\ \/ /\ part = "outbox" /\ Box!OutboxNext
          /\ UNCHANGED <<jobVars, commandVars, vars, migrationVars, processVars>>
       \/ /\ part = "jobs" /\ Queue!JobsNext
          /\ UNCHANGED <<outboxVars, commandVars, vars, migrationVars, processVars>>
       \/ /\ part = "commands" /\ Aggregate!AggregateNext
          /\ UNCHANGED <<outboxVars, jobVars, vars, migrationVars, processVars>>
       \/ /\ part = "projection" /\ Next
          /\ UNCHANGED <<outboxVars, jobVars, commandVars, migrationVars, processVars>>
       \/ /\ part = "migrations" /\ Deployment!MigrationsNext
          /\ UNCHANGED <<outboxVars, jobVars, commandVars, vars, processVars>>
       \/ /\ part = "process" /\ Deployment!LifecycleNext
          /\ UNCHANGED <<outboxVars, jobVars, commandVars, vars, migrationVars>>

\* Who keeps going: relays and workers that run, and time; a worker's claims reach every job that
\* stays due; the steps of a command, of the projection's fiber and of its notifications; a runner
\* of migrations; the fibers of the process and their budgets.  Nothing is assumed of callers,
\* operators, crashes or failures.
Fairness ==
    /\ WF_outboxVars(part = "outbox" /\ Box!RelayTick)
    /\ \A r \in {r1, r2} : WF_outboxVars(part = "outbox" /\ Box!RelayStep(r))
    /\ WF_jobVars(part = "jobs" /\ Queue!JobTick)
    /\ \A w \in {w1} :
          /\ WF_jobVars(part = "jobs" /\ (\/ Queue!Poll(w) \/ Queue!StartRuns(w) \/ Queue!Drained(w)
                                       \/ Queue!AbandonDrain(w) \/ Queue!Abandoned(w) \/ Queue!WorkerExit(w)))
          /\ WF_jobVars(part = "jobs" /\ Queue!ClaimJobs(w))
    /\ \A j \in {j1, j2} : SF_jobVars(part = "jobs" /\ Queue!ClaimOf(j))
    /\ \A s \in {w1} \X {1} :
          /\ WF_jobVars(part = "jobs" /\ Queue!Heartbeat(s))
          /\ WF_jobVars(part = "jobs" /\ (Queue!HandleJob(s) \/ Queue!SettleRun(s) \/ Queue!ReleaseRow(s)))
    /\ \A c \in {c1, c2} : WF_commandVars(part = "commands" /\ Aggregate!Execute(c))
    /\ WF_vars(part = "projection" /\ RunStep) /\ WF_vars(part = "projection" /\ Notify)
    /\ \A r \in {r1, r2, r3} : WF_migrationVars(part = "migrations" /\ Deployment!RunnerStep(r))
    /\ WF_processVars(part = "process" /\ Deployment!WatcherStops)
    /\ WF_processVars(part = "process" /\ (Deployment!MainInterrupted \/ Deployment!MainStops))
    /\ WF_processVars(part = "process" /\ (Deployment!DrainBegins \/ Deployment!RunFinalizer \/ Deployment!FinalizerCut))
    /\ WF_processVars(part = "process" /\ (Deployment!GrpcCloses \/ Deployment!Teardown \/ Deployment!Exit))

LiveSpec ==
    /\ LiveInit /\ [][LiveNext]_<<part, outboxVars, jobVars, commandVars, vars, migrationVars, processVars>>
    /\ Fairness

-----------------------------------------------------------------------------
\* At-least-once: every staged message ends published or dead-lettered, past crashes, lost leases and
\* restarts of its relays (Outbox.ts relay).
EveryMessageSettles == part = "outbox" => Box!EveryMessageSettles

\* Every scheduled job ends: completed, dead-lettered or cancelled, past crashes and shutdowns of the
\* workers (scheduler.ts claim, layer.ts).
EveryJobEnds == part = "jobs" => Queue!EveryJobEnds

\* Every execution of a command ends, and loses no more races than it may (executeWithRetry).
EveryCommandEnds == part = "commands" => Aggregate!EveryCommandEnds

\* Deployments end: a migration runner gets the lock or gives up, also when its owner dies (run.ts), and
\* a process that got a signal exits, whatever hangs in it (Shutdown.ts, AppRuntime.ts).
DeploymentsEnd ==
    /\ part = "migrations" => Deployment!EveryRunnerEnds
    /\ part = "process" => Deployment!SignalEndsTheProcess
=============================================================================
