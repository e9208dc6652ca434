------------------------------ MODULE JobQueue ------------------------------
(***************************************************************************)
(* Delayed and recurring jobs on PostgreSQL: the queue and dead-letter     *)
(* tables of packages/jobs, the workers that claim rows under a lease, and *)
(* the drain of a worker by the Shutdown coordinator.                      *)
(*                                                                         *)
(* A worker runs at most Concurrency executions; each has a slot.  A claim *)
(* mints a fresh owner token; since every fenced write names the row's id  *)
(* too, the token is modelled by the slot the row was claimed into.  Time  *)
(* is relative, as in Outbox.                                              *)
(***************************************************************************)
EXTENDS Integers, FiniteSets

CONSTANTS
    Jobs,           \* ids of one-shot jobs and schedule keys of recurring ones
    Recurring,      \* the schedule keys
    Names,          \* job names; a payload is named by the job it encodes for
    Registered,     \* names with a handler in the workers
    Workers,
    Concurrency,    \* WorkerOptions.concurrency
    NoSlot,         \* lease_owner IS NULL
    NoRow,          \* the slot is free
    JobAttempts,    \* max_attempts
    JobLease,       \* WorkerOptions.lease, in ticks
    MaxWait,        \* longest schedule delay, backoff or cron period, in ticks
    MaxFaults,      \* bound: failed runs, crashes, and ticks that end the lease
                    \* of an execution because its heartbeat is late
    MaxShutdowns,   \* bound: graceful shutdowns
    MaxOperations   \* bound: calls of cancel and recur

Slots == Workers \X (1..Concurrency)

\* A row as a claim returns it.
Row == [job : Jobs, name : Names, payload : Names, attempt : 1..JobAttempts]

ASSUME JobsAssumption ==
    /\ Recurring \subseteq Jobs /\ Registered \subseteq Names
    /\ Names # {}
    /\ NoSlot \notin Slots /\ NoRow \notin Row
    /\ Concurrency \in Nat \ {0} /\ JobAttempts \in Nat \ {0}
    /\ JobLease \in Nat \ {0} /\ MaxWait \in Nat \ {0}
    /\ MaxFaults \in Nat /\ MaxShutdowns \in Nat /\ MaxOperations \in Nat

VARIABLES
    status,         \* [Jobs -> absent, queued, running, gone]
    name, payload,  \* job_name and payload columns
    attempt,        \* attempts started, counted up to JobAttempts
    due,            \* ticks until run_at
    owner, lease,   \* lease_owner, ticks until lease_expires_at
    deadLetters,    \* jobs with a row in the dead-letter table
    ask,            \* [Workers -> rows asked for by the claim in flight]
    execution, jobRow, \* [Slots -> ...] step of an execution, the row it was given
    phase,          \* [Workers -> up, draining, abandoning, drained]
    toRelease,      \* slots the abandoned drain has still to give back
    completed,      \* ghost: jobs whose success was recorded
    cancelled,      \* ghost: jobs deleted by cancel
    faults, shutdowns, operations

tableVars == <<status, name, payload, attempt, due, owner, lease, deadLetters>>
workerVars == <<ask, execution, jobRow, phase, toRelease>>
ghosts == <<completed, cancelled>>
jobCounters == <<faults, shutdowns, operations>>
jobVars == <<tableVars, workerVars, ghosts, jobCounters>>

JobsTypeOK ==
    /\ status \in [Jobs -> {"absent", "queued", "running", "gone"}]
    /\ name \in [Jobs -> Names] /\ payload \in [Jobs -> Names]
    /\ attempt \in [Jobs -> 0..JobAttempts]
    /\ due \in [Jobs -> 0..MaxWait]
    /\ owner \in [Jobs -> Slots \union {NoSlot}]
    /\ lease \in [Jobs -> 0..JobLease]
    /\ deadLetters \subseteq Jobs
    /\ ask \in [Workers -> 0..Concurrency]
    /\ execution \in [Slots -> {"idle", "fetched", "handler", "success", "retry", "dead"}]
    /\ jobRow \in [Slots -> Row \union {NoRow}]
    /\ \A s \in Slots : jobRow[s] = NoRow <=> execution[s] = "idle"
    /\ phase \in [Workers -> {"up", "draining", "abandoning", "drained"}]
    /\ toRelease \in [Workers -> SUBSET Slots]
    /\ completed \subseteq Jobs /\ cancelled \subseteq Jobs
    /\ faults \in 0..MaxFaults /\ shutdowns \in 0..MaxShutdowns
    /\ operations \in 0..MaxOperations

JobsInit ==
    /\ status = [j \in Jobs |-> "absent"]
    /\ name = [j \in Jobs |-> CHOOSE n \in Names : TRUE]
    /\ payload = name
    /\ attempt = [j \in Jobs |-> 0]
    /\ due = [j \in Jobs |-> 0]
    /\ owner = [j \in Jobs |-> NoSlot]
    /\ lease = [j \in Jobs |-> 0]
    /\ deadLetters = {}
    /\ ask = [w \in Workers |-> 0]
    /\ execution = [s \in Slots |-> "idle"]
    /\ jobRow = [s \in Slots |-> NoRow]
    /\ phase = [w \in Workers |-> "up"]
    /\ toRelease = [w \in Workers |-> {}]
    /\ completed = {} /\ cancelled = {}
    /\ faults = 0 /\ shutdowns = 0 /\ operations = 0

-----------------------------------------------------------------------------
\* The scheduling side.

Present(j) == status[j] \in {"queued", "running"}

\* schedule: a fresh id, so the row is always inserted.
Schedule(j, n, d) ==
    /\ j \notin Recurring
    /\ status[j] = "absent"
    /\ status' = [status EXCEPT ![j] = "queued"]
    /\ name' = [name EXCEPT ![j] = n]
    /\ payload' = [payload EXCEPT ![j] = n]
    /\ due' = [due EXCEPT ![j] = d]
    /\ UNCHANGED <<attempt, owner, lease, deadLetters, workerVars, ghosts, jobCounters>>

\* recur: insert the row of the schedule key, or reset the one there is.  The
\* conflict clause sets neither job_name nor lease_owner.
Recur(j, n, d) ==
    /\ j \in Recurring
    /\ operations < MaxOperations
    /\ operations' = operations + 1
    /\ status' = [status EXCEPT ![j] = "queued"]
    /\ name' = [name EXCEPT ![j] = IF Present(j) THEN @ ELSE n]
    /\ payload' = [payload EXCEPT ![j] = n]
    /\ attempt' = [attempt EXCEPT ![j] = 0]
    /\ due' = [due EXCEPT ![j] = d]
    /\ owner' = [owner EXCEPT ![j] = IF Present(j) THEN @ ELSE NoSlot]
    /\ lease' = [lease EXCEPT ![j] = 0]
    /\ cancelled' = cancelled \ {j}
    /\ UNCHANGED <<deadLetters, workerVars, completed, faults, shutdowns>>

\* The row as it is after a DELETE.
Delete(j) ==
    /\ status' = [status EXCEPT ![j] = "gone"]
    /\ owner' = [owner EXCEPT ![j] = NoSlot]
    /\ lease' = [lease EXCEPT ![j] = 0]

\* cancel deletes the row in whatever state it is.
Cancel(j) ==
    /\ Present(j)
    /\ operations < MaxOperations
    /\ operations' = operations + 1
    /\ Delete(j)
    /\ cancelled' = cancelled \union {j}
    /\ UNCHANGED <<name, payload, attempt, due, deadLetters, workerVars, completed,
                   faults, shutdowns>>

-----------------------------------------------------------------------------
\* The worker loop.

SlotsOf(w) == {s \in Slots : s[1] = w}
FreeSlots(w) == {s \in SlotsOf(w) : execution[s] = "idle"}
InFlight(w) == {s \in SlotsOf(w) : execution[s] \notin {"idle", "fetched"}}

\* Mutant: a row whose worker died stays running.
ClaimableQueuedOnly == {j \in Jobs : status[j] = "queued" /\ due[j] = 0}

\* Due, or running under a lease that ended.
ClaimableJobs ==
    {j \in Jobs : \/ status[j] = "queued" /\ due[j] = 0
                  \/ status[j] = "running" /\ lease[j] = 0}

\* One turn of the loop up to the claim: not shutting down, a slot free.
Poll(w) ==
    /\ phase[w] = "up"
    /\ ask[w] = 0
    /\ \A s \in SlotsOf(w) : execution[s] # "fetched"
    /\ FreeSlots(w) # {}
    /\ ask' = [ask EXCEPT ![w] = Cardinality(FreeSlots(w))]
    /\ UNCHANGED <<tableVars, execution, jobRow, phase, toRelease, ghosts, jobCounters>>

AtMostRuns(n, bound) == IF n < bound THEN n ELSE bound

\* The row of j as its claim returns it, with the attempt that now starts.
Started(j) == [job |-> j, name |-> name[j], payload |-> payload[j],
               attempt |-> AtMostRuns(attempt[j] + 1, JobAttempts)]

\* Each row of the batch runs for a slot of its own, under a new lease.
ClaimInto(batch, slot) ==
    LET jobIn(s) == CHOOSE j \in batch : slot[j] = s
        taken == {slot[j] : j \in batch}
    IN /\ \A j, k \in batch : slot[j] = slot[k] => j = k
       /\ status' = [j \in Jobs |-> IF j \in batch THEN "running" ELSE status[j]]
       /\ attempt' = [j \in Jobs |-> IF j \in batch THEN Started(j).attempt ELSE attempt[j]]
       /\ owner' = [j \in Jobs |-> IF j \in batch THEN slot[j] ELSE owner[j]]
       /\ lease' = [j \in Jobs |-> IF j \in batch THEN JobLease ELSE lease[j]]
       /\ execution' = [s \in Slots |-> IF s \in taken THEN "fetched" ELSE execution[s]]
       /\ jobRow' = [s \in Slots |-> IF s \in taken THEN Started(jobIn(s)) ELSE jobRow[s]]

\* The claim statement.  SKIP LOCKED may leave out any row, so any part of
\* the claimable rows comes back, up to the number asked for.
ClaimJobs(w) ==
    /\ ask[w] > 0
    /\ \E batch \in SUBSET ClaimableJobs :
          /\ Cardinality(batch) <= ask[w]
          /\ \E slot \in [batch -> FreeSlots(w) \ toRelease[w]] : ClaimInto(batch, slot)
    /\ ask' = [ask EXCEPT ![w] = 0]
    /\ UNCHANGED <<name, payload, due, deadLetters, phase, toRelease, ghosts, jobCounters>>

\* The claimed rows reach the loop and each is forked: a row with no handler
\* or a payload that does not decode is dead-lettered, the others are handled.
\* The loop does not look at the shutdown flag again.
StartRuns(w) ==
    /\ \E s \in SlotsOf(w) : execution[s] = "fetched"
    /\ execution' = [s \in Slots |->
          IF s \in SlotsOf(w) /\ execution[s] = "fetched"
          THEN IF jobRow[s].name \in Registered /\ jobRow[s].payload = jobRow[s].name
               THEN "handler" ELSE "dead"
          ELSE execution[s]]
    /\ UNCHANGED <<tableVars, ask, jobRow, phase, toRelease, ghosts, jobCounters>>

-----------------------------------------------------------------------------
\* One execution.

ActiveRow(s) == execution[s] \notin {"idle", "fetched"}

\* Mutant: settlements compare the id only.
OwnsById(s) == status[jobRow[s].job] = "running"

\* The fence of every write: id, status = 'running' and the lease token.
OwnsRow(s) == status[jobRow[s].job] = "running" /\ owner[jobRow[s].job] = s

\* The execution is over (its fiber's observer frees the slot).
Free(s) ==
    /\ execution' = [execution EXCEPT ![s] = "idle"]
    /\ jobRow' = [jobRow EXCEPT ![s] = NoRow]

\* The heartbeat fiber extends the lease, from the start to the settlement.
Heartbeat(s) ==
    /\ ActiveRow(s)
    /\ OwnsRow(s)
    /\ lease[jobRow[s].job] < JobLease
    /\ lease' = [lease EXCEPT ![jobRow[s].job] = JobLease]
    /\ UNCHANGED <<status, name, payload, attempt, due, owner, deadLetters,
                   workerVars, ghosts, jobCounters>>

\* The handler returns, or fails with a classified failure.
HandleJob(s) ==
    /\ execution[s] = "handler"
    /\ \E outcome \in {"success", "transient", "permanent"} :
          execution' = [execution EXCEPT ![s] =
              IF outcome = "success" THEN "success"
              ELSE IF outcome = "permanent" \/ jobRow[s].attempt >= JobAttempts THEN "dead"
              ELSE "retry"]
    /\ UNCHANGED <<tableVars, ask, jobRow, phase, toRelease, ghosts, jobCounters>>

\* The row goes back to the queue without its lease.
Requeue(j, d) ==
    /\ status' = [status EXCEPT ![j] = "queued"]
    /\ due' = [due EXCEPT ![j] = d]
    /\ owner' = [owner EXCEPT ![j] = NoSlot]
    /\ lease' = [lease EXCEPT ![j] = 0]

\* A one-shot row is deleted, a recurring one queued for its next fire.
CompleteSuccess(s) ==
    LET j == jobRow[s].job IN
    /\ execution[s] = "success"
    /\ \/ /\ OwnsRow(s) /\ j \notin Recurring
          /\ Delete(j)
          /\ completed' = completed \union {j}
          /\ UNCHANGED <<attempt, due>>
       \/ /\ OwnsRow(s) /\ j \in Recurring
          /\ \E d \in 1..MaxWait : Requeue(j, d)
          /\ attempt' = [attempt EXCEPT ![j] = 0]
          /\ UNCHANGED completed
       \/ /\ ~OwnsRow(s)
          /\ UNCHANGED <<status, attempt, due, owner, lease, completed>>
    /\ Free(s)
    /\ UNCHANGED <<name, payload, deadLetters, ask, phase, toRelease, cancelled, jobCounters>>

RescheduleRetry(s) ==
    /\ execution[s] = "retry"
    /\ \/ OwnsRow(s) /\ \E d \in 1..MaxWait : Requeue(jobRow[s].job, d)
       \/ ~OwnsRow(s) /\ UNCHANGED <<status, due, owner, lease>>
    /\ Free(s)
    /\ UNCHANGED <<name, payload, attempt, deadLetters, ask, phase, toRelease, ghosts,
                   jobCounters>>

\* Mutant: the dead letter is filed before the fence is looked at.
DeadLetterFirst(s) ==
    LET j == jobRow[s].job IN
    /\ execution[s] = "dead"
    /\ deadLetters' = deadLetters \union {j}
    /\ \/ OwnsRow(s) /\ Delete(j)
       \/ ~OwnsRow(s) /\ UNCHANGED <<status, owner, lease>>
    /\ Free(s)
    /\ UNCHANGED <<name, payload, attempt, due, ask, phase, toRelease, ghosts, jobCounters>>

\* Fence, delete and insert, in one transaction.
DeadLetter(s) ==
    LET j == jobRow[s].job IN
    /\ execution[s] = "dead"
    /\ \/ OwnsRow(s) /\ Delete(j) /\ deadLetters' = deadLetters \union {j}
       \/ ~OwnsRow(s) /\ UNCHANGED <<status, owner, lease, deadLetters>>
    /\ Free(s)
    /\ UNCHANGED <<name, payload, attempt, due, ask, phase, toRelease, ghosts, jobCounters>>

-----------------------------------------------------------------------------
\* Failure and shutdown of a worker.

\* The executions of w end where they are; their rows stay as they are.
AbortRuns(w) ==
    /\ ask' = [ask EXCEPT ![w] = 0]
    /\ execution' = [s \in Slots |-> IF s \in SlotsOf(w) THEN "idle" ELSE execution[s]]
    /\ jobRow' = [s \in Slots |-> IF s \in SlotsOf(w) THEN NoRow ELSE jobRow[s]]
    /\ toRelease' = [toRelease EXCEPT ![w] = {}]

\* A handler defect, a failed heartbeat, settlement or claim fails the run and
\* interrupts its executions; workerLayer starts the next one.
WorkerFails(w) ==
    /\ faults < MaxFaults
    /\ \E s \in SlotsOf(w) : execution[s] # "idle"
    /\ faults' = faults + 1
    /\ AbortRuns(w)
    /\ UNCHANGED <<tableVars, phase, ghosts, shutdowns, operations>>

\* The process dies and is started again.
WorkerCrash(w) ==
    /\ faults < MaxFaults
    /\ faults' = faults + 1
    /\ AbortRuns(w)
    /\ phase' = [phase EXCEPT ![w] = "up"]
    /\ UNCHANGED <<tableVars, ghosts, shutdowns, operations>>

\* The coordinator is triggered: the loop stops at its next turn and the
\* worker's finalizer waits for the executions in flight.
Shutdown(w) ==
    /\ phase[w] = "up"
    /\ shutdowns < MaxShutdowns
    /\ shutdowns' = shutdowns + 1
    /\ phase' = [phase EXCEPT ![w] = "draining"]
    /\ UNCHANGED <<tableVars, ask, execution, jobRow, toRelease, ghosts, faults, operations>>

\* awaitInflight saw none left.
Drained(w) ==
    /\ phase[w] = "draining"
    /\ InFlight(w) = {}
    /\ phase' = [phase EXCEPT ![w] = "drained"]
    /\ UNCHANGED <<tableVars, ask, execution, jobRow, toRelease, ghosts, jobCounters>>

\* drainTimeout ran out, or the coordinator cut the finalizer.
AbandonDrain(w) ==
    /\ phase[w] = "draining"
    /\ InFlight(w) # {}
    /\ phase' = [phase EXCEPT ![w] = "abandoning"]
    /\ toRelease' = [toRelease EXCEPT ![w] = InFlight(w)]
    /\ UNCHANGED <<tableVars, ask, execution, jobRow, ghosts, jobCounters>>

\* One abandoned row goes back to the queue, due at once, if it is still ours.
ReleaseRow(s) ==
    LET w == s[1] IN
    /\ s \in toRelease[w]
    /\ toRelease' = [toRelease EXCEPT ![w] = @ \ {s}]
    /\ IF execution[s] # "idle" /\ OwnsRow(s)
       THEN Requeue(jobRow[s].job, 0)
       ELSE UNCHANGED <<status, due, owner, lease>>
    /\ UNCHANGED <<name, payload, attempt, deadLetters, ask, execution, jobRow, phase, ghosts, jobCounters>>

\* All given back, or an SQL failure ended the attempt.
Abandoned(w) ==
    /\ phase[w] = "abandoning"
    /\ \/ toRelease[w] = {} /\ UNCHANGED faults
       \/ toRelease[w] # {} /\ faults < MaxFaults /\ faults' = faults + 1
    /\ phase' = [phase EXCEPT ![w] = "drained"]
    /\ toRelease' = [toRelease EXCEPT ![w] = {}]
    /\ UNCHANGED <<tableVars, ask, execution, jobRow, ghosts, shutdowns, operations>>

\* The process ends after its drain; its successor comes up.
WorkerExit(w) ==
    /\ phase[w] = "drained"
    /\ AbortRuns(w)
    /\ phase' = [phase EXCEPT ![w] = "up"]
    /\ UNCHANGED <<tableVars, ghosts, jobCounters>>

Earlier(n) == IF n > 0 THEN n - 1 ELSE 0

\* The heartbeat, due every third of the lease, did not come before its end.
Late == \E s \in Slots : execution[s] # "idle" /\ OwnsRow(s) /\ lease[jobRow[s].job] = 1

\* One unit of time.
JobTick ==
    /\ faults' = IF Late THEN faults + 1 ELSE faults
    /\ faults' <= MaxFaults
    /\ \E j \in Jobs : due[j] > 0 \/ lease[j] > 0
    /\ due' = [j \in Jobs |-> Earlier(due[j])]
    /\ lease' = [j \in Jobs |-> Earlier(lease[j])]
    /\ UNCHANGED <<status, name, payload, attempt, owner, deadLetters, workerVars, ghosts,
                   shutdowns, operations>>

SettleRun(s) == CompleteSuccess(s) \/ RescheduleRetry(s) \/ DeadLetter(s)

WorkerStep(w) ==
    \/ Poll(w) \/ ClaimJobs(w) \/ StartRuns(w)
    \/ Drained(w) \/ AbandonDrain(w) \/ Abandoned(w) \/ WorkerExit(w)

JobsNext ==
    \/ \E j \in Jobs, n \in Names, d \in 0..MaxWait : Schedule(j, n, d)
    \/ \E j \in Jobs, n \in Names, d \in 1..MaxWait : Recur(j, n, d)
    \/ \E j \in Jobs : Cancel(j)
    \/ \E w \in Workers : WorkerStep(w) \/ WorkerFails(w) \/ WorkerCrash(w) \/ Shutdown(w)
    \/ \E s \in Slots : Heartbeat(s) \/ HandleJob(s) \/ SettleRun(s) \/ ReleaseRow(s)
    \/ JobTick

JobsSpec == JobsInit /\ [][JobsNext]_jobVars

\* Some worker's claim takes the row of j.
ClaimOf(j) == (\E w \in Workers : ClaimJobs(w)) /\ lease'[j] > lease[j]

\* The loop, the executions and the clock keep going and handlers return.  Rows
\* are claimed in the order of run_at, so a row that stays due is not passed
\* over for ever by rows that keep coming back (SF).
FairJobsSpec ==
    /\ JobsSpec
    /\ WF_jobVars(JobTick)
    /\ \A w \in Workers :
          /\ WF_jobVars(Poll(w) \/ StartRuns(w) \/ Drained(w) \/ AbandonDrain(w) \/ Abandoned(w)
                     \/ WorkerExit(w))
          /\ WF_jobVars(ClaimJobs(w))
    /\ \A j \in Jobs : SF_jobVars(ClaimOf(j))
    /\ \A s \in Slots : WF_jobVars(Heartbeat(s)) /\ WF_jobVars(HandleJob(s) \/ SettleRun(s) \/ ReleaseRow(s))

-----------------------------------------------------------------------------
\* What a step may do to an execution whose lease runs: end it, leave it its
\* row, or take the row from it in the abandoned drain of its worker or by hand.
FenceKept(s) ==
    execution[s] # "idle" /\ OwnsRow(s) /\ lease[jobRow[s].job] > 0 =>
        \/ execution'[s] = "idle"
        \/ OwnsRow(s)'
        \/ phase[s[1]] = "abandoning"
        \/ operations' # operations

\* The fence (`fenced`, heartbeat): while an execution holds a lease that has
\* not ended, nothing but its own settlement, its worker's abandoned drain or
\* an operator takes the row from it.
RunsAreFenced == [][\A s \in Slots : FenceKept(s)]_jobVars

\* "A job whose queue row is gone must always have its dead letter" and a
\* worker that lost its lease must not file one (deadLetter): a one-shot job
\* ends exactly once, as completed, dead-lettered or cancelled.
EndsAreExclusive ==
    \A j \in Jobs \ Recurring :
        LET one(end) == IF end THEN 1 ELSE 0
        IN one(j \in completed) + one(j \in deadLetters) + one(j \in cancelled)
               = one(status[j] = "gone")

\* While no heartbeat is late and nothing fails, a one-shot job is handled by
\* two executions at once only if one of them belongs to a worker that gave up
\* its drain.
SingleFlight ==
    faults = 0 => \A s, t \in Slots :
        s # t /\ execution[s] = "handler" /\ execution[t] = "handler" /\ jobRow[s].job = jobRow[t].job
            => \/ jobRow[s].job \in Recurring
               \/ {phase[s[1]], phase[t[1]]} \intersect {"abandoning", "drained"} # {}

\* A one-shot job that leaves the queue was completed, dead-lettered or
\* cancelled, and only one of them; its handler never runs twice at once while
\* leases are kept (complete, fail, cancel and claim of scheduler.ts).
EveryJobEndsOnce == JobsTypeOK /\ EndsAreExclusive /\ SingleFlight

\* At-least-once: a scheduled one-shot job ends, past crashes and shutdowns.
EveryJobEnds ==
    \A j \in Jobs \ Recurring : status[j] \in {"queued", "running"} ~> status[j] = "gone"

\* "On shutdown it stops claiming and waits for in-flight handlers" (README of
\* packages/jobs): once the drain is over the worker owns no running row.
DrainIsComplete ==
    \A s \in Slots : phase[s[1]] = "drained" => execution[s] = "idle" \/ ~OwnsRow(s)
=============================================================================
