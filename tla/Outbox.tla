------------------------------- MODULE Outbox -------------------------------
(***************************************************************************)
(* The transactional outbox and its relays: the `Outbox` port with its     *)
(* three adapters (in-memory, PostgreSQL, SQLite) and the relay of         *)
(* packages/eventsourcing/src/Outbox.ts (`drain`, `run`, `publishEntry`).  *)
(*                                                                         *)
(* Time is relative: every deadline is kept as the time left until it, and *)
(* RelayTick lets one unit pass for all.  A relay runs one claim at a      *)
(* time, so the claim token an entry carries is modelled by the relay that *)
(* took it; a relay that restarts has forgotten its tokens.                *)
(***************************************************************************)
EXTENDS Integers, FiniteSetsExt

CONSTANTS
    Entries,        \* message ids, numbered in enqueue order
    Relays,         \* relay processes
    NoRelay,        \* no claim token
    Adapters,       \* those to look at: "memory", "postgres", "sqlite"
    MaxPublishes,   \* options.maxAttempts
    RelayBatch,     \* options.batchSize
    RelayLease,     \* options.lease, in ticks
    MaxBackoff,     \* longest backoff delay or initial schedule, in ticks
    MaxUpsets,      \* bound: crashes (or defects of publish), and ticks that
                    \* pass while a relay is at work, not asleep
    MaxReplays      \* bound: operator replays in a behaviour

ASSUME OutboxAssumption ==
    /\ Entries \subseteq Nat
    /\ NoRelay \notin Relays
    /\ Adapters \subseteq {"memory", "postgres", "sqlite"}
    /\ MaxPublishes \in Nat \ {0} /\ RelayBatch \in Nat \ {0} /\ RelayLease \in Nat \ {0}
    /\ MaxBackoff \in Nat \ {0} /\ MaxUpsets \in Nat /\ MaxReplays \in Nat

VARIABLES
    backend,        \* the adapter in use
    entryStatus,    \* [Entries -> absent, pending, published or dead]
    attempts,       \* failed publish attempts recorded on the entry
    delay,          \* ticks until `availableAt`
    entryOwner,     \* whose claim token the entry carries
    entryLease,     \* ticks until `leaseUntil`
    relayAt,        \* where each relay is
    queue,          \* entries of its claim it has not finished
    tried,          \* attempts of those entries: the claim's count, then its own
    sleep,          \* ticks until the relay wakes from its backoff
    delivered,      \* entries the broker has accepted at least once
    upsets, replays

entryVars == <<entryStatus, attempts, delay, entryOwner, entryLease>>
relayVars == <<relayAt, queue, tried, sleep>>
relayCounters == <<backend, upsets, replays>>
outboxVars == <<entryVars, relayVars, delivered, relayCounters>>

OutboxTypeOK ==
    /\ entryStatus \in [Entries -> {"absent", "pending", "published", "dead"}]
    /\ attempts \in [Entries -> 0..MaxPublishes]
    /\ delay \in [Entries -> 0..MaxBackoff]
    /\ entryOwner \in [Entries -> Relays \union {NoRelay}]
    /\ entryLease \in [Entries -> 0..RelayLease]
    /\ relayAt \in [Relays -> {"idle", "select", "next", "publish", "succeeded",
                          "failed", "exhausted", "sleep"}]
    /\ queue \in [Relays -> SUBSET Entries]
    /\ tried \in [Relays -> [Entries -> 0..MaxPublishes]]
    /\ sleep \in [Relays -> 0..MaxBackoff]
    /\ delivered \subseteq Entries
    /\ upsets \in 0..MaxUpsets
    /\ replays \in 0..MaxReplays

OutboxInit ==
    /\ backend \in Adapters
    /\ entryStatus = [e \in Entries |-> "absent"]
    /\ attempts = [e \in Entries |-> 0]
    /\ delay = [e \in Entries |-> 0]
    /\ entryOwner = [e \in Entries |-> NoRelay]
    /\ entryLease = [e \in Entries |-> 0]
    /\ relayAt = [r \in Relays |-> "idle"]
    /\ queue = [r \in Relays |-> {}]
    /\ tried = [r \in Relays |-> [e \in Entries |-> 0]]
    /\ sleep = [r \in Relays |-> 0]
    /\ delivered = {}
    /\ upsets = 0 /\ replays = 0

-----------------------------------------------------------------------------
\* The port.

\* enqueue: a message already known is ignored.  It may be scheduled.
Enqueue(e, d) ==
    /\ entryStatus[e] = "absent"
    /\ \A f \in Entries : f < e => entryStatus[f] # "absent"
    /\ entryStatus' = [entryStatus EXCEPT ![e] = "pending"]
    /\ delay' = [delay EXCEPT ![e] = d]
    /\ UNCHANGED <<attempts, entryOwner, entryLease, relayVars, delivered, relayCounters>>

\* Mutant: a running lease does not hide the entry.
ClaimableIgnoresLease == {e \in Entries : entryStatus[e] = "pending" /\ delay[e] = 0}

\* Mutant: an entry once claimed is never recovered.
ClaimableUnclaimedOnly ==
    {e \in Entries : entryStatus[e] = "pending" /\ delay[e] = 0 /\ entryOwner[e] = NoRelay}

\* Pending, due, and not under a lease that still runs.
ClaimableEntries ==
    {e \in Entries : entryStatus[e] = "pending" /\ delay[e] = 0 /\ (entryOwner[e] = NoRelay \/ entryLease[e] = 0)}

\* The first entries in enqueue order, at most RelayBatch.
IsBatch(batch, from) ==
    /\ Cardinality(batch) <= RelayBatch
    /\ \A e \in batch, f \in from \ batch : e < f
    /\ Cardinality(batch) = RelayBatch \/ batch = from

\* SKIP LOCKED also leaves out rows another statement holds at that moment.
MayClaim(batch) ==
    \E from \in SUBSET ClaimableEntries :
        /\ backend # "postgres" => from = ClaimableEntries
        /\ IsBatch(batch, from)

\* Settlements carry the claim's token; SQL adapters also look at the status.
HoldsClaim(r, e) ==
    /\ entryOwner[e] = r
    /\ backend # "memory" => entryStatus[e] = "pending"

\* The rows a claim returns, with their attempts.
Take(r, batch) ==
    /\ queue' = [queue EXCEPT ![r] = batch]
    /\ tried' = [tried EXCEPT ![r] = [e \in Entries |-> IF e \in batch THEN attempts[e] ELSE 0]]

\* A relay claims a batch.  SQLite marks the rows in one statement and reads
\* them back in another; the other adapters return them at once.
ClaimBatch(r) ==
    /\ relayAt[r] = "idle"
    /\ \E batch \in SUBSET ClaimableEntries :
          /\ batch # {} /\ MayClaim(batch)
          /\ entryOwner' = [e \in Entries |-> IF e \in batch THEN r ELSE entryOwner[e]]
          /\ entryLease' = [e \in Entries |-> IF e \in batch THEN RelayLease ELSE entryLease[e]]
          /\ Take(r, batch)
    /\ relayAt' = [relayAt EXCEPT ![r] = IF backend = "sqlite" THEN "select" ELSE "next"]
    /\ UNCHANGED <<entryStatus, attempts, delay, sleep, delivered, relayCounters>>

\* SQLite's second statement: the rows that still carry the token.
ClaimSelect(r) ==
    /\ relayAt[r] = "select"
    /\ Take(r, {e \in queue[r] : entryOwner[e] = r})
    /\ relayAt' = [relayAt EXCEPT ![r] = "next"]
    /\ UNCHANGED <<entryVars, sleep, delivered, relayCounters>>

\* replay: dead letters become pending again, fresh.  The in-memory adapter
\* drops the claim of every known id it is given, dead or not.
Replay(e) ==
    /\ replays < MaxReplays
    /\ entryStatus[e] # "absent"
    /\ backend # "memory" => entryStatus[e] = "dead"
    /\ replays' = replays + 1
    /\ IF entryStatus[e] = "dead"
       THEN /\ entryStatus' = [entryStatus EXCEPT ![e] = "pending"]
            /\ attempts' = [attempts EXCEPT ![e] = 0]
            /\ delay' = [delay EXCEPT ![e] = 0]
       ELSE UNCHANGED <<entryStatus, attempts, delay>>
    /\ entryOwner' = [entryOwner EXCEPT ![e] = NoRelay]
    /\ entryLease' = [entryLease EXCEPT ![e] = 0]
    /\ UNCHANGED <<backend, relayVars, delivered, upsets>>

-----------------------------------------------------------------------------
\* The relay.

Current(r) == Min(queue[r])

\* This entry is done with: go on with the rest of the claim.
Finish(r) ==
    /\ queue' = [queue EXCEPT ![r] = @ \ {Current(r)}]
    /\ tried' = [tried EXCEPT ![r][Current(r)] = 0]
    /\ relayAt' = [relayAt EXCEPT ![r] = "next"]

\* Status and claim of a settled entry, if the relay still owns it.
SettleEntry(r, result) ==
    IF HoldsClaim(r, Current(r))
    THEN /\ entryStatus' = [entryStatus EXCEPT ![Current(r)] = result]
         /\ entryOwner' = [entryOwner EXCEPT ![Current(r)] = NoRelay]
         /\ entryLease' = [entryLease EXCEPT ![Current(r)] = 0]
    ELSE UNCHANGED <<entryStatus, entryOwner, entryLease>>

\* drain: the next entry of the claim, or the next claim.
NextEntry(r) ==
    /\ relayAt[r] = "next"
    /\ relayAt' = [relayAt EXCEPT ![r] =
          IF queue[r] = {} THEN "idle"
          ELSE IF tried[r][Current(r)] >= MaxPublishes THEN "exhausted"
          ELSE "publish"]
    /\ UNCHANGED <<entryVars, queue, tried, sleep, delivered, relayCounters>>

\* One call of options.publish; an answer lost on the way is a failure of a
\* message the broker did accept.
Publish(r) ==
    /\ relayAt[r] = "publish"
    /\ \E accepted, answered \in BOOLEAN :
          /\ answered => accepted
          /\ delivered' = IF accepted THEN delivered \union {Current(r)} ELSE delivered
          /\ relayAt' = [relayAt EXCEPT ![r] = IF answered THEN "succeeded" ELSE "failed"]
    /\ UNCHANGED <<entryVars, queue, tried, sleep, relayCounters>>

MarkPublished(r) ==
    /\ relayAt[r] = "succeeded"
    /\ SettleEntry(r, "published")
    /\ Finish(r)
    /\ UNCHANGED <<attempts, delay, sleep, delivered, relayCounters>>

\* Record the attempt and its retry time; keep the claim and sleep, or stop if
\* the claim was lost.  The last attempt is recorded with no retry time.
MarkFailed(r) ==
    LET e == Current(r) IN
    /\ relayAt[r] = "failed"
    /\ \E d \in 0..MaxBackoff :
          /\ d = 0 <=> tried[r][e] + 1 = MaxPublishes
          /\ IF HoldsClaim(r, e)
             THEN /\ attempts' = [attempts EXCEPT ![e] = tried[r][e] + 1]
                  /\ delay' = [delay EXCEPT ![e] = d]
             ELSE UNCHANGED <<attempts, delay>>
          /\ \/ /\ d = 0
                /\ tried' = [tried EXCEPT ![r][e] = @ + 1]
                /\ relayAt' = [relayAt EXCEPT ![r] = "exhausted"]
                /\ UNCHANGED <<queue, sleep>>
             \/ /\ d > 0 /\ HoldsClaim(r, e)
                /\ tried' = [tried EXCEPT ![r][e] = @ + 1]
                /\ relayAt' = [relayAt EXCEPT ![r] = "sleep"]
                /\ sleep' = [sleep EXCEPT ![r] = d]
                /\ UNCHANGED queue
             \/ /\ d > 0 /\ ~HoldsClaim(r, e)
                /\ Finish(r)
                /\ UNCHANGED sleep
    /\ UNCHANGED <<entryStatus, entryOwner, entryLease, delivered, relayCounters>>

\* Mutant: the dead letter is written one attempt early.
MarkDeadAnyFailure(r) ==
    /\ relayAt[r] \in {"failed", "exhausted"}
    /\ SettleEntry(r, "dead")
    /\ Finish(r)
    /\ UNCHANGED <<attempts, delay, sleep, delivered, relayCounters>>

MarkDead(r) ==
    /\ relayAt[r] = "exhausted"
    /\ SettleEntry(r, "dead")
    /\ Finish(r)
    /\ UNCHANGED <<attempts, delay, sleep, delivered, relayCounters>>

\* The backoff is over: publish again, without looking at the claim.
WakeRelay(r) ==
    /\ relayAt[r] = "sleep"
    /\ sleep[r] = 0
    /\ relayAt' = [relayAt EXCEPT ![r] = "publish"]
    /\ UNCHANGED <<entryVars, queue, tried, sleep, delivered, relayCounters>>

\* The process dies, or publish dies with a defect and takes `run` with it.
\* Its claims stay in the store; it comes back knowing none of them.
RelayCrash(r) ==
    /\ relayAt[r] # "idle"
    /\ upsets < MaxUpsets
    /\ upsets' = upsets + 1
    /\ relayAt' = [relayAt EXCEPT ![r] = "idle"]
    /\ queue' = [queue EXCEPT ![r] = {}]
    /\ tried' = [tried EXCEPT ![r] = [e \in Entries |-> 0]]
    /\ sleep' = [sleep EXCEPT ![r] = 0]
    /\ UNCHANGED <<backend, entryVars, delivered, replays>>

Sooner(n) == IF n > 0 THEN n - 1 ELSE 0

Busy(r) == relayAt[r] # "idle" /\ sleep[r] = 0

\* One unit of time.  "Publishing must finish well within" the lease
\* (OutboxRelayOptions.lease): time passes over a busy relay MaxUpsets times at most.
RelayTick ==
    /\ upsets' = IF \E r \in Relays : Busy(r) THEN upsets + 1 ELSE upsets
    /\ upsets' <= MaxUpsets
    /\ \/ \E e \in Entries : delay[e] > 0 \/ entryLease[e] > 0
       \/ \E r \in Relays : sleep[r] > 0
    /\ delay' = [e \in Entries |-> Sooner(delay[e])]
    /\ entryLease' = [e \in Entries |-> Sooner(entryLease[e])]
    /\ sleep' = [r \in Relays |-> Sooner(sleep[r])]
    /\ UNCHANGED <<entryStatus, attempts, entryOwner, relayAt, queue, tried,
                   delivered, backend, replays>>

RelayStep(r) ==
    \/ ClaimBatch(r) \/ ClaimSelect(r) \/ NextEntry(r) \/ Publish(r)
    \/ MarkPublished(r) \/ MarkFailed(r) \/ MarkDead(r) \/ WakeRelay(r)

OutboxNext ==
    \/ \E e \in Entries, d \in 0..MaxBackoff : Enqueue(e, d)
    \/ \E e \in Entries : Replay(e)
    \/ \E r \in Relays : RelayStep(r) \/ RelayCrash(r)
    \/ RelayTick

OutboxSpec == OutboxInit /\ [][OutboxNext]_outboxVars

\* A running relay keeps going, and time passes.  Messages, replays and
\* crashes need never happen.
FairOutboxSpec == OutboxSpec /\ WF_outboxVars(RelayTick) /\ \A r \in Relays : WF_outboxVars(RelayStep(r))

-----------------------------------------------------------------------------
\* What a step may do to an entry whose lease runs: settle it, or leave it to
\* its relay.  The in-memory adapter also drops the claim when an operator
\* replays the entry.
LeaseKept(e) ==
    entryStatus[e] = "pending" /\ entryOwner[e] # NoRelay /\ entryLease[e] > 0
        => \/ entryOwner'[e] = entryOwner[e]
           \/ entryStatus'[e] # "pending"
           \/ backend = "memory" /\ replays' # replays

\* What a step may do to the attempts recorded: only replaying a dead letter
\* takes any back.
AttemptsKept(e) == attempts'[e] < attempts[e] => entryStatus[e] = "dead"

\* "Claimed entries are invisible to other relays until the lease lapses or
\* the claim settles" (OutboxService.claim): while an entry is pending and its
\* lease runs, no step hands it to anyone else or to nobody; and a relay that
\* lost its lease cannot take back attempts another one recorded (markFailed,
\* markDead).
LeaseIsExclusive == [][\A e \in Entries : LeaseKept(e) /\ AttemptsKept(e)]_outboxVars

\* A message is given up only after its whole budget of attempts, whichever
\* relays spent it, and it is called published only if the broker took it
\* (relay, markFailed and markDead of Outbox.ts).
SettledForCause ==
    /\ OutboxTypeOK
    /\ \A e \in Entries :
          /\ entryStatus[e] = "dead" => attempts[e] = MaxPublishes
          /\ entryStatus[e] = "published" => e \in delivered

\* At-least-once: every staged message ends published or dead-lettered, past
\* crashes, lost leases and restarts.
EveryMessageSettles ==
    \A e \in Entries :
        entryStatus[e] = "pending" ~> entryStatus[e] \in {"published", "dead"}
=============================================================================
