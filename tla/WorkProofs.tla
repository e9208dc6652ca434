----------------------------- MODULE WorkProofs ------------------------------
(***************************************************************************)
(* Background work for every number of messages, relays, jobs, workers,    *)
(* attempts, crashes, shutdowns and replays: the claims of the outbox, the *)
(* deduplication of the inbox, commands under one idempotency key, and the *)
(* job queue: leases fence the rows, every one-shot job ends once, and     *)
(* while nothing fails two workers that keep their jobs are never at the   *)
(* same one.                                                               *)
(***************************************************************************)
EXTENDS Outbox, Inbox, Idempotency, JobQueue, FiniteSetTheorems, WellFoundedInduction, TLAPS

-----------------------------------------------------------------------------
\* The outbox.

\* A set of message ids that is not empty has a least one.
LEMMA LeastExists ==
  ASSUME NEW S \in SUBSET Nat, S # {}
  PROVE  Min(S) \in S
<1> DEFINE R == StrictSubsetOrdering(Nat)
<1> DEFINE T == {1..n : n \in S}
<1>1. IsWellFoundedOn(R, FiniteSubsetsOf(Nat))
  BY FS_StrictSubsetOrderingWellFounded
<1>2. T \subseteq FiniteSubsetsOf(Nat)
  <2>1. ASSUME NEW n \in S PROVE 1..n \subseteq Nat /\ IsFiniteSet(1..n)
    BY FS_Interval
  <2> QED
    BY <2>1 DEF FiniteSubsetsOf
<1>3. T # {}
  OBVIOUS
<1>4. PICK t \in T : \A u \in T : <<u, t>> \notin R
  <2> HIDE DEF R, T
  <2> QED
    BY <1>1, <1>2, <1>3, WFMin
<1>5. PICK m \in S : t = 1..m
  BY <1>4
<1>6. ASSUME NEW n \in S PROVE m <= n
  <2>1. <<1..n, 1..m>> \notin R
    BY <1>4, <1>5
  <2>2. SUFFICES ASSUME n < m PROVE FALSE
    OBVIOUS
  <2>3. 1..n \subseteq 1..m /\ m \in 1..m /\ m \notin 1..n
    BY <2>2
  <2> QED
    BY <2>1, <2>3 DEF StrictSubsetOrdering
<1> QED
  BY <1>6 DEF Min

\* A relay at work on an entry.
Working == {"publish", "succeeded", "failed", "exhausted", "sleep"}

\* Only a pending entry carries a claim.
ClaimsArePending == \A e \in Entries : entryOwner[e] # NoRelay => entryStatus[e] = "pending"

\* A relay that still owns an entry of its claim knows the attempts recorded on
\* it, though it counts them itself from the claim on.
CountsAgree ==
    \A r \in Relays : \A e \in queue[r] : entryOwner[e] = r => tried[r][e] = attempts[e]

\* Where a relay is says what it may do to the entry at hand: it has one, with
\* attempts left unless it is exhausted, and it has seen the broker take it.
RelayInv(r) ==
    /\ relayAt[r] = "idle" => queue[r] = {}
    /\ relayAt[r] \in Working => queue[r] # {}
    /\ relayAt[r] \in Working \ {"exhausted"} => tried[r][Current(r)] < MaxPublishes
    /\ relayAt[r] = "exhausted" => tried[r][Current(r)] = MaxPublishes
    /\ relayAt[r] = "succeeded" => Current(r) \in delivered

OutboxInv ==
    /\ SettledForCause /\ ClaimsArePending /\ CountsAgree
    /\ \A r \in Relays : RelayInv(r)

LEMMA OutboxStarts == OutboxInit => OutboxInv
<1> USE OutboxAssumption
<1> SUFFICES ASSUME OutboxInit PROVE OutboxInv
  OBVIOUS
<1>1. OutboxTypeOK
  BY DEF OutboxInit, OutboxTypeOK
<1>2. SettledForCause /\ ClaimsArePending /\ CountsAgree
  BY <1>1 DEF OutboxInit, SettledForCause, ClaimsArePending, CountsAgree
<1>3. \A r \in Relays : RelayInv(r)
  BY DEF OutboxInit, RelayInv, Working
<1> QED
  BY <1>2, <1>3 DEF OutboxInv

LEMMA CurrentIsQueued ==
  ASSUME OutboxInv, NEW r \in Relays, relayAt[r] \in Working
  PROVE  Current(r) \in queue[r] /\ Current(r) \in Entries
<1>1. queue[r] \subseteq Entries /\ queue[r] # {}
  BY DEF OutboxInv, RelayInv, SettledForCause, OutboxTypeOK
<1>2. queue[r] \in SUBSET Nat
  BY <1>1, OutboxAssumption DEF OutboxAssumption
<1> QED
  BY <1>1, <1>2, LeastExists DEF Current

LEMMA EnqueuePreserves ==
  ASSUME OutboxInv, NEW e \in Entries, NEW d \in 0..MaxBackoff, Enqueue(e, d)
  PROVE  OutboxInv'
<1> USE OutboxAssumption
<1>1. OutboxTypeOK'
  BY DEF OutboxInv, SettledForCause, OutboxTypeOK, Enqueue, relayVars, relayCounters
<1>2. SettledForCause'
  BY <1>1 DEF OutboxInv, SettledForCause, OutboxTypeOK, Enqueue
<1>3. ClaimsArePending'
  BY DEF OutboxInv, SettledForCause, OutboxTypeOK, ClaimsArePending, Enqueue
<1>4. CountsAgree' /\ \A r \in Relays : RelayInv(r)'
  BY DEF OutboxInv, CountsAgree, RelayInv, Current, Enqueue, relayVars
<1> QED
  BY <1>2, <1>3, <1>4 DEF OutboxInv

LEMMA ReplayPreserves ==
  ASSUME OutboxInv, NEW e \in Entries, Replay(e)
  PROVE  OutboxInv'
<1> USE OutboxAssumption
<1>1. OutboxTypeOK'
  BY DEF OutboxInv, SettledForCause, OutboxTypeOK, Replay, relayVars
<1>2. SettledForCause'
  BY <1>1 DEF OutboxInv, SettledForCause, OutboxTypeOK, Replay
<1>3. ClaimsArePending'
  BY DEF OutboxInv, SettledForCause, OutboxTypeOK, ClaimsArePending, Replay
<1>4. CountsAgree'
  BY DEF OutboxInv, SettledForCause, OutboxTypeOK, CountsAgree, Replay, relayVars
<1>5. \A r \in Relays : RelayInv(r)'
  BY DEF OutboxInv, RelayInv, Current, Replay, relayVars
<1> QED
  BY <1>2, <1>3, <1>4, <1>5 DEF OutboxInv

LEMMA ClaimPreserves ==
  ASSUME OutboxInv, NEW r \in Relays, ClaimBatch(r)
  PROVE  OutboxInv'
<1> USE OutboxAssumption
<1>1. PICK batch \in SUBSET ClaimableEntries :
        /\ entryOwner' = [e \in Entries |-> IF e \in batch THEN r ELSE entryOwner[e]]
        /\ entryLease' = [e \in Entries |-> IF e \in batch THEN RelayLease ELSE entryLease[e]]
        /\ Take(r, batch)
  BY DEF ClaimBatch
<1>2. batch \subseteq Entries /\ \A e \in batch : entryStatus[e] = "pending"
  BY DEF ClaimableEntries
<1>3. /\ relayAt[r] = "idle"
      /\ relayAt' = [relayAt EXCEPT ![r] = IF backend = "sqlite" THEN "select" ELSE "next"]
      /\ UNCHANGED <<entryStatus, attempts, delay, sleep, delivered, upsets, replays>>
  BY DEF ClaimBatch, relayCounters
<1>4. OutboxTypeOK'
  BY <1>1, <1>2, <1>3 DEF OutboxInv, SettledForCause, OutboxTypeOK, Take
<1>5. SettledForCause'
  BY <1>3, <1>4 DEF OutboxInv, SettledForCause
<1>6. ClaimsArePending'
  BY <1>1, <1>2, <1>3 DEF OutboxInv, SettledForCause, OutboxTypeOK, ClaimsArePending
<1>7. CountsAgree'
  BY <1>1, <1>2, <1>3 DEF OutboxInv, SettledForCause, OutboxTypeOK, CountsAgree, Take
<1>8. \A s \in Relays : RelayInv(s)'
  BY <1>1, <1>3 DEF OutboxInv, SettledForCause, OutboxTypeOK, RelayInv, Current, Take, Working
<1> QED
  BY <1>5, <1>6, <1>7, <1>8 DEF OutboxInv

LEMMA SelectPreserves ==
  ASSUME OutboxInv, NEW r \in Relays, ClaimSelect(r)
  PROVE  OutboxInv'
<1> USE OutboxAssumption
<1>1. OutboxTypeOK'
  BY DEF OutboxInv, SettledForCause, OutboxTypeOK, ClaimSelect, Take, entryVars, relayCounters
<1>2. SettledForCause' /\ ClaimsArePending'
  BY <1>1 DEF OutboxInv, SettledForCause, ClaimsArePending, ClaimSelect, entryVars
<1>3. CountsAgree'
  BY DEF OutboxInv, SettledForCause, OutboxTypeOK, CountsAgree, ClaimSelect, Take, entryVars
<1>4. \A s \in Relays : RelayInv(s)'
  BY DEF OutboxInv, SettledForCause, OutboxTypeOK, RelayInv, Current, ClaimSelect, Take, Working
<1> QED
  BY <1>2, <1>3, <1>4 DEF OutboxInv

LEMMA NextEntryPreserves ==
  ASSUME OutboxInv, NEW r \in Relays, NextEntry(r)
  PROVE  OutboxInv'
<1> USE OutboxAssumption
<1>1. OutboxTypeOK'
  BY DEF OutboxInv, SettledForCause, OutboxTypeOK, NextEntry, entryVars, relayCounters
<1>2. SettledForCause' /\ ClaimsArePending' /\ CountsAgree'
  BY <1>1 DEF OutboxInv, SettledForCause, ClaimsArePending, CountsAgree, NextEntry, entryVars
<1>3. RelayInv(r)'
  <2>1. CASE queue[r] = {}
    BY <2>1 DEF OutboxInv, SettledForCause, OutboxTypeOK, RelayInv, NextEntry, Working
  <2>2. CASE queue[r] # {}
    <3>1. Current(r) \in Entries
      <4>1. queue[r] \subseteq Entries
        BY DEF OutboxInv, SettledForCause, OutboxTypeOK
      <4>2. queue[r] \in SUBSET Nat
        BY <4>1 DEF OutboxAssumption
      <4> QED
        BY <4>1, <4>2, <2>2, LeastExists DEF Current
    <3>2. tried[r][Current(r)] \in 0..MaxPublishes /\ MaxPublishes \in Nat
      <4>1. tried \in [Relays -> [Entries -> 0..MaxPublishes]]
        BY DEF OutboxInv, SettledForCause, OutboxTypeOK
      <4> QED
        BY <4>1, <3>1 DEF OutboxAssumption
    <3>3. /\ queue' = queue /\ tried' = tried /\ delivered' = delivered
          /\ relayAt'[r] = IF tried[r][Current(r)] >= MaxPublishes THEN "exhausted" ELSE "publish"
      BY <2>2 DEF OutboxInv, SettledForCause, OutboxTypeOK, NextEntry
    <3> QED
      BY <2>2, <3>2, <3>3 DEF RelayInv, Working, Current
  <2> QED
    BY <2>1, <2>2
<1>4. ASSUME NEW s \in Relays, s # r PROVE RelayInv(s)'
  BY <1>4 DEF OutboxInv, SettledForCause, OutboxTypeOK, RelayInv, Current, NextEntry
<1> QED
  BY <1>2, <1>3, <1>4 DEF OutboxInv

LEMMA PublishPreserves ==
  ASSUME OutboxInv, NEW r \in Relays, Publish(r)
  PROVE  OutboxInv'
<1> USE OutboxAssumption
<1>1. relayAt[r] = "publish" /\ Current(r) \in Entries
  BY CurrentIsQueued DEF Publish, Working
<1>2. OutboxTypeOK' /\ delivered \subseteq delivered'
  BY <1>1 DEF OutboxInv, SettledForCause, OutboxTypeOK, Publish, entryVars, relayCounters
<1>3. SettledForCause' /\ ClaimsArePending' /\ CountsAgree'
  BY <1>2 DEF OutboxInv, SettledForCause, ClaimsArePending, CountsAgree, Publish, entryVars
<1>4. RelayInv(r)'
  BY <1>1 DEF OutboxInv, SettledForCause, OutboxTypeOK, RelayInv, Publish, Working, Current
<1>5. ASSUME NEW s \in Relays, s # r PROVE RelayInv(s)'
  BY <1>2, <1>5 DEF OutboxInv, SettledForCause, OutboxTypeOK, RelayInv, Current, Publish
<1> QED
  BY <1>3, <1>4, <1>5 DEF OutboxInv

LEMMA WakePreserves ==
  ASSUME OutboxInv, NEW r \in Relays, WakeRelay(r)
  PROVE  OutboxInv'
<1> USE OutboxAssumption
<1>1. OutboxTypeOK'
  BY DEF OutboxInv, SettledForCause, OutboxTypeOK, WakeRelay, entryVars, relayCounters
<1>2. SettledForCause' /\ ClaimsArePending' /\ CountsAgree'
  BY <1>1 DEF OutboxInv, SettledForCause, ClaimsArePending, CountsAgree, WakeRelay, entryVars
<1>3. \A s \in Relays : RelayInv(s)'
  BY DEF OutboxInv, SettledForCause, OutboxTypeOK, RelayInv, Current, WakeRelay, Working
<1> QED
  BY <1>2, <1>3 DEF OutboxInv

LEMMA CrashPreserves ==
  ASSUME OutboxInv, NEW r \in Relays, RelayCrash(r)
  PROVE  OutboxInv'
<1> USE OutboxAssumption
<1>1. OutboxTypeOK'
  BY DEF OutboxInv, SettledForCause, OutboxTypeOK, OutboxAssumption, RelayCrash, entryVars
<1>2. SettledForCause' /\ ClaimsArePending' /\ CountsAgree'
  BY <1>1 DEF OutboxInv, SettledForCause, OutboxTypeOK, ClaimsArePending, CountsAgree, RelayCrash,
              entryVars
<1>3. \A s \in Relays : RelayInv(s)'
  BY DEF OutboxInv, SettledForCause, OutboxTypeOK, RelayInv, Current, RelayCrash, Working
<1> QED
  BY <1>2, <1>3 DEF OutboxInv

LEMMA TickPreserves == OutboxInv /\ RelayTick => OutboxInv'
<1> USE OutboxAssumption
<1> SUFFICES ASSUME OutboxInv, RelayTick PROVE OutboxInv'
  OBVIOUS
<1>1. OutboxTypeOK'
  <2>1. upsets' \in 0..MaxUpsets
    BY DEF OutboxInv, SettledForCause, OutboxTypeOK, OutboxAssumption, RelayTick
  <2>2. ASSUME NEW n \in Nat, NEW m \in 0..n PROVE Sooner(m) \in 0..n
    BY DEF Sooner
  <2> QED
    BY <2>1, <2>2 DEF OutboxInv, SettledForCause, OutboxTypeOK, OutboxAssumption, RelayTick
<1>2. SettledForCause' /\ ClaimsArePending' /\ CountsAgree'
  BY <1>1 DEF OutboxInv, SettledForCause, ClaimsArePending, CountsAgree, RelayTick
<1>3. \A s \in Relays : RelayInv(s)'
  BY DEF OutboxInv, RelayInv, Current, RelayTick
<1> QED
  BY <1>2, <1>3 DEF OutboxInv

\* What a settlement does to the entry at hand, if the relay still owns it.
LEMMA SettleEffect ==
  ASSUME OutboxInv, NEW r \in Relays, relayAt[r] \in Working,
         NEW result \in {"published", "dead"}, SettleEntry(r, result),
         result = "dead" => tried[r][Current(r)] = MaxPublishes,
         result = "published" => Current(r) \in delivered,
         Finish(r), UNCHANGED <<attempts, delay, sleep, delivered, backend, upsets, replays>>
  PROVE  OutboxInv'
<1> USE OutboxAssumption
<1>1. Current(r) \in queue[r] /\ Current(r) \in Entries
  BY CurrentIsQueued
<1> DEFINE e == Current(r)
<1>2. entryOwner[e] = r => attempts[e] = tried[r][e]
  BY <1>1 DEF OutboxInv, CountsAgree
<1> HIDE DEF e
<1>3. /\ queue' = [queue EXCEPT ![r] = @ \ {e}]
      /\ tried' = [tried EXCEPT ![r][e] = 0]
      /\ relayAt' = [relayAt EXCEPT ![r] = "next"]
  BY DEF Finish, e
<1>4. \/ /\ entryOwner[e] = r
         /\ entryStatus' = [entryStatus EXCEPT ![e] = result]
         /\ entryOwner' = [entryOwner EXCEPT ![e] = NoRelay]
         /\ entryLease' = [entryLease EXCEPT ![e] = 0]
      \/ UNCHANGED <<entryStatus, entryOwner, entryLease>>
  BY DEF SettleEntry, HoldsClaim, e
<1>5. e \in Entries
  BY <1>1 DEF e
<1>6. OutboxTypeOK'
  <2>1. tried' \in [Relays -> [Entries -> 0..MaxPublishes]]
    BY <1>3, <1>5 DEF OutboxInv, SettledForCause, OutboxTypeOK, OutboxAssumption
  <2>2. queue' \in [Relays -> SUBSET Entries]
    BY <1>3 DEF OutboxInv, SettledForCause, OutboxTypeOK
  <2>3. (/\ entryStatus \in [Entries -> {"absent", "pending", "published", "dead"}]
         /\ entryOwner \in [Entries -> Relays \union {NoRelay}]
         /\ entryLease \in [Entries -> 0..RelayLease])'
    BY <1>4, <1>5 DEF OutboxInv, SettledForCause, OutboxTypeOK, OutboxAssumption
  <2> QED
    BY <2>1, <2>2, <2>3, <1>3 DEF OutboxInv, SettledForCause, OutboxTypeOK
<1>7. SettledForCause'
  <2>1. ASSUME NEW f \in Entries
        PROVE  /\ entryStatus'[f] = "dead" => attempts'[f] = MaxPublishes
               /\ entryStatus'[f] = "published" => f \in delivered'
    <3>1. CASE f = e /\ entryOwner[e] = r
      BY <3>1, <1>2, <1>4 DEF OutboxInv, SettledForCause, OutboxTypeOK, e
    <3>2. CASE f # e \/ entryOwner[e] # r
      BY <3>2, <1>4, <1>5 DEF OutboxInv, SettledForCause, OutboxTypeOK
    <3> QED
      BY <3>1, <3>2
  <2> QED
    BY <2>1, <1>6 DEF SettledForCause
<1>8. ClaimsArePending'
  BY <1>4, <1>5 DEF OutboxInv, SettledForCause, OutboxTypeOK, ClaimsArePending
<1>9. CountsAgree'
  BY <1>3, <1>4, <1>5 DEF OutboxInv, SettledForCause, OutboxTypeOK, CountsAgree, OutboxAssumption
<1>10. \A s \in Relays : RelayInv(s)'
  <2>1. RelayInv(r)'
    BY <1>3 DEF OutboxInv, SettledForCause, OutboxTypeOK, RelayInv, Working
  <2>2. ASSUME NEW s \in Relays, s # r PROVE RelayInv(s)'
    BY <1>3, <2>2 DEF OutboxInv, SettledForCause, OutboxTypeOK, RelayInv, Current
  <2> QED
    BY <2>1, <2>2
<1> QED
  BY <1>7, <1>8, <1>9, <1>10 DEF OutboxInv

LEMMA MarkPublishedPreserves ==
  ASSUME OutboxInv, NEW r \in Relays, MarkPublished(r)
  PROVE  OutboxInv'
<1>1. relayAt[r] \in Working /\ Current(r) \in delivered
  BY DEF OutboxInv, RelayInv, MarkPublished, Working
<1>2. /\ SettleEntry(r, "published") /\ Finish(r)
      /\ UNCHANGED <<attempts, delay, sleep, delivered, backend, upsets, replays>>
  BY DEF MarkPublished, relayCounters
<1> QED
  BY <1>1, <1>2, SettleEffect

LEMMA MarkDeadPreserves ==
  ASSUME OutboxInv, NEW r \in Relays, MarkDead(r)
  PROVE  OutboxInv'
<1>1. relayAt[r] \in Working /\ tried[r][Current(r)] = MaxPublishes
  BY DEF OutboxInv, RelayInv, MarkDead, Working
<1>2. /\ SettleEntry(r, "dead") /\ Finish(r)
      /\ UNCHANGED <<attempts, delay, sleep, delivered, backend, upsets, replays>>
  BY DEF MarkDead, relayCounters
<1> QED
  BY <1>1, <1>2, SettleEffect

\* An attempt is counted by the relay, and on the entry if the relay still owns
\* it; nobody else changes the counts of an entry meanwhile.
LEMMA MarkFailedPreserves ==
  ASSUME OutboxInv, NEW r \in Relays, MarkFailed(r)
  PROVE  OutboxInv'
<1> USE OutboxAssumption
<1> DEFINE e == Current(r)
<1>1. relayAt[r] = "failed" /\ Current(r) \in queue[r] /\ Current(r) \in Entries
  BY CurrentIsQueued DEF MarkFailed, Working
<1>2. tried[r][e] \in Nat /\ tried[r][e] + 1 \in 0..MaxPublishes
  <2>1. tried \in [Relays -> [Entries -> 0..MaxPublishes]]
    BY DEF OutboxInv, SettledForCause, OutboxTypeOK
  <2>2. tried[r][e] \in 0..MaxPublishes /\ MaxPublishes \in Nat
    BY <2>1, <1>1 DEF OutboxAssumption
  <2>3. tried[r][e] < MaxPublishes
    BY <1>1 DEF OutboxInv, RelayInv, Working
  <2> QED
    BY <2>2, <2>3
<1>3. entryOwner[e] = r => attempts[e] = tried[r][e] /\ entryStatus[e] = "pending"
  <2>1. r # NoRelay
    BY DEF OutboxAssumption
  <2> QED
    BY <1>1, <2>1 DEF OutboxInv, CountsAgree, ClaimsArePending
<1>4. PICK d \in 0..MaxBackoff :
        /\ d = 0 <=> tried[r][e] + 1 = MaxPublishes
        /\ IF HoldsClaim(r, e)
           THEN /\ attempts' = [attempts EXCEPT ![e] = tried[r][e] + 1]
                /\ delay' = [delay EXCEPT ![e] = d]
           ELSE UNCHANGED <<attempts, delay>>
        /\ \/ /\ d = 0
              /\ tried' = [tried EXCEPT ![r][e] = @ + 1]
              /\ relayAt' = [relayAt EXCEPT ![r] = "exhausted"]
              /\ UNCHANGED <<queue, sleep>>
           \/ /\ d > 0 /\ HoldsClaim(r, e)
              /\ tried' = [tried EXCEPT ![r][e] = @ + 1]
              /\ relayAt' = [relayAt EXCEPT ![r] = "sleep"]
              /\ sleep' = [sleep EXCEPT ![r] = d]
              /\ UNCHANGED queue
           \/ /\ d > 0 /\ ~HoldsClaim(r, e)
              /\ Finish(r)
              /\ UNCHANGED sleep
  BY DEF MarkFailed
<1>5. UNCHANGED <<entryStatus, entryOwner, entryLease, delivered, backend, upsets, replays>>
  BY DEF MarkFailed, relayCounters
<1>6. HoldsClaim(r, e) <=> entryOwner[e] = r
  BY <1>3 DEF HoldsClaim
<1>7. e \in Entries /\ e \in queue[r]
  BY <1>1
<1>8. Finish(r) => /\ queue' = [queue EXCEPT ![r] = @ \ {e}]
                   /\ tried' = [tried EXCEPT ![r][e] = 0]
                   /\ relayAt' = [relayAt EXCEPT ![r] = "next"]
  BY DEF Finish
<1>9. queue' = queue => Current(r)' = e
  BY DEF Current
<1> HIDE DEF e
<1>10. PICK n \in 0..MaxPublishes :
         /\ tried' = [tried EXCEPT ![r] = [tried[r] EXCEPT ![e] = n]]
         /\ queue' = queue => n = tried[r][e] + 1
  <2>1. tried \in [Relays -> [Entries -> 0..MaxPublishes]] /\ queue \in [Relays -> SUBSET Entries]
    BY DEF OutboxInv, SettledForCause, OutboxTypeOK
  <2>2. CASE Finish(r)
    <3>1. queue'[r] = queue[r] \ {e}
      BY <1>8, <2>1, <2>2
    <3>2. tried' = [tried EXCEPT ![r] = [tried[r] EXCEPT ![e] = 0]]
      BY <1>8, <2>2
    <3>3. queue' # queue
      BY <1>7, <3>1
    <3>4. 0 \in 0..MaxPublishes
      BY DEF OutboxAssumption
    <3> QED
      BY <3>2, <3>3, <3>4
  <2>3. CASE tried' = [tried EXCEPT ![r][e] = @ + 1]
    BY <1>2, <2>3
  <2> QED
    BY <2>2, <2>3, <1>4
<1>11. OutboxTypeOK'
  <2>1. tried' \in [Relays -> [Entries -> 0..MaxPublishes]]
    BY <1>10 DEF OutboxInv, SettledForCause, OutboxTypeOK
  <2>2. (/\ attempts \in [Entries -> 0..MaxPublishes]
         /\ delay \in [Entries -> 0..MaxBackoff])'
    BY <1>2, <1>4, <1>7 DEF OutboxInv, SettledForCause, OutboxTypeOK
  <2>3. queue' \in [Relays -> SUBSET Entries]
    BY <1>4, <1>8 DEF OutboxInv, SettledForCause, OutboxTypeOK
  <2>4. sleep' \in [Relays -> 0..MaxBackoff]
    BY <1>4 DEF OutboxInv, SettledForCause, OutboxTypeOK
  <2>5. \E p \in {"next", "exhausted", "sleep"} : relayAt' = [relayAt EXCEPT ![r] = p]
    BY <1>4, <1>8
  <2>6. (relayAt \in [Relays -> {"idle", "select", "next", "publish", "succeeded",
                               "failed", "exhausted", "sleep"}])'
    BY <2>5 DEF OutboxInv, SettledForCause, OutboxTypeOK
  <2> QED
    BY <2>1, <2>2, <2>3, <2>4, <2>6, <1>5 DEF OutboxInv, SettledForCause, OutboxTypeOK
<1>12. SettledForCause'
  <2>1. ASSUME NEW f \in Entries, entryStatus'[f] = "dead" PROVE attempts'[f] = MaxPublishes
    <3>1. entryStatus[f] = "dead" /\ attempts[f] = MaxPublishes
      BY <2>1, <1>5 DEF OutboxInv, SettledForCause
    <3>2. f = e => entryOwner[e] # r
      BY <3>1, <1>3
    <3> QED
      BY <3>1, <3>2, <1>4, <1>6, <1>7 DEF OutboxInv, SettledForCause, OutboxTypeOK
  <2> QED
    BY <2>1, <1>5, <1>11 DEF OutboxInv, SettledForCause
<1>13. ClaimsArePending'
  BY <1>5 DEF OutboxInv, ClaimsArePending
<1>14. CountsAgree'
  <2> SUFFICES ASSUME NEW s \in Relays, NEW f \in queue'[s], entryOwner'[f] = s
               PROVE  tried'[s][f] = attempts'[f]
    BY DEF CountsAgree
  <2>1. f \in queue[s] /\ f \in Entries /\ entryOwner[f] = s
    BY <1>4, <1>5, <1>8 DEF OutboxInv, SettledForCause, OutboxTypeOK
  <2>2. tried[s][f] = attempts[f]
    BY <2>1 DEF OutboxInv, CountsAgree
  <2>3. CASE f = e /\ s = r
    <3>1. HoldsClaim(r, e) /\ attempts'[e] = tried[r][e] + 1
      BY <2>1, <2>3, <1>4, <1>6, <1>7 DEF OutboxInv, SettledForCause, OutboxTypeOK
    <3>2. queue' = queue \/ ~(e \in queue'[r])
      BY <1>4, <1>8 DEF OutboxInv, SettledForCause, OutboxTypeOK
    <3>3. tried'[r][e] = tried[r][e] + 1
      BY <3>2, <2>3, <1>7, <1>10 DEF OutboxInv, SettledForCause, OutboxTypeOK
    <3> QED
      BY <3>1, <3>3, <2>3
  <2>4. CASE f = e /\ s # r
    BY <2>1, <2>2, <2>4, <1>4, <1>6, <1>10 DEF OutboxInv, SettledForCause, OutboxTypeOK
  <2>5. CASE f # e
    BY <2>1, <2>2, <2>5, <1>4, <1>7, <1>10 DEF OutboxInv, SettledForCause, OutboxTypeOK
  <2> QED
    BY <2>3, <2>4, <2>5
<1>15. RelayInv(r)'
  BY <1>2, <1>4, <1>7, <1>8, <1>9 DEF OutboxInv, SettledForCause, OutboxTypeOK, OutboxAssumption, RelayInv,
     Working
<1>16. ASSUME NEW s \in Relays, s # r PROVE RelayInv(s)'
  BY <1>4, <1>5, <1>8, <1>10, <1>16 DEF OutboxInv, SettledForCause, OutboxTypeOK, RelayInv, Current
<1> QED
  BY <1>12, <1>13, <1>14, <1>15, <1>16 DEF OutboxInv

LEMMA OutboxStep == OutboxInv /\ [OutboxNext]_outboxVars => OutboxInv'
<1> SUFFICES ASSUME OutboxInv, [OutboxNext]_outboxVars PROVE OutboxInv'
  OBVIOUS
<1>1. CASE UNCHANGED outboxVars
  <2>1. UNCHANGED <<entryStatus, attempts, delay, entryOwner, entryLease, relayAt, queue, tried, sleep,
                    delivered, upsets, replays>>
    BY <1>1 DEF outboxVars, entryVars, relayVars, relayCounters
  <2> QED
    BY <2>1 DEF OutboxInv, SettledForCause, OutboxTypeOK, ClaimsArePending, CountsAgree, RelayInv, Current
<1>2. ASSUME NEW e \in Entries, NEW d \in 0..MaxBackoff, Enqueue(e, d) PROVE OutboxInv'
  BY <1>2, EnqueuePreserves
<1>3. ASSUME NEW e \in Entries, Replay(e) PROVE OutboxInv'
  BY <1>3, ReplayPreserves
<1>4. ASSUME NEW r \in Relays, RelayStep(r) PROVE OutboxInv'
  BY <1>4, ClaimPreserves, SelectPreserves, NextEntryPreserves, PublishPreserves, MarkPublishedPreserves,
     MarkFailedPreserves, MarkDeadPreserves, WakePreserves DEF RelayStep
<1>5. ASSUME NEW r \in Relays, RelayCrash(r) PROVE OutboxInv'
  BY <1>5, CrashPreserves
<1> QED
  BY <1>1, <1>2, <1>3, <1>4, <1>5, TickPreserves DEF OutboxNext

LEMMA OutboxInvariance == OutboxSpec => []OutboxInv
  BY OutboxStarts, OutboxStep, PTL DEF OutboxSpec

(***************************************************************************)
(* No message is given up before its whole budget of attempts was spent,   *)
(* by whichever relays, and none is called published that the broker did   *)
(* not take (relay, markFailed and markDead of Outbox.ts): for every       *)
(* number of messages and relays, batch size, lease, budget, and number of *)
(* crashes, late ticks and replays, on each of the three adapters.         *)
(***************************************************************************)
THEOREM NothingSettlesEarly == OutboxSpec => []SettledForCause
<1>1. OutboxInv => SettledForCause
  BY DEF OutboxInv
<1> QED
  BY <1>1, OutboxInvariance, PTL

(***************************************************************************)
(* Leases fence the outbox: an entry under a running lease stays with its  *)
(* relay until it is settled, and a relay that lost its lease takes back   *)
(* no attempts (claim, markFailed of the three adapters).                  *)
(***************************************************************************)
THEOREM LeasesFence == OutboxSpec => LeaseIsExclusive
<1> USE OutboxAssumption
<1>1. ASSUME OutboxInv, [OutboxNext]_outboxVars, NEW e \in Entries
      PROVE  (LeaseKept(e) /\ AttemptsKept(e)) \/ UNCHANGED outboxVars
  <2> SUFFICES ASSUME OutboxNext PROVE LeaseKept(e) /\ AttemptsKept(e)
    BY <1>1
  <2>1. OutboxTypeOK /\ attempts \in [Entries -> Nat]
    BY <1>1 DEF OutboxInv, SettledForCause, OutboxTypeOK, OutboxAssumption
  <2>2. ASSUME UNCHANGED <<attempts, entryOwner>> PROVE LeaseKept(e) /\ AttemptsKept(e)
    BY <2>2, <2>1 DEF LeaseKept, AttemptsKept, OutboxTypeOK
  <2>3. ASSUME NEW f \in Entries, NEW d \in 0..MaxBackoff, Enqueue(f, d)
        PROVE  LeaseKept(e) /\ AttemptsKept(e)
    BY <2>2, <2>3 DEF Enqueue
  <2>4. ASSUME NEW f \in Entries, Replay(f) PROVE LeaseKept(e) /\ AttemptsKept(e)
    BY <2>1, <2>4 DEF LeaseKept, AttemptsKept, OutboxTypeOK, Replay
  <2>5. ASSUME NEW r \in Relays, RelayStep(r) PROVE LeaseKept(e) /\ AttemptsKept(e)
    <3>1. CASE ClaimBatch(r)
      BY <2>1, <3>1 DEF LeaseKept, AttemptsKept, OutboxTypeOK, ClaimBatch, ClaimableEntries
    <3>2. CASE MarkPublished(r) \/ MarkDead(r)
      <4>1. SettleEntry(r, "published") \/ SettleEntry(r, "dead")
        BY <3>2 DEF MarkPublished, MarkDead
      <4>2. UNCHANGED attempts
        BY <3>2 DEF MarkPublished, MarkDead
      <4>3. entryOwner'[e] = entryOwner[e] \/ entryStatus'[e] # "pending"
        BY <4>1, <2>1 DEF SettleEntry, OutboxTypeOK
      <4>4. AttemptsKept(e)
        BY <2>1, <4>2 DEF AttemptsKept
      <4> QED
        BY <4>3, <4>4 DEF LeaseKept
    <3>3. CASE MarkFailed(r)
      <4>1. UNCHANGED entryOwner
        BY <3>3 DEF MarkFailed
      <4>2. relayAt[r] \in Working
        BY <3>3 DEF MarkFailed, Working
      <4>3. Current(r) \in queue[r] /\ Current(r) \in Entries
        BY <1>1, <4>2, CurrentIsQueued
      <4>4. HoldsClaim(r, Current(r)) => attempts[Current(r)] = tried[r][Current(r)]
        BY <1>1, <4>3 DEF OutboxInv, CountsAgree, HoldsClaim
      <4>5. attempts[Current(r)] \in Nat
        BY <4>3, <2>1
      <4>6. \/ UNCHANGED attempts
            \/ attempts' = [attempts EXCEPT ![Current(r)] = attempts[Current(r)] + 1]
        BY <3>3, <4>4 DEF MarkFailed
      <4>7. AttemptsKept(e)
        BY <4>3, <4>5, <4>6, <2>1 DEF AttemptsKept, OutboxTypeOK
      <4> QED
        BY <4>1, <4>7 DEF LeaseKept
    <3>4. CASE ClaimSelect(r) \/ NextEntry(r) \/ Publish(r) \/ WakeRelay(r)
      BY <2>2, <3>4 DEF ClaimSelect, NextEntry, Publish, WakeRelay, entryVars
    <3> QED
      BY <2>5, <3>1, <3>2, <3>3, <3>4 DEF RelayStep
  <2>6. ASSUME NEW r \in Relays, RelayCrash(r) PROVE LeaseKept(e) /\ AttemptsKept(e)
    BY <2>2, <2>6 DEF RelayCrash, entryVars
  <2>7. CASE RelayTick
    BY <2>2, <2>7 DEF RelayTick
  <2> QED
    BY <2>3, <2>4, <2>5, <2>6, <2>7 DEF OutboxNext
<1>2. OutboxInv /\ [OutboxNext]_outboxVars
        => [\A e \in Entries : LeaseKept(e) /\ AttemptsKept(e)]_outboxVars
  BY <1>1
<1> QED
  BY <1>2, OutboxInvariance, PTL DEF OutboxSpec, LeaseIsExclusive

-----------------------------------------------------------------------------
\* The inbox.

Running == {Resting} \union [at : {"seen", "effect", "mark"}, key : Pairs]

Handling(d, k) == run[d].at # "idle" /\ run[d].key = k

InboxTypeOK ==
    /\ inUnitOfWork \in BOOLEAN
    /\ processed \subseteq Pairs /\ skipped \subseteq Pairs
    /\ effects \in [Pairs -> Nat]
    /\ run \in [Deliveries -> Running]

\* What is recorded took effect; outside a unit of work the effect comes first.
RecordedTookEffect ==
    /\ \A k \in skipped \union processed : effects[k] > 0
    /\ \A d \in Deliveries :
          run[d].at = "mark" /\ ~inUnitOfWork => effects[run[d].key] > 0

\* A message whose deliveries never overlapped and lost no mark is handled by
\* one delivery at a time, and only while its effect has still to take place,
\* or took place outside a unit of work and waits for its mark.
OneAtATime(k) ==
    /\ \A c, d \in Deliveries : Handling(c, k) /\ Handling(d, k) => c = d
    /\ effects[k] <= 1
    /\ effects[k] = 1 => \/ k \in processed
                         \/ \E d \in Deliveries : Handling(d, k) /\ run[d].at = "mark"
    /\ \A d \in Deliveries : Handling(d, k) =>
          /\ run[d].at = "effect" => effects[k] = 0
          /\ run[d].at = "mark" /\ inUnitOfWork => effects[k] = 0

InboxInv == InboxTypeOK /\ RecordedTookEffect /\ \A k \in Pairs \ excused : OneAtATime(k)

LEMMA InboxStarts == InboxInit => InboxInv
  BY DEF InboxInit, InboxInv, InboxTypeOK, RecordedTookEffect, OneAtATime, Handling, Running, Resting

LEMMA DeliverPreserves ==
  ASSUME InboxInv, NEW d \in Deliveries, NEW k \in Pairs, DeliverTo(d, k)
  PROVE  InboxInv'
<1>1. /\ run[d].at = "idle"
      /\ run' = [run EXCEPT ![d] = [at |-> "seen", key |-> k]]
      /\ excused' = IF Overlaps(d, k) THEN excused \union {k} ELSE excused
      /\ UNCHANGED <<inUnitOfWork, processed, effects, skipped>>
  BY DEF DeliverTo
<1>2. InboxTypeOK'
  BY <1>1 DEF InboxInv, InboxTypeOK, Running
<1>3. \A c \in Deliveries : run'[c] = IF c = d THEN [at |-> "seen", key |-> k] ELSE run[c]
  BY <1>1 DEF InboxInv, InboxTypeOK
<1>4. RecordedTookEffect'
  BY <1>1, <1>3 DEF InboxInv, RecordedTookEffect
<1>5. ASSUME NEW m \in Pairs \ excused' PROVE OneAtATime(m)'
  <2>1. OneAtATime(m)
    BY <1>1, <1>5 DEF InboxInv
  <2>2. m = k => \A c \in Deliveries \ {d} : ~Handling(c, m)
    BY <1>1, <1>5 DEF Overlaps, Handling
  <2>3. \A c \in Deliveries : c # d => (Handling(c, m)' <=> Handling(c, m))
    BY <1>3 DEF Handling
  <2>4. Handling(d, m)' => m = k
    BY <1>3 DEF Handling
  <2> QED
    BY <1>1, <1>3, <2>1, <2>2, <2>3, <2>4 DEF OneAtATime, Handling
<1> QED
  BY <1>2, <1>4, <1>5 DEF InboxInv

LEMMA SeenPreserves ==
  ASSUME InboxInv, NEW d \in Deliveries, Seen(d)
  PROVE  InboxInv'
<1>1. /\ run[d].at = "seen"
      /\ \/ run[d].key \in processed /\ run' = [run EXCEPT ![d] = Resting]
                                     /\ skipped' = skipped \union {run[d].key}
         \/ run[d].key \notin processed /\ run' = [run EXCEPT ![d].at = "effect"] /\ skipped' = skipped
      /\ UNCHANGED <<inUnitOfWork, processed, effects, excused>>
  BY DEF Seen, Go
<1>2. run[d] \in [at : {"seen", "effect", "mark"}, key : Pairs]
  BY <1>1 DEF InboxInv, InboxTypeOK, Running, Resting
<1>3. \A c \in Deliveries \ {d} : run'[c] = run[c]
  BY <1>1 DEF InboxInv, InboxTypeOK
<1>4. \/ run'[d] = Resting /\ skipped' = skipped \union {run[d].key} /\ run[d].key \in processed
      \/ run'[d] = [run[d] EXCEPT !.at = "effect"] /\ skipped' = skipped /\ run[d].key \notin processed
  BY <1>1 DEF InboxInv, InboxTypeOK
<1>5. InboxTypeOK'
  BY <1>1, <1>2 DEF InboxInv, InboxTypeOK, Running
<1>6. RecordedTookEffect'
  BY <1>1, <1>2, <1>3, <1>4 DEF InboxInv, RecordedTookEffect, Resting
<1>7. ASSUME NEW m \in Pairs \ excused' PROVE OneAtATime(m)'
  <2>1. OneAtATime(m)
    BY <1>1, <1>7 DEF InboxInv
  <2>2. effects[m] \in Nat
    BY DEF InboxInv, InboxTypeOK
  <2>3. \A c \in Deliveries : c # d => (Handling(c, m)' <=> Handling(c, m))
    BY <1>3 DEF Handling
  <2>4. Handling(d, m)' => Handling(d, m) /\ m \notin processed /\ run'[d].at = "effect"
    BY <1>1, <1>2, <1>4 DEF Handling, Resting
  <2>5. Handling(d, m) /\ m \notin processed => effects[m] = 0
    BY <1>1, <2>1, <2>2 DEF OneAtATime
  <2> QED
    BY <1>1, <1>3, <2>1, <2>3, <2>4, <2>5 DEF OneAtATime
<1> QED
  BY <1>5, <1>6, <1>7 DEF InboxInv

\* The effect outside a unit of work comes before its mark, inside with it.
LEMMA EffectPreserves ==
  ASSUME InboxInv, NEW d \in Deliveries, RunEffect(d)
  PROVE  InboxInv'
<1> DEFINE k == run[d].key
<1>1. /\ run[d].at = "effect"
      /\ \/ run' = [run EXCEPT ![d] = Resting] /\ effects' = effects
         \/ /\ run' = [run EXCEPT ![d].at = "mark"]
            /\ effects' = IF inUnitOfWork THEN effects ELSE [effects EXCEPT ![k] = @ + 1]
      /\ UNCHANGED <<inUnitOfWork, processed, excused, skipped>>
  BY DEF RunEffect, Go
<1>2. run[d] \in [at : {"seen", "effect", "mark"}, key : Pairs]
  BY <1>1 DEF InboxInv, InboxTypeOK, Running, Resting
<1>3. k \in Pairs /\ effects \in [Pairs -> Nat]
  BY <1>2 DEF InboxInv, InboxTypeOK
<1> HIDE DEF k
<1>4. \A c \in Deliveries \ {d} : run'[c] = run[c]
  BY <1>1 DEF InboxInv, InboxTypeOK
<1>5. \/ run'[d] = Resting /\ effects' = effects
      \/ /\ run'[d] = [run[d] EXCEPT !.at = "mark"]
         /\ effects' = IF inUnitOfWork THEN effects ELSE [effects EXCEPT ![k] = @ + 1]
  BY <1>1 DEF InboxInv, InboxTypeOK
<1>6. InboxTypeOK'
  BY <1>1, <1>2, <1>3 DEF InboxInv, InboxTypeOK, Running
<1>7. RecordedTookEffect'
  <2>1. \A m \in Pairs : effects'[m] >= effects[m]
    BY <1>3, <1>5
  <2>2. \A m \in skipped' \union processed' : effects'[m] > 0
    BY <1>1, <1>3, <1>6, <2>1 DEF InboxInv, InboxTypeOK, RecordedTookEffect
  <2>3. ASSUME NEW c \in Deliveries, run'[c].at = "mark", ~inUnitOfWork'
        PROVE  effects'[run'[c].key] > 0
    <3>1. CASE c = d
      <4>1. run'[d].key = k /\ effects'[k] = effects[k] + 1
        BY <2>3, <3>1, <1>1, <1>2, <1>3, <1>5 DEF Resting, k
      <4> QED
        BY <4>1, <3>1, <1>3
    <3>2. CASE c # d
      <4>1. run[c].at = "mark" /\ run'[c] = run[c]
        BY <2>3, <3>2, <1>4
      <4>2. run[c].key \in Pairs
        BY <4>1 DEF InboxInv, InboxTypeOK, Running, Resting
      <4>3. effects[run[c].key] > 0
        BY <4>1, <2>3, <1>1 DEF InboxInv, RecordedTookEffect
      <4> QED
        BY <4>1, <4>2, <4>3, <2>1, <1>3, <1>6 DEF InboxTypeOK
    <3> QED
      BY <3>1, <3>2
  <2> QED
    BY <2>2, <2>3 DEF RecordedTookEffect
<1>8. ASSUME NEW m \in Pairs \ excused' PROVE OneAtATime(m)'
  <2>1. OneAtATime(m) /\ m \in Pairs
    BY <1>1, <1>8 DEF InboxInv
  <2>2. \A c \in Deliveries : c # d => (Handling(c, m)' <=> Handling(c, m)) /\ run'[c] = run[c]
    BY <1>4 DEF Handling
  <2>3. Handling(d, m) <=> m = k
    BY <1>1 DEF Handling, k
  <2>4. CASE m # k
    <3>1. effects'[m] = effects[m] /\ ~Handling(d, m)'
      BY <2>1, <2>4, <1>2, <1>3, <1>5 DEF Handling, Resting, k
    <3> QED
      BY <2>1, <2>2, <2>3, <2>4, <3>1, <1>1 DEF OneAtATime
  <2>5. CASE m = k
    <3>1. effects[m] = 0 /\ \A c \in Deliveries : c # d => ~Handling(c, m)
      BY <2>1, <2>3, <2>5, <1>1 DEF OneAtATime
    <3>2. \/ run'[d] = Resting /\ effects'[m] = 0
          \/ /\ run'[d].at = "mark" /\ Handling(d, m)'
             /\ effects'[m] = IF inUnitOfWork THEN 0 ELSE 1
      BY <3>1, <2>1, <2>5, <1>2, <1>3, <1>5 DEF Handling, k
    <3> QED
      BY <3>1, <3>2, <2>2, <1>1 DEF OneAtATime, Handling, Resting
  <2> QED
    BY <2>4, <2>5
<1> QED
  BY <1>6, <1>7, <1>8 DEF InboxInv

LEMMA MarkPreserves ==
  ASSUME InboxInv, NEW d \in Deliveries, MarkProcessed(d)
  PROVE  InboxInv'
<1> DEFINE k == run[d].key
<1>1. /\ run[d].at = "mark"
      /\ processed' = processed \union {k}
      /\ effects' = IF inUnitOfWork THEN [effects EXCEPT ![k] = @ + 1] ELSE effects
      /\ run' = [run EXCEPT ![d] = Resting]
      /\ UNCHANGED <<inUnitOfWork, excused, skipped>>
  BY DEF MarkProcessed
<1>2. run[d] \in [at : {"seen", "effect", "mark"}, key : Pairs]
  BY <1>1 DEF InboxInv, InboxTypeOK, Running, Resting
<1>3. k \in Pairs /\ effects \in [Pairs -> Nat]
  BY <1>2 DEF InboxInv, InboxTypeOK
<1>4. Handling(d, k)
  BY <1>1 DEF Handling
<1>5. ~inUnitOfWork => effects[k] > 0
  BY <1>1 DEF InboxInv, RecordedTookEffect
<1> HIDE DEF k
<1>6. run'[d] = Resting /\ \A c \in Deliveries \ {d} : run'[c] = run[c]
  BY <1>1 DEF InboxInv, InboxTypeOK
<1>7. InboxTypeOK'
  BY <1>1, <1>3 DEF InboxInv, InboxTypeOK, Running
<1>8. effects'[k] > 0 /\ \A m \in Pairs : effects'[m] >= effects[m]
  BY <1>1, <1>3, <1>5
<1>9. RecordedTookEffect'
  <2>1. \A m \in skipped' \union processed' : effects'[m] > 0
    BY <1>1, <1>3, <1>7, <1>8 DEF InboxInv, InboxTypeOK, RecordedTookEffect
  <2>2. ASSUME NEW c \in Deliveries, run'[c].at = "mark", ~inUnitOfWork'
        PROVE  effects'[run'[c].key] > 0
    <3>1. run'[c] = run[c]
      BY <2>2, <1>6 DEF Resting
    <3> QED
      BY <3>1, <2>2, <1>1 DEF InboxInv, RecordedTookEffect
  <2> QED
    BY <2>1, <2>2 DEF RecordedTookEffect
<1>10. ASSUME NEW m \in Pairs \ excused' PROVE OneAtATime(m)'
  <2>1. OneAtATime(m) /\ m \in Pairs
    BY <1>1, <1>10 DEF InboxInv
  <2>2. /\ ~Handling(d, m)'
        /\ \A c \in Deliveries : c # d => (Handling(c, m)' <=> Handling(c, m)) /\ run'[c] = run[c]
    BY <1>6 DEF Handling, Resting
  <2>3. CASE m # k
    <3>1. effects'[m] = effects[m] /\ (m \in processed' <=> m \in processed) /\ ~Handling(d, m)
      BY <2>1, <2>3, <1>1, <1>3 DEF Handling, k
    <3> QED
      BY <2>1, <2>2, <3>1, <1>1 DEF OneAtATime
  <2>4. CASE m = k
    <3>1. effects'[m] = 1 /\ m \in processed'
      <4>1. effects[m] = IF inUnitOfWork THEN 0 ELSE 1
        BY <2>1, <2>4, <1>1, <1>3, <1>4, <1>5 DEF OneAtATime
      <4> QED
        BY <4>1, <2>1, <2>4, <1>1, <1>3
    <3>2. \A c \in Deliveries : ~Handling(c, m)'
      BY <2>1, <2>2, <2>4, <1>4 DEF OneAtATime
    <3> QED
      BY <3>1, <3>2 DEF OneAtATime
  <2> QED
    BY <2>3, <2>4
<1> QED
  BY <1>7, <1>9, <1>10 DEF InboxInv

LEMMA CutOffPreserves ==
  ASSUME InboxInv, NEW d \in Deliveries, CutOff(d)
  PROVE  InboxInv'
<1>1. /\ run' = [run EXCEPT ![d] = Resting]
      /\ excused' = IF run[d].at = "mark" /\ ~inUnitOfWork THEN excused \union {run[d].key} ELSE excused
      /\ UNCHANGED <<inUnitOfWork, processed, effects, skipped>>
  BY DEF CutOff
<1>2. run'[d] = Resting /\ \A c \in Deliveries \ {d} : run'[c] = run[c]
  BY <1>1 DEF InboxInv, InboxTypeOK
<1>3. InboxTypeOK'
  BY <1>1 DEF InboxInv, InboxTypeOK, Running
<1>4. RecordedTookEffect'
  BY <1>1, <1>2 DEF InboxInv, RecordedTookEffect, Resting
<1>5. ASSUME NEW m \in Pairs \ excused' PROVE OneAtATime(m)'
  <2>1. OneAtATime(m)
    BY <1>1, <1>5 DEF InboxInv
  <2>2. /\ ~Handling(d, m)'
        /\ \A c \in Deliveries : c # d => (Handling(c, m)' <=> Handling(c, m)) /\ run'[c] = run[c]
    BY <1>2 DEF Handling, Resting
  <2>3. Handling(d, m) /\ run[d].at = "mark" => effects[m] = 0
    BY <2>1, <1>1, <1>5 DEF OneAtATime, Handling
  <2> QED
    BY <2>1, <2>2, <2>3, <1>1 DEF OneAtATime
<1> QED
  BY <1>3, <1>4, <1>5 DEF InboxInv

LEMMA InboxInvariance == InboxSpec => []InboxInv
<1>1. InboxInv /\ [InboxNext]_inboxVars => InboxInv'
  <2> SUFFICES ASSUME InboxInv, [InboxNext]_inboxVars PROVE InboxInv'
    OBVIOUS
  <2>1. CASE UNCHANGED inboxVars
    BY <2>1 DEF inboxVars, InboxInv, InboxTypeOK, RecordedTookEffect, OneAtATime, Handling
  <2>2. CASE InboxNext
    BY <2>2, DeliverPreserves, SeenPreserves, EffectPreserves, MarkPreserves, CutOffPreserves DEF InboxNext
  <2> QED
    BY <2>1, <2>2
<1> QED
  BY <1>1, InboxStarts, PTL DEF InboxSpec

(***************************************************************************)
(* A message the inbox skips has had its effect, and one whose deliveries  *)
(* neither overlapped nor lost a mark had it once (dedupe of Outbox.ts):   *)
(* for every number of consumers, messages and deliveries, with crashes    *)
(* between any two of the three steps.                                     *)
(***************************************************************************)
THEOREM DedupeIsSound == InboxSpec => []EffectivelyOnce
<1>1. InboxInv => EffectivelyOnce
  <2> SUFFICES ASSUME InboxInv, NEW k \in Pairs
               PROVE  /\ k \in skipped \union processed => effects[k] > 0
                      /\ effects[k] > 1 => k \in excused
    BY DEF EffectivelyOnce
  <2>1. effects[k] \in Nat
    BY DEF InboxInv, InboxTypeOK
  <2> QED
    BY <2>1 DEF InboxInv, RecordedTookEffect, OneAtATime
<1> QED
  BY <1>1, InboxInvariance, PTL

-----------------------------------------------------------------------------
\* Commands under one idempotency key.

\* Who holds the key holds it alone, on a record of the own payload that cannot
\* expire meanwhile.
HolderInv ==
    \A d \in Dispatches : Holds(d) =>
        /\ record # NoRecord
        /\ record.state = "claimed" /\ record.payload = PayloadOf[d] /\ record.ttl > 0
        /\ \A e \in Dispatches : Holds(e) => e = d

\* A recorded result is of a handler that succeeded on the recorded payload.
ResultInv ==
    /\ record # NoRecord /\ record.state = "completed" =>
          record.result \in succeeded /\ PayloadOf[record.result] = record.payload
    /\ \A d \in Dispatches : progress[d] = "complete" => d \in succeeded
    /\ ReplayIsFaithful

\* In memory a success blocks the key for good: even one whose caller was
\* interrupted before it was recorded.
MemoryInv ==
    store = "memory" =>
        /\ \A d \in succeeded :
              /\ record # NoRecord
              /\ \A e \in Dispatches : Holds(e) => progress[e] = "complete" /\ e = d
        /\ \A d, e \in succeeded : d = e

DispatchInv == DispatchTypeOK /\ HolderInv /\ ResultInv /\ MemoryInv

LEMMA DispatchStarts == DispatchInit => DispatchInv
<1> USE DispatchAssumption
<1> SUFFICES ASSUME DispatchInit PROVE DispatchInv
  OBVIOUS
<1>1. DispatchTypeOK
  BY DEF DispatchInit, DispatchTypeOK, DispatchAssumption
<1>2. HolderInv /\ MemoryInv
  BY DEF DispatchInit, HolderInv, MemoryInv, Holds
<1>3. ResultInv
  BY DEF DispatchInit, ResultInv, ReplayIsFaithful, DispatchAssumption
<1> QED
  BY <1>1, <1>2, <1>3 DEF DispatchInv

\* A step that leaves the record alone and moves one dispatch, with no answer
\* or a refusal, to a place where it does not hold the key.
LEMMA LetGo ==
  ASSUME DispatchInv, NEW d \in Dispatches, NEW step \in {"begin", "look", "done"},
         NEW a \in Refusals \union {NoResult},
         progress' = [progress EXCEPT ![d] = step],
         answer' = [answer EXCEPT ![d] = a] \/ answer' = answer,
         interrupts' \in 0..MaxInterrupts,
         UNCHANGED <<store, record, succeeded>>
  PROVE  DispatchInv'
<1> USE DispatchAssumption
<1>1. DispatchTypeOK'
  BY DEF DispatchInv, DispatchTypeOK
<1>2. ~Holds(d)' /\ \A e \in Dispatches \ {d} : progress'[e] = progress[e]
  BY DEF DispatchInv, DispatchTypeOK, Holds
<1>3. HolderInv' /\ MemoryInv'
  BY <1>2 DEF DispatchInv, HolderInv, MemoryInv, Holds
<1>4. ResultInv'
  BY <1>2 DEF DispatchInv, DispatchTypeOK, ResultInv, ReplayIsFaithful, DispatchAssumption
<1> QED
  BY <1>1, <1>3, <1>4 DEF DispatchInv

\* What a dispatch is told of a record that is there: a refusal, or a result of
\* its own payload.
LEMMA FoundAnswer ==
  ASSUME DispatchInv, NEW d \in Dispatches
  PROVE  \/ Found(d) \in Refusals
         \/ Found(d) \in succeeded /\ PayloadOf[Found(d)] = PayloadOf[d]
<1> USE DispatchAssumption
<1>1. CASE record = NoRecord
  BY <1>1 DEF Found, Refusals
<1>2. CASE record # NoRecord
  <2>1. record.state \in {"claimed", "completed"}
    BY <1>2 DEF DispatchInv, DispatchTypeOK, Record
  <2>2. CASE record.state = "completed" /\ record.payload = PayloadOf[d]
    BY <1>2, <2>2 DEF DispatchInv, ResultInv, Found
  <2>3. CASE record.state = "claimed" \/ record.payload # PayloadOf[d]
    BY <1>2, <2>3 DEF Found, Refusals
  <2> QED
    BY <2>1, <2>2, <2>3
<1> QED
  BY <1>1, <1>2

LEMMA ToldWhatWasFound ==
  ASSUME DispatchInv, NEW d \in Dispatches, Answer(d, Found(d)),
         UNCHANGED <<store, record, succeeded, interrupts>>
  PROVE  DispatchInv'
<1> USE DispatchAssumption
<1>1. progress' = [progress EXCEPT ![d] = "done"] /\ answer' = [answer EXCEPT ![d] = Found(d)]
  BY DEF Answer
<1>2. CASE Found(d) \in Refusals
  <2>1. interrupts' \in 0..MaxInterrupts
    BY DEF DispatchInv, DispatchTypeOK
  <2> QED
    BY <1>1, <1>2, <2>1, LetGo
<1>3. CASE Found(d) \in succeeded /\ PayloadOf[Found(d)] = PayloadOf[d]
  <2> DEFINE a == Found(d)
  <2>1. a \in Dispatches /\ a \in succeeded /\ PayloadOf[a] = PayloadOf[d]
        /\ answer' = [answer EXCEPT ![d] = a]
    BY <1>1, <1>3 DEF DispatchInv, DispatchTypeOK
  <2> HIDE DEF a
  <2>2. DispatchTypeOK'
    BY <1>1, <2>1 DEF DispatchInv, DispatchTypeOK
  <2>3. ~Holds(d)' /\ \A e \in Dispatches \ {d} : progress'[e] = progress[e]
    BY <1>1 DEF DispatchInv, DispatchTypeOK, Holds
  <2>4. HolderInv' /\ MemoryInv'
    BY <2>3 DEF DispatchInv, HolderInv, MemoryInv, Holds
  <2>5. ResultInv'
    BY <1>1, <2>1, <2>3 DEF DispatchInv, DispatchTypeOK, ResultInv, ReplayIsFaithful
  <2> QED
    BY <2>2, <2>4, <2>5 DEF DispatchInv
<1> QED
  BY <1>2, <1>3, FoundAnswer

LEMMA AdmitPreserves ==
  ASSUME DispatchInv, NEW d \in Dispatches, Admit(d) \/ Look(d) \/ StoreFails(d) \/ Interrupt(d)
  PROVE  DispatchInv'
<1>1. interrupts \in 0..MaxInterrupts /\ MaxInterrupts \in Nat
  BY DispatchAssumption DEF DispatchInv, DispatchTypeOK, DispatchAssumption
<1>2. CASE Admit(d)
  BY <1>1, <1>2, LetGo DEF Admit, Goto, Answer, Refusals
<1>3. CASE Look(d)
  BY <1>3, ToldWhatWasFound DEF Look
<1>4. CASE StoreFails(d)
  BY <1>1, <1>4, LetGo DEF StoreFails, Answer, Refusals
<1>5. CASE Interrupt(d)
  <2>1. interrupts' \in 0..MaxInterrupts
    BY <1>1, <1>5 DEF Interrupt
  <2> QED
    BY <1>5, <2>1, LetGo DEF Interrupt, Answer, Refusals
<1> QED
  BY <1>2, <1>3, <1>4, <1>5

LEMMA BeginPreserves ==
  ASSUME DispatchInv, NEW d \in Dispatches, BeginKey(d)
  PROVE  DispatchInv'
<1> USE DispatchAssumption
<1>1. CASE Vacant /\ record' = Claimed(d) /\ Goto(d, "handler")
  <2>1. \A e \in Dispatches : ~Holds(e)
    <3> SUFFICES ASSUME NEW e \in Dispatches, Holds(e) PROVE FALSE
      OBVIOUS
    <3>1. record # NoRecord /\ record.ttl > 0
      BY DEF DispatchInv, HolderInv
    <3> QED
      BY <3>1, <1>1 DEF Vacant
  <2>2. record' = [state |-> "claimed", payload |-> PayloadOf[d], result |-> NoResult, ttl |-> Ttl]
    BY <1>1 DEF Claimed
  <2>3. record' \in Record /\ record' # NoRecord
    BY <2>2 DEF Record, DispatchAssumption
  <2>4. /\ progress' = [progress EXCEPT ![d] = "handler"]
        /\ UNCHANGED <<store, answer, succeeded, interrupts>>
    BY <1>1 DEF BeginKey, Goto
  <2>5. DispatchTypeOK'
    BY <2>2, <2>3, <2>4 DEF DispatchInv, DispatchTypeOK
  <2>6. \A e \in Dispatches : Holds(e)' => e = d
    BY <2>1, <2>4 DEF DispatchInv, DispatchTypeOK, Holds
  <2>7. HolderInv'
    BY <2>2, <2>3, <2>6 DEF HolderInv, DispatchAssumption
  <2>8. ResultInv'
    BY <2>2, <2>4 DEF DispatchInv, DispatchTypeOK, ResultInv, ReplayIsFaithful
  <2>9. store = "memory" => succeeded = {}
    BY <1>1 DEF DispatchInv, MemoryInv, Vacant
  <2>10. MemoryInv'
    BY <2>4, <2>9 DEF MemoryInv
  <2> QED
    BY <2>5, <2>7, <2>8, <2>10 DEF DispatchInv
<1>2. CASE Goto(d, "look") /\ UNCHANGED record
  <2>1. interrupts' \in 0..MaxInterrupts
    BY DEF BeginKey, DispatchInv, DispatchTypeOK
  <2> QED
    BY <1>2, <2>1, LetGo DEF BeginKey, Goto
<1>3. CASE Answer(d, Found(d)) /\ UNCHANGED record
  BY <1>3, ToldWhatWasFound DEF BeginKey
<1> QED
  BY <1>1, <1>2, <1>3 DEF BeginKey

LEMMA HandlePreserves ==
  ASSUME DispatchInv, NEW d \in Dispatches, HandleCommand(d)
  PROVE  DispatchInv'
<1> USE DispatchAssumption
<1>1. /\ progress[d] = "handler" /\ Holds(d)
      /\ UNCHANGED <<store, record, answer, interrupts>>
  BY DEF HandleCommand, Goto, Holds
<1>2. \/ progress' = [progress EXCEPT ![d] = "complete"] /\ succeeded' = succeeded \union {d}
      \/ progress' = [progress EXCEPT ![d] = "release"] /\ succeeded' = succeeded
  BY DEF HandleCommand, Goto
<1>3. DispatchTypeOK'
  BY <1>1, <1>2 DEF DispatchInv, DispatchTypeOK
<1>4. \A e \in Dispatches : Holds(e)' <=> Holds(e)
  BY <1>1, <1>2 DEF DispatchInv, DispatchTypeOK, Holds
<1>5. HolderInv'
  BY <1>1, <1>4 DEF DispatchInv, HolderInv
<1>6. ResultInv'
  BY <1>1, <1>2 DEF DispatchInv, DispatchTypeOK, ResultInv, ReplayIsFaithful
<1>7. MemoryInv'
  <2>1. store = "memory" => succeeded = {}
    BY <1>1 DEF DispatchInv, MemoryInv
  <2>2. record # NoRecord /\ \A e \in Dispatches : Holds(e) => e = d
    BY <1>1 DEF DispatchInv, HolderInv
  <2> QED
    BY <1>1, <1>2, <1>4, <2>1, <2>2 DEF DispatchInv, DispatchTypeOK, MemoryInv
<1> QED
  BY <1>3, <1>5, <1>6, <1>7 DEF DispatchInv

LEMMA CompletePreserves ==
  ASSUME DispatchInv, NEW d \in Dispatches, Complete(d)
  PROVE  DispatchInv'
<1> USE DispatchAssumption
<1>1. /\ progress[d] = "complete" /\ Holds(d) /\ d \in succeeded
      /\ progress' = [progress EXCEPT ![d] = "done"] /\ answer' = [answer EXCEPT ![d] = d]
      /\ UNCHANGED <<store, succeeded, interrupts>>
  BY DEF Complete, Answer, Holds, DispatchInv, ResultInv
<1>2. record # NoRecord /\ record \in Record /\ record.payload = PayloadOf[d]
  BY <1>1 DEF DispatchInv, DispatchTypeOK, HolderInv
<1>3. record' = [state |-> "completed", payload |-> PayloadOf[d], result |-> d, ttl |-> Ttl]
  BY <1>2 DEF Complete, Claimed, Record
<1>4. record' \in Record /\ record' # NoRecord
  BY <1>3 DEF Record, DispatchAssumption
<1>5. DispatchTypeOK'
  BY <1>1, <1>3, <1>4 DEF DispatchInv, DispatchTypeOK, DispatchAssumption
<1>6. \A e \in Dispatches : ~Holds(e)'
  BY <1>1 DEF DispatchInv, DispatchTypeOK, HolderInv, Holds
<1>7. HolderInv' /\ MemoryInv'
  BY <1>1, <1>4, <1>6 DEF DispatchInv, HolderInv, MemoryInv
<1>8. ResultInv'
  BY <1>1, <1>3 DEF DispatchInv, DispatchTypeOK, ResultInv, ReplayIsFaithful
<1> QED
  BY <1>5, <1>7, <1>8 DEF DispatchInv

LEMMA ReleasePreserves ==
  ASSUME DispatchInv, NEW d \in Dispatches, ReleaseKey(d)
  PROVE  DispatchInv'
<1> USE DispatchAssumption
<1>1. /\ progress[d] = "release" /\ Holds(d)
      /\ progress' = [progress EXCEPT ![d] = "done"] /\ answer' = [answer EXCEPT ![d] = "failed"]
      /\ UNCHANGED <<store, succeeded, interrupts>>
  BY DEF ReleaseKey, Answer, Holds
<1>2. record' = NoRecord
  BY <1>1 DEF ReleaseKey, DispatchInv, HolderInv
<1>3. DispatchTypeOK'
  BY <1>1, <1>2 DEF DispatchInv, DispatchTypeOK, Refusals
<1>4. \A e \in Dispatches : ~Holds(e)'
  BY <1>1 DEF DispatchInv, DispatchTypeOK, HolderInv, Holds
<1>5. store = "memory" => succeeded = {}
  BY <1>1 DEF DispatchInv, MemoryInv
<1>6. HolderInv' /\ MemoryInv'
  BY <1>1, <1>4, <1>5 DEF HolderInv, MemoryInv
<1>7. ResultInv'
  BY <1>1, <1>2 DEF DispatchInv, DispatchTypeOK, ResultInv, ReplayIsFaithful, DispatchAssumption, Refusals
<1> QED
  BY <1>3, <1>6, <1>7 DEF DispatchInv

\* A record ages only while nobody who holds it would outlive it.
LEMMA AgesPreserves == ASSUME Prompt PROVE DispatchInv /\ (ClaimAges \/ Purge) => DispatchInv'
<1> USE DispatchAssumption
<1> SUFFICES ASSUME DispatchInv, ClaimAges \/ Purge PROVE DispatchInv'
  OBVIOUS
<1>1. UNCHANGED <<store, progress, answer, succeeded, interrupts>> /\ store = "postgres"
  BY DEF ClaimAges, Purge
<1>2. \A e \in Dispatches : Holds(e)' <=> Holds(e)
  BY <1>1 DEF Holds
<1>3. record \in Record /\ record # NoRecord
  BY DEF DispatchInv, DispatchTypeOK, ClaimAges, Purge
<1>4. CASE ClaimAges
  <2>1. record' = [record EXCEPT !.ttl = @ - 1] /\ record.ttl > 0
        /\ (record.ttl > 1 \/ \A e \in Dispatches : ~Holds(e))
    BY <1>4 DEF ClaimAges
  <2>2. record' \in Record /\ record'.state = record.state /\ record'.payload = record.payload
        /\ record'.result = record.result /\ record'.ttl = record.ttl - 1 /\ record.ttl \in Nat
    BY <1>3, <2>1 DEF Record, DispatchAssumption
  <2>3. record' # NoRecord
    BY <2>2 DEF DispatchAssumption
  <2>4. DispatchTypeOK'
    BY <1>1, <1>3, <2>2, <2>3 DEF DispatchInv, DispatchTypeOK
  <2>5. HolderInv'
    BY <1>1, <1>2, <2>1, <2>2, <2>3 DEF DispatchInv, HolderInv
  <2>6. ResultInv' /\ MemoryInv'
    BY <1>1, <1>3, <2>2 DEF DispatchInv, ResultInv, MemoryInv, ReplayIsFaithful
  <2> QED
    BY <2>4, <2>5, <2>6 DEF DispatchInv
<1>5. CASE Purge
  <2>1. record' = NoRecord /\ record.ttl = 0
    BY <1>5 DEF Purge
  <2>2. \A e \in Dispatches : ~Holds(e)
    BY <2>1 DEF DispatchInv, HolderInv
  <2>3. DispatchTypeOK' /\ HolderInv' /\ ResultInv' /\ MemoryInv'
    BY <1>1, <1>2, <2>1, <2>2 DEF DispatchInv, DispatchTypeOK, HolderInv, ResultInv, MemoryInv, ReplayIsFaithful
  <2> QED
    BY <2>3 DEF DispatchInv
<1> QED
  BY <1>4, <1>5

LEMMA DispatchInvariance == ASSUME Prompt PROVE DispatchSpec => []DispatchInv
<1>1. DispatchInv /\ [DispatchNext]_dispatchVars => DispatchInv'
  <2> SUFFICES ASSUME DispatchInv, [DispatchNext]_dispatchVars PROVE DispatchInv'
    OBVIOUS
  <2>1. CASE UNCHANGED dispatchVars
    BY <2>1 DEF dispatchVars, DispatchInv, DispatchTypeOK, HolderInv, ResultInv, MemoryInv, ReplayIsFaithful, Holds
  <2>2. CASE DispatchNext
    BY <2>2, AdmitPreserves, BeginPreserves, HandlePreserves, CompletePreserves, ReleasePreserves, AgesPreserves
       DEF DispatchNext
  <2> QED
    BY <2>1, <2>2
<1> QED
  BY <1>1, DispatchStarts, PTL DEF DispatchSpec

(***************************************************************************)
(* One run at a time under an idempotency key, one success where records   *)
(* do not expire, and every caller told of a success gets the result of a  *)
(* handler that succeeded on the caller's own payload (bus.ts idempotent,  *)
(* and both stores): for every set of dispatches, payloads and interrupts, *)
(* provided no handler outlives the record it claimed (Prompt).            *)
(***************************************************************************)
THEOREM KeysAreHonoured == ASSUME Prompt PROVE DispatchSpec => []DispatchesOnce
<1>1. ASSUME DispatchInv PROVE DispatchesOnce
  <2>1. OneRunAtATime
    BY <1>1 DEF DispatchInv, HolderInv, OneRunAtATime
  <2>2. SucceedsOnce
    <3> SUFFICES ASSUME store = "memory" PROVE Cardinality(succeeded) <= 1
      BY DEF SucceedsOnce
    <3>1. CASE succeeded = {}
      BY <3>1, FS_EmptySet
    <3>2. CASE succeeded # {}
      <4>1. PICK d \in succeeded : TRUE
        BY <3>2
      <4>2. succeeded = {d}
        BY <1>1, <4>1 DEF DispatchInv, MemoryInv
      <4> QED
        BY <4>2, FS_Singleton
    <3> QED
      BY <3>1, <3>2
  <2> QED
    BY <1>1, <2>1, <2>2 DEF DispatchInv, ResultInv, DispatchesOnce
<1> QED
  BY <1>1, DispatchInvariance, PTL

-----------------------------------------------------------------------------
\* The job queue.

\* Only an abandoned drain has rows to give back.
OnlyAbandonedRelease == \A w \in Workers : toRelease[w] # {} => phase[w] = "abandoning"

\* The worker of slot s gave up its drain, or is past it.
GaveUp(s) == phase[s[1]] \in {"abandoning", "drained"}

\* A one-shot job a slot is busy with.
Hold(s, j) == execution[s] # "idle" /\ jobRow[s].job = j

\* While nothing failed and no heartbeat was late, a busy slot holds the row of
\* its job under a lease that runs, unless the row is gone or the worker gave
\* up; so no second worker can have claimed it.
FlightInv ==
    faults = 0 => \A j \in Jobs \ Recurring : \A s \in Slots :
        /\ Hold(s, j) => \/ status[j] = "gone" \/ GaveUp(s)
                         \/ status[j] = "running" /\ owner[j] = s /\ lease[j] > 0
        /\ \A t \in Slots : Hold(s, j) /\ Hold(t, j) /\ s # t => GaveUp(s) \/ GaveUp(t)

JobsInv == JobsTypeOK /\ EndsAreExclusive /\ OnlyAbandonedRelease /\ FlightInv

LEMMA SlotsAreOfWorkers ==
  /\ \A s \in Slots : s[1] \in Workers
  /\ \A w \in Workers : SlotsOf(w) \subseteq Slots /\ \A s \in SlotsOf(w) : s[1] = w
  BY DEF Slots, SlotsOf

\* A worker asks for no more rows than it has slots.
LEMMA FreeSlotsBound ==
  ASSUME NEW w \in Workers
  PROVE  Cardinality(FreeSlots(w)) \in 0..Concurrency
<1> USE JobsAssumption
<1> DEFINE f == [n \in 1..Concurrency |-> <<w, n>>]
<1>1. Concurrency \in Nat
  BY DEF JobsAssumption
<1>2. IsFiniteSet(1..Concurrency) /\ Cardinality(1..Concurrency) = Concurrency
  BY <1>1, FS_Interval
<1>3. f \in Surjection(1..Concurrency, SlotsOf(w))
  <2>1. f \in [1..Concurrency -> SlotsOf(w)]
    BY DEF SlotsOf, Slots
  <2>2. ASSUME NEW s \in SlotsOf(w) PROVE \E n \in 1..Concurrency : f[n] = s
    <3>1. PICK v \in Workers, n \in 1..Concurrency : s = <<v, n>>
      BY DEF SlotsOf, Slots
    <3> QED
      BY <3>1 DEF SlotsOf
  <2> QED
    BY <2>1, <2>2 DEF Surjection
<1> HIDE DEF f
<1>4. IsFiniteSet(SlotsOf(w)) /\ Cardinality(SlotsOf(w)) <= Concurrency
  BY <1>2, <1>3, FS_Surjection
<1>5. FreeSlots(w) \subseteq SlotsOf(w)
  BY DEF FreeSlots
<1>6. IsFiniteSet(FreeSlots(w)) /\ Cardinality(FreeSlots(w)) <= Cardinality(SlotsOf(w))
  BY <1>4, <1>5, FS_Subset
<1>7. Cardinality(FreeSlots(w)) \in Nat /\ Cardinality(SlotsOf(w)) \in Nat
  BY <1>4, <1>6, FS_CardinalityType
<1> QED
  BY <1>1, <1>4, <1>6, <1>7

LEMMA JobsStart == JobsInit => JobsInv
<1> USE JobsAssumption
<1> SUFFICES ASSUME JobsInit PROVE JobsInv
  OBVIOUS
<1>1. (CHOOSE n \in Names : TRUE) \in Names
  BY DEF JobsAssumption
<1>2. JobsTypeOK
  BY <1>1 DEF JobsInit, JobsTypeOK, JobsAssumption
<1>3. EndsAreExclusive /\ OnlyAbandonedRelease /\ FlightInv
  BY DEF JobsInit, EndsAreExclusive, OnlyAbandonedRelease, FlightInv, Hold
<1> QED
  BY <1>2, <1>3 DEF JobsInv

\* What a claim into slots does: every row of the batch runs for the free slot
\* it was claimed into, and no other slot or row changes.
LEMMA ClaimEffect ==
  ASSUME JobsTypeOK, NEW batch \in SUBSET Jobs, NEW slot \in [batch -> Slots], ClaimInto(batch, slot)
  PROVE  /\ attempt' \in [Jobs -> 0..JobAttempts]
         /\ execution' \in [Slots -> {"idle", "fetched", "handler", "success", "retry", "dead"}]
         /\ jobRow' \in [Slots -> Row \union {NoRow}]
         /\ \A j \in batch : execution'[slot[j]] = "fetched" /\ jobRow'[slot[j]] \in Row
                             /\ jobRow'[slot[j]].job = j
         /\ \A s \in Slots : (\A j \in batch : slot[j] # s)
                => execution'[s] = execution[s] /\ jobRow'[s] = jobRow[s]
<1> USE JobsAssumption
<1> DEFINE taken == {slot[j] : j \in batch}
           jobIn(s) == CHOOSE j \in batch : slot[j] = s
<1>1. /\ attempt' = [j \in Jobs |-> IF j \in batch THEN Started(j).attempt ELSE attempt[j]]
      /\ execution' = [s \in Slots |-> IF s \in taken THEN "fetched" ELSE execution[s]]
      /\ jobRow' = [s \in Slots |-> IF s \in taken THEN Started(jobIn(s)) ELSE jobRow[s]]
  BY DEF ClaimInto
<1>2. ASSUME NEW j \in Jobs PROVE Started(j) \in Row /\ Started(j).job = j
  <2>1. AtMostRuns(attempt[j] + 1, JobAttempts) \in 1..JobAttempts
    BY DEF JobsTypeOK, JobsAssumption, AtMostRuns
  <2> QED
    BY <2>1 DEF Started, Row, JobsTypeOK
<1>3. ASSUME NEW j \in batch PROVE slot[j] \in taken /\ jobIn(slot[j]) = j
  BY DEF ClaimInto
<1>4. ASSUME NEW s \in taken PROVE jobIn(s) \in batch
  OBVIOUS
<1>5. ASSUME NEW s \in Slots, \A j \in batch : slot[j] # s PROVE s \notin taken
  BY <1>5
<1> HIDE DEF taken, jobIn
<1>6. attempt' \in [Jobs -> 0..JobAttempts]
  <2>1. \A j \in batch : Started(j).attempt \in 1..JobAttempts
    BY <1>2 DEF Row
  <2> QED
    BY <1>1, <2>1 DEF JobsTypeOK, JobsAssumption
<1>7. execution' \in [Slots -> {"idle", "fetched", "handler", "success", "retry", "dead"}]
  BY <1>1 DEF JobsTypeOK
<1>8. jobRow' \in [Slots -> Row \union {NoRow}]
  BY <1>1, <1>2, <1>4 DEF JobsTypeOK
<1>9. ASSUME NEW j \in batch
      PROVE  execution'[slot[j]] = "fetched" /\ jobRow'[slot[j]] \in Row /\ jobRow'[slot[j]].job = j
  <2>1. jobRow'[slot[j]] = Started(j) /\ execution'[slot[j]] = "fetched"
    BY <1>1, <1>3
  <2> QED
    BY <2>1, <1>2
<1>10. ASSUME NEW s \in Slots, \A j \in batch : slot[j] # s
       PROVE  execution'[s] = execution[s] /\ jobRow'[s] = jobRow[s]
  BY <1>1, <1>5, <1>10
<1> QED
  BY <1>6, <1>7, <1>8, <1>9, <1>10

\* The executions of a worker end: its slots are free, the others as they were.
LEMMA AbortEffect ==
  ASSUME JobsTypeOK, NEW w \in Workers, AbortRuns(w)
  PROVE  /\ ask' \in [Workers -> 0..Concurrency]
         /\ execution' \in [Slots -> {"idle", "fetched", "handler", "success", "retry", "dead"}]
         /\ jobRow' \in [Slots -> Row \union {NoRow}]
         /\ toRelease' \in [Workers -> SUBSET Slots] /\ toRelease'[w] = {}
         /\ \A v \in Workers \ {w} : toRelease'[v] = toRelease[v]
         /\ \A s \in Slots : /\ s[1] = w => execution'[s] = "idle" /\ jobRow'[s] = NoRow
                             /\ s[1] # w => execution'[s] = execution[s] /\ jobRow'[s] = jobRow[s]
<1> USE JobsAssumption
<1>1. \A s \in Slots : s \in SlotsOf(w) <=> s[1] = w
  BY DEF SlotsOf
<1>2. ask' \in [Workers -> 0..Concurrency] /\ toRelease' \in [Workers -> SUBSET Slots]
  BY DEF AbortRuns, JobsTypeOK, JobsAssumption
<1>3. \A s \in Slots : /\ s[1] = w => execution'[s] = "idle" /\ jobRow'[s] = NoRow
                       /\ s[1] # w => execution'[s] = execution[s] /\ jobRow'[s] = jobRow[s]
  BY <1>1 DEF AbortRuns
<1>4. /\ execution' \in [Slots -> {"idle", "fetched", "handler", "success", "retry", "dead"}]
      /\ jobRow' \in [Slots -> Row \union {NoRow}]
  BY DEF AbortRuns, JobsTypeOK
<1>5. toRelease'[w] = {} /\ \A v \in Workers \ {w} : toRelease'[v] = toRelease[v]
  BY DEF AbortRuns, JobsTypeOK
<1> QED
  BY <1>2, <1>3, <1>4, <1>5

LEMMA TypeOfScheduling ==
  ASSUME JobsTypeOK, NEW j \in Jobs,
         \/ \E n \in Names, d \in 0..MaxWait : Schedule(j, n, d)
         \/ \E n \in Names, d \in 1..MaxWait : Recur(j, n, d)
         \/ Cancel(j)
  PROVE  JobsTypeOK'
<1> USE JobsAssumption
<1>1. ASSUME NEW n \in Names, NEW d \in 0..MaxWait, Schedule(j, n, d) PROVE JobsTypeOK'
  BY <1>1 DEF JobsTypeOK, Schedule, workerVars, ghosts, jobCounters
<1>2. ASSUME NEW n \in Names, NEW d \in 1..MaxWait, Recur(j, n, d) PROVE JobsTypeOK'
  BY <1>2 DEF JobsTypeOK, JobsAssumption, Recur, workerVars
<1>3. CASE Cancel(j)
  BY <1>3 DEF JobsTypeOK, JobsAssumption, Cancel, Delete, workerVars
<1> QED
  BY <1>1, <1>2, <1>3

LEMMA TypeOfWorker ==
  ASSUME JobsTypeOK, NEW w \in Workers, WorkerStep(w) \/ WorkerFails(w) \/ WorkerCrash(w) \/ Shutdown(w)
  PROVE  JobsTypeOK'
<1> USE JobsAssumption
<1>1. CASE Poll(w)
  BY <1>1, FreeSlotsBound DEF JobsTypeOK, Poll, tableVars, ghosts, jobCounters
<1>2. CASE ClaimJobs(w)
  <2>1. PICK batch \in SUBSET ClaimableJobs : \E slot \in [batch -> FreeSlots(w) \ toRelease[w]] :
           ClaimInto(batch, slot)
    BY <1>2 DEF ClaimJobs
  <2>2. PICK slot \in [batch -> FreeSlots(w) \ toRelease[w]] : ClaimInto(batch, slot)
    BY <2>1
  <2>3. batch \in SUBSET Jobs /\ slot \in [batch -> Slots]
    BY DEF ClaimableJobs, FreeSlots, SlotsOf
  <2>4. /\ attempt' \in [Jobs -> 0..JobAttempts]
        /\ execution' \in [Slots -> {"idle", "fetched", "handler", "success", "retry", "dead"}]
        /\ jobRow' \in [Slots -> Row \union {NoRow}]
    BY <2>2, <2>3, ClaimEffect
  <2>5. /\ status' \in [Jobs -> {"absent", "queued", "running", "gone"}]
        /\ owner' \in [Jobs -> Slots \union {NoSlot}]
        /\ lease' \in [Jobs -> 0..JobLease]
    BY <2>2, <2>3 DEF ClaimInto, JobsTypeOK, JobsAssumption
  <2>6. \A s \in Slots : jobRow'[s] = NoRow <=> execution'[s] = "idle"
    <3> SUFFICES ASSUME NEW s \in Slots PROVE jobRow'[s] = NoRow <=> execution'[s] = "idle"
      OBVIOUS
    <3>1. CASE \A j \in batch : slot[j] # s
      <4>1. execution'[s] = execution[s] /\ jobRow'[s] = jobRow[s]
        BY <3>1, <2>2, <2>3, ClaimEffect
      <4> QED
        BY <4>1 DEF JobsTypeOK
    <3>2. CASE \E j \in batch : slot[j] = s
      <4>1. execution'[s] = "fetched" /\ jobRow'[s] \in Row
        BY <3>2, <2>2, <2>3, ClaimEffect
      <4> QED
        BY <4>1 DEF JobsAssumption
    <3> QED
      BY <3>1, <3>2
  <2>7. ask' \in [Workers -> 0..Concurrency]
    BY <1>2 DEF ClaimJobs, JobsTypeOK, JobsAssumption
  <2> QED
    BY <1>2, <2>4, <2>5, <2>6, <2>7 DEF JobsTypeOK, ClaimJobs, ghosts, jobCounters
<1>3. CASE StartRuns(w)
  <2>1. execution' \in [Slots -> {"idle", "fetched", "handler", "success", "retry", "dead"}]
    BY <1>3 DEF StartRuns, JobsTypeOK
  <2>2. \A s \in Slots : execution'[s] = "idle" <=> execution[s] = "idle"
    BY <1>3 DEF StartRuns, JobsTypeOK
  <2> QED
    BY <1>3, <2>1, <2>2 DEF JobsTypeOK, StartRuns, tableVars, ghosts, jobCounters
<1>4. CASE Drained(w)
  BY <1>4 DEF JobsTypeOK, Drained, tableVars, ghosts, jobCounters
<1>5. CASE AbandonDrain(w)
  <2>1. InFlight(w) \subseteq Slots
    BY DEF InFlight, SlotsOf
  <2> QED
    BY <1>5, <2>1 DEF JobsTypeOK, AbandonDrain, tableVars, ghosts, jobCounters
<1>6. CASE Abandoned(w)
  <2>1. faults' \in 0..MaxFaults
    BY <1>6 DEF JobsTypeOK, JobsAssumption, Abandoned
  <2> QED
    BY <1>6, <2>1 DEF JobsTypeOK, Abandoned, tableVars, ghosts
<1>7. CASE WorkerExit(w)
  <2>1. AbortRuns(w)
    BY <1>7 DEF WorkerExit
  <2> QED
    BY <1>7, <2>1, AbortEffect DEF JobsTypeOK, WorkerExit, tableVars, ghosts, jobCounters
<1>8. CASE WorkerFails(w)
  <2>1. AbortRuns(w) /\ faults' \in 0..MaxFaults
    BY <1>8 DEF WorkerFails, JobsTypeOK, JobsAssumption
  <2> QED
    BY <1>8, <2>1, AbortEffect DEF JobsTypeOK, WorkerFails, tableVars, ghosts
<1>9. CASE WorkerCrash(w)
  <2>1. AbortRuns(w) /\ faults' \in 0..MaxFaults
    BY <1>9 DEF WorkerCrash, JobsTypeOK, JobsAssumption
  <2> QED
    BY <1>9, <2>1, AbortEffect DEF JobsTypeOK, WorkerCrash, tableVars, ghosts
<1>10. CASE Shutdown(w)
  <2>1. shutdowns' \in 0..MaxShutdowns
    BY <1>10 DEF Shutdown, JobsTypeOK, JobsAssumption
  <2> QED
    BY <1>10, <2>1 DEF JobsTypeOK, Shutdown, tableVars, ghosts
<1> QED
  BY <1>1, <1>2, <1>3, <1>4, <1>5, <1>6, <1>7, <1>8, <1>9, <1>10 DEF WorkerStep

\* A busy slot has a row, of a job.
LEMMA RowOfBusy ==
  ASSUME JobsTypeOK, NEW s \in Slots, execution[s] # "idle"
  PROVE  jobRow[s] \in Row /\ jobRow[s].job \in Jobs
  BY DEF JobsTypeOK, Row

LEMMA TypeOfExecution ==
  ASSUME JobsTypeOK, NEW s \in Slots, Heartbeat(s) \/ HandleJob(s) \/ SettleRun(s) \/ ReleaseRow(s)
  PROVE  JobsTypeOK'
<1> USE JobsAssumption
<1>1. CASE Heartbeat(s)
  <2>1. jobRow[s].job \in Jobs
    BY <1>1, RowOfBusy DEF Heartbeat, ActiveRow
  <2> QED
    BY <1>1, <2>1 DEF JobsTypeOK, JobsAssumption, Heartbeat, workerVars, ghosts, jobCounters
<1>2. CASE HandleJob(s)
  <2>1. \E e \in {"success", "dead", "retry"} : execution' = [execution EXCEPT ![s] = e]
    BY <1>2 DEF HandleJob
  <2>2. execution[s] # "idle"
    BY <1>2 DEF HandleJob
  <2> QED
    BY <1>2, <2>1, <2>2 DEF JobsTypeOK, HandleJob, tableVars, ghosts, jobCounters
<1>3. CASE CompleteSuccess(s)
  <2>1. jobRow[s].job \in Jobs
    BY <1>3, RowOfBusy DEF CompleteSuccess
  <2> DEFINE j == jobRow[s].job
  <2>2. j \in Jobs
    BY <2>1
  <2>3. /\ status' \in [Jobs -> {"absent", "queued", "running", "gone"}]
        /\ owner' \in [Jobs -> Slots \union {NoSlot}]
        /\ lease' \in [Jobs -> 0..JobLease]
        /\ due' \in [Jobs -> 0..MaxWait]
        /\ attempt' \in [Jobs -> 0..JobAttempts]
        /\ completed' \subseteq Jobs
    <3> HIDE DEF j
    <3>1. \/ Delete(j) /\ completed' = completed \union {j} /\ UNCHANGED <<attempt, due>>
          \/ /\ \E d \in 1..MaxWait : Requeue(j, d)
             /\ attempt' = [attempt EXCEPT ![j] = 0] /\ UNCHANGED completed
          \/ UNCHANGED <<status, attempt, due, owner, lease, completed>>
      BY <1>3 DEF CompleteSuccess, j
    <3> QED
      BY <2>2, <3>1 DEF JobsTypeOK, JobsAssumption, Delete, Requeue
  <2>4. /\ execution' = [execution EXCEPT ![s] = "idle"] /\ jobRow' = [jobRow EXCEPT ![s] = NoRow]
        /\ UNCHANGED <<name, payload, deadLetters, ask, phase, toRelease, cancelled, faults, shutdowns,
                       operations>>
    BY <1>3 DEF CompleteSuccess, Free, jobCounters
  <2> QED
    BY <2>3, <2>4 DEF JobsTypeOK
<1>4. CASE RescheduleRetry(s)
  <2>1. jobRow[s].job \in Jobs
    BY <1>4, RowOfBusy DEF RescheduleRetry
  <2>2. /\ status' \in [Jobs -> {"absent", "queued", "running", "gone"}]
        /\ owner' \in [Jobs -> Slots \union {NoSlot}]
        /\ lease' \in [Jobs -> 0..JobLease]
        /\ due' \in [Jobs -> 0..MaxWait]
    BY <1>4, <2>1 DEF RescheduleRetry, Requeue, JobsTypeOK, JobsAssumption
  <2>3. /\ execution' = [execution EXCEPT ![s] = "idle"] /\ jobRow' = [jobRow EXCEPT ![s] = NoRow]
        /\ UNCHANGED <<name, payload, attempt, deadLetters, ask, phase, toRelease, completed, cancelled,
                       faults, shutdowns, operations>>
    BY <1>4 DEF RescheduleRetry, Free, ghosts, jobCounters
  <2> QED
    BY <2>2, <2>3 DEF JobsTypeOK
<1>5. CASE DeadLetter(s)
  <2>1. jobRow[s].job \in Jobs
    BY <1>5, RowOfBusy DEF DeadLetter
  <2>2. /\ status' \in [Jobs -> {"absent", "queued", "running", "gone"}]
        /\ owner' \in [Jobs -> Slots \union {NoSlot}]
        /\ lease' \in [Jobs -> 0..JobLease]
        /\ deadLetters' \subseteq Jobs
    BY <1>5, <2>1 DEF DeadLetter, Delete, JobsTypeOK, JobsAssumption
  <2>3. /\ execution' = [execution EXCEPT ![s] = "idle"] /\ jobRow' = [jobRow EXCEPT ![s] = NoRow]
        /\ UNCHANGED <<name, payload, attempt, due, ask, phase, toRelease, completed, cancelled,
                       faults, shutdowns, operations>>
    BY <1>5 DEF DeadLetter, Free, ghosts, jobCounters
  <2> QED
    BY <2>2, <2>3 DEF JobsTypeOK
<1>6. CASE ReleaseRow(s)
  <2>1. toRelease' \in [Workers -> SUBSET Slots]
    BY <1>6 DEF ReleaseRow, JobsTypeOK
  <2>2. /\ status' \in [Jobs -> {"absent", "queued", "running", "gone"}]
        /\ owner' \in [Jobs -> Slots \union {NoSlot}]
        /\ lease' \in [Jobs -> 0..JobLease]
        /\ due' \in [Jobs -> 0..MaxWait]
    BY <1>6, RowOfBusy DEF ReleaseRow, Requeue, JobsTypeOK, JobsAssumption
  <2> QED
    BY <1>6, <2>1, <2>2 DEF ReleaseRow, JobsTypeOK, ghosts, jobCounters
<1> QED
  BY <1>1, <1>2, <1>3, <1>4, <1>5, <1>6 DEF SettleRun

LEMMA TypeOfTick == JobsTypeOK /\ JobTick => JobsTypeOK'
<1> USE JobsAssumption
<1> SUFFICES ASSUME JobsTypeOK, JobTick PROVE JobsTypeOK'
  OBVIOUS
<1>1. faults' \in 0..MaxFaults
  BY DEF JobTick, JobsTypeOK, JobsAssumption
<1>2. ASSUME NEW n \in Nat, NEW m \in 0..n PROVE Earlier(m) \in 0..n
  BY DEF Earlier
<1>3. due' \in [Jobs -> 0..MaxWait] /\ lease' \in [Jobs -> 0..JobLease]
  BY <1>2 DEF JobTick, JobsTypeOK, JobsAssumption
<1> QED
  BY <1>1, <1>3 DEF JobsTypeOK, JobTick, workerVars, ghosts

LEMMA TypeStep == JobsTypeOK /\ JobsNext => JobsTypeOK'
<1> SUFFICES ASSUME JobsTypeOK, JobsNext PROVE JobsTypeOK'
  OBVIOUS
<1>1. ASSUME NEW j \in Jobs, NEW n \in Names, NEW d \in 0..MaxWait, Schedule(j, n, d) PROVE JobsTypeOK'
  BY <1>1, TypeOfScheduling
<1>2. ASSUME NEW j \in Jobs, NEW n \in Names, NEW d \in 1..MaxWait, Recur(j, n, d) PROVE JobsTypeOK'
  BY <1>2, TypeOfScheduling
<1>3. ASSUME NEW j \in Jobs, Cancel(j) PROVE JobsTypeOK'
  BY <1>3, TypeOfScheduling
<1> QED
  BY <1>1, <1>2, <1>3, TypeOfWorker, TypeOfExecution, TypeOfTick DEF JobsNext

-----------------------------------------------------------------------------
\* Ends.

\* The three ends of a one-shot job are told apart, and are those of a row that
\* is gone.
EndOf(j) ==
    /\ (j \in completed \/ j \in deadLetters \/ j \in cancelled) <=> status[j] = "gone"
    /\ ~(j \in completed /\ j \in deadLetters)
    /\ ~(j \in completed /\ j \in cancelled)
    /\ ~(j \in deadLetters /\ j \in cancelled)

LEMMA EndsCounted == EndsAreExclusive <=> \A j \in Jobs \ Recurring : EndOf(j)
  BY DEF EndsAreExclusive, EndOf

LEMMA EndsStep == JobsTypeOK /\ EndsAreExclusive /\ JobsNext => EndsAreExclusive'
<1> SUFFICES ASSUME JobsTypeOK, JobsNext, NEW j \in Jobs \ Recurring, EndOf(j) PROVE EndOf(j)'
  BY EndsCounted DEF EndsAreExclusive, EndOf
<1>1. ASSUME status'[j] = "gone" <=> status[j] = "gone", UNCHANGED <<completed, deadLetters, cancelled>>
      PROVE  EndOf(j)'
  BY <1>1 DEF EndOf
<1>2. ASSUME NEW k \in Jobs, NEW n \in Names, NEW d \in 0..MaxWait, Schedule(k, n, d) PROVE EndOf(j)'
  <2>1. (status'[j] = "gone" <=> status[j] = "gone") /\ UNCHANGED <<completed, deadLetters, cancelled>>
    BY <1>2 DEF Schedule, JobsTypeOK, ghosts
  <2> QED
    BY <2>1, <1>1
<1>3. ASSUME NEW k \in Jobs, NEW n \in Names, NEW d \in 1..MaxWait, Recur(k, n, d) PROVE EndOf(j)'
  BY <1>3 DEF EndOf, Recur, JobsTypeOK
<1>4. ASSUME NEW k \in Jobs, Cancel(k) PROVE EndOf(j)'
  BY <1>4 DEF EndOf, Cancel, Present, Delete, JobsTypeOK
<1>5. ASSUME NEW w \in Workers, WorkerStep(w) \/ WorkerFails(w) \/ WorkerCrash(w) \/ Shutdown(w)
      PROVE  EndOf(j)'
  <2>1. CASE ClaimJobs(w)
    <3>1. PICK batch \in SUBSET ClaimableJobs :
             status' = [k \in Jobs |-> IF k \in batch THEN "running" ELSE status[k]]
      BY <2>1 DEF ClaimJobs, ClaimInto
    <3>2. j \in batch => status[j] # "gone"
      BY DEF ClaimableJobs
    <3> QED
      BY <2>1, <3>1, <3>2, <1>1 DEF ClaimJobs, ghosts
  <2>2. CASE ~ClaimJobs(w)
    BY <1>1, <1>5, <2>2 DEF WorkerStep, Poll, StartRuns, Drained, AbandonDrain, Abandoned, WorkerExit,
       WorkerFails, WorkerCrash, Shutdown, tableVars, ghosts
  <2> QED
    BY <2>1, <2>2
<1>6. ASSUME NEW s \in Slots, Heartbeat(s) \/ HandleJob(s) \/ SettleRun(s) \/ ReleaseRow(s)
      PROVE  EndOf(j)'
  <2>1. CASE Heartbeat(s) \/ HandleJob(s)
    BY <2>1, <1>1 DEF Heartbeat, HandleJob, tableVars, ghosts
  <2>2. CASE CompleteSuccess(s)
    <3> DEFINE k == jobRow[s].job
    <3>1. k \in Jobs
      BY <2>2, RowOfBusy DEF CompleteSuccess
    <3> HIDE DEF k
    <3>2. \/ status[k] = "running" /\ status' = [status EXCEPT ![k] = "gone"] /\ completed' = completed \union {k}
          \/ status[k] = "running" /\ status' = [status EXCEPT ![k] = "queued"] /\ completed' = completed
          \/ UNCHANGED <<status, completed>>
      BY <2>2 DEF CompleteSuccess, OwnsRow, Delete, Requeue, k
    <3>3. UNCHANGED <<deadLetters, cancelled>>
      BY <2>2 DEF CompleteSuccess
    <3> QED
      BY <3>1, <3>2, <3>3 DEF EndOf, JobsTypeOK
  <2>3. CASE RescheduleRetry(s)
    <3>1. jobRow[s].job \in Jobs
      BY <2>3, RowOfBusy DEF RescheduleRetry
    <3>2. status'[j] = "gone" <=> status[j] = "gone"
      BY <2>3, <3>1 DEF RescheduleRetry, OwnsRow, Requeue, JobsTypeOK
    <3> QED
      BY <2>3, <3>2, <1>1 DEF RescheduleRetry, ghosts
  <2>4. CASE DeadLetter(s)
    <3> DEFINE k == jobRow[s].job
    <3>1. k \in Jobs
      BY <2>4, RowOfBusy DEF DeadLetter
    <3> HIDE DEF k
    <3>2. \/ status[k] = "running" /\ status' = [status EXCEPT ![k] = "gone"]
                                   /\ deadLetters' = deadLetters \union {k}
          \/ UNCHANGED <<status, deadLetters>>
      BY <2>4 DEF DeadLetter, OwnsRow, Delete, k
    <3>3. UNCHANGED <<completed, cancelled>>
      BY <2>4 DEF DeadLetter, ghosts
    <3> QED
      BY <3>1, <3>2, <3>3 DEF EndOf, JobsTypeOK
  <2>5. CASE ReleaseRow(s)
    <3>1. status'[j] = "gone" <=> status[j] = "gone"
      BY <2>5, RowOfBusy DEF ReleaseRow, OwnsRow, Requeue, JobsTypeOK
    <3> QED
      BY <2>5, <3>1, <1>1 DEF ReleaseRow, ghosts
  <2> QED
    BY <1>6, <2>1, <2>2, <2>3, <2>4, <2>5 DEF SettleRun
<1>7. CASE JobTick
  BY <1>7, <1>1 DEF JobTick, ghosts
<1> QED
  BY <1>2, <1>3, <1>4, <1>5, <1>6, <1>7 DEF JobsNext

-----------------------------------------------------------------------------
\* The fence.

LEMMA ReleaseStep == JobsTypeOK /\ OnlyAbandonedRelease /\ JobsNext => OnlyAbandonedRelease'
<1> SUFFICES ASSUME JobsTypeOK, OnlyAbandonedRelease, JobsNext, NEW v \in Workers, toRelease'[v] # {}
             PROVE  phase'[v] = "abandoning"
  BY DEF OnlyAbandonedRelease
<1>1. toRelease[v] # {} => phase[v] = "abandoning"
  BY DEF OnlyAbandonedRelease
<1>2. CASE UNCHANGED <<toRelease, phase>>
  BY <1>1, <1>2
<1>3. ASSUME NEW w \in Workers, WorkerStep(w) \/ WorkerFails(w) \/ WorkerCrash(w) \/ Shutdown(w)
      PROVE  phase'[v] = "abandoning"
  <2>1. CASE AbortRuns(w) /\ \A u \in Workers \ {w} : phase'[u] = phase[u]
    BY <2>1, <1>1, AbortEffect
  <2>2. CASE WorkerExit(w) \/ WorkerFails(w) \/ WorkerCrash(w)
    <3>1. AbortRuns(w) /\ \A u \in Workers \ {w} : phase'[u] = phase[u]
      BY <2>2 DEF WorkerExit, WorkerFails, WorkerCrash, JobsTypeOK
    <3> QED
      BY <3>1, <2>1
  <2>3. CASE Drained(w) \/ Shutdown(w)
    <3>1. v = w => toRelease[v] = {}
      BY <2>3, <1>1 DEF Drained, Shutdown
    <3> QED
      BY <2>3, <3>1, <1>1 DEF Drained, Shutdown, JobsTypeOK
  <2>4. CASE AbandonDrain(w) \/ Abandoned(w)
    BY <2>4, <1>1 DEF AbandonDrain, Abandoned, JobsTypeOK
  <2>5. CASE Poll(w) \/ ClaimJobs(w) \/ StartRuns(w)
    BY <2>5, <1>2 DEF Poll, ClaimJobs, StartRuns
  <2> QED
    BY <1>3, <2>2, <2>3, <2>4, <2>5 DEF WorkerStep
<1>4. ASSUME NEW s \in Slots, ReleaseRow(s) PROVE phase'[v] = "abandoning"
  BY <1>4, <1>1, SlotsAreOfWorkers DEF ReleaseRow, JobsTypeOK
<1>5. CASE \E s \in Slots : Heartbeat(s) \/ HandleJob(s) \/ SettleRun(s)
  BY <1>5, <1>2 DEF Heartbeat, HandleJob, SettleRun, CompleteSuccess, RescheduleRetry, DeadLetter, workerVars
<1>6. CASE JobTick
  BY <1>6, <1>2 DEF JobTick, workerVars
<1>7. CASE \E j \in Jobs : Cancel(j) \/ \E n \in Names : \/ \E d \in 0..MaxWait : Schedule(j, n, d)
                                                        \/ \E d \in 1..MaxWait : Recur(j, n, d)
  BY <1>7, <1>2 DEF Cancel, Schedule, Recur, workerVars
<1> QED
  BY <1>3, <1>4, <1>5, <1>6, <1>7 DEF JobsNext

\* The rows a settlement or a release can touch: its own.
LEMMA OwnRowOnly ==
  ASSUME JobsTypeOK, NEW s \in Slots, SettleRun(s) \/ ReleaseRow(s)
  PROVE  /\ \A j \in Jobs : \/ status[j] = "running" /\ owner[j] = s /\ execution[s] # "idle" /\ jobRow[s].job = j
                            \/ status'[j] = status[j] /\ owner'[j] = owner[j] /\ lease'[j] = lease[j]
         /\ \A t \in Slots \ {s} : execution'[t] = execution[t] /\ jobRow'[t] = jobRow[t]
<1>1. CASE SettleRun(s)
  <2> DEFINE k == jobRow[s].job
  <2>1. execution[s] # "idle"
    BY <1>1 DEF SettleRun, CompleteSuccess, RescheduleRetry, DeadLetter
  <2>2. k \in Jobs
    BY <2>1, RowOfBusy
  <2>3. \A t \in Slots \ {s} : execution'[t] = execution[t] /\ jobRow'[t] = jobRow[t]
    BY <1>1 DEF SettleRun, CompleteSuccess, RescheduleRetry, DeadLetter, Free, JobsTypeOK
  <2>4. \/ UNCHANGED <<status, owner, lease>>
        \/ OwnsRow(s) /\ (Delete(k) \/ \E d \in 1..MaxWait : Requeue(k, d))
    BY <1>1 DEF SettleRun, CompleteSuccess, RescheduleRetry, DeadLetter
  <2>5. OwnsRow(s) => status[k] = "running" /\ owner[k] = s
    BY DEF OwnsRow
  <2> HIDE DEF k
  <2>6. \/ UNCHANGED <<status, owner, lease>>
        \/ \A j \in Jobs \ {k} : status'[j] = status[j] /\ owner'[j] = owner[j] /\ lease'[j] = lease[j]
    BY <2>4 DEF Delete, Requeue, JobsTypeOK
  <2> QED
    BY <2>1, <2>3, <2>4, <2>5, <2>6 DEF k
<1>2. CASE ReleaseRow(s)
  <2>1. UNCHANGED <<execution, jobRow>>
    BY <1>2 DEF ReleaseRow
  <2>2. CASE execution[s] # "idle" /\ OwnsRow(s)
    BY <1>2, <2>1, <2>2 DEF ReleaseRow, OwnsRow, Requeue, JobsTypeOK
  <2>3. CASE ~(execution[s] # "idle" /\ OwnsRow(s))
    BY <1>2, <2>1, <2>3 DEF ReleaseRow
  <2> QED
    BY <2>2, <2>3
<1> QED
  BY <1>1, <1>2

\* A step that leaves a slot its row, and the row its status and owner, or that
\* frees the slot, keeps the fence of that slot.
LEMMA FenceFrame ==
  ASSUME NEW s \in Slots,
         \/ execution'[s] = "idle"
         \/ /\ jobRow'[s] = jobRow[s]
            /\ status'[jobRow[s].job] = status[jobRow[s].job]
            /\ owner'[jobRow[s].job] = owner[jobRow[s].job]
         \/ phase[s[1]] = "abandoning"
         \/ operations' # operations
  PROVE  FenceKept(s)
  BY DEF FenceKept, OwnsRow

LEMMA FenceStep == JobsInv /\ [JobsNext]_jobVars => \A s \in Slots : FenceKept(s)
<1> SUFFICES ASSUME JobsInv, [JobsNext]_jobVars, NEW s \in Slots, execution[s] # "idle"
             PROVE  FenceKept(s)
  BY DEF FenceKept
<1> DEFINE k == jobRow[s].job
<1>1. JobsTypeOK /\ OnlyAbandonedRelease
  BY DEF JobsInv
<1>2. k \in Jobs
  BY <1>1, RowOfBusy
<1> HIDE DEF k
<1>3. ASSUME jobRow'[s] = jobRow[s] \/ execution'[s] = "idle", status'[k] = status[k], owner'[k] = owner[k]
      PROVE  FenceKept(s)
  BY <1>3, FenceFrame DEF k
<1>4. ASSUME NEW j \in Jobs, NEW n \in Names, NEW d \in 0..MaxWait, Schedule(j, n, d)
      PROVE  FenceKept(s)
  <2>1. CASE j = k
    BY <1>4, <2>1 DEF Schedule, FenceKept, OwnsRow, k
  <2>2. CASE j # k
    BY <1>1, <1>3, <1>4, <2>2 DEF Schedule, JobsTypeOK, workerVars
  <2> QED
    BY <2>1, <2>2
<1>5. ASSUME operations \in Nat, operations' = operations + 1 PROVE FenceKept(s)
  <2>1. operations' # operations
    BY <1>5
  <2> QED
    BY <2>1, FenceFrame
<1>6. CASE \E j \in Jobs : Cancel(j) \/ \E n \in Names, d \in 1..MaxWait : Recur(j, n, d)
  BY <1>1, <1>5, <1>6 DEF Cancel, Recur, JobsTypeOK
<1>7. ASSUME NEW w \in Workers, WorkerStep(w) \/ WorkerFails(w) \/ WorkerCrash(w) \/ Shutdown(w)
      PROVE  FenceKept(s)
  <2>1. CASE ClaimJobs(w)
    <3>1. PICK batch \in SUBSET ClaimableJobs : \E slot \in [batch -> FreeSlots(w) \ toRelease[w]] :
             ClaimInto(batch, slot)
      BY <2>1 DEF ClaimJobs
    <3>2. PICK slot \in [batch -> FreeSlots(w) \ toRelease[w]] : ClaimInto(batch, slot)
      BY <3>1
    <3>3. batch \in SUBSET Jobs /\ slot \in [batch -> Slots]
      BY DEF ClaimableJobs, FreeSlots, SlotsOf
    <3>4. \A j \in batch : slot[j] # s
      BY DEF FreeSlots
    <3>5. jobRow'[s] = jobRow[s]
      BY <3>2, <3>3, <3>4, <1>1, ClaimEffect
    <3>6. CASE k \in batch
      <4>1. status[k] = "running" => lease[k] = 0
        BY <3>6 DEF ClaimableJobs
      <4> QED
        BY <4>1 DEF FenceKept, OwnsRow, k
    <3>7. CASE k \notin batch
      BY <3>2, <3>5, <3>7, <1>2, <1>3 DEF ClaimInto
    <3> QED
      BY <3>6, <3>7
  <2>2. CASE WorkerExit(w) \/ WorkerFails(w) \/ WorkerCrash(w)
    <3>1. AbortRuns(w) /\ UNCHANGED <<status, owner>>
      BY <2>2 DEF WorkerExit, WorkerFails, WorkerCrash, tableVars
    <3>2. jobRow'[s] = jobRow[s] \/ execution'[s] = "idle"
      BY <3>1, <1>1, AbortEffect
    <3> QED
      BY <3>1, <3>2, <1>3
  <2>3. CASE Poll(w) \/ StartRuns(w) \/ Drained(w) \/ AbandonDrain(w) \/ Abandoned(w) \/ Shutdown(w)
    BY <2>3, <1>3 DEF Poll, StartRuns, Drained, AbandonDrain, Abandoned, Shutdown, tableVars
  <2> QED
    BY <1>7, <2>1, <2>2, <2>3 DEF WorkerStep
<1>8. ASSUME NEW t \in Slots, SettleRun(t) \/ ReleaseRow(t) PROVE FenceKept(s)
  <2>1. CASE t # s
    <3>1. jobRow'[s] = jobRow[s]
      BY <1>1, <1>8, <2>1, OwnRowOnly
    <3>2. \/ status[k] = "running" /\ owner[k] = t
          \/ status'[k] = status[k] /\ owner'[k] = owner[k]
      BY <1>1, <1>2, <1>8, OwnRowOnly
    <3>3. CASE owner[k] = t
      BY <2>1, <3>3 DEF FenceKept, OwnsRow, k
    <3> QED
      BY <3>1, <3>2, <3>3, <1>3
  <2>2. CASE t = s /\ SettleRun(s)
    <3>1. execution'[s] = "idle"
      BY <2>2, <1>1 DEF SettleRun, CompleteSuccess, RescheduleRetry, DeadLetter, Free, JobsTypeOK
    <3> QED
      BY <3>1, FenceFrame
  <2>3. CASE t = s /\ ReleaseRow(s)
    <3>1. phase[s[1]] = "abandoning"
      BY <2>3, <1>1, SlotsAreOfWorkers DEF ReleaseRow, OnlyAbandonedRelease
    <3> QED
      BY <3>1, FenceFrame
  <2> QED
    BY <1>8, <2>1, <2>2, <2>3
<1>9. CASE \E t \in Slots : Heartbeat(t) \/ HandleJob(t)
  BY <1>9, <1>3 DEF Heartbeat, HandleJob, workerVars, tableVars
<1>10. CASE JobTick
  BY <1>10, <1>3 DEF JobTick, workerVars
<1>11. CASE UNCHANGED jobVars
  BY <1>11, <1>3 DEF jobVars, tableVars, workerVars
<1> QED
  BY <1>4, <1>6, <1>7, <1>8, <1>9, <1>10, <1>11 DEF JobsNext

-----------------------------------------------------------------------------
\* One flight at a time.

\* A step of a failure-free run keeps FlightInv when it makes no slot busy, no
\* worker that gave up takes its busy slots back, and a row held under a lease
\* that runs stays held, goes, or is given up.
LEMMA FlightFrame ==
  ASSUME FlightInv, faults' = 0 => faults = 0,
         faults' = 0 => \A j \in Jobs \ Recurring : \A s \in Slots : Hold(s, j)' =>
            /\ Hold(s, j)
            /\ GaveUp(s) => GaveUp(s)'
            /\ status[j] = "gone" => status'[j] = "gone"
            /\ status[j] = "running" /\ owner[j] = s /\ lease[j] > 0 =>
                  \/ status'[j] = "running" /\ owner'[j] = s /\ lease'[j] > 0
                  \/ status'[j] = "gone" \/ GaveUp(s)'
  PROVE  FlightInv'
<1> SUFFICES ASSUME faults' = 0, NEW j \in Jobs \ Recurring, NEW s \in Slots, Hold(s, j)'
             PROVE  /\ \/ status'[j] = "gone" \/ GaveUp(s)'
                       \/ status'[j] = "running" /\ owner'[j] = s /\ lease'[j] > 0
                    /\ \A t \in Slots : Hold(t, j)' /\ s # t => GaveUp(s)' \/ GaveUp(t)'
  BY DEF FlightInv
<1>1. /\ Hold(s, j) => \/ status[j] = "gone" \/ GaveUp(s)
                       \/ status[j] = "running" /\ owner[j] = s /\ lease[j] > 0
      /\ \A t \in Slots : Hold(s, j) /\ Hold(t, j) /\ s # t => GaveUp(s) \/ GaveUp(t)
  BY DEF FlightInv
<1>2. Hold(s, j) /\ (GaveUp(s) => GaveUp(s)')
  OBVIOUS
<1>3. \/ status'[j] = "gone" \/ GaveUp(s)'
      \/ status'[j] = "running" /\ owner'[j] = s /\ lease'[j] > 0
  BY <1>1
<1>4. ASSUME NEW t \in Slots, Hold(t, j)', s # t PROVE GaveUp(s)' \/ GaveUp(t)'
  <2>1. Hold(t, j) /\ (GaveUp(t) => GaveUp(t)')
    BY <1>4
  <2> QED
    BY <1>1, <1>2, <1>4, <2>1
<1> QED
  BY <1>3, <1>4

LEMMA FlightOfClaim ==
  ASSUME JobsTypeOK, FlightInv, NEW w \in Workers, ClaimJobs(w)
  PROVE  FlightInv'
<1> USE JobsAssumption
<1>1. PICK batch \in SUBSET ClaimableJobs : \E slot \in [batch -> FreeSlots(w) \ toRelease[w]] :
         ClaimInto(batch, slot)
  BY DEF ClaimJobs
<1>2. PICK slot \in [batch -> FreeSlots(w) \ toRelease[w]] : ClaimInto(batch, slot)
  BY <1>1
<1>3. batch \in SUBSET Jobs /\ slot \in [batch -> Slots]
  BY DEF ClaimableJobs, FreeSlots, SlotsOf
<1>4. UNCHANGED <<phase, faults>>
  BY DEF ClaimJobs, jobCounters
<1>5. /\ \A j, k \in batch : slot[j] = slot[k] => j = k
      /\ status' = [j \in Jobs |-> IF j \in batch THEN "running" ELSE status[j]]
      /\ owner' = [j \in Jobs |-> IF j \in batch THEN slot[j] ELSE owner[j]]
      /\ lease' = [j \in Jobs |-> IF j \in batch THEN JobLease ELSE lease[j]]
  BY <1>2 DEF ClaimInto
<1>6. ASSUME NEW j \in Jobs, NEW s \in Slots, Hold(s, j)'
      PROVE  (j \in batch /\ s = slot[j]) \/ Hold(s, j)
  <2>1. ASSUME NEW k \in batch, slot[k] = s PROVE k = j
    BY <1>2, <1>3, <1>6, <2>1, ClaimEffect DEF Hold
  <2>2. CASE \A k \in batch : slot[k] # s
    <3>1. execution'[s] = execution[s] /\ jobRow'[s] = jobRow[s]
      BY <1>2, <1>3, <2>2, ClaimEffect
    <3> QED
      BY <3>1, <1>6 DEF Hold
  <2> QED
    BY <2>1, <2>2
<1> SUFFICES ASSUME faults' = 0, NEW j \in Jobs \ Recurring, NEW s \in Slots, Hold(s, j)'
             PROVE  /\ \/ status'[j] = "gone" \/ GaveUp(s)'
                       \/ status'[j] = "running" /\ owner'[j] = s /\ lease'[j] > 0
                    /\ \A t \in Slots : Hold(t, j)' /\ s # t => GaveUp(s)' \/ GaveUp(t)'
  BY DEF FlightInv
<1>7. \A t \in Slots : GaveUp(t)' <=> GaveUp(t)
  BY <1>4 DEF GaveUp
<1>8. \A t \in Slots :
         /\ Hold(t, j) => \/ status[j] = "gone" \/ GaveUp(t)
                          \/ status[j] = "running" /\ owner[j] = t /\ lease[j] > 0
         /\ \A u \in Slots : Hold(t, j) /\ Hold(u, j) /\ t # u => GaveUp(t) \/ GaveUp(u)
  BY <1>4 DEF FlightInv
<1>9. CASE j \notin batch
  <2>1. status'[j] = status[j] /\ owner'[j] = owner[j] /\ lease'[j] = lease[j]
    BY <1>5, <1>9
  <2>2. \A t \in Slots : Hold(t, j)' => Hold(t, j)
    BY <1>6, <1>9
  <2> QED
    BY <2>1, <2>2, <1>7, <1>8
<1>10. CASE j \in batch
  <2>1. status'[j] = "running" /\ owner'[j] = slot[j] /\ lease'[j] > 0
    BY <1>5, <1>10 DEF JobsAssumption
  <2>2. status[j] # "gone" /\ ~(status[j] = "running" /\ lease[j] > 0)
    BY <1>10 DEF ClaimableJobs
  <2>3. \A t \in Slots : Hold(t, j)' => t = slot[j] \/ GaveUp(t)
    BY <1>6, <1>8, <2>2
  <2> QED
    BY <2>1, <2>3, <1>7
<1> QED
  BY <1>9, <1>10

LEMMA FlightOfWorker ==
  ASSUME JobsTypeOK, FlightInv, NEW w \in Workers,
         WorkerStep(w) \/ WorkerFails(w) \/ WorkerCrash(w) \/ Shutdown(w)
  PROVE  FlightInv'
<1>1. CASE ClaimJobs(w)
  BY <1>1, FlightOfClaim
<1>2. CASE WorkerFails(w) \/ WorkerCrash(w)
  <2>1. faults' # 0
    BY <1>2 DEF WorkerFails, WorkerCrash, JobsTypeOK
  <2> QED
    BY <2>1, FlightFrame
<1>3. CASE WorkerExit(w)
  <2>1. AbortRuns(w) /\ UNCHANGED <<status, owner, lease, faults>> /\ phase' = [phase EXCEPT ![w] = "up"]
    BY <1>3 DEF WorkerExit, tableVars, jobCounters
  <2>2. \A s \in Slots : execution'[s] # "idle" =>
           s[1] # w /\ execution'[s] = execution[s] /\ jobRow'[s] = jobRow[s]
    BY <2>1, AbortEffect
  <2>3. \A s \in Slots : execution'[s] # "idle" => phase'[s[1]] = phase[s[1]]
    BY <2>1, <2>2, SlotsAreOfWorkers DEF JobsTypeOK
  <2> QED
    BY <2>1, <2>2, <2>3, FlightFrame DEF Hold, GaveUp
<1>4. CASE Poll(w) \/ StartRuns(w)
  <2>1. UNCHANGED <<status, owner, lease, jobRow, phase, faults>>
    BY <1>4 DEF Poll, StartRuns, tableVars, jobCounters
  <2>2. \A s \in Slots : execution'[s] # "idle" => execution[s] # "idle"
    BY <1>4 DEF Poll, StartRuns, JobsTypeOK
  <2> QED
    BY <2>1, <2>2, FlightFrame DEF Hold, GaveUp
<1>5. CASE Drained(w) \/ AbandonDrain(w) \/ Abandoned(w) \/ Shutdown(w)
  <2>1. UNCHANGED <<status, owner, lease, execution, jobRow>>
    BY <1>5 DEF Drained, AbandonDrain, Abandoned, Shutdown, tableVars
  <2>2. faults' = faults \/ faults' = faults + 1
    BY <1>5 DEF Drained, AbandonDrain, Abandoned, Shutdown, jobCounters
  <2>3. \A s \in Slots : GaveUp(s) => GaveUp(s)'
    BY <1>5, SlotsAreOfWorkers DEF Drained, AbandonDrain, Abandoned, Shutdown, GaveUp, JobsTypeOK
  <2>4. faults' = 0 => faults = 0
    BY <2>2 DEF JobsTypeOK
  <2> QED
    BY <2>1, <2>3, <2>4, FlightFrame DEF Hold
<1> QED
  BY <1>1, <1>2, <1>3, <1>4, <1>5 DEF WorkerStep

LEMMA FlightStep == JobsTypeOK /\ OnlyAbandonedRelease /\ FlightInv /\ [JobsNext]_jobVars => FlightInv'
<1> USE JobsAssumption
<1> SUFFICES ASSUME JobsTypeOK, OnlyAbandonedRelease, FlightInv, [JobsNext]_jobVars PROVE FlightInv'
  OBVIOUS
<1>1. ASSUME NEW k \in Jobs, NEW n \in Names, NEW d \in 0..MaxWait, Schedule(k, n, d) PROVE FlightInv'
  <2>1. UNCHANGED <<owner, lease, execution, jobRow, phase, faults>>
    BY <1>1 DEF Schedule, workerVars, jobCounters
  <2>2. \A j \in Jobs : status[j] # "absent" => status'[j] = status[j]
    BY <1>1 DEF Schedule, JobsTypeOK
  <2> QED
    BY <2>1, <2>2, FlightFrame DEF Hold, GaveUp
<1>2. ASSUME NEW k \in Jobs, NEW n \in Names, NEW d \in 1..MaxWait, Recur(k, n, d) PROVE FlightInv'
  <2>1. UNCHANGED <<execution, jobRow, phase, faults>>
    BY <1>2 DEF Recur, workerVars
  <2>2. \A j \in Jobs \ Recurring : status'[j] = status[j] /\ owner'[j] = owner[j] /\ lease'[j] = lease[j]
    BY <1>2 DEF Recur, JobsTypeOK
  <2> QED
    BY <2>1, <2>2, FlightFrame DEF Hold, GaveUp
<1>3. ASSUME NEW k \in Jobs, Cancel(k) PROVE FlightInv'
  <2>1. UNCHANGED <<execution, jobRow, phase, faults>>
    BY <1>3 DEF Cancel, workerVars
  <2>2. \A j \in Jobs : \/ status'[j] = "gone"
                        \/ status'[j] = status[j] /\ owner'[j] = owner[j] /\ lease'[j] = lease[j]
    BY <1>3 DEF Cancel, Delete, JobsTypeOK
  <2> QED
    BY <2>1, <2>2, FlightFrame DEF Hold, GaveUp
<1>4. ASSUME NEW s \in Slots, SettleRun(s) PROVE FlightInv'
  <2>1. UNCHANGED <<phase, faults>>
    BY <1>4 DEF SettleRun, CompleteSuccess, RescheduleRetry, DeadLetter, jobCounters
  <2>2. execution'[s] = "idle"
    BY <1>4 DEF SettleRun, CompleteSuccess, RescheduleRetry, DeadLetter, Free, JobsTypeOK
  <2>3. \A t \in Slots \ {s} : execution'[t] = execution[t] /\ jobRow'[t] = jobRow[t]
    BY <1>4, OwnRowOnly
  <2>4. \A j \in Jobs : \/ status[j] = "running" /\ owner[j] = s
                        \/ status'[j] = status[j] /\ owner'[j] = owner[j] /\ lease'[j] = lease[j]
    BY <1>4, OwnRowOnly
  <2> QED
    BY <2>1, <2>2, <2>3, <2>4, FlightFrame DEF Hold, GaveUp
<1>5. ASSUME NEW s \in Slots, ReleaseRow(s) PROVE FlightInv'
  <2>1. UNCHANGED <<phase, faults, execution, jobRow>> /\ phase[s[1]] = "abandoning"
    BY <1>5, SlotsAreOfWorkers DEF ReleaseRow, jobCounters, OnlyAbandonedRelease
  <2>2. \A j \in Jobs : \/ status[j] = "running" /\ owner[j] = s
                        \/ status'[j] = status[j] /\ owner'[j] = owner[j] /\ lease'[j] = lease[j]
    BY <1>5, OwnRowOnly
  <2> QED
    BY <2>1, <2>2, FlightFrame DEF Hold, GaveUp
<1>6. ASSUME NEW s \in Slots, Heartbeat(s) \/ HandleJob(s) PROVE FlightInv'
  <2>1. UNCHANGED <<status, owner, jobRow, phase, faults>>
    BY <1>6 DEF Heartbeat, HandleJob, tableVars, workerVars, jobCounters
  <2>2. \A t \in Slots : execution'[t] # "idle" => execution[t] # "idle"
    BY <1>6 DEF Heartbeat, HandleJob, workerVars, JobsTypeOK
  <2>3. \A j \in Jobs : lease[j] > 0 => lease'[j] > 0
    BY <1>6 DEF Heartbeat, HandleJob, tableVars, JobsTypeOK, JobsAssumption
  <2> QED
    BY <2>1, <2>2, <2>3, FlightFrame DEF Hold, GaveUp
<1>7. CASE JobTick
  <2>1. UNCHANGED <<status, owner, execution, jobRow, phase>>
    BY <1>7 DEF JobTick, workerVars
  <2>2. faults' = 0 => faults = 0 /\ ~Late
    BY <1>7 DEF JobTick, JobsTypeOK
  <2>3. ASSUME ~Late, NEW j \in Jobs, NEW s \in Slots, Hold(s, j), status[j] = "running", owner[j] = s,
               lease[j] > 0
        PROVE  lease'[j] > 0
    <3>1. lease[j] # 1
      BY <2>3 DEF Late, Hold, OwnsRow
    <3>2. lease[j] \in Nat /\ lease'[j] = Earlier(lease[j])
      BY <1>7 DEF JobTick, JobsTypeOK
    <3> QED
      BY <2>3, <3>1, <3>2 DEF Earlier
  <2> QED
    BY <2>1, <2>2, <2>3, FlightFrame DEF Hold, GaveUp
<1>8. CASE UNCHANGED jobVars
  BY <1>8 DEF jobVars, tableVars, workerVars, jobCounters, FlightInv, Hold, GaveUp
<1> QED
  BY <1>1, <1>2, <1>3, <1>4, <1>5, <1>6, <1>7, <1>8, FlightOfWorker DEF JobsNext

-----------------------------------------------------------------------------
\* The theorems.

LEMMA JobsInvariance == JobsSpec => []JobsInv
<1>1. JobsInv /\ [JobsNext]_jobVars => JobsInv'
  <2> SUFFICES ASSUME JobsInv, [JobsNext]_jobVars PROVE JobsInv'
    OBVIOUS
  <2>1. CASE JobsNext
    BY <2>1, TypeStep, EndsStep, ReleaseStep, FlightStep DEF JobsInv
  <2>2. CASE UNCHANGED jobVars
    <3>1. FlightInv'
      BY <2>2, FlightStep DEF JobsInv
    <3>2. JobsTypeOK' /\ EndsAreExclusive' /\ OnlyAbandonedRelease'
      BY <2>2 DEF JobsInv, JobsTypeOK, EndsAreExclusive, OnlyAbandonedRelease, jobVars, tableVars,
         workerVars, ghosts, jobCounters
    <3> QED
      BY <3>1, <3>2 DEF JobsInv
  <2> QED
    BY <2>1, <2>2
<1> QED
  BY <1>1, JobsStart, PTL DEF JobsSpec

\* A one-shot job leaves the queue by exactly one of its three ends, and its
\* handler never runs twice at once while leases are kept, for every number of
\* workers and whatever fails (scheduler.ts and worker.ts).
THEOREM JobsEndOnce == JobsSpec => []EveryJobEndsOnce
<1>1. JobsInv => EveryJobEndsOnce
  <2> SUFFICES ASSUME JobsInv PROVE EveryJobEndsOnce
    OBVIOUS
  <2>1. JobsTypeOK /\ EndsAreExclusive /\ FlightInv
    BY DEF JobsInv
  <2>2. ASSUME faults = 0, NEW s \in Slots, NEW t \in Slots, s # t, execution[s] = "handler",
               execution[t] = "handler", jobRow[s].job = jobRow[t].job, jobRow[s].job \notin Recurring
        PROVE  {phase[s[1]], phase[t[1]]} \intersect {"abandoning", "drained"} # {}
    <3> DEFINE j == jobRow[s].job
    <3>1. j \in Jobs \ Recurring
      BY <2>1, <2>2, RowOfBusy
    <3>2. Hold(s, j) /\ Hold(t, j)
      BY <2>2 DEF Hold
    <3> HIDE DEF j
    <3>3. GaveUp(s) \/ GaveUp(t)
      BY <2>1, <2>2, <3>1, <3>2 DEF FlightInv
    <3> QED
      BY <3>3 DEF GaveUp
  <2>3. SingleFlight
    BY <2>2 DEF SingleFlight
  <2> QED
    BY <2>1, <2>3 DEF EveryJobEndsOnce
<1> QED
  BY <1>1, JobsInvariance, PTL

\* Nothing but its own settlement, its worker's abandoned drain or an operator
\* takes the row from an execution whose lease runs (`fenced` in worker.ts).
THEOREM FencesHold == JobsSpec => RunsAreFenced
<1>1. JobsInv /\ [JobsNext]_jobVars => [\A s \in Slots : FenceKept(s)]_jobVars
  BY FenceStep
<1> QED
  BY <1>1, JobsInvariance, PTL DEF JobsSpec, RunsAreFenced
=============================================================================
