----------------------------- MODULE Migrations -----------------------------
(***************************************************************************)
(* packages/migrations: run applies the pending migrations of a build under*)
(* a lock and records their checksums.  Runners are replicas that boot     *)
(* together, possibly of different builds and in both lock modes.  A       *)
(* runner's transaction works on `tx`, its copy of the bookkeeping table   *)
(* and of the schema, until it commits.                                    *)
(*                                                                         *)
(* Dialects: "pg" has an advisory lock; elsewhere the database's write     *)
(* lock is all there is, taken by the first write of a transaction, and a  *)
(* transaction that read before somebody else committed finds it BUSY.     *)
(***************************************************************************)
EXTENDS Integers, SequencesExt

CONSTANTS Runners, Build,   \* runner -> (migration id -> checksum): its migration set
          Mode,             \* runner -> "session" or "transaction"
          Histories,        \* what may have run before checksums were recorded
          NoSum, Nobody     \* the NULL checksum; no owner

VARIABLES dialect,
          book,      \* recorded rows: migration id -> checksum
          schema,    \* the migrations whose effects are committed, in order
          lock,      \* the owner of the advisory lock, or of the write lock
          runs       \* runner -> [pc, book, schema, read]: its step and its transaction

migrationVars == <<dialect, book, schema, lock, runs>>

InOrder(list) == \A i, j \in DOMAIN list : i < j => list[i] < list[j]

\* makeSet: ids are integers >= 1; what ran before ran in order
ASSUME MigrationsAssumption ==
    /\ \A h \in Histories : h \in Seq(Nat \ {0}) /\ InOrder(h)
    /\ \A r \in Runners : DOMAIN Build[r] \subseteq Nat \ {0} /\ \A i \in DOMAIN Build[r] : Build[r][i] # NoSum
    /\ Nobody \notin Runners

Ids(r) == DOMAIN Build[r]

\* A fresh database, or one migrated before checksums were recorded
MigrationsInit(d, applied) ==
    /\ dialect = d
    /\ book = [i \in Range(applied) |-> NoSum]
    /\ schema = applied
    /\ lock = Nobody
    /\ runs = [r \in Runners |-> [pc |-> "start", book |-> <<>>, schema |-> <<>>, read |-> <<>>]]

Move(r, pc) == runs' = [runs EXCEPT ![r].pc = pc]

\* Mutant: a lock outlives the runner that took it.
ReleasedNever(r) == lock

ReleasedBy(r) == IF lock = r THEN Nobody ELSE lock

\* A transaction of r begins: it sees what is committed now
Begin(r, pc) == runs' = [runs EXCEPT ![r] = [pc |-> pc, book |-> book, schema |-> schema, read |-> book]]

-----------------------------------------------------------------------------
(* reportOf                                                                *)

Pending(r, rows) == Ids(r) \ DOMAIN rows
UnknownRows(r, rows) == DOMAIN rows \ Ids(r)
Mismatched(r, rows) == {i \in Ids(r) \cap DOMAIN rows : rows[i] \notin {NoSum, Build[r][i]}}
Consistent(r, rows) == UnknownRows(r, rows) = {} /\ Mismatched(r, rows) = {}

\* The Migrator of @effect/sql runs what is newer than the latest recorded id
Required(r, rows) == {i \in Pending(r, rows) : \A j \in DOMAIN rows : i > j}

-----------------------------------------------------------------------------
(* The lock                                                                *)

\* acquireSessionLock: waits; with a lock_timeout it may give up
AcquireSessionLock(r) ==
    /\ dialect = "pg" /\ Mode[r] = "session" /\ runs[r].pc = "start" /\ lock = Nobody
    /\ lock' = r /\ Begin(r, "verify")
    /\ UNCHANGED <<dialect, book, schema>>

LockTimeout(r) ==
    /\ dialect = "pg" /\ Mode[r] = "session" /\ runs[r].pc = "start" /\ lock /= Nobody
    /\ Move(r, "locked")
    /\ UNCHANGED <<dialect, book, schema, lock>>

\* Mutant: the lock that is taken is not the one the other mode takes.
TryLockAnyway(r) ==
    /\ dialect = "pg" /\ Mode[r] = "transaction" /\ runs[r].pc = "start"
    /\ Begin(r, "verify") /\ lock' = IF lock = Nobody THEN r ELSE lock
    /\ UNCHANGED <<dialect, book, schema>>

\* pg_try_advisory_xact_lock: fails at once
TryTransactionLock(r) ==
    /\ dialect = "pg" /\ Mode[r] = "transaction" /\ runs[r].pc = "start"
    /\ IF lock = Nobody THEN lock' = r /\ Begin(r, "verify") ELSE Move(r, "locked") /\ UNCHANGED lock
    /\ UNCHANGED <<dialect, book, schema>>

\* Elsewhere: the transaction begins with a read
BeginUnlocked(r) ==
    /\ dialect /= "pg" /\ runs[r].pc = "start"
    /\ Begin(r, "verify")
    /\ UNCHANGED <<dialect, book, schema, lock>>

\* ... and its first write finds the database free and as it was read, or BUSY.  "session" retries
\* until waitFor has elapsed
TakeWriteLock(r) ==
    /\ dialect /= "pg" /\ runs[r].pc = "write"
    /\ \/ /\ lock = Nobody /\ book = runs[r].read
          /\ lock' = r /\ Move(r, "migrate")
       \/ /\ lock /= Nobody \/ book /= runs[r].read
          /\ UNCHANGED lock
          /\ \/ Mode[r] = "session" /\ Move(r, "start")
             \/ Move(r, "locked")
    /\ UNCHANGED <<dialect, book, schema>>

-----------------------------------------------------------------------------
(* applyLocked                                                             *)

\* The recorded history is compared with the set before anything is applied
Verify(r) ==
    /\ runs[r].pc = "verify"
    /\ IF Consistent(r, runs[r].book) THEN Move(r, IF dialect = "pg" THEN "migrate" ELSE "write") /\ UNCHANGED lock
                                      ELSE Move(r, "bad-state") /\ lock' = ReleasedBy(r)
    /\ UNCHANGED <<dialect, book, schema>>

\* The rows of the required migrations are inserted together.  With work left undone and nothing to
\* run the runner answers "locked"
Migrate(r) ==
    /\ runs[r].pc = "migrate"
    /\ LET rows == runs[r].book
           todo == Required(r, rows) IN
       IF todo = {} /\ Pending(r, rows) /= {}
       THEN Move(r, "locked") /\ lock' = ReleasedBy(r)
       ELSE /\ runs' = [runs EXCEPT ![r].pc = "apply",
                            ![r].book = [i \in DOMAIN rows \cup todo |-> IF i \in todo THEN NoSum ELSE rows[i]]]
            /\ UNCHANGED lock
    /\ UNCHANGED <<dialect, book, schema>>

\* They run in order of their ids; an up effect may fail (Abort)
Unapplied(r) == DOMAIN runs[r].book \ Range(runs[r].schema)

ApplyNext(r) ==
    /\ runs[r].pc = "apply"
    /\ IF Unapplied(r) = {} THEN Move(r, "stamp")
       ELSE \E i \in Unapplied(r) : /\ \A j \in Unapplied(r) : i <= j
                                    /\ runs' = [runs EXCEPT ![r].schema = Append(@, i)]
    /\ UNCHANGED <<dialect, book, schema, lock>>

\* stampChecksums: rows without a checksum adopt the one of this build
Stamp(r, rows) == [i \in DOMAIN rows |-> IF rows[i] = NoSum /\ i \in Ids(r) THEN Build[r][i] ELSE rows[i]]

\* The transaction commits; the transaction-scoped locks go with it
CommitRun(r) ==
    /\ runs[r].pc = "stamp"
    /\ book' = Stamp(r, runs[r].book) /\ schema' = runs[r].schema
    /\ IF dialect = "pg" /\ Mode[r] = "session" THEN Move(r, "unlock") /\ UNCHANGED lock
                                                ELSE Move(r, "ok") /\ lock' = ReleasedBy(r)
    /\ UNCHANGED dialect

\* The finalizer of the scope returns the session lock
Unlock(r) ==
    /\ runs[r].pc = "unlock"
    /\ Move(r, "ok") /\ lock' = ReleasedBy(r)
    /\ UNCHANGED <<dialect, book, schema>>

\* A migration fails or the process dies: the transaction rolls back and its locks are gone
Abort(r) ==
    /\ runs[r].pc \in {"verify", "write", "migrate", "apply", "stamp", "unlock"}
    /\ Move(r, "failed") /\ lock' = ReleasedBy(r)
    /\ UNCHANGED <<dialect, book, schema>>

RunnerStep(r) ==
    \/ AcquireSessionLock(r) \/ LockTimeout(r) \/ TryTransactionLock(r) \/ BeginUnlocked(r)
    \/ TakeWriteLock(r) \/ Verify(r) \/ Migrate(r) \/ ApplyNext(r) \/ CommitRun(r) \/ Unlock(r)

MigrationsNext == \E r \in Runners : RunnerStep(r) \/ Abort(r)

-----------------------------------------------------------------------------
(* Properties                                                              *)

\* The probe of migrationsReadinessCheck for a serving instance of r's build
ProbeReady(r) == Pending(r, book) = {} /\ Consistent(r, book)

\* However runners of both lock modes and of different builds overlap and die, every migration runs
\* at most once, in order of the ids, and what is recorded is exactly what ran.
MigratesOnceInOrder ==
    /\ InOrder(schema)
    /\ DOMAIN book = Range(schema)

\* A runner that ended green leaves its build's probe ready until a build with further migrations has
\* run: no green end with work undone or with another build's checksums.
GreenMeansReady ==
    \A r \in Runners : runs[r].pc \in {"unlock", "ok"} =>
        /\ \A i \in Ids(r) : i \in DOMAIN book /\ book[i] = Build[r][i]
        /\ ProbeReady(r) \/ UnknownRows(r, book) /= {}

\* Replicas end: whoever waits for the lock gets it or gives up, also when its owner dies.
EveryRunnerEnds == \A r \in Runners : <>(runs[r].pc \in {"ok", "locked", "bad-state", "failed"})
=============================================================================
