--------------------------- MODULE LifecycleLock ---------------------------
(***************************************************************************)
(* storage_lifecycle_lock (backend/app/materializer.py): a context manager *)
(* that takes a per-process threading.RLock and then BEGIN EXCLUSIVE on a  *)
(* lock database shared by all processes.  materialize() calls             *)
(* cleanup_materialized_wal_files() from inside the lock when              *)
(* auto_cleanup_wal is set, so a thread may try to enter a second time;    *)
(* level[t] counts its activations (0 outside, 1 outer, 2 nested).         *)
(***************************************************************************)
EXTENDS Integers, FiniteSets

CONSTANTS Procs,         \* backend processes (uvicorn workers, pods)
          Threads,       \* their worker threads (asyncio.to_thread pool)
          ProcOf,        \* the process of each thread
          NoThread,      \* "nobody"
          AutoCleanup,   \* settings.auto_cleanup_wal
          MayCrash,      \* a process may be killed, or end
          MaxLeaks       \* bound: failures of data_dir.mkdir in each process's life

ASSUME LockAssumption ==
    /\ ProcOf \in [Threads -> Procs]
    /\ NoThread \notin Threads
    /\ {AutoCleanup, MayCrash} \subseteq BOOLEAN
    /\ MaxLeaks \in [Procs -> Nat]

VARIABLES owner,     \* owner[p]: thread owning _MATERIALIZATION_LOCK in p
          count,     \* count[p]: its recursion count
          dbThread,  \* thread whose connection holds BEGIN EXCLUSIVE
          dbLevel,   \* the activation that opened that connection
          pc,        \* where the innermost activation of each thread is
          level,     \* activations of the context manager, per thread
          leaked     \* leaked[p]: acquisitions lost to a failing mkdir; no part
                     \* of the code, it serves RLockBalanced and the bound

vars == <<owner, count, dbThread, dbLevel, pc, level, leaked>>

Locations == {"idle", "rlock", "mkdir", "begin", "body", "unwind", "release"}

Init ==
    /\ owner = [p \in Procs |-> NoThread]
    /\ count = [p \in Procs |-> 0]
    /\ dbThread = NoThread
    /\ dbLevel = 0
    /\ pc = [t \in Threads |-> "idle"]
    /\ level = [t \in Threads |-> 0]
    /\ leaked = [p \in Procs |-> 0]

Goto(t, from, to) == pc[t] = from /\ pc' = [pc EXCEPT ![t] = to]

\* Mutant of Leave: leaving the nested activation leaves the outer one too.
LeaveBoth(t) ==
    /\ level' = [level EXCEPT ![t] = 0]
    /\ pc' = [pc EXCEPT ![t] = "idle"]

\* Leave the innermost activation of t.  The nested call is the last thing
\* materialize() does: by return or by exception, the outer `finally` is next.
Leave(t) ==
    /\ level' = [level EXCEPT ![t] = @ - 1]
    /\ pc' = [pc EXCEPT ![t] = IF level[t] = 1 THEN "idle" ELSE "unwind"]

(* Mutants of the actions below: see the README. *)

\* BEGIN instead of BEGIN EXCLUSIVE.
BeginDeferred(t) ==
    /\ Goto(t, "begin", "body")
    /\ dbThread' = t
    /\ dbLevel' = level[t]
    /\ UNCHANGED <<owner, count, level, leaked>>

\* No busy_timeout: wait until the database is free.
WaitForever(t) == FALSE

-----------------------------------------------------------------------------
\* materialize(), compact_parquet_files() or cleanup_materialized_wal_files()
\* enters the lock.
Enter(t) ==
    /\ Goto(t, "idle", "rlock")
    /\ level' = [level EXCEPT ![t] = 1]
    /\ UNCHANGED <<owner, count, dbThread, dbLevel, leaked>>

\* materialize() calls cleanup_materialized_wal_files() at its end.
EnterNested(t) ==
    /\ AutoCleanup
    /\ level[t] = 1
    /\ Goto(t, "body", "rlock")
    /\ level' = [level EXCEPT ![t] = 2]
    /\ UNCHANGED <<owner, count, dbThread, dbLevel, leaked>>

\* _MATERIALIZATION_LOCK.acquire(timeout) succeeds: free, or already ours.
TakeRLock(t) ==
    LET p == ProcOf[t] IN
    /\ owner[p] \in {NoThread, t}
    /\ Goto(t, "rlock", "mkdir")
    /\ owner' = [owner EXCEPT ![p] = t]
    /\ count' = [count EXCEPT ![p] = @ + 1]
    /\ UNCHANGED <<dbThread, dbLevel, level, leaked>>

\* acquire(timeout) returns False: TimeoutError, nothing to release.
RLockTimeout(t) ==
    /\ pc[t] = "rlock"
    /\ owner[ProcOf[t]] \notin {NoThread, t}
    /\ Leave(t)
    /\ UNCHANGED <<owner, count, dbThread, dbLevel, leaked>>

MakeDataDir(t) ==
    /\ Goto(t, "mkdir", "begin")
    /\ UNCHANGED <<owner, count, dbThread, dbLevel, level, leaked>>

\* mkdir stands before the `try`: its OSError skips the RLock's release.
MakeDataDirFails(t) ==
    /\ pc[t] = "mkdir"
    /\ leaked[ProcOf[t]] < MaxLeaks[ProcOf[t]]
    /\ Leave(t)
    /\ leaked' = [leaked EXCEPT ![ProcOf[t]] = @ + 1]
    /\ UNCHANGED <<owner, count, dbThread, dbLevel>>

\* connect, CREATE TABLE IF NOT EXISTS, BEGIN EXCLUSIVE on a free database.
BeginExclusive(t) ==
    /\ dbThread = NoThread
    /\ Goto(t, "begin", "body")
    /\ dbThread' = t
    /\ dbLevel' = level[t]
    /\ UNCHANGED <<owner, count, level, leaked>>

\* "database is locked" after busy_timeout: OperationalError, then `finally`.
BusyTimeout(t) ==
    /\ dbThread # NoThread
    /\ Goto(t, "begin", "unwind")
    /\ UNCHANGED <<owner, count, dbThread, dbLevel, level, leaked>>

\* `finally`, first half: ROLLBACK and close this activation's connection.
CloseConnection(t) ==
    /\ pc[t] \in {"body", "unwind"}
    /\ LET mine == dbThread = t /\ dbLevel = level[t] IN
       /\ dbThread' = IF mine THEN NoThread ELSE dbThread
       /\ dbLevel' = IF mine THEN 0 ELSE dbLevel
    /\ pc' = [pc EXCEPT ![t] = "release"]
    /\ UNCHANGED <<owner, count, level, leaked>>

\* `finally`, second half: _MATERIALIZATION_LOCK.release().
ReleaseRLock(t) ==
    LET p == ProcOf[t] IN
    /\ pc[t] = "release"
    /\ count' = [count EXCEPT ![p] = @ - 1]
    /\ owner' = [owner EXCEPT ![p] = IF count[p] = 1 THEN NoThread ELSE @]
    /\ Leave(t)
    /\ UNCHANGED <<dbThread, dbLevel, leaked>>

\* Mutant of Crash: a lock that outlives its process, like a row or a file.
CrashLocked(p) ==
    LET mine(t) == ProcOf[t] = p IN
    /\ MayCrash
    /\ owner' = [owner EXCEPT ![p] = NoThread]
    /\ count' = [count EXCEPT ![p] = 0]
    /\ leaked' = [leaked EXCEPT ![p] = 0]
    /\ pc' = [t \in Threads |-> IF mine(t) THEN "idle" ELSE pc[t]]
    /\ level' = [t \in Threads |-> IF mine(t) THEN 0 ELSE level[t]]
    /\ UNCHANGED <<dbThread, dbLevel>>

\* The process dies: its threads, its RLock and its file locks go with it.
Crash(p) ==
    LET mine(t) == ProcOf[t] = p IN
    /\ MayCrash
    /\ owner' = [owner EXCEPT ![p] = NoThread]
    /\ count' = [count EXCEPT ![p] = 0]
    /\ leaked' = [leaked EXCEPT ![p] = 0]
    /\ pc' = [t \in Threads |-> IF mine(t) THEN "idle" ELSE pc[t]]
    /\ level' = [t \in Threads |-> IF mine(t) THEN 0 ELSE level[t]]
    /\ LET dead == dbThread # NoThread /\ mine(dbThread) IN
       /\ dbThread' = IF dead THEN NoThread ELSE dbThread
       /\ dbLevel' = IF dead THEN 0 ELSE dbLevel

\* What the thread does once it has called the lock; a call is the caller's.
Progress(t) ==
    \/ TakeRLock(t) \/ RLockTimeout(t)
    \/ MakeDataDir(t) \/ MakeDataDirFails(t)
    \/ BeginExclusive(t) \/ BusyTimeout(t)
    \/ CloseConnection(t) \/ ReleaseRLock(t)

Next ==
    \/ \E t \in Threads : Enter(t) \/ EnterNested(t) \/ Progress(t)
    \/ \E p \in Procs : Crash(p)

Spec == Init /\ [][Next]_vars

\* Threads run, the timed waits end, and the protected bodies return.
FairSpec == Spec /\ \A t \in Threads : WF_vars(Progress(t))

-----------------------------------------------------------------------------
(* Properties. *)

TypeOK ==
    /\ owner \in [Procs -> Threads \union {NoThread}]
    /\ count \in [Procs -> Nat]
    /\ dbThread \in Threads \union {NoThread}
    /\ dbLevel \in 0..2
    /\ pc \in [Threads -> Locations]
    /\ level \in [Threads -> 0..2]
    /\ leaked \in [Procs -> Nat]

\* t runs the protected body of its outer call (a nested call is part of it).
InCritical(t) == level[t] = 2 \/ (level[t] = 1 /\ pc[t] = "body")

\* Two threads, of one process or of two, are never both inside the protected
\* body, whatever timeouts, mkdir errors, crashes and nested entries happen
\* (materializer.py:90 "mutual exclusion across threads and processes").
MutualExclusion ==
    \A s, t \in Threads : InCritical(s) /\ InCritical(t) => s = t

\* The activations of t that have taken the RLock and not released it.
Held(t) == IF pc[t] = "rlock" THEN level[t] - 1 ELSE level[t]

\* A process's RLock is held exactly as often as its owner's running
\* activations took it: every exit, by return, timeout or exception, gives
\* back what it acquired (materializer.py:111-122) and nothing it did not,
\* except the one where mkdir raises (:101, before the try).
RLockBalanced ==
    \A p \in Procs :
      IF owner[p] = NoThread THEN count[p] = 0 /\ leaked[p] = 0
      ELSE count[p] = leaked[p] + Held(owner[p]) /\ count[p] > 0

\* Every call returns or raises: waits are bounded by timeout_seconds and the
\* exits release what they took, so no thread is stuck in the lock.
EveryCallReturns == \A t \in Threads : level[t] > 0 ~> level[t] = 0

\* settings.py:20 says auto_cleanup_wal decides "Whether to automatically
\* clean up materialized WAL segments": a nested cleanup gets to run.
AutoCleanupRuns ==
    \A t \in Threads : level[t] = 2 ~> level[t] = 2 /\ pc[t] = "body"

\* Nobody is locked out for ever (materializer.py:110-121): whoever holds the
\* lock database gives it up, by return, by exception, also that of a nested
\* call, or because his process dies.  busy_timeout ends a waiting call, but it
\* does not give it the database.
DatabaseFreed == \A t \in Threads : dbThread = t ~> dbThread # t
=============================================================================
