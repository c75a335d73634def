--------------------------- MODULE Backend_proofs ---------------------------
(***************************************************************************)
(* Proofs about LifecycleLock and Backend, for any processes, threads,     *)
(* flags and bounds.                                                       *)
(*                                                                         *)
(* The lock: type correctness, mutual exclusion, that a nested call never  *)
(* gets into its body, and that no path leaves the database behind.        *)
(* Mutual exclusion is not inductive.  A thread inside the body is the one *)
(* whose outer connection has the database (DbInv), which is what makes a  *)
(* nested BEGIN EXCLUSIVE impossible.  A balanced RLock needs that every   *)
(* activation that took it runs in its owner (RLockInv); type correctness  *)
(* needs the balance, or a release could count below zero.                 *)
(*                                                                         *)
(* The backend: it uses the lock as LifecycleLock allows (Refinement), so  *)
(* that what is proved there holds here too; its types; one run of the     *)
(* loop at a time; and that a complete shutdown leaves nothing running.    *)
(* The last is not inductive.  When the lifespan has its task back, the    *)
(* loop has no run under way, because it counts as running exactly as long *)
(* as one of its calls is queued or taken (RunInv), and there is no other  *)
(* call left, because no request is taken up behind the yield (DrainInv).  *)
(***************************************************************************)
EXTENDS Backend, SequenceTheorems, FiniteSetTheorems, TLAPS

(* The lock. *)

PcInv == \A t \in Threads : pc[t] = "idle" <=> level[t] = 0

RLockInv ==
    /\ \A t \in Threads : Held(t) > 0 => owner[ProcOf[t]] = t
    /\ \A p \in Procs : owner[p] # NoThread => ProcOf[owner[p]] = p

DbInv == \A t \in Threads : InCritical(t) => dbThread = t /\ dbLevel = 1

LockInv == TypeOK /\ PcInv /\ RLockInv /\ RLockBalanced /\ DbInv

-----------------------------------------------------------------------------
\* The initial states satisfy the invariant.
LEMMA InitLockInv == Init => LockInv
  BY LockAssumption, SMT DEF Init, LockInv, TypeOK, PcInv, RLockInv, RLockBalanced,
     DbInv, Held, InCritical, Locations

\* Every step preserves the invariant, action by action.
LEMMA NextLockInv == LockInv /\ [Next]_vars => LockInv'
<1> SUFFICES ASSUME LockInv, [Next]_vars PROVE LockInv'
  OBVIOUS
<1> USE LockAssumption DEF LockInv, TypeOK, Locations, PcInv, RLockInv,
        RLockBalanced, DbInv, Held, InCritical
<1>1. ASSUME NEW t \in Threads, Enter(t) PROVE LockInv'
  BY <1>1, SMT DEF Enter, Goto
<1>2. ASSUME NEW t \in Threads, EnterNested(t) PROVE LockInv'
  BY <1>2, SMT DEF EnterNested, Goto
<1>3. ASSUME NEW t \in Threads, TakeRLock(t) PROVE LockInv'
  BY <1>3, SMT DEF TakeRLock, Goto
<1>4. ASSUME NEW t \in Threads, RLockTimeout(t) PROVE LockInv'
  BY <1>4, SMT DEF RLockTimeout, Leave
<1>5. ASSUME NEW t \in Threads, MakeDataDir(t) PROVE LockInv'
  BY <1>5, SMT DEF MakeDataDir, Goto
<1>6. ASSUME NEW t \in Threads, MakeDataDirFails(t) PROVE LockInv'
  BY <1>6, SMT DEF MakeDataDirFails, Leave
<1>7. ASSUME NEW t \in Threads, BeginExclusive(t) PROVE LockInv'
  BY <1>7, SMT DEF BeginExclusive, Goto
<1>8. ASSUME NEW t \in Threads, BusyTimeout(t) PROVE LockInv'
  BY <1>8, SMT DEF BusyTimeout, Goto
<1>9. ASSUME NEW t \in Threads, CloseConnection(t) PROVE LockInv'
  BY <1>9, SMT DEF CloseConnection
<1>10. ASSUME NEW t \in Threads, ReleaseRLock(t) PROVE LockInv'
  BY <1>10, SMT DEF ReleaseRLock, Leave
<1>11. ASSUME NEW p \in Procs, Crash(p) PROVE LockInv'
  BY <1>11, SMT DEF Crash
<1>12. CASE UNCHANGED vars
  BY <1>12, SMT DEF vars
<1> QED
  BY <1>1, <1>2, <1>3, <1>4, <1>5, <1>6, <1>7, <1>8, <1>9, <1>10, <1>11, <1>12
     DEF Next, Progress

\* The strengthened invariant holds in every reachable state.
THEOREM LockInvariant == Spec => []LockInv
  BY InitLockInv, NextLockInv, PTL DEF Spec

\* Type correctness; in particular the RLock's recursion count never goes
\* below zero (materializer.py:122 releases only what :97 acquired).
THEOREM TypeCorrect == Spec => []TypeOK
<1>1. LockInv => TypeOK
  BY DEF LockInv
<1> QED
  BY <1>1, LockInvariant, PTL

\* The RLock is balanced, for every number of processes and threads.
THEOREM Balanced == Spec => []RLockBalanced
<1>1. LockInv => RLockBalanced
  BY DEF LockInv
<1> QED
  BY <1>1, LockInvariant, PTL

\* No two threads are inside the protected body, for every number of
\* processes and threads (materializer.py:90).
THEOREM Exclusion == Spec => []MutualExclusion
<1>1. LockInv => MutualExclusion
  BY DEF LockInv, DbInv, MutualExclusion
<1> QED
  BY <1>1, LockInvariant, PTL

\* Whoever holds the lock database is a call that still has its close before
\* it, the safety half of DatabaseFreed: the outer one, in its body, on the way
\* out of it, or waiting for a nested one.
DatabaseInUse ==
    dbThread # NoThread =>
      /\ dbLevel = 1 /\ level[dbThread] > 0
      /\ level[dbThread] = 1 => pc[dbThread] \in {"body", "unwind"}

\* No timeout, failing mkdir, nested call or death leaves BEGIN EXCLUSIVE behind
\* (materializer.py:105-121).
THEOREM NeverOrphaned == Spec => []DatabaseInUse
<1>1. Init => DatabaseInUse
  BY DEF Init, DatabaseInUse
<1>2. LockInv /\ DatabaseInUse /\ [Next]_vars => DatabaseInUse'
  <2> SUFFICES ASSUME LockInv, DatabaseInUse, [Next]_vars PROVE DatabaseInUse'
    OBVIOUS
  <2> USE LockAssumption DEF LockInv, TypeOK, DatabaseInUse
  <2>1. ASSUME NEW t \in Threads, BeginExclusive(t) PROVE DatabaseInUse'
    <3>1. level[t] # 2
      BY <2>1 DEF BeginExclusive, DbInv, InCritical
    <3>2. level[t] = 1
      BY <2>1, <3>1 DEF BeginExclusive, Goto, PcInv
    <3> QED
      BY <2>1, <3>2 DEF BeginExclusive, Goto
  <2>2. ASSUME NEW t \in Threads,
               Enter(t) \/ EnterNested(t) \/ TakeRLock(t) \/ MakeDataDir(t) \/ BusyTimeout(t)
        PROVE  DatabaseInUse'
    BY <2>2 DEF Enter, EnterNested, TakeRLock, MakeDataDir, BusyTimeout, Goto, PcInv
  <2>3. ASSUME NEW t \in Threads, RLockTimeout(t) \/ MakeDataDirFails(t) \/ ReleaseRLock(t)
        PROVE  DatabaseInUse'
    BY <2>3 DEF RLockTimeout, MakeDataDirFails, ReleaseRLock, Leave, PcInv
  <2>4. ASSUME NEW t \in Threads, CloseConnection(t) PROVE DatabaseInUse'
    BY <2>4 DEF CloseConnection
  <2>5. ASSUME NEW p \in Procs, Crash(p) PROVE DatabaseInUse'
    BY <2>5 DEF Crash
  <2>6. CASE UNCHANGED vars
    BY <2>6 DEF vars
  <2> QED
    BY <2>1, <2>2, <2>3, <2>4, <2>5, <2>6 DEF Next, Progress
<1> QED
  BY <1>1, <1>2, LockInvariant, PTL DEF Spec

-----------------------------------------------------------------------------
\* A nested call never gets to its body: its BEGIN EXCLUSIVE waits for the
\* connection of the same thread's outer call, which waits for it.
NeverNested == \A t \in Threads : level[t] = 2 => pc[t] # "body"

\* So the automatic cleanup of materialize() never runs (materializer.py:589),
\* whatever times out, fails or dies, for any processes and threads: the run
\* LockAutoCleanup shows one such call, this theorem that there is no other.
THEOREM NestedNeverRuns == Spec => []NeverNested
<1>1. Init => NeverNested
  BY DEF Init, NeverNested
<1>2. LockInv /\ NeverNested /\ [Next]_vars => NeverNested'
  <2> SUFFICES ASSUME LockInv, NeverNested, [Next]_vars PROVE NeverNested'
    OBVIOUS
  <2> USE LockAssumption DEF LockInv, TypeOK, DbInv, InCritical, NeverNested
  <2>1. ASSUME NEW t \in Threads, BeginExclusive(t) PROVE NeverNested'
    BY <2>1 DEF BeginExclusive, Goto
  <2>2. ASSUME NEW t \in Threads,
               Enter(t) \/ EnterNested(t) \/ TakeRLock(t) \/ MakeDataDir(t) \/ BusyTimeout(t)
        PROVE  NeverNested'
    BY <2>2 DEF Enter, EnterNested, TakeRLock, MakeDataDir, BusyTimeout, Goto
  <2>3. ASSUME NEW t \in Threads,
               RLockTimeout(t) \/ MakeDataDirFails(t) \/ CloseConnection(t) \/ ReleaseRLock(t)
        PROVE  NeverNested'
    BY <2>3 DEF RLockTimeout, MakeDataDirFails, CloseConnection, ReleaseRLock, Leave
  <2>4. ASSUME NEW p \in Procs, Crash(p) PROVE NeverNested'
    BY <2>4 DEF Crash
  <2>5. CASE UNCHANGED vars
    BY <2>5 DEF vars
  <2> QED
    BY <2>1, <2>2, <2>3, <2>4, <2>5 DEF Next, Progress
<1> QED
  BY <1>1, <1>2, LockInvariant, PTL DEF Spec

-----------------------------------------------------------------------------
(* The backend. *)

\* Where the calls of the loop of p are: queued, or in a thread.
Queued(p, call) == {n \in DOMAIN queue[p] : queue[p][n] = call}
Taken(p, call) == {t \in ThreadsOf(p) : job[t] = call}

RunInv ==
    \A p \in Procs :
      IF loop[p] = "running"
      THEN \/ (\E n : Queued(p, "loop") = {n}) /\ Taken(p, "loop") = {}
           \/ Queued(p, "loop") = {} /\ \E t : Taken(p, "loop") = {t}
      ELSE Queued(p, "loop") = {} /\ Taken(p, "loop") = {}

DrainInv ==
    \A p \in Procs :
      /\ phase[p] \in {"draining", "complete"} =>
           Queued(p, "request") = {} /\ Taken(p, "request") = {}
      /\ phase[p] = "complete" => loop[p] # "running" /\ loop[p] \in {"off", "ended"}

Inv == LockInv /\ BackendTypeOK /\ RunInv /\ DrainInv /\ QuietUnlessUp

-----------------------------------------------------------------------------
\* Every step of the backend is one of the lock, or leaves it alone.
LEMMA NextInLock == [BackendNext]_backendVars => [Next]_vars
<1> SUFFICES ASSUME [BackendNext]_backendVars PROVE [Next]_vars
  OBVIOUS
<1> USE DEF Next
<1>1. CASE UNCHANGED backendVars
  BY <1>1 DEF backendVars
<1>2. ASSUME NEW p \in Procs,
             Start(p) \/ Lifespan(p) \/ Close(p) \/ Kill(p) \/ Background(p) \/ Post(p)
      PROVE  [Next]_vars
  BY <1>2 DEF Start, Lifespan, Startup, StartupFails, StopLoop, ShutdownComplete, Exit,
     Close, Kill, Vanish, Background, LoopRun, LoopEnd, LoopWake, Post
<1>3. ASSUME NEW t \in Threads, Worker(t) \/ Nest(t) PROVE [Next]_vars
  BY <1>3 DEF Worker, Nest, TakeCall, InLock, CallEnds
<1> QED
  BY <1>1, <1>2, <1>3 DEF BackendNext

\* The backend's calls use the lock as LifecycleLock allows.
THEOREM Refinement == BackendSpec => Spec
<1>1. BackendInit => Init
  BY DEF BackendInit
<1> QED
  BY <1>1, NextInLock, PTL DEF BackendSpec, Spec

\* So they exclude each other, in all processes (materializer.py:90).
THEOREM CallsExclude == BackendSpec => []MutualExclusion
  BY Refinement, Exclusion, PTL

\* And none of them leaves the lock database behind, whatever ends it, shutdown
\* and death of its process included (materializer.py:105-121).
THEOREM CallsRelease == BackendSpec => []DatabaseInUse
  BY Refinement, NeverOrphaned, PTL

\* And no automatic cleanup ever runs in any of them (materializer.py:589).
THEOREM CallsNeverNest == BackendSpec => []NeverNested
  BY Refinement, NestedNeverRuns, PTL

-----------------------------------------------------------------------------
LEMMA InitBackend == BackendInit => Inv
<1> SUFFICES ASSUME BackendInit PROVE Inv
  OBVIOUS
<1> USE LockAssumption, BackendAssumption
<1>1. LockInv
  BY InitLockInv DEF BackendInit
<1>2. BackendTypeOK
  BY <1>1 DEF BackendInit, BackendTypeOK, Init, LockInv, Phases, Calls
<1>3. RunInv /\ DrainInv /\ QuietUnlessUp
  BY DEF BackendInit, Init, RunInv, DrainInv, QuietUnlessUp, Queued, Taken, ThreadsOf
<1> QED
  BY <1>1, <1>2, <1>3 DEF Inv

\* What a call does to the queue and the threads.
LEMMA Submitted ==
    ASSUME Inv, NEW p \in Procs, NEW call \in Calls, Submit(p, call)
    PROVE  /\ queue' \in [Procs -> Seq(Calls)]
           /\ \A q \in Procs, c \in Calls :
                Queued(q, c)' = IF q = p /\ c = call THEN Queued(q, c) \union {Len(queue[p]) + 1}
                               ELSE Queued(q, c)
<1>1. queue \in [Procs -> Seq(Calls)] /\ queue[p] \in Seq(Calls)
  BY DEF Inv, BackendTypeOK
<1>2. queue'[p] = Append(queue[p], call) /\ \A q \in Procs \ {p} : queue'[q] = queue[q]
  BY <1>1 DEF Submit
<1>3. queue' \in [Procs -> Seq(Calls)]
  BY <1>1 DEF Submit
<1>4. /\ DOMAIN queue[p] = 1..Len(queue[p]) /\ Len(queue[p]) \in Nat
      /\ DOMAIN queue'[p] = 1..(Len(queue[p]) + 1)
      /\ \A n \in 1..Len(queue[p]) : queue'[p][n] = queue[p][n]
      /\ queue'[p][Len(queue[p]) + 1] = call
  BY <1>1, <1>2
<1> QED
  BY <1>2, <1>3, <1>4 DEF Queued

LEMMA TakenOff ==
    ASSUME Inv, NEW t \in Threads, TakeCall(t)
    PROVE  LET p == ProcOf[t]
               call == Head(queue[p])
           IN /\ p \in Procs /\ call \in Calls /\ queue[p] # <<>>
              /\ queue' \in [Procs -> Seq(Calls)] /\ job' \in [Threads -> Calls \union {"none"}]
              /\ 1 \in Queued(p, call)
              /\ \A q \in Procs, c \in Calls :
                   /\ Queued(q, c)' = IF q = p THEN {n \in Nat : n # 0 /\ n + 1 \in Queued(p, c)}
                                      ELSE Queued(q, c)
                   /\ Taken(q, c)' = IF q = p /\ c = call THEN Taken(q, c) \union {t}
                                     ELSE Taken(q, c)
<1> DEFINE p == ProcOf[t]
           call == Head(queue[p])
<1>1. /\ p \in Procs /\ queue \in [Procs -> Seq(Calls)] /\ queue[p] \in Seq(Calls)
      /\ job \in [Threads -> Calls \union {"none"}]
  BY LockAssumption DEF Inv, BackendTypeOK
<1>2. /\ queue[p] # <<>> /\ job[t] = "none"
      /\ job' = [job EXCEPT ![t] = call]
      /\ queue' = [queue EXCEPT ![p] = Tail(@)]
  BY DEF TakeCall
<1>3. /\ Len(queue[p]) \in Nat \ {0} /\ DOMAIN queue[p] = 1..Len(queue[p])
      /\ call = queue[p][1] /\ call \in Calls
      /\ Tail(queue[p]) \in Seq(Calls)
      /\ DOMAIN Tail(queue[p]) = 1..(Len(queue[p]) - 1)
      /\ \A n \in 1..(Len(queue[p]) - 1) : Tail(queue[p])[n] = queue[p][n + 1]
  BY <1>1, <1>2
<1>4. queue' \in [Procs -> Seq(Calls)] /\ job' \in [Threads -> Calls \union {"none"}]
  BY <1>1, <1>2, <1>3
<1>5. 1 \in Queued(p, call)
  BY <1>3 DEF Queued
<1>6. ASSUME NEW q \in Procs, NEW c \in Calls
      PROVE  Queued(q, c)' = IF q = p THEN {n \in Nat : n # 0 /\ n + 1 \in Queued(p, c)}
                             ELSE Queued(q, c)
  <2>1. CASE q = p
    BY <1>1, <1>2, <1>3, <2>1 DEF Queued
  <2>2. CASE q # p
    BY <1>1, <1>2, <2>2 DEF Queued
  <2> QED
    BY <2>1, <2>2
<1>7. ASSUME NEW q \in Procs, NEW c \in Calls
      PROVE  Taken(q, c)' = IF q = p /\ c = call THEN Taken(q, c) \union {t} ELSE Taken(q, c)
  BY <1>1, <1>2, <1>3 DEF Taken, ThreadsOf, Calls
<1> QED
  BY <1>1, <1>2, <1>3, <1>4, <1>5, <1>6, <1>7

-----------------------------------------------------------------------------
\* The lifespan up to its end; nothing is handed over or taken.
LEMMA LifespanInv ==
    ASSUME Inv, NEW p \in Procs,
           \/ Start(p) \/ Startup(p) \/ StartupFails(p)
           \/ Close(p) \/ StopLoop(p) \/ ShutdownComplete(p)
    PROVE  BackendTypeOK' /\ RunInv' /\ DrainInv' /\ QuietUnlessUp'
<1> USE LockAssumption, BackendAssumption DEF Inv
<1>1. UNCHANGED <<vars, queue, job>>
  BY DEF Start, Startup, StartupFails, Close, StopLoop, ShutdownComplete
<1>2. \A q \in Procs, c \in Calls : Queued(q, c)' = Queued(q, c) /\ Taken(q, c)' = Taken(q, c)
  BY <1>1 DEF Queued, Taken, ThreadsOf
<1>3. BackendTypeOK'
  <2> USE DEF Start, Startup, StartupFails, Close, StopLoop, ShutdownComplete, MoveTo
  <2>1. TypeOK'
    BY <1>1 DEF BackendTypeOK, TypeOK, vars
  <2>2. phase' \in [Procs -> Phases]
    BY DEF BackendTypeOK, Phases
  <2>3. stop' \in [Procs -> BOOLEAN]
    BY DEF BackendTypeOK
  <2>4. loop' \in [Procs -> {"off", "head", "running", "waiting", "ended"}]
    BY DEF BackendTypeOK
  <2>5. \A q \in Procs : loop'[q] # "off" => q \in Looping /\ phase'[q] \notin {"down", "starting"}
    BY DEF BackendTypeOK
  <2>6. UNCHANGED <<level, queue, job>>
    BY <1>1 DEF vars
  <2> QED
    BY <2>1, <2>2, <2>3, <2>4, <2>5, <2>6 DEF BackendTypeOK
<1>4. RunInv'
  <2>1. \A q \in Procs : loop'[q] = "running" <=> loop[q] = "running"
    BY DEF Start, Startup, StartupFails, Close, StopLoop, ShutdownComplete, MoveTo,
       BackendTypeOK
  <2> QED
    BY <1>2, <2>1 DEF RunInv, Calls
<1>5. DrainInv'
  <2>1. CASE StopLoop(p)
    BY <1>2, <2>1 DEF StopLoop, MoveTo, DrainInv, Requests, Queued, Taken, BackendTypeOK,
       Calls
  <2>2. CASE ShutdownComplete(p)
    BY <1>2, <2>2 DEF ShutdownComplete, TaskDone, MoveTo, DrainInv, BackendTypeOK, Calls
  <2>3. CASE Start(p) \/ Startup(p) \/ StartupFails(p) \/ Close(p)
    BY <1>2, <2>3 DEF Start, Startup, StartupFails, Close, MoveTo, DrainInv,
       BackendTypeOK, Calls
  <2> QED
    BY <2>1, <2>2, <2>3
<1>6. QuietUnlessUp'
  <2>1. CASE ShutdownComplete(p)
    <3>1. loop[p] # "running" /\ phase[p] = "draining"
      BY <2>1 DEF ShutdownComplete, TaskDone, MoveTo
    <3>2. \A c \in Calls : Queued(p, c) = {} /\ Taken(p, c) = {}
      BY <3>1 DEF RunInv, DrainInv, Calls
    <3>3. queue[p] \in Seq(Calls) /\ job \in [Threads -> Calls \union {"none"}]
      BY DEF BackendTypeOK
    <3>4. queue[p] = <<>>
      <4>1. ASSUME Len(queue[p]) # 0 PROVE FALSE
        <5>1. 1 \in DOMAIN queue[p] /\ queue[p][1] \in Calls
          BY <3>3, <4>1
        <5> QED
          BY <3>2, <5>1 DEF Queued
      <4> QED
        BY <3>3, <4>1
    <3>5. \A t \in ThreadsOf(p) : job[t] = "none" /\ level[t] = 0
      <4> SUFFICES ASSUME NEW t \in ThreadsOf(p) PROVE job[t] = "none" /\ level[t] = 0
        OBVIOUS
      <4>1. t \in Threads
        BY DEF ThreadsOf
      <4>2. job[t] \notin Calls
        BY <3>2 DEF Taken
      <4>3. job[t] = "none"
        BY <3>3, <4>1, <4>2
      <4>4. level[t] \in 0..2 /\ (level[t] > 0 => job[t] # "none")
        BY <4>1 DEF BackendTypeOK, TypeOK
      <4> QED
        BY <4>3, <4>4
    <3>6. \A q \in Procs \ {p} : phase'[q] = phase[q]
      BY <2>1 DEF ShutdownComplete, MoveTo, BackendTypeOK
    <3> QED
      BY <1>1, <3>4, <3>5, <3>6 DEF QuietUnlessUp, ThreadsOf, vars
  <2>2. CASE ~ShutdownComplete(p)
    BY <1>1, <2>2 DEF Start, Startup, StartupFails, Close, StopLoop, MoveTo,
       QuietUnlessUp, ThreadsOf, BackendTypeOK, vars
  <2> QED
    BY <2>1, <2>2
<1> QED
  BY <1>3, <1>4, <1>5, <1>6

\* The process ends: nothing of it is left.
LEMMA VanishInv ==
    ASSUME Inv, TypeOK', NEW p \in Procs, Vanish(p)
    PROVE  BackendTypeOK' /\ RunInv' /\ DrainInv' /\ QuietUnlessUp'
<1> USE LockAssumption, BackendAssumption DEF Inv
<1>1. /\ phase' = [phase EXCEPT ![p] = "down"] /\ loop' = [loop EXCEPT ![p] = "off"]
      /\ queue' = [queue EXCEPT ![p] = <<>>]
      /\ job' = [t \in Threads |-> IF ProcOf[t] = p THEN "none" ELSE job[t]]
      /\ level' = [t \in Threads |-> IF ProcOf[t] = p THEN 0 ELSE level[t]]
      /\ stop' = stop
  BY DEF Vanish, Crash
<1>2. BackendTypeOK'
  <2>1. queue' \in [Procs -> Seq(Calls)]
    BY <1>1 DEF BackendTypeOK
  <2>2. job' \in [Threads -> Calls \union {"none"}]
    BY <1>1 DEF BackendTypeOK
  <2>3. \A t \in Threads : level'[t] > 0 => job'[t] # "none"
    BY <1>1 DEF BackendTypeOK, TypeOK
  <2> QED
    BY <1>1, <2>1, <2>2, <2>3 DEF BackendTypeOK, Phases
<1>3. \A q \in Procs, c \in Calls :
        /\ Queued(q, c)' = IF q = p THEN {} ELSE Queued(q, c)
        /\ Taken(q, c)' = IF q = p THEN {} ELSE Taken(q, c)
  BY <1>1 DEF Queued, Taken, ThreadsOf, BackendTypeOK, Calls
<1>4. RunInv'
  BY <1>1, <1>3 DEF RunInv, Calls, BackendTypeOK
<1>5. DrainInv'
  BY <1>1, <1>3 DEF DrainInv, Calls, BackendTypeOK
<1>6. QuietUnlessUp'
  BY <1>1 DEF QuietUnlessUp, ThreadsOf, BackendTypeOK
<1> QED
  BY <1>2, <1>4, <1>5, <1>6

\* A call is handed over, by the loop or by a request.
LEMMA SubmitInv ==
    ASSUME Inv, NEW p \in Procs, LoopRun(p) \/ Post(p)
    PROVE  BackendTypeOK' /\ RunInv' /\ DrainInv' /\ QuietUnlessUp'
<1> USE LockAssumption, BackendAssumption DEF Inv
<1>1. UNCHANGED <<vars, phase, stop, job>>
  BY DEF LoopRun, Post
<1>2. PICK call \in Calls : /\ Submit(p, call)
                            /\ \/ call = "loop" /\ LoopRun(p)
                               \/ call = "request" /\ Post(p)
  BY DEF LoopRun, Post, Calls
<1>3. phase[p] \notin {"down", "starting", "complete"}
      /\ (call = "request" => phase[p] = "ready")
  BY <1>2 DEF LoopRun, Post, BackendTypeOK, DrainInv
<1>4. \A q \in Procs, c \in Calls : Taken(q, c)' = Taken(q, c)
  BY <1>1 DEF Taken, ThreadsOf
<1>5. /\ queue' \in [Procs -> Seq(Calls)]
      /\ \A q \in Procs, c \in Calls :
           Queued(q, c)' = IF q = p /\ c = call THEN Queued(q, c) \union {Len(queue[p]) + 1}
                          ELSE Queued(q, c)
  BY <1>2, Submitted
<1>6. loop' = IF call = "loop" THEN [loop EXCEPT ![p] = "running"] ELSE loop
  BY <1>2 DEF LoopRun, Post
<1>7. BackendTypeOK'
  BY <1>1, <1>2, <1>3, <1>5, <1>6 DEF BackendTypeOK, TypeOK, vars, LoopRun
<1>8. RunInv'
  <2>1. CASE call = "loop"
    <3>1. loop[p] = "head"
      BY <1>2, <2>1 DEF LoopRun
    <3>2. Queued(p, "loop")' = {Len(queue[p]) + 1} /\ Taken(p, "loop")' = {}
      BY <1>4, <1>5, <2>1, <3>1 DEF RunInv, Calls
    <3>3. \A q \in Procs \ {p} : /\ loop'[q] = loop[q]
                                 /\ Queued(q, "loop")' = Queued(q, "loop")
                                  /\ Taken(q, "loop")' = Taken(q, "loop")
      BY <1>4, <1>5, <1>6, <2>1 DEF Calls, BackendTypeOK
    <3>4. loop'[p] = "running"
      BY <1>6, <2>1 DEF BackendTypeOK
    <3> QED
      BY <3>2, <3>3, <3>4 DEF RunInv
  <2>2. CASE call = "request"
    BY <1>4, <1>5, <1>6, <2>2 DEF RunInv, Calls
  <2> QED
    BY <2>1, <2>2 DEF Calls
<1>9. DrainInv'
  BY <1>1, <1>2, <1>3, <1>4, <1>5, <1>6 DEF DrainInv, Calls, BackendTypeOK
<1>10. QuietUnlessUp'
  <2>1. \A q \in Procs \ {p} : queue'[q] = queue[q]
    BY <1>2 DEF Submit, BackendTypeOK
  <2> QED
    BY <1>1, <1>3, <2>1 DEF QuietUnlessUp, ThreadsOf, vars
<1> QED
  BY <1>7, <1>8, <1>9, <1>10

\* The loop ends, or wakes from its pause.
LEMMA LoopInv ==
    ASSUME Inv, NEW p \in Procs, LoopEnd(p) \/ LoopWake(p)
    PROVE  BackendTypeOK' /\ RunInv' /\ DrainInv' /\ QuietUnlessUp'
<1> USE LockAssumption, BackendAssumption DEF Inv
<1>1. /\ UNCHANGED <<vars, phase, stop, queue, job>>
      /\ loop[p] \in {"head", "waiting"}
      /\ \E l \in {"ended", "head"} : loop' = [loop EXCEPT ![p] = l]
  BY DEF LoopEnd, LoopWake
<1>2. \A q \in Procs, c \in Calls : Queued(q, c)' = Queued(q, c) /\ Taken(q, c)' = Taken(q, c)
  BY <1>1 DEF Queued, Taken, ThreadsOf
<1>3. BackendTypeOK'
  BY <1>1 DEF BackendTypeOK, TypeOK, vars
<1>4. RunInv'
  BY <1>1, <1>2 DEF RunInv, Calls, BackendTypeOK
<1>5. DrainInv'
  BY <1>1, <1>2 DEF DrainInv, Calls, BackendTypeOK
<1>6. QuietUnlessUp'
  BY <1>1 DEF QuietUnlessUp, ThreadsOf, vars
<1> QED
  BY <1>3, <1>4, <1>5, <1>6

\* A thread takes the next call.
LEMMA TakeCallInv ==
    ASSUME Inv, TypeOK', NEW t \in Threads, TakeCall(t)
    PROVE  BackendTypeOK' /\ RunInv' /\ DrainInv' /\ QuietUnlessUp'
<1> USE LockAssumption, BackendAssumption DEF Inv
<1> DEFINE p == ProcOf[t]
           call == Head(queue[p])
<1>1. /\ p \in Procs /\ call \in Calls /\ queue[p] # <<>>
      /\ queue' \in [Procs -> Seq(Calls)] /\ job' \in [Threads -> Calls \union {"none"}]
      /\ 1 \in Queued(p, call)
      /\ \A q \in Procs, c \in Calls :
           /\ Queued(q, c)' = IF q = p THEN {n \in Nat : n # 0 /\ n + 1 \in Queued(p, c)}
                              ELSE Queued(q, c)
           /\ Taken(q, c)' = IF q = p /\ c = call THEN Taken(q, c) \union {t} ELSE Taken(q, c)
  BY TakenOff
<1>2. /\ UNCHANGED <<phase, stop, loop>> /\ job' = [job EXCEPT ![t] = call]
      /\ queue' = [queue EXCEPT ![p] = Tail(@)]
      /\ level' = [level EXCEPT ![t] = 1]
  BY DEF TakeCall, Enter
<1>3. BackendTypeOK'
  <2>1. \A s \in Threads : level'[s] > 0 => job'[s] # "none"
    BY <1>1, <1>2 DEF BackendTypeOK, TypeOK, Calls
  <2> QED
    BY <1>1, <1>2, <2>1 DEF BackendTypeOK
<1>4. RunInv'
  <2>1. CASE call = "loop"
    <3>1. loop[p] = "running" /\ Queued(p, "loop") = {1} /\ Taken(p, "loop") = {}
      BY <1>1, <2>1 DEF RunInv
    <3>2. Queued(p, "loop")' = {} /\ Taken(p, "loop")' = {t}
      BY <1>1, <2>1, <3>1
    <3> QED
      BY <1>1, <1>2, <2>1, <3>1, <3>2 DEF RunInv, Calls
  <2>2. CASE call = "request"
    <3>1. 1 \notin Queued(p, "loop") /\ Queued(p, "loop") \subseteq Nat \ {0}
      BY <1>1, <2>2 DEF Queued, BackendTypeOK
    <3>2. \A n : Queued(p, "loop") = {n} =>
            {m \in Nat : m # 0 /\ m + 1 \in Queued(p, "loop")} = {n - 1}
      BY <3>1
    <3>3. Queued(p, "loop") = {} => Queued(p, "loop")' = {}
      BY <1>1 DEF Calls
    <3>4. \A n : Queued(p, "loop") = {n} => Queued(p, "loop")' = {n - 1}
      BY <1>1, <3>2 DEF Calls
    <3>5. \A q \in Procs : Taken(q, "loop")' = Taken(q, "loop")
      BY <1>1, <2>2 DEF Calls
    <3>6. \A q \in Procs \ {p} : Queued(q, "loop")' = Queued(q, "loop")
      BY <1>1 DEF Calls
    <3> QED
      BY <1>2, <3>3, <3>4, <3>5, <3>6 DEF RunInv
  <2> QED
    BY <1>1, <2>1, <2>2 DEF Calls
<1>5. DrainInv'
  <2>1. \A q \in Procs : Queued(q, "request") = {} => Queued(q, "request")' = {}
    BY <1>1 DEF Calls
  <2>2. \A q \in Procs : Queued(q, "request") = {} => Taken(q, "request")' = Taken(q, "request")
    BY <1>1 DEF Calls
  <2> QED
    BY <1>2, <2>1, <2>2 DEF DrainInv
<1>6. QuietUnlessUp'
  <2>1. phase[p] \notin {"down", "starting", "complete"}
    BY <1>1 DEF QuietUnlessUp
  <2>2. /\ \A q \in Procs \ {p} : queue'[q] = queue[q]
        /\ \A s \in Threads \ {t} : job'[s] = job[s] /\ level'[s] = level[s]
    BY <1>2 DEF BackendTypeOK, TypeOK
  <2> QED
    BY <1>2, <2>1, <2>2 DEF QuietUnlessUp, ThreadsOf
<1> QED
  BY <1>3, <1>4, <1>5, <1>6

\* Inside the lock, a call changes nothing else.
LEMMA InLockInv ==
    ASSUME Inv, TypeOK', NEW t \in Threads, Nest(t) \/ InLock(t)
    PROVE  BackendTypeOK' /\ RunInv' /\ DrainInv' /\ QuietUnlessUp'
<1> USE LockAssumption, BackendAssumption DEF Inv
<1>1. UNCHANGED <<phase, stop, loop, queue, job>>
  BY DEF Nest, InLock, app
<1>2. \A s \in Threads : level'[s] > 0 => level[s] > 0
  <2>1. CASE Nest(t)
    BY <2>1 DEF Nest, EnterNested, BackendTypeOK, TypeOK
  <2>2. CASE InLock(t)
    <3>1. Leave(t) \/ UNCHANGED level
      BY <2>2 DEF InLock, Progress, TakeRLock, RLockTimeout, MakeDataDir, MakeDataDirFails,
         BeginExclusive, BusyTimeout, CloseConnection, ReleaseRLock
    <3>2. level \in [Threads -> 0..2]
      BY DEF BackendTypeOK, TypeOK
    <3> QED
      BY <3>1, <3>2 DEF Leave
  <2> QED
    BY <2>1, <2>2
<1>3. \A s \in Threads : level'[s] \in 0..2
  BY DEF TypeOK
<1>4. BackendTypeOK'
  BY <1>1, <1>2 DEF BackendTypeOK
<1>5. \A q \in Procs, c \in Calls : Queued(q, c)' = Queued(q, c) /\ Taken(q, c)' = Taken(q, c)
  BY <1>1 DEF Queued, Taken, ThreadsOf
<1>6. RunInv' /\ DrainInv'
  BY <1>1, <1>5 DEF RunInv, DrainInv, Calls
<1>7. QuietUnlessUp'
  <2> SUFFICES ASSUME NEW q \in Procs, phase[q] \in {"down", "starting", "complete"},
                      NEW s \in ThreadsOf(q)
               PROVE  level'[s] = 0
    BY <1>1 DEF QuietUnlessUp, ThreadsOf
  <2>1. s \in Threads /\ level[s] = 0
    BY DEF QuietUnlessUp, ThreadsOf
  <2> QED
    BY <1>2, <1>3, <2>1
<1> QED
  BY <1>4, <1>6, <1>7

\* A call ends, the loop's or a request's.
LEMMA CallEndsInv ==
    ASSUME Inv, NEW t \in Threads, CallEnds(t)
    PROVE  BackendTypeOK' /\ RunInv' /\ DrainInv' /\ QuietUnlessUp'
<1> USE LockAssumption, BackendAssumption DEF Inv
<1> DEFINE p == ProcOf[t]
<1>1. /\ p \in Procs /\ UNCHANGED <<vars, phase, stop, queue>>
      /\ job' = [job EXCEPT ![t] = "none"] /\ job[t] \in Calls /\ level[t] = 0
      /\ loop' = IF job[t] = "loop" THEN [loop EXCEPT ![p] = "waiting"] ELSE loop
  BY DEF CallEnds, BackendTypeOK
<1>2. \A q \in Procs, c \in Calls : Queued(q, c)' = Queued(q, c) /\ Taken(q, c)' = Taken(q, c) \ {t}
  BY <1>1 DEF Queued, Taken, ThreadsOf, BackendTypeOK, Calls
<1>3. t \in Taken(p, job[t]) /\ \A q \in Procs \ {p} : \A c : t \notin Taken(q, c)
  BY DEF Taken, ThreadsOf
<1>4. job[t] = "loop" => loop[p] = "running" /\ Queued(p, "loop") = {} /\ Taken(p, "loop") = {t}
  BY <1>1, <1>3 DEF RunInv
<1>5. BackendTypeOK'
  <2>1. loop' \in [Procs -> {"off", "head", "running", "waiting", "ended"}]
    BY <1>1 DEF BackendTypeOK
  <2>2. \A q \in Procs : loop'[q] # "off" => q \in Looping /\ phase[q] \notin {"down", "starting"}
    BY <1>1, <1>4 DEF BackendTypeOK
  <2>3. \A s \in Threads : level[s] > 0 => job'[s] # "none"
    BY <1>1 DEF BackendTypeOK, TypeOK
  <2> QED
    BY <1>1, <2>1, <2>2, <2>3 DEF BackendTypeOK, TypeOK, vars
<1>6. RunInv'
  <2>1. CASE job[t] = "loop"
    <3>1. Queued(p, "loop")' = {} /\ Taken(p, "loop")' = {} /\ loop'[p] # "running"
      BY <1>1, <1>2, <1>4, <2>1 DEF Calls, BackendTypeOK
    <3>2. \A q \in Procs \ {p} : /\ Queued(q, "loop")' = Queued(q, "loop")
                                 /\ Taken(q, "loop")' = Taken(q, "loop")
                                  /\ loop'[q] = loop[q]
      <4> SUFFICES ASSUME NEW q \in Procs \ {p}
                   PROVE  /\ Queued(q, "loop")' = Queued(q, "loop")
                          /\ Taken(q, "loop")' = Taken(q, "loop")
                          /\ loop'[q] = loop[q]
        OBVIOUS
      <4>1. t \notin Taken(q, "loop")
        BY <1>3
      <4>2. Queued(q, "loop")' = Queued(q, "loop") /\ Taken(q, "loop")' = Taken(q, "loop")
        BY <1>2, <4>1 DEF Calls
      <4>3. loop'[q] = loop[q]
        BY <1>1 DEF BackendTypeOK
      <4> QED
        BY <4>2, <4>3
    <3> QED
      BY <3>1, <3>2 DEF RunInv
  <2>2. CASE job[t] # "loop"
    <3>1. \A q \in Procs : t \notin Taken(q, "loop")
      BY <2>2 DEF Taken
    <3>2. \A q \in Procs : /\ Queued(q, "loop")' = Queued(q, "loop")
                           /\ Taken(q, "loop")' = Taken(q, "loop")
      BY <1>2, <3>1 DEF Calls
    <3> QED
      BY <1>1, <2>2, <3>2 DEF RunInv
  <2> QED
    BY <2>1, <2>2
<1>7. DrainInv'
  <2>1. \A q \in Procs : Queued(q, "request")' = Queued(q, "request")
                         /\ Taken(q, "request")' \subseteq Taken(q, "request")
    BY <1>2 DEF Calls
  <2>2. phase[p] = "complete" => loop' = loop
    BY <1>1, <1>4 DEF DrainInv
  <2>3. \A q \in Procs \ {p} : loop'[q] = loop[q]
    BY <1>1 DEF BackendTypeOK
  <2> QED
    BY <1>1, <2>1, <2>2, <2>3 DEF DrainInv
<1>8. QuietUnlessUp'
  BY <1>1 DEF QuietUnlessUp, ThreadsOf, BackendTypeOK, vars
<1> QED
  BY <1>5, <1>6, <1>7, <1>8

LEMMA NextInv == Inv /\ [BackendNext]_backendVars => Inv'
<1> SUFFICES ASSUME Inv, [BackendNext]_backendVars PROVE Inv'
  OBVIOUS
<1>1. LockInv' /\ TypeOK'
  BY NextInLock, NextLockInv DEF Inv, LockInv
<1>2. CASE UNCHANGED backendVars
  <2>1. UNCHANGED <<phase, stop, loop, queue, job, level>>
    BY <1>2 DEF backendVars, app, vars
  <2>2. \A q \in Procs : \A c : Queued(q, c)' = Queued(q, c) /\ Taken(q, c)' = Taken(q, c)
    BY <2>1 DEF Queued, Taken, ThreadsOf
  <2>3. BackendTypeOK'
    BY <1>1, <2>1 DEF Inv, BackendTypeOK
  <2>4. RunInv' /\ DrainInv'
    BY <2>1, <2>2 DEF Inv, RunInv, DrainInv
  <2>5. QuietUnlessUp'
    BY <2>1 DEF Inv, QuietUnlessUp, ThreadsOf
  <2> QED
    BY <1>1, <2>3, <2>4, <2>5 DEF Inv
<1>3. ASSUME NEW p \in Procs,
             Start(p) \/ Lifespan(p) \/ Close(p) \/ Kill(p) \/ Background(p) \/ Post(p)
      PROVE  Inv'
  <2>1. CASE Exit(p) \/ Kill(p)
    BY <1>1, <2>1, VanishInv DEF Exit, Kill, Inv
  <2>2. CASE Background(p) \/ Post(p)
    BY <1>1, <2>2, SubmitInv, LoopInv DEF Background, Inv
  <2> QED
    BY <1>1, <1>3, <2>1, <2>2, LifespanInv DEF Lifespan, Inv
<1>4. ASSUME NEW t \in Threads, Worker(t) \/ Nest(t) PROVE Inv'
  BY <1>1, <1>4, TakeCallInv, InLockInv, CallEndsInv DEF Worker, Inv
<1> QED
  BY <1>2, <1>3, <1>4 DEF BackendNext

-----------------------------------------------------------------------------
\* The strengthened invariant holds in every reachable state.
THEOREM BackendInvariant == BackendSpec => []Inv
  BY InitBackend, NextInv, PTL DEF BackendSpec

\* Type correctness: the background task exists only where the lifespan has made
\* it, and only a thread that runs a call is in the lock.
THEOREM BackendTypes == BackendSpec => []BackendTypeOK
<1>1. Inv => BackendTypeOK
  BY DEF Inv
<1> QED
  BY <1>1, BackendInvariant, PTL

\* A process whose shutdown is complete has no call left, in the lock or on the
\* way to it (main.py:191-196).
THEOREM ShutdownQuiet == BackendSpec => []QuietUnlessUp
<1>1. Inv => QuietUnlessUp
  BY DEF Inv
<1> QED
  BY <1>1, BackendInvariant, PTL

\* The background loop has one run under way while it awaits one, and none
\* otherwise (main.py:167).
THEOREM SingleRun == BackendSpec => []OneRun
<1>1. ASSUME Inv, NEW p \in Procs
      PROVE  Cardinality(LoopRuns(p)) = IF loop[p] = "running" THEN 1 ELSE 0
  <2>1. LoopRuns(p) = Queued(p, "loop") \union Taken(p, "loop")
    BY DEF LoopRuns, Queued, Taken
  <2>2. CASE loop[p] = "running"
    <3>1. \E x : LoopRuns(p) = {x}
      BY <1>1, <2>1, <2>2 DEF Inv, RunInv
    <3> QED
      BY <2>2, <3>1, FS_Singleton
  <2>3. CASE loop[p] # "running"
    <3>1. LoopRuns(p) = {}
      BY <1>1, <2>1, <2>3 DEF Inv, RunInv
    <3> QED
      BY <2>3, <3>1, FS_EmptySet
  <2> QED
    BY <2>2, <2>3
<1>2. Inv => OneRun
  BY <1>1 DEF OneRun
<1> QED
  BY <1>2, BackendInvariant, PTL
=============================================================================
