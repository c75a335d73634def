------------------------------ MODULE Backend -------------------------------
(***************************************************************************)
(* A backend process around the storage lock (module LifecycleLock): the   *)
(* lifespan of backend/app/main.py with its sweep at start-up, the         *)
(* background loop and the shutdown, and the endpoints that hand a call to *)
(* a worker thread (asyncio.to_thread).  The event loop is one thread, so  *)
(* a coroutine is only interrupted where it awaits.                        *)
(*                                                                         *)
(* A call is materialize(), compact_parquet_files() or                     *)
(* cleanup_materialized_wal_files(): it enters the lock, and what it does  *)
(* inside is the subject of Materializer and ParquetStore.                 *)
(***************************************************************************)
EXTENDS LifecycleLock, Sequences

CONSTANTS Looping,   \* processes with materialize_interval_seconds > 0
          Stopped,   \* bound: processes that are told to stop
          MaxQueued  \* bound: calls an endpoint has handed over, per process

ASSUME BackendAssumption ==
    /\ Looping \subseteq Procs /\ Stopped \subseteq Procs
    /\ MaxQueued \in Nat

\* Whose call it is: the background loop's, or that of an HTTP request.
Calls == {"loop", "request"}

VARIABLES phase,  \* where each process's lifespan is
          stop,   \* stop[p]: stop_event is set
          loop,   \* where _materialize_loop is
          queue,  \* calls handed to the executor that no thread has taken
          job     \* the call each worker thread runs

app == <<phase, stop, loop, queue, job>>
backendVars == <<vars, app>>

Phases == {"down", "starting", "ready", "closing", "draining", "complete"}

BackendInit ==
    /\ Init
    /\ phase = [p \in Procs |-> "down"]
    /\ stop = [p \in Procs |-> FALSE]
    /\ loop = [p \in Procs |-> "off"]
    /\ queue = [p \in Procs |-> <<>>]
    /\ job = [t \in Threads |-> "none"]

ThreadsOf(p) == {t \in Threads : ProcOf[t] = p}
MoveTo(p, from, to) == phase[p] = from /\ phase' = [phase EXCEPT ![p] = to]

\* asyncio.to_thread
Submit(p, call) == queue' = [queue EXCEPT ![p] = Append(@, call)]

\* The requests of p not yet answered.
Requests(p) ==
    {n \in DOMAIN queue[p] : queue[p][n] = "request"}
      \union {t \in ThreadsOf(p) : job[t] = "request"}

(* Mutants of the definitions below: see the README. *)

\* The lifespan does not await the task.
NotAwaited(p) == TRUE

\* An exception of a run ends the loop.
LoopEnds(p) ==
    /\ loop[p] = "waiting"
    /\ loop' = [loop EXCEPT ![p] = "ended"]
    /\ UNCHANGED <<vars, phase, stop, queue, job>>

\* stop_event is not set.
StopForgotten(p) ==
    /\ Requests(p) = {}
    /\ MoveTo(p, "closing", "draining")
    /\ UNCHANGED <<vars, stop, loop, queue, job>>

\* The loop does not await its run.
RunUnawaited(p) ==
    /\ loop[p] = "head" /\ ~stop[p]
    /\ Submit(p, "loop")
    /\ loop' = [loop EXCEPT ![p] = "waiting"]
    /\ UNCHANGED <<vars, phase, stop, job>>

\* The loop takes the end of any call for the end of its run.
AnyCallEnds(t) ==
    /\ job[t] # "none" /\ level[t] = 0
    /\ job' = [job EXCEPT ![t] = "none"]
    /\ loop' = [loop EXCEPT ![ProcOf[t]] = "waiting"]
    /\ UNCHANGED <<vars, phase, stop, queue>>

-----------------------------------------------------------------------------
(* The lifespan. *)

Start(p) ==
    /\ MoveTo(p, "down", "starting")
    /\ UNCHANGED <<vars, stop, loop, queue, job>>

\* initialize_control_store, mkdir and the sweep of orphans have succeeded.
Startup(p) ==
    /\ MoveTo(p, "starting", "ready")
    /\ stop' = [stop EXCEPT ![p] = FALSE]
    /\ loop' = [loop EXCEPT ![p] = IF p \in Looping THEN "head" ELSE "off"]
    /\ UNCHANGED <<vars, queue, job>>

\* One of them raised: the server does not start.
StartupFails(p) ==
    /\ MoveTo(p, "starting", "down")
    /\ UNCHANGED <<vars, stop, loop, queue, job>>

\* The server is told to stop: it takes no more requests.
Close(p) ==
    /\ p \in Stopped /\ MoveTo(p, "ready", "closing")
    /\ UNCHANGED <<vars, stop, loop, queue, job>>

\* The requests are answered; the lifespan is resumed behind its yield.
StopLoop(p) ==
    /\ Requests(p) = {}
    /\ MoveTo(p, "closing", "draining")
    /\ stop' = [stop EXCEPT ![p] = TRUE]
    /\ UNCHANGED <<vars, loop, queue, job>>

\* `await task`, if there is one.
TaskDone(p) == loop[p] \in {"off", "ended"}

ShutdownComplete(p) ==
    /\ TaskDone(p)
    /\ MoveTo(p, "draining", "complete")
    /\ UNCHANGED <<vars, stop, loop, queue, job>>

\* What ends with the process: the event loop with its tasks, and the threads.
Vanish(p) ==
    /\ Crash(p)
    /\ phase' = [phase EXCEPT ![p] = "down"]
    /\ loop' = [loop EXCEPT ![p] = "off"]
    /\ queue' = [queue EXCEPT ![p] = <<>>]
    /\ job' = [t \in Threads |-> IF ProcOf[t] = p THEN "none" ELSE job[t]]
    /\ UNCHANGED stop

\* The interpreter joins the worker threads before it goes.
Exit(p) ==
    /\ phase[p] = "complete"
    /\ queue[p] = <<>> /\ \A t \in ThreadsOf(p) : job[t] = "none"
    /\ Vanish(p)

Kill(p) == phase[p] # "down" /\ Vanish(p)

-----------------------------------------------------------------------------
(* The background loop. *)

LoopRun(p) ==
    /\ loop[p] = "head" /\ ~stop[p]
    /\ Submit(p, "loop")
    /\ loop' = [loop EXCEPT ![p] = "running"]
    /\ UNCHANGED <<vars, phase, stop, job>>

LoopEnd(p) ==
    /\ loop[p] = "head" /\ stop[p]
    /\ loop' = [loop EXCEPT ![p] = "ended"]
    /\ UNCHANGED <<vars, phase, stop, queue, job>>

\* stop_event is set, or the interval is over.
LoopWake(p) ==
    /\ loop[p] = "waiting"
    /\ loop' = [loop EXCEPT ![p] = "head"]
    /\ UNCHANGED <<vars, phase, stop, queue, job>>

-----------------------------------------------------------------------------
(* Endpoints and worker threads. *)

\* POST /api/v1/materialize, /admin/compact or /admin/wal-cleanup.
Post(p) ==
    /\ phase[p] = "ready" /\ Len(queue[p]) < MaxQueued
    /\ Submit(p, "request")
    /\ UNCHANGED <<vars, phase, stop, loop, job>>

\* A free thread takes the next call, which begins by entering the lock.
TakeCall(t) ==
    LET p == ProcOf[t] IN
    /\ job[t] = "none" /\ queue[p] # <<>>
    /\ job' = [job EXCEPT ![t] = Head(queue[p])]
    /\ queue' = [queue EXCEPT ![p] = Tail(@)]
    /\ Enter(t)
    /\ UNCHANGED <<phase, stop, loop>>

\* materialize() calls cleanup_materialized_wal_files() under the lock.
Nest(t) == EnterNested(t) /\ UNCHANGED app

InLock(t) == Progress(t) /\ UNCHANGED app

\* The call has returned or raised: the request is answered with 200 or 500,
\* the loop goes on either way.
CallEnds(t) ==
    LET p == ProcOf[t] IN
    /\ job[t] # "none" /\ level[t] = 0
    /\ job' = [job EXCEPT ![t] = "none"]
    /\ loop' = IF job[t] = "loop" THEN [loop EXCEPT ![p] = "waiting"] ELSE loop
    /\ UNCHANGED <<vars, phase, stop, queue>>

-----------------------------------------------------------------------------
Lifespan(p) ==
    \/ Startup(p) \/ StartupFails(p)
    \/ StopLoop(p) \/ ShutdownComplete(p) \/ Exit(p)

Background(p) == LoopRun(p) \/ LoopEnd(p) \/ LoopWake(p)

Worker(t) == TakeCall(t) \/ InLock(t) \/ CallEnds(t)

BackendNext ==
    \/ \E p \in Procs : \/ Start(p) \/ Lifespan(p) \/ Close(p) \/ Kill(p)
                        \/ Background(p) \/ Post(p)
    \/ \E t \in Threads : Worker(t) \/ Nest(t)

BackendSpec == BackendInit /\ [][BackendNext]_backendVars

\* The event loop and the threads run; see FairSpec of LifecycleLock for what
\* happens in the lock.  Nobody has to send requests or start processes.
FairBackendSpec ==
    /\ BackendSpec
    /\ \A p \in Procs : WF_backendVars(Lifespan(p)) /\ WF_backendVars(Background(p))
    /\ \A t \in Threads : WF_backendVars(Worker(t))

-----------------------------------------------------------------------------
(* Properties. *)

\* Types, and: the task exists only where the lifespan has made it, and only a
\* thread that runs a call is in the lock.
BackendTypeOK ==
    /\ TypeOK
    /\ phase \in [Procs -> Phases]
    /\ stop \in [Procs -> BOOLEAN]
    /\ loop \in [Procs -> {"off", "head", "running", "waiting", "ended"}]
    /\ queue \in [Procs -> Seq(Calls)]
    /\ job \in [Threads -> Calls \union {"none"}]
    /\ \A p \in Procs :
         loop[p] # "off" => p \in Looping /\ phase[p] \notin {"down", "starting"}
    /\ \A t \in Threads : level[t] > 0 => job[t] # "none"

\* The runs of the loop of p that have been handed over and are not over.
LoopRuns(p) ==
    {n \in DOMAIN queue[p] : queue[p][n] = "loop"}
      \union {t \in ThreadsOf(p) : job[t] = "loop"}

\* The loop never has two runs under way, and waits for the one it has
\* (main.py:169 "await asyncio.to_thread").
OneRun ==
    \A p \in Procs : Cardinality(LoopRuns(p)) = IF loop[p] = "running" THEN 1 ELSE 0

\* "Application shutdown complete" (main.py:196) is true: nothing of this
\* process is in the lock any more, and nothing gets there before its next
\* start; so the unlocked sweep of a starting process (main.py:149) never meets
\* a call of its own process.
QuietUnlessUp ==
    \A p \in Procs : phase[p] \in {"down", "starting", "complete"} =>
      /\ queue[p] = <<>>
      /\ \A t \in ThreadsOf(p) : job[t] = "none" /\ level[t] = 0

\* A graceful shutdown ends, whatever the loop is doing when it begins: its run
\* ends, stop_event ends the loop, and the lifespan gets its task back.
ShutdownEnds == \A p \in Procs : phase[p] = "closing" ~> phase[p] = "down"

\* As long as the process is up, the loop runs again and again, whatever its
\* runs raise and however busy the worker threads are (main.py:170-173).
LoopGoesOn ==
    \A p \in Looping :
      phase[p] = "ready" ~> phase[p] # "ready" \/ \E t \in ThreadsOf(p) : job[t] = "loop"
=============================================================================
