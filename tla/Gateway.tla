------------------------------ MODULE Gateway -------------------------------
(***************************************************************************)
(* The gateway process: the HTTP sessions of cpp/gateway/src/              *)
(* http_server.cpp and main.cpp around the WAL writer (module WalWriter).  *)
(* A session runs on a strand, so at most one of its handlers runs at any  *)
(* time: its place in append() is its pc in WalWriter, and a thread of     *)
(* WalWriter is a session here.  A session that reads or writes occupies   *)
(* no thread of the pool.                                                  *)
(*                                                                         *)
(* Of a response only its kind counts: one answer stands for 400, 401,     *)
(* 404, 413 and 415, which are decided before append() and counted alike.  *)
(* A 413 leaves the body it refuses unread, and the next read() parses     *)
(* what is left of it as a request.  These are bytes of the client like    *)
(* any others: they may be nothing at all, an error, or a valid POST that  *)
(* is appended, so the connection is simply one that is read from again.   *)
(***************************************************************************)
EXTENDS WalWriter

CONSTANT MaxRejects  \* bound: once as many are counted, none more are refused early

ASSUME GatewayAssumption == MaxRejects \in Nat

VARIABLES conn,      \* where each session's connection is
          running,   \* the io_context has not been stopped
          accepted,  \* accepted_requests_
          rejected   \* rejected_requests_

http == <<conn, running, accepted, rejected>>
gatewayVars == <<vars, http>>

Connections == {"closed", "reading", "writing"}

GatewayInit ==
    /\ Init
    /\ conn = [t \in Threads |-> "closed"]
    /\ running = TRUE
    /\ accepted = 0 /\ rejected = 0

\* Mutant of Ready: no strand, a session's handlers run beside each other.
ReadyAnytime(t, where) == up /\ running /\ conn[t] = where

\* The next completion handler of t may run.
Ready(t, where) == up /\ running /\ conn[t] = where /\ pc[t] = "idle"

Answer(t) == conn' = [conn EXCEPT ![t] = "writing"]

-----------------------------------------------------------------------------
\* async_accept completes; the next one is started whatever its result was.
Accept(t) ==
    /\ Ready(t, "closed")
    /\ conn' = [conn EXCEPT ![t] = "reading"]
    /\ UNCHANGED <<vars, running, accepted, rejected>>

\* end_of_stream, or an error, after which the session is dropped.
HangUp(t) ==
    /\ Ready(t, "reading")
    /\ conn' = [conn EXCEPT ![t] = "closed"]
    /\ UNCHANGED <<vars, running, accepted, rejected>>

\* GET /healthz.
Health(t) ==
    /\ Ready(t, "reading")
    /\ Answer(t)
    /\ UNCHANGED <<vars, running, accepted, rejected>>

\* Refused before it reaches append(): body limit, target, token, type, body.
Reject(t) ==
    /\ Ready(t, "reading") /\ rejected < MaxRejects
    /\ rejected' = rejected + 1
    /\ Answer(t)
    /\ UNCHANGED <<vars, running, accepted>>

\* Mutant of Export: counted as accepted before append() is called.
ExportCounted(t, p) ==
    /\ Ready(t, "reading")
    /\ Request(t, p)
    /\ accepted' = accepted + 1
    /\ UNCHANGED <<conn, running, rejected>>

\* POST /v1/traces with a valid body, also one found in the rest of a body
\* refused before: the handler calls append().
Export(t, p) ==
    /\ Ready(t, "reading")
    /\ Request(t, p)
    /\ UNCHANGED http

\* append() goes on, also while the io_context is being stopped.
Wait(t) == LockMutex(t) /\ UNCHANGED http
Write(t) == AppendStep(t) /\ UNCHANGED http

\* Mutant of Exit: main() returns without joining the other threads.
ExitUnjoined ==
    /\ ~running
    /\ Crash
    /\ conn' = [t \in Threads |-> "closed"]
    /\ UNCHANGED <<running, accepted, rejected>>

-----------------------------------------------------------------------------
AnswerStored(t) ==
    /\ Confirm(t)
    /\ accepted' = accepted + 1
    /\ Answer(t)
    /\ UNCHANGED <<running, rejected>>

AnswerFailed(t) ==
    /\ Refuse(t)
    /\ rejected' = rejected + 1
    /\ Answer(t)
    /\ UNCHANGED <<running, accepted>>

\* async_write completes: the session reads on, closes (need_eof) or is
\* dropped (error).
Written(t) ==
    /\ Ready(t, "writing")
    /\ \E next \in {"reading", "closed"} : conn' = [conn EXCEPT ![t] = next]
    /\ UNCHANGED <<vars, running, accepted, rejected>>

-----------------------------------------------------------------------------
\* SIGINT or SIGTERM: the acceptor is closed and the io_context stopped.  No
\* further completion handler runs; those that run go on.
Signal ==
    /\ up /\ running /\ crashes < MaxCrashes
    /\ running' = FALSE
    /\ UNCHANGED <<vars, conn, accepted, rejected>>

Disconnect == conn' = [t \in Threads |-> "closed"]

\* All threads are joined, then main() returns.  The files keep what was
\* written, as they do when a process dies with no call of append() running.
Exit ==
    /\ ~running
    /\ \A t \in Threads : pc[t] = "idle"
    /\ Crash
    /\ Disconnect
    /\ UNCHANGED <<running, accepted, rejected>>

Die ==
    /\ Crash \/ PowerLoss
    /\ Disconnect
    /\ running' = TRUE
    /\ UNCHANGED <<accepted, rejected>>

Start ==
    /\ Restart
    /\ running' = TRUE
    /\ accepted' = 0 /\ rejected' = 0
    /\ UNCHANGED conn

-----------------------------------------------------------------------------
Serve(t) == Write(t) \/ AnswerStored(t) \/ AnswerFailed(t)

GatewayNext ==
    \/ \E t \in Threads :
         \/ Accept(t) \/ HangUp(t) \/ Health(t)
         \/ Reject(t)
         \/ \E p \in Payloads : Export(t, p)
         \/ Wait(t) \/ Serve(t) \/ Written(t)
    \/ Signal \/ Exit \/ Die \/ Start

GatewaySpec == GatewayInit /\ [][GatewayNext]_gatewayVars

\* As FairSpec of WalWriter; and a main() whose threads have ended returns.
\* Nothing forces a client to send, nor an operator to start the gateway.
FairGatewaySpec ==
    /\ GatewaySpec
    /\ \A t \in Threads : WF_gatewayVars(Serve(t)) /\ SF_gatewayVars(Wait(t))
    /\ WF_gatewayVars(Exit)

-----------------------------------------------------------------------------
(* Properties. *)

\* Types, and: a session in append() is connected and has no response under
\* way, whatever it refused before (http_server.cpp:196-206: read() only once
\* async_write has completed).
GatewayTypeOK ==
    /\ TypeOK
    /\ conn \in [Threads -> Connections]
    /\ running \in BOOLEAN
    /\ accepted \in Nat /\ rejected \in Nat
    /\ \A t \in Threads : pc[t] # "idle" => conn[t] = "reading"

Complete == UNION {{<<k, i>> : i \in {j \in DOMAIN wal[k] : wal[k][j] # Torn}}
                     : k \in created}
Busy == {t \in Threads : pc[t] # "idle"}

\* The statistics never promise more than the log holds (http_server.cpp:166,
\* 177): every request counted as accepted was confirmed, with a record of its
\* own, whatever fails and however sessions interleave.
CountersTruthful == accepted <= Cardinality(acked)

\* No record gets into the log unnoticed: until a crash, and after an orderly
\* stop too (main.cpp:63-66 joins the threads), every complete record is that
\* of a request counted as accepted or rejected, or still being handled; one
\* found in the rest of a refused body is counted like any other.
RecordsCounted ==
    crashes = 0 \/ (crashes = 1 /\ ~up /\ ~running) =>
      Cardinality(Complete) <= accepted + rejected + Cardinality(Busy)

\* A stop ends (main.cpp:53-66): the threads finish the requests they are in,
\* waiting for the mutex in turn, and the process goes.
StopCompletes == ~running ~> ~up
=============================================================================
