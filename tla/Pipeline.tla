------------------------------ MODULE Pipeline -------------------------------
(***************************************************************************)
(* From HTTP 200 to a row of a Parquet file: the WAL writer of the gateway *)
(* (WalWriter) and the calls of the backend (Materializer), which share    *)
(* the directory of segments and nothing else.  A call sees what is in a   *)
(* segment at that moment, the part of a record being written included.    *)
(*                                                                         *)
(* Materializer makes its own assumptions about what a gateway does to the *)
(* files; here the WAL writer does it.                                     *)
(***************************************************************************)
EXTENDS WalWriter

CONSTANTS Kinds, KindOf,  \* KindOf[p]: the kind of record the body p makes
          MaxRecords,     \* bound: records per segment
          BatchSize,      \* settings.materialize_batch_size
          CallFaults      \* what may go wrong in Materializer

VARIABLES present, maxOffset, full, corruptAt, lifecycle, files,
          call,           \* where the call holding the lock is
          todo, active, cur, start, pos, batch, boff, resume

calls == <<maxOffset, full, corruptAt, lifecycle, files, call, todo, active,
           cur, start, pos, batch, boff, resume>>
pipelineVars == <<vars, present, calls>>

\* What the backend sees of the gateway.
Cell(record) == IF record = Torn THEN "torn" ELSE KindOf[record]
View(segment) == [i \in 1..Len(segment) |-> Cell(segment[i])]
Seen == [k \in Keys |-> View(wal[k])]
Newest == CHOOSE k \in created : \A j \in created : j <= k
HalfWritten == \E t \in Threads : pc[t] = "payload"

Backend == INSTANCE Materializer WITH
             wal <- Seen, current <- Newest, writing <- HalfWritten,
             pc <- call, Faults <- CallFaults

PipelineInit == Init /\ Backend!Init

\* The gateway: a new segment appears in the directory.
GatewayStep ==
    /\ Next
    /\ \A k \in Keys : Len(wal'[k]) <= MaxRecords
    /\ present' = present \union (created' \ created)
    /\ UNCHANGED calls

\* The backend, which only reads what the gateway writes.
CallStep ==
    /\ UNCHANGED vars
    /\ \/ Backend!BeginMaterialize \/ Backend!BeginCleanup
       \/ Backend!Work \/ Backend!Abort

PipelineNext == GatewayStep \/ CallStep

PipelineSpec == PipelineInit /\ [][PipelineNext]_pipelineVars

-----------------------------------------------------------------------------
(* Properties. *)

\* The gateway does to the files what Materializer expects of it, so that what
\* holds there holds of the whole.
ImplementsMaterializer == Backend!Spec

\* HTTP 200 means that the spans are committed, in the batch of a running call,
\* or in a segment on disk beyond its mark, from where a call will read them.
ConfirmedKept ==
    \A r \in acked :
      Backend!HasRows(KindOf[r[3]]) =>
        \/ <<r[1], r[2]>> \in Backend!Committed \union batch
        \/ r[1] \in present /\ r[2] > Backend!Offset(r[1])

\* A record that a client got HTTP 200 for is never the one for which a sealed
\* segment is quarantined (materializer.py:299-305), unless its body was empty.
\* The call's active segment is left out: there the record that was found half
\* written may be confirmed by the time its segment is quarantined for it.
CondemnedUnconfirmed ==
    [][\A k \in Keys :
         corruptAt[k] = Backend!None /\ corruptAt'[k] # Backend!None /\ k # active
           => \A r \in acked :
                r[1] = k /\ r[2] = corruptAt'[k] + 1 => KindOf[r[3]] = "zero"]_pipelineVars

\* A row in a Parquet file comes from a body that a client has sent, complete
\* and at the place that the row names.
OnlySentCommitted ==
    \A c \in Backend!Committed :
      /\ c[2] \in 1..Len(wal[c[1]])
      /\ wal[c[1]][c[2]] \in Payloads \ TooLarge
=============================================================================
