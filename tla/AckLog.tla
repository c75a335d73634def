------------------------------- MODULE AckLog -------------------------------
(***************************************************************************)
(* What the gateway promises its clients: a request is confirmed (HTTP     *)
(* 200) only once its record is durable, and a durable record is never     *)
(* lost or altered afterwards.                                             *)
(***************************************************************************)
VARIABLES stored,   \* the records that would survive a power failure
          acked     \* the records confirmed to a client

Init == stored = {} /\ acked = {}

\* Records become durable; several may be made durable at once.
Persist ==
    /\ stored \subseteq stored'
    /\ acked' = acked

Ack == \E r \in stored :
    /\ acked' = acked \union {r}
    /\ stored' = stored

Next == Persist \/ Ack

Spec == Init /\ [][Next]_<<stored, acked>>
=============================================================================
