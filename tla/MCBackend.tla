----------------------------- MODULE MCBackend ------------------------------
(***************************************************************************)
(* Backend with two processes, one of them with two worker threads: the    *)
(* smallest instance with contention on the RLock and on the database.     *)
(***************************************************************************)
EXTENDS Backend, TLC

CONSTANTS p1, p2, t1, t2, t3

MCProcOf == t1 :> p1 @@ t2 :> p1 @@ t3 :> p2
MCMaxLeaks == p1 :> 1 @@ p2 :> 0
=============================================================================
