---------------------------- MODULE MCWalWriter -----------------------------
(***************************************************************************)
(* WalWriter with two threads and three bodies: two records of the small   *)
(* one fill a segment, one of the large one alone exceeds it, and the huge *)
(* one is beyond the 32-bit length field.                                  *)
(***************************************************************************)
EXTENDS WalWriter, TLC

CONSTANTS t1, t2, small, large, huge

MCRecordSize == small :> 2 @@ large :> 5 @@ huge :> 9
=============================================================================
