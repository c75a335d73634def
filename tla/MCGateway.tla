----------------------------- MODULE MCGateway ------------------------------
(***************************************************************************)
(* Gateway with two sessions and three bodies: two records of the small    *)
(* one fill a segment, one of the large one alone exceeds it, and the huge *)
(* one is beyond the 32-bit length field.                                  *)
(***************************************************************************)
EXTENDS Gateway, TLC

CONSTANTS t1, t2, small, large, huge

MCRecordSize == small :> 2 @@ large :> 5 @@ huge :> 9
=============================================================================
