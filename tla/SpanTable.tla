------------------------------ MODULE SpanTable ------------------------------
(***************************************************************************)
(* What the Parquet files and their manifest promise the queries: one      *)
(* table of spans that only grows, a batch at a time, each batch as a      *)
(* whole.  Compaction, orphan cleanup, crashes and retries cannot be seen. *)
(***************************************************************************)
CONSTANT Batches

VARIABLE table   \* the batches whose spans a query can read

Init == table = {}

Insert(b) ==
    /\ b \notin table
    /\ table' = table \union {b}

Next == \E b \in Batches : Insert(b)

Spec == Init /\ [][Next]_table
=============================================================================
