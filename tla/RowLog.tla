------------------------------- MODULE RowLog -------------------------------
(***************************************************************************)
(* What materialize() promises the queries: the rows of a segment reach    *)
(* the table in the order in which the gateway wrote them, without a gap,  *)
(* and nothing else ever does.  An aborted call, a quarantine or a deleted *)
(* segment can only be seen in rows that never arrive.                     *)
(***************************************************************************)
EXTENDS Integers

CONSTANT Rows      \* pairs: a segment, and a place in it

VARIABLES log,     \* the rows the gateway has written
          table    \* the rows a query can read

Init == log = {} /\ table = {}

\* q comes before r in the same segment.
Before(q, r) == q[1] = r[1] /\ q[2] < r[2]

\* The next row of some segment.
Accept ==
    /\ \E r \in Rows \ log :
         /\ \A q \in log : ~Before(r, q)
         /\ log' = log \union {r}
    /\ table' = table

\* A batch: rows of several segments, none of them skipped.
Commit ==
    /\ table' \in SUBSET log
    /\ table \subseteq table'
    /\ \A q \in log, r \in table' : Before(q, r) => q \in table'
    /\ log' = log

Next == Accept \/ Commit

Spec == Init /\ [][Next]_<<log, table>>
=============================================================================
