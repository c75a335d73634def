-------------------------- MODULE Retention_proofs --------------------------
(***************************************************************************)
(* Proofs about what Materializer keeps: the rules of quarantine and of    *)
(* cleanup, for any bounds, batch size and record kinds.  Each holds under *)
(* a condition on the faults, and the runs named in the README show that   *)
(* the rows are lost without it.                                           *)
(*                                                                         *)
(* Marks and batch say nothing of a segment that is marked fully           *)
(* processed, so what protects its rows has to be stated apart: with a     *)
(* clock that never steps back it is not the gateway's any more and holds  *)
(* no bad record (SealedInv), hence it never gets quarantined, and if no   *)
(* call aborts its rows are committed before anybody can delete it         *)
(* (KeptInv).                                                              *)
(*                                                                         *)
(* Last, that materialize() implements RowLog: rows are committed in order *)
(* and without a gap.  What lies below an offset is committed, unless the  *)
(* segment is marked and the offset is at its end (GapInv): rows lost      *)
(* there leave no gap, as no later one of that segment can arrive.         *)
(***************************************************************************)
EXTENDS Materializer_proofs

\* The states of a materialize() call, and those in which it reads a segment.
Materializing == pc \in {"visit", "read", "eof", "seal", "flush", "quarantine"}
Visiting == pc \in {"read", "eof", "seal", "quarantine"} \/ (pc = "flush" /\ resume # "visit")

\* Names are in the order of creation, and the gateway's segment is there.
NameInv ==
    /\ current \in present /\ \A k \in present : k <= current
    /\ \A k \in Keys : Size(k) > 0 => k \in present \union full

\* A call visits what was there when it began.
ListInv ==
    /\ active <= current
    /\ Materializing => todo \subseteq present /\ \A k \in todo : k <= active
    /\ Visiting => cur \in present /\ cur <= active
    /\ pc \in {"unlink", "log"} => todo \subseteq full

\* All of k can be read.
Clean(k) == \A i \in 1..Size(k) : Readable(wal[k][i])

\* A segment is marked when the gateway has left it and all of it was read.
SealedInv ==
    /\ \A k \in full : k < current /\ Clean(k)
    /\ pc \in {"eof", "seal"} /\ cur # active => pos = Size(cur)
    /\ pc = "seal" => cur # active /\ Clean(cur)

OrderInv == NameInv /\ ListInv /\ SealedInv

\* The records of k up to n are complete, and their rows committed.
Saved(k, n) ==
    n <= Size(k) /\ \A i \in 1..n : /\ Readable(wal[k][i])
                                    /\ HasRows(wal[k][i]) => <<k, i>> \in Committed

Condemning == pc = "quarantine" \/ (pc = "flush" /\ resume = "quarantine")

\* A segment is quarantined behind rows that are committed, and once for all.
SalvageInv ==
    /\ Condemning => cur \notin full
    /\ Visiting => cur \notin Quarantined
    /\ full \intersect Quarantined = {}
    /\ pc = "quarantine" => Saved(cur, pos)
    /\ \A k \in Quarantined : Saved(k, corruptAt[k])

\* More stands behind what was read, in a sealed segment a bad record.
BadInv ==
    Condemning => /\ pos < Size(cur)
                  /\ cur # active => ~Readable(wal[cur][pos + 1])

\* The file that was deleted last may still have to be logged.
LogInv ==
    /\ Materializing => todo \subseteq present
    /\ Visiting => cur \in present
    /\ \A k \in full \ present :
         lifecycle[k] = "DELETED" \/ (pc = "log" /\ First(k, todo))

\* No row of k is lost if its file is.
RowsSafe(k) ==
    \A i \in 1..Size(k) : HasRows(wal[k][i]) => <<k, i>> \in Committed \union batch

NoWild == \A k \in Keys, i \in 1..MaxRecords : i <= Size(k) => wal[k][i] # "wild"

KeptInv ==
    /\ NoWild
    /\ \A k \in full : RowsSafe(k)
    /\ pc = "seal" => RowsSafe(cur)

USE DEF Keys, None, Size, Offset, Records

-----------------------------------------------------------------------------
\* What the gateway's steps do to the files.
LEMMA GatewayFiles ==
  ASSUME Inv, Gateway
  PROVE  /\ \A k \in Keys \ {current} : wal'[k] = wal[k]
         /\ \/ current' = current /\ present' = present
            \/ /\ wal' = wal /\ present' = present \union {current'}
               /\ "clock" \notin Faults => current' = current + 1
         /\ UNCHANGED <<manifest, pc, todo, scan, pending, resume>>
<1> USE DEF Inv, TypeOK
<1>1. ASSUME NEW kind \in Kinds, GatewayAppend(kind) \/ GatewayFinish(kind)
      PROVE  /\ \A k \in Keys \ {current} : wal'[k] = wal[k]
             /\ current' = current /\ present' = present
  BY <1>1 DEF GatewayAppend, GatewayFinish
<1>2. ASSUME GatewayBegin \/ GatewayGivesUp
      PROVE  /\ \A k \in Keys \ {current} : wal'[k] = wal[k]
             /\ current' = current /\ present' = present
  BY <1>2 DEF GatewayBegin, GatewayGivesUp
<1>3. ASSUME NEW k \in Keys, GatewayRotate(k)
      PROVE  /\ wal' = wal /\ present' = present \union {current'}
             /\ "clock" \notin Faults => current' = current + 1
  BY <1>3 DEF GatewayRotate
<1>4. UNCHANGED <<manifest, pc, todo, scan, pending, resume>>
  BY GatewayAdds DEF Adds
<1> QED
  BY <1>1, <1>2, <1>3, <1>4 DEF Gateway

LEMMA InitOrder == Init => OrderInv
<1> SUFFICES ASSUME Init PROVE OrderInv
  OBVIOUS
<1> USE MaterializerAssumption DEF Init
<1>1. current \in Keys /\ \A k \in Keys : Size(k) = 0
  OBVIOUS
<1> QED
  BY <1>1 DEF OrderInv, NameInv, ListInv, SealedInv, Materializing, Visiting

\* The gateway only touches the segment it is in, which no call has marked.
LEMMA GatewayOrder ==
  ASSUME "clock" \notin Faults, Inv, OrderInv, Gateway
  PROVE  OrderInv'
<1>1. /\ UNCHANGED <<full, pc, todo, active, cur, pos, resume>>
      /\ \A k \in Keys \ {current} : wal'[k] = wal[k]
  BY GatewayFiles DEF manifest, scan
<1>2. /\ current \in Int /\ current <= current' /\ current' \in present'
      /\ current' \in Keys /\ present \subseteq present'
      /\ \A k \in present' : k <= current'
      /\ \A k \in Keys : Size(k)' > 0 => Size(k) > 0 \/ k \in present'
  <2>1. current \in Keys /\ present \subseteq Keys /\ current' \in Keys
    BY GatewayAdds DEF Inv, TypeOK
  <2>2. current \in present /\ \A k \in present : k <= current
    BY DEF OrderInv, NameInv
  <2>3. CASE current' = current /\ present' = present
    BY <1>1, <2>1, <2>2, <2>3, MaterializerAssumption
  <2>4. CASE /\ wal' = wal /\ present' = present \union {current'}
             /\ current' = current + 1
    BY <2>1, <2>2, <2>4, MaterializerAssumption
  <2> QED
    BY <2>3, <2>4, GatewayFiles
<1>3. NameInv'
  BY <1>1, <1>2 DEF OrderInv, NameInv
<1>4. active \in Int /\ cur \in Keys /\ full \subseteq Keys /\ current' \in Int
  BY <1>2, MaterializerAssumption DEF Inv, TypeOK
<1>5. ListInv'
  <2>1. active <= current'
    BY <1>2, <1>4 DEF OrderInv, ListInv
  <2> QED
    BY <1>1, <1>2, <2>1 DEF OrderInv, ListInv, Materializing, Visiting
<1>6. SealedInv'
  <2>1. ASSUME NEW k \in full PROVE wal'[k] = wal[k] /\ k < current'
    <3>1. k \in Keys /\ k \in Int /\ k < current
      BY <1>4, MaterializerAssumption DEF OrderInv, SealedInv
    <3>2. k # current /\ k < current'
      BY <1>2, <1>4, <3>1
    <3> QED
      BY <1>1, <3>1, <3>2
  <2>2. ASSUME pc \in {"eof", "seal"}, cur # active PROVE wal'[cur] = wal[cur]
    <3>1. cur <= active /\ active <= current
      BY <2>2 DEF OrderInv, ListInv, Visiting
    <3>2. cur \in Int /\ current \in Int
      BY <1>2, <1>4, MaterializerAssumption
    <3>3. cur # current
      BY <1>4, <2>2, <3>1, <3>2
    <3> QED
      BY <1>1, <1>4, <3>3
  <2> QED
    BY <1>1, <2>1, <2>2 DEF OrderInv, SealedInv, Clean, Readable
<1> QED
  BY <1>3, <1>5, <1>6 DEF OrderInv

\* The steps of materialize() that mark nothing.
LEMMA CallOrder ==
  ASSUME Inv, OrderInv,
         \/ BeginMaterialize \/ ReadRecord \/ FindCorruption \/ EndOfFile \/ CheckSealed
         \/ Flush \/ Quarantine \/ FinalFlush \/ EndMaterialize \/ Abort
         \/ \E k \in Keys : SkipSegment(k) \/ OpenSegment(k)
  PROVE  OrderInv'
<1> DEFINE Same == UNCHANGED <<wal, current, present, full>>
<1>1. Same
  BY DEF BeginMaterialize, ReadRecord, FindCorruption, EndOfFile, CheckSealed, Flush,
     Quarantine, FinalFlush, EndMaterialize, Abort, SkipSegment, OpenSegment, gateway,
     manifest
<1>2. NameInv' /\ \A k \in full' : k < current' /\ Clean(k)'
  BY <1>1 DEF OrderInv, NameInv, SealedInv, Clean, Readable
<1> DEFINE Rest ==
      /\ ListInv'
      /\ pc' \in {"eof", "seal"} /\ cur' # active' => pos' = Size(cur)'
      /\ pc' = "seal" => cur' # active' /\ Clean(cur)'
<1> USE DEF OrderInv, ListInv, Materializing, Visiting
<1>3. ASSUME BeginMaterialize PROVE Rest
  BY <1>1, <1>3 DEF BeginMaterialize, Last, NameInv
<1>4. ASSUME NEW k \in Keys, SkipSegment(k) \/ OpenSegment(k) PROVE Rest
  BY <1>1, <1>4 DEF SkipSegment, OpenSegment, First, scan
<1>5. ASSUME ReadRecord \/ FindCorruption PROVE Rest
  BY <1>1, <1>5 DEF ReadRecord, FindCorruption, FlushThen, scan
<1>6. ASSUME EndOfFile PROVE Rest
  <2>1. pos = Size(cur)
    <3>1. pos <= Size(cur) /\ pos >= Size(cur)
      BY <1>6 DEF EndOfFile, Inv, ReaderInv, Reading
    <3>2. pos \in Nat /\ Size(cur) \in Nat
      BY SizeType DEF Inv, TypeOK
    <3> QED
      BY <3>1, <3>2
  <2> QED
    BY <1>1, <1>6, <2>1 DEF EndOfFile, gateway, scan
<1>7. ASSUME CheckSealed PROVE Rest
  <2>1. /\ pc = "eof" /\ pc' \in {"seal", "visit"} /\ UNCHANGED <<todo, active, cur, pos>>
        /\ pc' = "seal" => cur # active
    BY <1>7 DEF CheckSealed, scan
  <2>2. CASE pc' = "seal"
    <3>1. pos = Size(cur) /\ cur \in Keys
      BY <2>1, <2>2 DEF SealedInv, Inv, TypeOK
    <3>2. Clean(cur)
      BY <2>1, <3>1 DEF SealedInv, Clean, Inv, BelowInv, ReaderInv, Reading
    <3> QED
      BY <1>1, <2>1, <2>2, <3>1, <3>2 DEF Clean, Readable
  <2> QED
    BY <1>1, <2>1, <2>2
<1>8. ASSUME Flush PROVE Rest
  BY <1>1, <1>8 DEF Flush, scan, Inv, TypeOK
<1>9. ASSUME Quarantine \/ FinalFlush PROVE Rest
  BY <1>1, <1>9 DEF Quarantine, FinalFlush, FlushThen, scan
<1>10. ASSUME EndMaterialize \/ Abort PROVE Rest
  BY <1>1, <1>10 DEF EndMaterialize, Abort, Forget, scan
<1>11. Rest
  BY <1>3, <1>4, <1>5, <1>6, <1>7, <1>8, <1>9, <1>10
<1> QED
  BY <1>2, <1>11 DEF SealedInv

\* Marking a segment, and cleanup, which only takes marked ones.
LEMMA CleanupOrder ==
  ASSUME Inv, OrderInv,
         \/ Seal \/ BeginCleanup \/ EndCleanup
         \/ \E k \in Keys : Unlink(k) \/ UnlinkFails(k) \/ LogDeletion(k)
  PROVE  OrderInv'
<1> USE DEF OrderInv, ListInv, Materializing, Visiting
<1>1. active \in Int /\ cur \in Int /\ current \in Int /\ todo \subseteq Keys
  BY MaterializerAssumption DEF Inv, TypeOK
<1>2. ASSUME Seal PROVE OrderInv'
  <2>1. /\ UNCHANGED <<wal, current, present, todo, active, cur, pos>>
        /\ pc = "seal" /\ pc' = "visit" /\ full' = full \union {cur}
    BY <1>2 DEF Seal, gateway, scan
  <2>2. cur < current /\ Clean(cur)
    BY <1>1, <2>1 DEF SealedInv
  <2> QED
    BY <2>1, <2>2 DEF NameInv, SealedInv, Clean, Readable
<1>3. ASSUME BeginCleanup \/ EndCleanup PROVE OrderInv'
  BY <1>3 DEF BeginCleanup, EndCleanup, gateway, manifest, scan, NameInv, SealedInv, Clean,
     Readable
<1>4. ASSUME NEW k \in Keys, Unlink(k) PROVE OrderInv'
  <2>1. k \in full /\ k # current
    BY <1>1, <1>4 DEF Unlink, First, SealedInv
  <2>2. /\ UNCHANGED <<wal, current, full, todo, active, cur, pos>>
        /\ pc = "unlink" /\ pc' = "log" /\ present' = present \ {k}
    BY <1>4 DEF Unlink, gateway, manifest, scan
  <2> QED
    BY <2>1, <2>2 DEF NameInv, SealedInv, Clean, Readable
<1>5. ASSUME NEW k \in Keys, UnlinkFails(k) \/ LogDeletion(k) PROVE OrderInv'
  BY <1>5 DEF UnlinkFails, LogDeletion, gateway, manifest, scan, NameInv, SealedInv, Clean,
     Readable
<1> QED
  BY <1>2, <1>3, <1>4, <1>5

LEMMA NextOrder ==
  ASSUME "clock" \notin Faults, Inv, OrderInv, [Next]_vars
  PROVE  OrderInv'
<1>1. CASE UNCHANGED vars
  BY <1>1 DEF vars, gateway, manifest, scan, OrderInv, NameInv, ListInv, Materializing,
     Visiting, SealedInv, Clean, Readable
<1> QED
  BY <1>1, GatewayOrder, CallOrder, CleanupOrder DEF Next, Work

\* With a clock that never steps back the marks mean what they say.
LEMMA Order == "clock" \notin Faults => (Spec => [](Inv /\ OrderInv))
<1> SUFFICES ASSUME "clock" \notin Faults PROVE Spec => [](Inv /\ OrderInv)
  OBVIOUS
<1>1. Inv /\ OrderInv /\ [Next]_vars => OrderInv'
  BY NextOrder
<1> QED
  BY <1>1, InitOrder, Invariant, PTL DEF Spec

-----------------------------------------------------------------------------
\* Only a segment that is marked is ever deleted, and only by cleanup.
LEMMA DeletedMarked ==
  ASSUME Inv, OrderInv, Next, NEW k \in Keys, Deleted(k)
  PROVE  k \in full /\ pc = "unlink"
<1>1. ~Gateway
  BY GatewayFiles DEF Deleted
<1>2. PICK j \in Keys : Unlink(j)
  <2>1. present' # present
    BY DEF Deleted
  <2>2. ASSUME NEW j \in Keys,
               SkipSegment(j) \/ OpenSegment(j) \/ UnlinkFails(j) \/ LogDeletion(j)
        PROVE  FALSE
    BY <2>1, <2>2 DEF SkipSegment, OpenSegment, UnlinkFails, LogDeletion
  <2>3. ~(ReadRecord \/ FindCorruption \/ EndOfFile \/ CheckSealed \/ Seal \/ Flush)
    BY <2>1 DEF ReadRecord, FindCorruption, EndOfFile, CheckSealed, Seal, Flush
  <2>4. ~(BeginMaterialize \/ BeginCleanup \/ Abort \/ Quarantine \/ FinalFlush
          \/ EndMaterialize \/ EndCleanup)
    BY <2>1 DEF BeginMaterialize, BeginCleanup, Abort, Quarantine, FinalFlush,
       EndMaterialize, EndCleanup
  <2> QED
    BY <1>1, <2>2, <2>3, <2>4 DEF Next, Work
<1> QED
  BY <1>2 DEF Unlink, First, Deleted, OrderInv, ListInv

\* "Never delete the active (newest) WAL segment" (materializer.py:605): the one
\* the gateway writes is never deleted, even if it has just been opened.
THEOREM ActiveKept == "clock" \notin Faults => (Spec => NeverDeleteActive)
<1> SUFFICES ASSUME "clock" \notin Faults PROVE Spec => NeverDeleteActive
  OBVIOUS
<1>1. Inv /\ OrderInv /\ [Next]_vars => [\A k \in Keys : Deleted(k) => k # current]_vars
  <2> SUFFICES ASSUME Inv, OrderInv, Next, NEW k \in Keys, Deleted(k)
               PROVE  k # current
    OBVIOUS
  <2>1. k \in full
    BY DeletedMarked
  <2>2. current \in Int
    BY MaterializerAssumption DEF Inv, TypeOK
  <2> QED
    BY <2>1, <2>2 DEF OrderInv, SealedInv
<1> QED
  BY <1>1, Order, PTL DEF Spec, NeverDeleteActive

-----------------------------------------------------------------------------
\* No step changes a complete record, or takes back a committed row.
Grows ==
    /\ Committed \subseteq Committed'
    /\ \A k \in Keys :
         /\ Size(k) <= Size(k)'
         /\ \A i \in 1..Size(k) : Readable(wal[k][i]) => wal'[k][i] = wal[k][i]

LEMMA NextGrows == Inv /\ [Next]_vars => Grows
<1> SUFFICES ASSUME Inv, [Next]_vars PROVE Grows
  OBVIOUS
<1>1. CASE Gateway
  <2>1. Adds /\ Committed' = Committed
    BY <1>1, GatewayAdds DEF Adds, manifest, Committed
  <2> QED
    BY <2>1 DEF Adds, Grows
<1>2. \A k \in Keys : Size(k) \in Nat
  BY SizeType DEF Inv
<1>3. ASSUME wal' = wal, Committed \subseteq Committed' PROVE Grows
  BY <1>2, <1>3 DEF Grows
<1>4. CASE Flush
  BY <1>3, <1>4, FlushCommits DEF Flush, gateway
<1>5. CASE UNCHANGED <<wal, files>>
  BY <1>3, <1>5 DEF Committed
<1>6. CASE UNCHANGED vars
  BY <1>5, <1>6 DEF vars, gateway, manifest
<1> QED
  BY <1>1, <1>4, <1>5, <1>6 DEF Next, Work, BeginMaterialize, BeginCleanup, Abort,
     SkipSegment, OpenSegment, Unlink, UnlinkFails, LogDeletion, ReadRecord,
     FindCorruption, EndOfFile, CheckSealed, Seal, Quarantine, FinalFlush,
     EndMaterialize, EndCleanup, gateway, manifest

LEMMA SavedStays ==
  ASSUME Inv, Inv', Grows, NEW k \in Keys, NEW n \in Nat, Saved(k, n)
  PROVE  Saved(k, n)'
<1>1. n <= Size(k) /\ Size(k) \in Nat /\ Size(k)' \in Nat /\ Size(k) <= Size(k)'
  <2>1. SizeType /\ SizeType'
    BY SizeType, PTL
  <2> QED
    BY <2>1 DEF Inv, Saved, Grows
<1>2. ASSUME NEW i \in 1..n
      PROVE  /\ Readable(wal'[k][i])
             /\ HasRows(wal'[k][i]) => <<k, i>> \in Committed'
  BY <1>1 DEF Saved, Grows
<1> QED
  BY <1>1, <1>2 DEF Saved, Readable, HasRows

\* What a visit has read so far is complete, and committed or in the batch.
LEMMA VisitCovers ==
  ASSUME Inv, Reading, cur \notin full
  PROVE  /\ pos <= Size(cur)
         /\ \A i \in 1..pos : /\ Readable(wal[cur][i])
                              /\ HasRows(wal[cur][i]) => <<cur, i>> \in Committed \union batch
<1>1. /\ pos <= Size(cur) /\ Offset(cur) <= pos
      /\ boff[cur] = pos \/ (boff[cur] = 0 /\ Offset(cur) = pos)
  BY DEF Inv, ReaderInv
<1>2. /\ cur \in Keys /\ pos \in Nat /\ Size(cur) \in Nat
      /\ Offset(cur) \in Nat /\ boff[cur] \in Nat
  <2>1. cur \in Keys /\ pos \in Nat
    BY MaterializerAssumption DEF Inv, TypeOK
  <2>2. /\ Size(cur) \in 0..MaxRecords /\ Offset(cur) \in 0..MaxRecords
        /\ boff[cur] \in 0..MaxRecords
    BY <2>1, SizeType DEF Inv
  <2> QED
    BY <2>1, <2>2
<1>3. ASSUME NEW i \in 1..pos PROVE i <= Offset(cur) \/ i <= boff[cur]
  BY <1>1, <1>2
<1>4. ASSUME NEW i \in 1..pos PROVE Readable(wal[cur][i])
  BY <1>1, <1>2, <1>3 DEF Inv, BelowInv
<1>5. ASSUME NEW i \in 1..pos, HasRows(wal[cur][i])
      PROVE  <<cur, i>> \in Committed \union batch
  BY <1>2, <1>3, <1>5 DEF Inv, BatchInv, OffsetsCommitted
<1> QED
  BY <1>1, <1>4, <1>5

LEMMA InitSalvage == Init => SalvageInv
  BY DEF Init, SalvageInv, Condemning, Visiting, Quarantined

\* What is saved of the segments quarantined stays saved.
LEMMA NextSalvage ==
  ASSUME "clock" \notin Faults, Inv, Inv', OrderInv, SalvageInv, [Next]_vars
  PROVE  SalvageInv'
<1>1. Grows
  BY NextGrows
<1>2. /\ cur \in Keys /\ pos \in Nat /\ \A k \in Quarantined : corruptAt[k] \in Nat
      /\ corruptAt \in [Keys -> 0..MaxRecords \union {None}]
  <2>1. /\ cur \in Keys /\ pos \in Nat
        /\ corruptAt \in [Keys -> 0..MaxRecords \union {None}]
    BY MaterializerAssumption DEF Inv, TypeOK
  <2>2. \A k \in Quarantined : corruptAt[k] \in 0..MaxRecords
    BY <2>1 DEF Quarantined
  <2> QED
    BY <2>1, <2>2
<1>3. /\ \A k \in Quarantined : \A n : n = corruptAt[k] => Saved(k, n)'
      /\ pc = "quarantine" => \A k, n : k = cur /\ n = pos => Saved(k, n)'
  BY <1>1, <1>2, SavedStays DEF SalvageInv, Quarantined
<1>4. ASSUME UNCHANGED <<full, corruptAt>>,
             Condemning' => cur' \notin full,
             Visiting' => cur' \notin Quarantined,
             pc' = "quarantine" => \A k, n : k = cur' /\ n = pos' => Saved(k, n)'
      PROVE  SalvageInv'
  BY <1>3, <1>4 DEF SalvageInv, Quarantined, Saved
<1> USE DEF Condemning, Visiting
<1>5. CASE Gateway
  BY <1>3, <1>4, <1>5, GatewayFiles DEF manifest, scan, SalvageInv, Saved
<1>6. ASSUME NEW k \in Keys, OpenSegment(k) PROVE SalvageInv'
  BY <1>4, <1>6 DEF OpenSegment, Skip, manifest
<1>7. CASE FindCorruption
  <2>1. Reading /\ cur \notin full /\ cur \notin Quarantined
    <3>1. pos + 1 \in 1..Size(cur)
      BY <1>2, <1>7, SizeType DEF FindCorruption, Inv
    <3> QED
      BY <1>7, <3>1 DEF FindCorruption, Reading, OrderInv, SealedInv, Clean, SalvageInv
  <2>2. UNCHANGED <<wal, files, full, corruptAt, cur, pos>> /\ pc' \in {"flush", "quarantine"}
    BY <1>7 DEF FindCorruption, FlushThen, gateway, manifest, scan
  <2>3. CASE batch = {}
    <3>1. ASSUME NEW k, NEW n, k = cur', n = pos' PROVE Saved(k, n)'
      <4>1. /\ pos <= Size(cur)
            /\ \A i \in 1..pos : /\ Readable(wal[cur][i])
                                 /\ HasRows(wal[cur][i]) => <<cur, i>> \in Committed
        BY <2>1, <2>3, VisitCovers
      <4>2. Committed' = Committed
        BY <2>2 DEF Committed
      <4> QED
        <5>1. wal'[k] = wal[cur] /\ k = cur /\ n = pos
          BY <2>2, <3>1
        <5>2. /\ n <= Size(k)'
              /\ \A i \in 1..n : /\ Readable(wal'[k][i])
                                 /\ HasRows(wal'[k][i]) => <<k, i>> \in Committed'
          BY <4>1, <4>2, <5>1
        <5> QED
          BY <5>2, Zenon DEF Saved
    <3> QED
      BY <1>4, <2>1, <2>2, <3>1
  <2>4. CASE batch # {}
    BY <1>4, <1>7, <2>1, <2>2, <2>4 DEF FindCorruption, FlushThen
  <2> QED
    BY <2>3, <2>4
<1>8. CASE Flush
  <2>1. /\ UNCHANGED <<wal, full, corruptAt, cur, pos, resume>>
        /\ pc = "flush" /\ pc' = resume /\ Committed' = Committed \union batch
    BY <1>8, FlushCommits DEF Flush, gateway, scan
  <2>2. resume = "quarantine" => Reading /\ cur \notin full
    BY <2>1 DEF Reading, SalvageInv
  <2>3. Visiting' => cur \notin Quarantined
    BY <2>1 DEF SalvageInv
  <2>4. ASSUME resume = "quarantine", NEW k, NEW n, k = cur', n = pos' PROVE Saved(k, n)'
    <3>1. /\ pos <= Size(cur)
          /\ \A i \in 1..pos : /\ Readable(wal[cur][i])
                               /\ HasRows(wal[cur][i]) => <<cur, i>> \in Committed \union batch
      BY <2>2, <2>4, VisitCovers
    <3> QED
      <4>1. wal'[k] = wal[cur] /\ k = cur /\ n = pos
        BY <2>1, <2>4
      <4>2. /\ n <= Size(k)'
            /\ \A i \in 1..n : /\ Readable(wal'[k][i])
                               /\ HasRows(wal'[k][i]) => <<k, i>> \in Committed'
        BY <2>1, <3>1, <4>1
      <4> QED
        BY <4>2, Zenon DEF Saved
  <2> QED
    BY <1>4, <2>1, <2>2, <2>3, <2>4
<1>9. CASE Quarantine
  <2>1. /\ pc = "quarantine" /\ corruptAt' = [corruptAt EXCEPT ![cur] = pos]
        /\ full' = full /\ ~Condemning' /\ ~Visiting'
    BY <1>9 DEF Quarantine
  <2>2. cur \notin full /\ Quarantined' \subseteq Quarantined \union {cur}
    BY <1>2, <2>1 DEF SalvageInv, Quarantined
  <2>3. ASSUME NEW k \in Quarantined' PROVE Saved(k, corruptAt[k])'
    BY <1>2, <1>3, <2>1, <2>2, <2>3 DEF Saved
  <2> QED
    BY <2>1, <2>2, <2>3 DEF SalvageInv
<1>10. CASE Seal
  <2>1. /\ UNCHANGED corruptAt /\ full' = full \union {cur} /\ cur \notin Quarantined
        /\ ~Condemning' /\ ~Visiting'
    BY <1>10 DEF Seal, SalvageInv
  <2> QED
    BY <1>3, <2>1 DEF SalvageInv, Quarantined, Saved
<1>11. CASE UNCHANGED vars
  BY <1>3, <1>4, <1>11 DEF vars, manifest, scan, SalvageInv, Saved
<1>12. CASE \/ BeginMaterialize \/ ReadRecord \/ EndOfFile \/ CheckSealed \/ FinalFlush
            \/ EndMaterialize \/ Abort \/ BeginCleanup \/ EndCleanup
            \/ \E k \in Keys : \/ SkipSegment(k) \/ Unlink(k) \/ UnlinkFails(k)
                              \/ LogDeletion(k)
  <2>1. UNCHANGED <<full, corruptAt, cur>> /\ ~Condemning' /\ (Visiting' => Visiting)
    BY <1>12 DEF BeginMaterialize, ReadRecord, EndOfFile, CheckSealed, FinalFlush, FlushThen,
       EndMaterialize, Abort, Forget, BeginCleanup, EndCleanup, SkipSegment, Unlink,
       UnlinkFails, LogDeletion, manifest, scan
  <2> QED
    BY <1>4, <2>1 DEF SalvageInv
<1> QED
  BY <1>5, <1>6, <1>7, <1>8, <1>9, <1>10, <1>11, <1>12 DEF Next, Work

LEMMA Salvage == "clock" \notin Faults => (Spec => [](Inv /\ OrderInv /\ SalvageInv))
<1> SUFFICES ASSUME "clock" \notin Faults PROVE Spec => [](Inv /\ OrderInv /\ SalvageInv)
  OBVIOUS
<1>1. Inv /\ Inv' /\ OrderInv /\ SalvageInv /\ [Next]_vars => SalvageInv'
  BY NextSalvage
<1> QED
  BY <1>1, InitSalvage, Order, PTL DEF Spec

\* Quarantine "stops at the corruption boundary without discarding valid
\* preceding data" (docs/ARCHITECTURE.md:345-346), whatever run is aborted.
THEOREM Salvaged == "clock" \notin Faults => (Spec => []PrefixSalvaged)
<1> SUFFICES ASSUME "clock" \notin Faults PROVE Spec => []PrefixSalvaged
  OBVIOUS
<1>1. Inv /\ SalvageInv => PrefixSalvaged
  BY DEF SalvageInv, PrefixSalvaged, Saved
<1> QED
  BY <1>1, Salvage, PTL

\* "Never delete quarantined segments silently" (materializer.py:607).
THEOREM QuarantinedKept == "clock" \notin Faults => (Spec => NeverDeleteQuarantined)
<1> SUFFICES ASSUME "clock" \notin Faults PROVE Spec => NeverDeleteQuarantined
  OBVIOUS
<1>1. Inv /\ OrderInv /\ SalvageInv /\ [Next]_vars
      => [\A k \in Keys : Deleted(k) => k \notin Quarantined]_vars
  <2> SUFFICES ASSUME OrderInv, SalvageInv, Inv, Next, NEW k \in Keys, Deleted(k)
               PROVE  k \notin Quarantined
    OBVIOUS
  <2>1. k \in full
    BY DeletedMarked
  <2> QED
    BY <2>1 DEF SalvageInv
<1> QED
  BY <1>1, Salvage, PTL DEF Spec, NeverDeleteQuarantined

-----------------------------------------------------------------------------
\* The gateway may complete the record a call has found half written, but only
\* in the newest segment there is, and a sealed one it does not touch.
LEMMA NextBad ==
  ASSUME Inv, Inv', OrderInv, BadInv, [Next]_vars
  PROVE  BadInv'
<1> USE DEF Condemning
<1>1. cur \in Keys /\ pos \in Nat /\ Size(cur) \in Nat
  BY SizeType, MaterializerAssumption DEF Inv, TypeOK
<1>2. CASE Gateway
  <2>1. /\ UNCHANGED <<pc, resume, active, cur, pos>>
        /\ \A k \in Keys \ {current} : wal'[k] = wal[k]
    BY <1>2, GatewayFiles DEF scan
  <2>2. Size(cur) <= Size(cur)' /\ Size(cur)' \in Nat
    <3>1. Size(cur) <= Size(cur)'
      BY <1>1, <2>1, NextGrows DEF Grows
    <3>2. SizeType'
      BY SizeType, PTL
    <3> QED
      BY <1>1, <2>1, <3>1, <3>2 DEF Inv
  <2>3. ASSUME Condemning, cur # active PROVE wal'[cur] = wal[cur]
    <3>1. cur <= active /\ active <= current
      BY <2>3 DEF OrderInv, ListInv, Visiting
    <3>2. cur \in Int /\ active \in Int /\ current \in Int
      BY MaterializerAssumption DEF Inv, TypeOK
    <3>3. cur # current
      BY <2>3, <3>1, <3>2
    <3> QED
      BY <1>1, <2>1, <3>3
  <2>4. Condemning' => pos < Size(cur)'
    BY <1>1, <2>1, <2>2 DEF BadInv
  <2> QED
    BY <2>1, <2>3, <2>4 DEF BadInv, Readable
<1>3. CASE FindCorruption
  BY <1>3 DEF FindCorruption, gateway, scan, BadInv, Readable
<1>4. CASE Flush
  <2>1. /\ UNCHANGED <<wal, active, cur, pos, resume>>
        /\ pc = "flush" /\ pc' = resume
    BY <1>4 DEF Flush, gateway, scan
  <2>2. resume # "flush"
    BY DEF Inv, TypeOK
  <2> QED
    BY <2>1, <2>2 DEF BadInv, Readable
<1>5. CASE UNCHANGED vars
  BY <1>5 DEF vars, gateway, scan, BadInv, Readable
<1>6. CASE \/ BeginMaterialize \/ ReadRecord \/ EndOfFile \/ CheckSealed \/ Seal
           \/ Quarantine \/ FinalFlush \/ EndMaterialize \/ Abort
           \/ BeginCleanup \/ EndCleanup
           \/ \E k \in Keys : \/ SkipSegment(k) \/ OpenSegment(k) \/ Unlink(k)
                             \/ UnlinkFails(k) \/ LogDeletion(k)
  <2>1. ~Condemning'
    BY <1>6 DEF BeginMaterialize, ReadRecord, EndOfFile, CheckSealed, Seal, Quarantine,
       FinalFlush, FlushThen, EndMaterialize, Abort, Forget, BeginCleanup, EndCleanup,
       SkipSegment, OpenSegment, Unlink, UnlinkFails, LogDeletion
  <2> QED
    BY <2>1 DEF BadInv
<1> QED
  BY <1>2, <1>3, <1>4, <1>5, <1>6 DEF Next, Work

\* Only Quarantine records a corruption, and only of the segment being read.
LEMMA OnlyQuarantine ==
  ASSUME [Next]_vars, Inv, NEW k \in Keys, corruptAt[k] = None, corruptAt'[k] # None
  PROVE  Quarantine /\ k = cur /\ corruptAt'[k] = pos
<1>1. corruptAt' # corruptAt
  OBVIOUS
<1>2. ~Gateway
  BY <1>1, GatewayFiles DEF manifest
<1>3. ASSUME NEW j \in Keys, \/ SkipSegment(j) \/ OpenSegment(j) \/ Unlink(j)
                            \/ UnlinkFails(j) \/ LogDeletion(j)
      PROVE  FALSE
  BY <1>1, <1>3 DEF SkipSegment, OpenSegment, Unlink, UnlinkFails, LogDeletion, manifest
<1>4. ~(ReadRecord \/ FindCorruption \/ EndOfFile \/ CheckSealed \/ Seal \/ Flush)
  BY <1>1 DEF ReadRecord, FindCorruption, EndOfFile, CheckSealed, Seal, Flush, manifest
<1>5. ~(BeginMaterialize \/ BeginCleanup \/ Abort \/ FinalFlush \/ EndMaterialize
        \/ EndCleanup)
  BY <1>1 DEF BeginMaterialize, BeginCleanup, Abort, FinalFlush, EndMaterialize,
     EndCleanup, manifest
<1>6. Quarantine
  BY <1>1, <1>2, <1>3, <1>4, <1>5 DEF Next, Work, vars, manifest
<1>7. corruptAt \in [Keys -> 0..MaxRecords \union {None}] /\ cur \in Keys
      /\ corruptAt' = [corruptAt EXCEPT ![cur] = pos]
  BY <1>6 DEF Inv, TypeOK, Quarantine
<1> QED
  BY <1>6, <1>7

\* "Records exact byte offsets [...] whenever malformed or corrupted records are
\* quarantined" (docs/ARCHITECTURE.md:468): whatever a reader sees of a record
\* being written, and whatever fails or is aborted, all before the offset can
\* be read, and in a sealed segment a bad record stands behind it.
THEOREM QuarantineExact == "clock" \notin Faults => (Spec => EventsExact)
<1> SUFFICES ASSUME "clock" \notin Faults PROVE Spec => EventsExact
  OBVIOUS
<1>1. Init => BadInv
  BY DEF Init, BadInv, Condemning
<1>2. Inv /\ Inv' /\ OrderInv /\ BadInv /\ [Next]_vars => BadInv'
  BY NextBad
<1>3. Inv /\ SalvageInv /\ BadInv /\ [Next]_vars
      => [\A k \in Keys : corruptAt[k] = None /\ corruptAt'[k] # None =>
            /\ corruptAt'[k] < Size(k)
            /\ \A i \in 1..corruptAt'[k] : Readable(wal[k][i])
            /\ k # active => ~Readable(wal[k][corruptAt'[k] + 1])]_vars
  <2> SUFFICES ASSUME Inv, SalvageInv, BadInv, [Next]_vars, NEW k \in Keys,
                      corruptAt[k] = None, corruptAt'[k] # None
               PROVE  /\ corruptAt'[k] < Size(k)
                      /\ \A i \in 1..corruptAt'[k] : Readable(wal[k][i])
                      /\ k # active => ~Readable(wal[k][corruptAt'[k] + 1])
    OBVIOUS
  <2>1. k = cur /\ corruptAt'[k] = pos /\ pc = "quarantine"
    BY OnlyQuarantine DEF Quarantine
  <2>2. /\ pos < Size(cur)
        /\ cur # active => ~Readable(wal[cur][pos + 1])
    BY <2>1 DEF BadInv, Condemning
  <2>3. \A i \in 1..pos : Readable(wal[cur][i])
    BY <2>1 DEF SalvageInv, Saved
  <2> QED
    BY <2>1, <2>2, <2>3
<1> QED
  BY <1>1, <1>2, <1>3, Salvage, PTL DEF Spec, EventsExact

-----------------------------------------------------------------------------
\* Between a deletion and its row in the lifecycle table only an abort can end
\* the call.
LEMMA NextLog ==
  ASSUME "abort" \notin Faults, Inv, LogInv, [Next]_vars
  PROVE  LogInv'
<1> USE DEF LogInv, Materializing, Visiting
<1>1. /\ lifecycle \in [Keys -> {"none", "QUARANTINED", "DELETED"}]
      /\ todo \subseteq Int /\ todo \subseteq Keys /\ full \subseteq Keys
  BY MaterializerAssumption DEF Inv, TypeOK
<1>2. CASE Gateway
  BY <1>2, GatewayFiles DEF manifest, scan, First
<1>3. CASE Seal
  BY <1>3 DEF Seal, scan
<1>4. CASE Quarantine
  <2>1. /\ cur \in present /\ pc = "quarantine" /\ pc' = "visit"
        /\ UNCHANGED <<present, full, todo>>
        /\ \A k \in Keys \ {cur} : lifecycle'[k] = lifecycle[k]
    BY <1>1, <1>4 DEF Quarantine
  <2> QED
    BY <1>1, <2>1
<1>5. ASSUME NEW k \in Keys, Unlink(k) PROVE LogInv'
  BY <1>5 DEF Unlink, First, manifest
<1>6. ASSUME NEW k \in Keys, LogDeletion(k) PROVE LogInv'
  <2>1. /\ pc = "log" /\ pc' = "unlink" /\ UNCHANGED <<present, full>>
        /\ lifecycle'[k] = "DELETED"
        /\ \A j \in Keys \ {k} : lifecycle'[j] = lifecycle[j]
    BY <1>1, <1>6 DEF LogDeletion
  <2>2. ASSUME NEW j \in Keys, First(j, todo) PROVE j = k
    BY <1>1, <1>6, <2>2 DEF LogDeletion, First
  <2> QED
    BY <1>1, <2>1, <2>2
<1>7. ASSUME NEW k \in Keys, SkipSegment(k) \/ OpenSegment(k) \/ UnlinkFails(k) PROVE LogInv'
  BY <1>7 DEF SkipSegment, OpenSegment, UnlinkFails, First, manifest, scan
<1>8. CASE ReadRecord \/ FindCorruption \/ EndOfFile \/ CheckSealed \/ FinalFlush
  BY <1>8 DEF ReadRecord, FindCorruption, EndOfFile, CheckSealed, FinalFlush, FlushThen,
     manifest, scan
<1>9. CASE Flush
  BY <1>9 DEF Flush, scan, Inv, TypeOK
<1>10. CASE BeginMaterialize \/ EndMaterialize \/ BeginCleanup \/ EndCleanup
  BY <1>10 DEF BeginMaterialize, EndMaterialize, Forget, BeginCleanup, EndCleanup, manifest
<1>11. CASE Abort
  BY <1>11 DEF Abort, Forget, manifest
<1>12. CASE UNCHANGED vars
  BY <1>12 DEF vars, manifest, scan, First
<1> QED
  BY <1>2, <1>3, <1>4, <1>5, <1>6, <1>7, <1>8, <1>9, <1>10, <1>11, <1>12 DEF Next, Work

\* "Log all deletions and record in lifecycle table" (materializer.py:608): when
\* no call holds the lock every segment that is gone is logged, unless a call
\* was aborted (MatAbortDeletes).
THEOREM DeletionsRecorded == "abort" \notin Faults => (Spec => []DeletionsLogged)
<1> SUFFICES ASSUME "abort" \notin Faults PROVE Spec => []DeletionsLogged
  OBVIOUS
<1>1. Init => LogInv
  BY DEF Init, LogInv, Materializing, Visiting
<1>2. Inv /\ LogInv /\ [Next]_vars => LogInv'
  BY NextLog
<1>3. LogInv => DeletionsLogged
  BY DEF LogInv, DeletionsLogged
<1> QED
  BY <1>1, <1>2, <1>3, Invariant, PTL DEF Spec

-----------------------------------------------------------------------------
\* The conditions under which cleanup loses nothing.
Faultless == "clock" \notin Faults /\ "abort" \notin Faults /\ "wild" \notin Kinds

LEMMA GatewayTame ==
  ASSUME Faultless, Inv, NoWild, Gateway
  PROVE  NoWild'
<1>1. /\ wal \in [Keys -> Seq(Cells)] /\ current \in Keys
      /\ \A k \in Keys : Len(wal[k]) \in Nat
  <2>1. wal \in [Keys -> Seq(Cells)] /\ current \in Keys
    BY DEF Inv, TypeOK, Cells
  <2> QED
    BY <2>1
<1>2. ASSUME NEW c \in Cells, c # "wild", wal' = [wal EXCEPT ![current] = Append(@, c)]
      PROVE  NoWild'
  <2>1. ASSUME NEW k \in Keys, NEW i \in 1..MaxRecords, i <= Size(k)' PROVE wal'[k][i] # "wild"
    <3>1. CASE k # current
      BY <1>1, <1>2, <2>1, <3>1 DEF NoWild
    <3>2. CASE k = current
      <4>1. wal'[k] = Append(wal[k], c) /\ wal[k] \in Seq(Cells)
        BY <1>1, <1>2, <3>2
      <4>2. i <= Len(wal[k]) + 1
        BY <2>1, <4>1
      <4>3. wal'[k][i] = IF i = Len(wal[k]) + 1 THEN c ELSE wal[k][i]
        BY <1>1, <4>1, <4>2
      <4> QED
        BY <1>1, <1>2, <4>2, <4>3 DEF NoWild
    <3> QED
      BY <3>1, <3>2
  <2> QED
    BY <2>1 DEF NoWild
<1>3. ASSUME NEW kind \in Kinds, GatewayAppend(kind) PROVE NoWild'
  <2>1. kind \in Cells /\ kind # "wild"
    BY MaterializerAssumption DEF Cells, Faultless
  <2> QED
    BY <1>2, <1>3, <2>1 DEF GatewayAppend
<1>4. ASSUME NEW kind \in Kinds, GatewayFinish(kind) PROVE NoWild'
  <2>1. /\ kind # "wild" /\ Size(current) \in 1..Len(wal[current])
        /\ wal' = [wal EXCEPT ![current] = [wal[current] EXCEPT ![Size(current)] = kind]]
    BY <1>1, <1>4 DEF GatewayFinish, Faultless, Inv, WriterInv
  <2> QED
    BY <1>1, <2>1 DEF NoWild
<1>5. ASSUME GatewayBegin \/ GatewayGivesUp PROVE NoWild'
  <2>1. "torn" \in Cells /\ "torn" # "wild"
    BY DEF Cells
  <2>2. wal' = wal => NoWild'
    BY DEF NoWild
  <2> QED
    BY <1>2, <1>5, <2>1, <2>2 DEF GatewayBegin, GatewayGivesUp
<1>6. ASSUME NEW k \in Keys, GatewayRotate(k) PROVE NoWild'
  BY <1>6 DEF GatewayRotate, NoWild
<1> QED
  BY <1>3, <1>4, <1>5, <1>6 DEF Gateway

\* Without a row that Arrow refuses every batch can be written.
LEMMA NoAbort == Faultless /\ Inv /\ NoWild => ~Abort
<1> SUFFICES ASSUME Faultless, Inv, NoWild, NEW r \in batch
             PROVE  wal[r[1]][r[2]] # "wild"
  BY DEF Abort, Convertible, Faultless
<1>1. r[1] \in Keys /\ r[2] \in 1..MaxRecords /\ r = <<r[1], r[2]>>
  BY DEF Inv, TypeOK
<1>2. r[2] <= boff[r[1]] /\ boff[r[1]] <= Size(r[1])
  BY <1>1 DEF Inv, BatchInv, BelowInv
<1>3. boff[r[1]] \in Int /\ Size(r[1]) \in Int
  BY <1>1, SizeType, MaterializerAssumption DEF Inv
<1> QED
  BY <1>1, <1>2, <1>3 DEF NoWild

\* What is read to its end can be marked.
LEMMA EndSafe ==
  ASSUME Inv, OrderInv, KeptInv, CheckSealed, pc' = "seal"
  PROVE  RowsSafe(cur)
<1>1. Reading /\ pos = Size(cur)
  BY DEF CheckSealed, Reading, OrderInv, SealedInv
<1>2. CASE cur \in full
  BY <1>2 DEF KeptInv
<1>3. CASE cur \notin full
  <2>1. \A i \in 1..pos : HasRows(wal[cur][i]) => <<cur, i>> \in Committed \union batch
    BY <1>1, <1>3, VisitCovers
  <2> QED
    BY <1>1, <2>1, Zenon DEF RowsSafe
<1> QED
  BY <1>2, <1>3

LEMMA NextKept ==
  ASSUME Faultless, Inv, OrderInv, KeptInv, [Next]_vars
  PROVE  KeptInv'
<1>1. ASSUME wal' = wal, Committed \union batch \subseteq (Committed \union batch)',
             full' = full \/ (Seal /\ full' = full \union {cur}),
             pc' = "seal" => RowsSafe(cur) /\ cur' = cur
      PROVE  KeptInv'
  <2>1. ASSUME NEW k, RowsSafe(k) PROVE RowsSafe(k)'
    BY <1>1, <2>1 DEF RowsSafe
  <2>2. NoWild'
    BY <1>1 DEF KeptInv, NoWild
  <2>3. \A k \in full' : RowsSafe(k)
    BY <1>1 DEF KeptInv, Seal
  <2>4. \A k \in full' : RowsSafe(k)'
    BY <2>1, <2>3
  <2>5. ASSUME pc' = "seal" PROVE \A k : k = cur' => RowsSafe(k)'
    BY <1>1, <2>1, <2>5
  <2> QED
    BY <2>2, <2>4, <2>5 DEF KeptInv
<1>2. CASE Gateway
  <2>1. NoWild'
    BY <1>2, GatewayTame DEF KeptInv
  <2>2. /\ \A k \in Keys \ {current} : wal'[k] = wal[k]
        /\ UNCHANGED <<full, files, batch, pc, active, cur>>
    BY <1>2, GatewayFiles DEF manifest, scan, pending
  <2>3. /\ full \subseteq Keys \ {current}
        /\ pc = "seal" => cur \in Keys \ {current}
    <3>1. current \in Int /\ active \in Int /\ cur \in Keys /\ full \subseteq Keys
      BY MaterializerAssumption DEF Inv, TypeOK
    <3> QED
      BY <3>1, MaterializerAssumption DEF OrderInv, ListInv, SealedInv, Visiting
  <2>4. ASSUME NEW k \in Keys \ {current}, RowsSafe(k) PROVE RowsSafe(k)'
    BY <2>2, <2>4 DEF RowsSafe, HasRows, Committed
  <2>5. \A k \in full' : RowsSafe(k)'
    BY <2>2, <2>3, <2>4 DEF KeptInv
  <2>6. ASSUME pc' = "seal" PROVE \A k : k = cur' => RowsSafe(k)'
    BY <2>2, <2>3, <2>4, <2>6 DEF KeptInv
  <2> QED
    BY <2>1, <2>5, <2>6 DEF KeptInv
<1>3. ~Abort
  BY NoAbort DEF KeptInv
<1>4. CASE CheckSealed
  <2>1. UNCHANGED <<wal, files, full, batch, cur>>
    BY <1>4 DEF CheckSealed, gateway, manifest, scan, pending
  <2> QED
    BY <1>1, <1>4, <2>1, EndSafe DEF Committed
<1>5. CASE Seal
  <2>1. /\ UNCHANGED <<wal, files, batch>> /\ pc' = "visit" /\ full' = full \union {cur}
    BY <1>5 DEF Seal, gateway, pending
  <2> QED
    BY <1>1, <1>5, <2>1 DEF Committed
<1>6. CASE Flush
  <2>1. /\ UNCHANGED <<wal, full>> /\ pc' = resume /\ Committed' = Committed \union batch
        /\ resume # "seal"
    BY <1>6, FlushCommits DEF Flush, gateway, Inv, TypeOK
  <2> QED
    BY <1>1, <2>1
<1>7. CASE ReadRecord
  <2>1. /\ UNCHANGED <<wal, files, full>> /\ batch \subseteq batch' /\ pc' # "seal"
    BY <1>7 DEF ReadRecord, FlushThen, gateway, manifest
  <2> QED
    BY <1>1, <2>1 DEF Committed
<1>8. CASE EndMaterialize
  <2>1. /\ UNCHANGED <<wal, files, full>> /\ batch' = batch /\ pc' # "seal"
    BY <1>8 DEF EndMaterialize, Forget, gateway, manifest
  <2> QED
    BY <1>1, <2>1 DEF Committed
<1>9. CASE UNCHANGED vars
  BY <1>1, <1>9 DEF vars, gateway, manifest, scan, pending, Committed, KeptInv
<1>10. CASE \/ BeginMaterialize \/ FindCorruption \/ EndOfFile \/ Quarantine \/ FinalFlush
            \/ BeginCleanup \/ EndCleanup
            \/ \E k \in Keys : \/ SkipSegment(k) \/ OpenSegment(k) \/ Unlink(k)
                              \/ UnlinkFails(k) \/ LogDeletion(k)
  <2>1. UNCHANGED <<wal, files, full, batch>> /\ pc' # "seal"
    BY <1>10 DEF BeginMaterialize, FindCorruption, EndOfFile, Quarantine, FinalFlush,
       FlushThen, BeginCleanup, EndCleanup, SkipSegment, OpenSegment, Unlink, UnlinkFails,
       LogDeletion, gateway, manifest, pending
  <2> QED
    BY <1>1, <2>1 DEF Committed
<1> QED
  BY <1>2, <1>3, <1>4, <1>5, <1>6, <1>7, <1>8, <1>9, <1>10 DEF Next, Work

LEMMA Kept == Faultless => (Spec => [](Inv /\ OrderInv /\ KeptInv))
<1> SUFFICES ASSUME Faultless PROVE Spec => [](Inv /\ OrderInv /\ KeptInv)
  OBVIOUS
<1>1. Init => KeptInv
  BY DEF Init, KeptInv, NoWild
<1>2. Inv /\ OrderInv /\ KeptInv /\ [Next]_vars => KeptInv'
  BY NextKept
<1> QED
  BY <1>1, <1>2, Order, PTL DEF Spec, Faultless

\* "Crash-Safe & Idempotent" (materializer.py:9): the rows of a record on disk
\* are committed, in the batch, or will be read again.
THEOREM RecordsKept == Faultless => (Spec => []AckedKept)
<1> SUFFICES ASSUME Faultless PROVE Spec => []AckedKept
  OBVIOUS
<1>1. Inv /\ OrderInv /\ KeptInv => AckedKept
  <2> SUFFICES ASSUME Inv, OrderInv, KeptInv, NEW k \in Keys, NEW i \in 1..Size(k),
                      HasRows(wal[k][i])
               PROVE  \/ <<k, i>> \in Committed \union batch
                      \/ k \in present /\ i > Offset(k)
    BY DEF AckedKept
  <2>1. CASE k \in full
    BY <2>1 DEF KeptInv, RowsSafe
  <2>2. CASE k \notin full
    <3>1. Size(k) \in Nat /\ Offset(k) \in Nat
      BY SizeType DEF Inv
    <3>2. k \in present
      BY <2>2, <3>1 DEF OrderInv, NameInv
    <3>3. CASE i <= Offset(k)
      BY <2>2, <3>1, <3>3 DEF Inv, OffsetsCommitted
    <3> QED
      BY <3>1, <3>2, <3>3
  <2> QED
    BY <2>1, <2>2
<1> QED
  BY <1>1, Kept, PTL

\* "Never delete unmaterialized segments" (materializer.py:606), unless a call
\* is aborted between marking a segment and flushing its last rows.
THEOREM MaterializedFirst == Faultless => (Spec => NeverDeleteUnmaterialized)
<1> SUFFICES ASSUME Faultless PROVE Spec => NeverDeleteUnmaterialized
  OBVIOUS
<1>1. Inv /\ OrderInv /\ KeptInv /\ [Next]_vars
      => [\A k \in Keys : Deleted(k) => ~Unmaterialized(k)]_vars
  <2> SUFFICES ASSUME Inv, OrderInv, KeptInv, Next, NEW k \in Keys, Deleted(k)
               PROVE  ~Unmaterialized(k)
    OBVIOUS
  <2>1. k \in full /\ pc = "unlink"
    BY DeletedMarked
  <2>2. RowsSafe(k) /\ batch = {}
    BY <2>1 DEF KeptInv, Inv, QuietInv
  <2> QED
    BY <2>2 DEF RowsSafe, Unmaterialized
<1> QED
  BY <1>1, Kept, PTL DEF Spec, NeverDeleteUnmaterialized

-----------------------------------------------------------------------------
\* The gateway has left k, its rows are committed to the last one, but it is
\* not marked; and nobody is visiting or deleting it.
Stuck(k) ==
    /\ k \in present \ full /\ k # current /\ k \notin Quarantined
    /\ Size(k) > 0 /\ Offset(k) = Size(k)
    /\ Visiting => cur # k
    /\ pc \in {"unlink", "log"} => k \notin todo

LEMMA NextStuck ==
  ASSUME Inv, NEW k \in Keys, Stuck(k), [Next]_vars
  PROVE  Stuck(k)'
<1> USE DEF Stuck, Visiting, Quarantined
<1>1. Size(k) \in Nat /\ Offset(k) \in Nat /\ boff[k] \in Nat /\ boff[k] <= Size(k)
  BY SizeType, MaterializerAssumption DEF Inv, TypeOK, BelowInv
<1>2. k \in Keys /\ maxOffset \in [Keys -> 0..MaxRecords \union {None}]
      /\ corruptAt \in [Keys -> 0..MaxRecords \union {None}]
      /\ wal \in [Keys -> Seq(RecordKinds \union {"torn"})]
  BY DEF Inv, TypeOK
<1>3. CASE Gateway
  <2>1. wal'[k] = wal[k] /\ UNCHANGED <<manifest, pc, todo, scan, resume>>
    BY <1>2, <1>3 DEF Gateway, GatewayAppend, GatewayFinish, GatewayBegin, GatewayGivesUp,
       GatewayRotate, gateway, pending
  <2>2. present \subseteq present' /\ k # current'
    BY <1>3 DEF Gateway, GatewayAppend, GatewayFinish, GatewayBegin, GatewayGivesUp,
       GatewayRotate
  <2> QED
    BY <2>1, <2>2 DEF manifest, scan
<1>4. CASE \/ \E j \in Keys : SkipSegment(j) \/ OpenSegment(j)
           \/ BeginMaterialize \/ ReadRecord \/ FindCorruption \/ EndOfFile
           \/ CheckSealed \/ FinalFlush \/ EndMaterialize \/ Abort
  <2>1. UNCHANGED <<gateway, present, manifest>>
    BY <1>4 DEF SkipSegment, OpenSegment, BeginMaterialize, ReadRecord, FindCorruption,
       EndOfFile, CheckSealed, FinalFlush, EndMaterialize, Abort
  <2>2. /\ Visiting' => cur' # k
        /\ pc' \notin {"unlink", "log"}
    <3>1. ASSUME NEW j \in Keys, OpenSegment(j) PROVE j # k
      BY <1>1, <3>1 DEF OpenSegment, Skip
    <3>2. CASE \/ SkipSegment(k) \/ BeginMaterialize \/ FinalFlush \/ EndMaterialize \/ Abort
               \/ \E j \in Keys : SkipSegment(j) \/ OpenSegment(j)
      BY <3>1, <3>2 DEF SkipSegment, OpenSegment, BeginMaterialize, FinalFlush,
         EndMaterialize, Abort, FlushThen, Forget, scan
    <3>3. CASE ReadRecord \/ FindCorruption \/ EndOfFile \/ CheckSealed
      BY <3>3 DEF ReadRecord, FindCorruption, EndOfFile, CheckSealed, FlushThen, scan
    <3> QED
      BY <1>4, <3>2, <3>3
  <2> QED
    BY <2>1, <2>2 DEF gateway, manifest
<1>5. CASE Seal \/ Quarantine
  <2>1. /\ cur # k /\ UNCHANGED <<gateway, present, scan>> /\ pc' = "visit"
        /\ full' \subseteq full \union {cur}
        /\ maxOffset'[k] = maxOffset[k] /\ corruptAt'[k] = corruptAt[k]
    BY <1>2, <1>5 DEF Seal, Quarantine
  <2> QED
    BY <2>1 DEF gateway
<1>6. CASE Flush
  <2>1. /\ UNCHANGED <<gateway, present, full, corruptAt, scan>> /\ pc' = resume
        /\ pc = "flush" /\ resume' = resume
        /\ maxOffset'[k] = IF boff[k] > maxOffset[k] /\ boff[k] > 0 THEN boff[k]
                           ELSE maxOffset[k]
    BY <1>2, <1>6 DEF Flush
  <2>2. maxOffset'[k] = maxOffset[k]
    BY <1>1, <1>2, <2>1
  <2>3. resume \in {"idle", "visit", "read", "quarantine"}
    BY DEF Inv, TypeOK
  <2> QED
    BY <2>1, <2>2, <2>3 DEF gateway, scan
<1>7. CASE \/ BeginCleanup \/ EndCleanup
           \/ \E j \in Keys : Unlink(j) \/ UnlinkFails(j) \/ LogDeletion(j)
  <2>1. /\ UNCHANGED <<gateway, maxOffset, full, corruptAt, scan>>
        /\ pc' \in {"idle", "unlink", "log"}
    BY <1>7 DEF BeginCleanup, EndCleanup, Unlink, UnlinkFails, LogDeletion, manifest
  <2>2. k \in present' /\ (pc' \in {"unlink", "log"} => k \notin todo')
    BY <1>7 DEF BeginCleanup, EndCleanup, Unlink, UnlinkFails, LogDeletion, First
  <2> QED
    BY <2>1, <2>2 DEF gateway, scan
<1>8. CASE UNCHANGED vars
  BY <1>8 DEF vars, gateway, manifest, scan
<1> QED
  BY <1>3, <1>4, <1>5, <1>6, <1>7, <1>8 DEF Next, Work

\* A segment that was read to its end before the gateway left it, and is not
\* marked by then, is never marked, quarantined or deleted, however often
\* materialize() and cleanup run (materializer.py:493-496, 524): the run
\* MatNeverDeleted shows one such segment, this theorem that none is spared.
THEOREM StuckForEver ==
  ASSUME NEW k \in Keys
  PROVE  Spec => [](Stuck(k) => [](k \in present \ (full \union Quarantined)))
<1>1. Inv /\ Stuck(k) /\ [Next]_vars => Stuck(k)'
  BY NextStuck
<1>2. Stuck(k) => k \in present \ (full \union Quarantined)
  BY DEF Stuck
<1> QED
  BY <1>1, <1>2, Invariant, PTL DEF Spec
-----------------------------------------------------------------------------
(* The rows of a segment reach the table in order and without a gap, if a  *)
(* segment that is marked is not the gateway's any more: what is in the    *)
(* batch has nothing missing before it, not even in a marked segment that  *)
(* an aborted call left unread.                                            *)

Marked(k) == k \in full /\ Offset(k) >= Size(k)

MarkInv ==
    \A k \in Keys : Marked(k) \/ \A i \in 1..Offset(k) :
      HasRows(wal[k][i]) => <<k, i>> \in Committed

RowInv ==
    /\ \A k \in Keys : \A i \in 1..boff[k] :
         HasRows(wal[k][i]) => <<k, i>> \in Committed \union batch
    /\ \A r \in batch : HasRows(wal[r[1]][r[2]])

GapInv == MarkInv /\ RowInv

\* Sizes, marks and batch offsets are numbers; neither of the others lies
\* beyond the size.
LEMMA Numbers ==
  ASSUME Inv
  PROVE  /\ \A k \in Keys : /\ Size(k) \in Nat /\ Offset(k) \in Nat /\ boff[k] \in Nat
                            /\ Offset(k) <= Size(k) /\ boff[k] <= Size(k)
         /\ cur \in Keys /\ pos \in Nat
<1>1. TypeOK /\ \A k \in Keys : Offset(k) <= Size(k) /\ boff[k] <= Size(k)
  BY DEF Inv, BelowInv
<1>2. \A k \in Keys : /\ Size(k) \in 0..MaxRecords
                      /\ Offset(k) \in 0..MaxRecords
                      /\ boff[k] \in 0..MaxRecords
  BY <1>1, SizeType
<1>3. cur \in Keys /\ pos \in Nat
  BY <1>1, MaterializerAssumption DEF TypeOK
<1> HIDE DEF Keys, Size, Offset
<1>4. \A k \in Keys : Size(k) \in Nat /\ Offset(k) \in Nat /\ boff[k] \in Nat
  BY <1>2
<1> QED
  BY <1>1, <1>3, <1>4

\* The gateway adds behind the offsets, and only to a segment not marked.
LEMMA GatewayGap ==
  ASSUME "clock" \notin Faults, Inv, OrderInv, GapInv, Gateway
  PROVE  GapInv'
<1>1. /\ UNCHANGED <<maxOffset, full, files, batch, boff>>
      /\ Committed' = Committed /\ Adds
      /\ \A k \in Keys \ {current} : wal'[k] = wal[k]
  BY GatewayAdds, GatewayFiles DEF manifest, pending, Committed
<1>2. current \notin full
  <2>1. current \in Int
    BY MaterializerAssumption DEF Inv, TypeOK
  <2> QED
    BY <2>1 DEF OrderInv, SealedInv
<1>3. \A k \in Keys : /\ Size(k) \in Nat /\ Offset(k) \in Nat /\ boff[k] \in Nat
                      /\ Offset(k) <= Size(k) /\ boff[k] <= Size(k)
  BY Numbers
<1>4. ASSUME NEW k \in Keys, NEW i \in 1..Size(k), k # current \/ i <= Offset(k) \/ i <= boff[k]
      PROVE  wal'[k][i] = wal[k][i]
  <2>1. CASE k = current
    BY <1>1, <1>2, <1>4, <2>1 DEF Inv, BelowInv, Adds
  <2>2. CASE k # current
    BY <1>1, <2>2
  <2> QED
    BY <2>1, <2>2
<1>5. \A r \in batch : r[1] \in Keys /\ r[2] \in 1..Size(r[1]) /\ r[2] <= boff[r[1]]
  <2> SUFFICES ASSUME NEW r \in batch
               PROVE  r[1] \in Keys /\ r[2] \in 1..Size(r[1]) /\ r[2] <= boff[r[1]]
    OBVIOUS
  <2>1. r[1] \in Keys /\ r[2] \in 1..MaxRecords /\ r = <<r[1], r[2]>>
    BY DEF Inv, TypeOK
  <2>2. r[2] <= boff[r[1]]
    BY <2>1 DEF Inv, BatchInv
  <2> QED
    BY <1>3, <2>1, <2>2
<1>6. MarkInv'
  <2> SUFFICES ASSUME NEW k \in Keys, ~Marked(k)', NEW i \in 1..Offset(k), HasRows(wal'[k][i])
               PROVE  <<k, i>> \in Committed
    BY <1>1 DEF MarkInv
  <2>1. i \in 1..Size(k)
    BY <1>3
  <2>2. wal'[k][i] = wal[k][i]
    BY <1>4, <2>1
  <2>3. ~Marked(k)
    BY <1>1, <1>2 DEF Marked
  <2> QED
    BY <2>2, <2>3 DEF GapInv, MarkInv
<1>7. RowInv'
  <2>1. ASSUME NEW k \in Keys, NEW i \in 1..boff[k], HasRows(wal'[k][i])
        PROVE  <<k, i>> \in Committed \union batch
    <3>1. i \in 1..Size(k)
      BY <1>3
    <3>2. wal'[k][i] = wal[k][i]
      BY <1>4, <3>1
    <3> QED
      BY <2>1, <3>2 DEF GapInv, RowInv
  <2>2. ASSUME NEW r \in batch PROVE HasRows(wal'[r[1]][r[2]])
    BY <1>4, <1>5 DEF GapInv, RowInv
  <2> QED
    BY <1>1, <2>1, <2>2 DEF RowInv
<1> QED
  BY <1>6, <1>7 DEF GapInv

\* A record read follows the last one, committed or in the batch.
LEMMA ReadGap ==
  ASSUME Inv, GapInv, ReadRecord
  PROVE  GapInv'
<1>1. /\ UNCHANGED <<wal, maxOffset, full, files>> /\ Committed' = Committed
      /\ pos < Size(cur) /\ boff' = [boff EXCEPT ![cur] = pos + 1] /\ Reading
      /\ batch' = batch \union IF HasRows(wal[cur][pos + 1]) THEN {<<cur, pos + 1>>} ELSE {}
  BY DEF ReadRecord, Reading, gateway, manifest, Committed
<1>2. /\ cur \in Keys /\ pos \in Nat /\ Size(cur) \in Nat /\ Offset(cur) \in Nat
      /\ boff \in [Keys -> 0..MaxRecords] /\ \A k \in Keys : boff[k] \in Nat
  BY Numbers DEF Inv, TypeOK
<1>3. boff[cur] = pos \/ (boff[cur] = 0 /\ Offset(cur) = pos)
  BY <1>1 DEF Inv, ReaderInv
<1>4. ASSUME NEW i \in 1..pos, HasRows(wal[cur][i])
      PROVE  <<cur, i>> \in Committed \union batch
  <2>1. CASE boff[cur] = pos
    BY <1>2, <1>4, <2>1 DEF GapInv, RowInv
  <2>2. CASE Offset(cur) = pos
    <3>1. ~Marked(cur)
      BY <1>1, <1>2, <2>2 DEF Marked
    <3> QED
      BY <1>2, <1>4, <2>2, <3>1 DEF GapInv, MarkInv
  <2> QED
    BY <1>3, <2>1, <2>2
<1>5. MarkInv'
  BY <1>1 DEF GapInv, MarkInv, Marked, HasRows
<1>6. ASSUME NEW k \in Keys, NEW i \in 1..boff'[k], HasRows(wal[k][i])
      PROVE  <<k, i>> \in Committed \union batch'
  <2>1. CASE k # cur
    BY <1>1, <1>2, <1>6, <2>1 DEF GapInv, RowInv
  <2>2. CASE k = cur /\ i = pos + 1
    BY <1>1, <1>6, <2>2
  <2>3. CASE k = cur /\ i # pos + 1
    <3>1. i \in 1..pos
      BY <1>1, <1>2, <2>3
    <3> QED
      BY <1>1, <1>4, <1>6, <2>3, <3>1
  <2> QED
    BY <2>1, <2>2, <2>3
<1>7. \A r \in batch' : HasRows(wal[r[1]][r[2]])
  BY <1>1 DEF GapInv, RowInv
<1> QED
  BY <1>1, <1>5, <1>6, <1>7 DEF GapInv, RowInv, HasRows

LEMMA NextGap ==
  ASSUME "clock" \notin Faults, Inv, OrderInv, GapInv, [Next]_vars
  PROVE  GapInv'
<1>1. ASSUME UNCHANGED <<wal, full, maxOffset, files, batch, boff>> PROVE GapInv'
  BY <1>1 DEF GapInv, MarkInv, Marked, RowInv, Committed, HasRows
<1>2. CASE Seal
  <2>1. /\ UNCHANGED <<wal, batch, boff>> /\ full' = full \union {cur}
        /\ Committed' = Committed
        /\ maxOffset' = [maxOffset EXCEPT ![cur] = IF @ = None THEN Size(cur) ELSE @]
    BY <1>2 DEF Seal, gateway, pending, Committed
  <2>2. cur \in Keys /\ maxOffset \in [Keys -> 0..MaxRecords \union {None}]
        /\ \A k \in Keys : Size(k) \in Nat
    BY Numbers DEF Inv, TypeOK
  <2>3. ASSUME NEW k \in Keys, ~Marked(k)' PROVE Offset(k)' = Offset(k) /\ ~Marked(k)
    BY <2>1, <2>2, <2>3 DEF Marked
  <2>4. MarkInv'
    BY <2>1, <2>3 DEF GapInv, MarkInv, HasRows
  <2> QED
    BY <2>1, <2>4 DEF GapInv, RowInv, HasRows
<1>3. CASE Flush
  <2>1. /\ UNCHANGED <<wal, full>> /\ Committed' = Committed \union batch
        /\ batch' = {} /\ \A k \in Keys : boff'[k] = 0
    BY <1>3, FlushCommits DEF Flush, gateway
  <2>2. \A k \in Keys : /\ Offset(k) \in Nat /\ boff[k] \in Nat /\ Size(k) \in Nat
                        /\ Offset(k)' \in {Offset(k), boff[k]} /\ Offset(k) <= Offset(k)'
    <3>1. \A k \in Keys : /\ Offset(k) \in Nat /\ boff[k] \in Nat /\ Size(k) \in Nat
                          /\ maxOffset[k] \in 0..MaxRecords \union {None}
      BY Numbers DEF Inv, TypeOK
    <3>2. \A k \in Keys : maxOffset'[k] = IF boff[k] > maxOffset[k] /\ boff[k] > 0
                                         THEN boff[k] ELSE maxOffset[k]
      BY <1>3 DEF Flush
    <3> QED
      BY <3>1, <3>2, MaterializerAssumption
  <2>3. MarkInv'
    <3> SUFFICES ASSUME NEW k \in Keys, ~Marked(k)', NEW i \in 1..Offset(k)', HasRows(wal[k][i])
                 PROVE  <<k, i>> \in Committed \union batch
      BY <2>1 DEF MarkInv, HasRows
    <3>1. ~Marked(k)
      BY <2>1, <2>2 DEF Marked
    <3>2. i \in 1..Offset(k) \/ i \in 1..boff[k]
      BY <2>2
    <3> QED
      BY <3>1, <3>2 DEF GapInv, MarkInv, RowInv
  <2> QED
    BY <2>1, <2>3 DEF GapInv, RowInv
<1>4. CASE EndMaterialize \/ Abort
  <2>1. /\ UNCHANGED <<wal, full, maxOffset, files>>
        /\ batch' = {} /\ \A k \in Keys : boff'[k] = 0
    BY <1>4 DEF EndMaterialize, Abort, Forget, gateway, manifest
  <2> QED
    BY <2>1 DEF GapInv, MarkInv, Marked, RowInv, Committed, HasRows
<1>5. CASE \/ BeginMaterialize \/ FindCorruption \/ EndOfFile \/ CheckSealed \/ Quarantine
           \/ FinalFlush \/ BeginCleanup \/ EndCleanup
           \/ \E k \in Keys : \/ SkipSegment(k) \/ OpenSegment(k) \/ Unlink(k)
                              \/ UnlinkFails(k) \/ LogDeletion(k)
  BY <1>1, <1>5 DEF BeginMaterialize, FindCorruption, EndOfFile, CheckSealed, Quarantine,
     FinalFlush, FlushThen, BeginCleanup, EndCleanup, SkipSegment, OpenSegment, Unlink,
     UnlinkFails, LogDeletion, gateway, manifest, pending
<1>6. CASE UNCHANGED vars
  BY <1>1, <1>6 DEF vars, gateway, manifest, pending
<1> QED
  BY <1>2, <1>3, <1>4, <1>5, <1>6, GatewayGap, ReadGap DEF Next, Work
\* The rows in the segments, gone or not, and what RowLog says of them.
Written == {r \in Records : r[2] <= Size(r[1]) /\ HasRows(wal[r[1]][r[2]])}
Promise == INSTANCE RowLog WITH Rows <- Records, log <- Written, table <- Committed
ImplementsRowLog == Promise!Spec

\* A step that only touches the last record of one segment accepts a row.
LEMMA Tip ==
  ASSUME Inv, Inv', Committed' = Committed, NEW c \in Keys, NEW n \in 1..MaxRecords,
         \A k \in Keys \ {c} : wal'[k] = wal[k],
         Len(wal'[c]) = n, Size(c) \in {n - 1, n},
         \A i \in 1..(n - 1) : wal'[c][i] = wal[c][i],
         Size(c) = n => ~HasRows(wal[c][n])
  PROVE  [Promise!Accept]_<<Written, Committed>>
<1> DEFINE tip == <<c, n>>
<1>1. tip \in Records /\ tip \notin Written
  <2>1. n \in Nat /\ ~(n <= n - 1)
    BY MaterializerAssumption
  <2> QED
    BY <2>1 DEF Written
<1>2. \A r \in Records \ {tip} : r \in Written' <=> r \in Written
  <2> SUFFICES ASSUME NEW k \in Keys, NEW i \in 1..MaxRecords, <<k, i>> # tip
               PROVE  <<k, i>> \in Written' <=> <<k, i>> \in Written
    OBVIOUS
  <2>1. CASE k # c
    BY <2>1 DEF Written, HasRows
  <2>2. CASE k = c
    <3>1. i # n /\ i \in Nat /\ n \in Nat
      BY <2>2, MaterializerAssumption
    <3>2. i <= Len(wal'[k]) <=> i <= Size(k)
      BY <2>2, <3>1
    <3>3. i <= Size(k) => wal'[k][i] = wal[k][i]
      BY <2>2, <3>1
    <3> QED
      BY <3>2, <3>3 DEF Written, HasRows
  <2> QED
    BY <2>1, <2>2
<1>3. \A q \in Written : ~Promise!Before(tip, q)
  <2> SUFFICES ASSUME NEW k \in Keys, NEW i \in 1..MaxRecords, <<k, i>> \in Written, k = c
               PROVE  ~(n < i)
    BY DEF Written, Promise!Before
  <2>1. i <= Size(c) /\ n \in Nat /\ i \in Nat
    BY MaterializerAssumption DEF Written
  <2> QED
    BY <2>1
<1>4. Written \subseteq Records /\ Written' \subseteq Records
  BY DEF Written
<1> HIDE DEF tip, Records
<1>5. CASE tip \in Written'
  <2>1. Written' = Written \union {tip}
    BY <1>2, <1>4, <1>5
  <2> QED
    BY <1>1, <1>3, <2>1 DEF Promise!Accept
<1>6. CASE tip \notin Written'
  <2>1. \A r : r \in Written' <=> r \in Written
    BY <1>1, <1>2, <1>4, <1>6
  <2>2. Written' = Written
    BY <2>1
  <2> QED
    BY <2>2
<1> QED
  BY <1>5, <1>6

\* Whatever the gateway does, it writes behind what it has written.
LEMMA GatewayAccepts ==
  ASSUME Inv, Inv', Gateway
  PROVE  [Promise!Accept]_<<Written, Committed>>
<1> DEFINE s == wal[current]
<1>1. /\ current \in Keys /\ s \in Seq(Cells) /\ Len(s) \in Nat
      /\ wal \in [Keys -> Seq(Cells)]
  BY Numbers DEF Inv, TypeOK, Cells
<1>2. Committed' = Committed
  BY GatewayAdds DEF Adds, manifest, Committed
<1>3. ASSUME NEW kind \in Cells, wal' = [wal EXCEPT ![current] = Append(s, kind)],
             Len(s) < MaxRecords
      PROVE  [Promise!Accept]_<<Written, Committed>>
  <2> DEFINE n == Len(s) + 1
  <2>1. n \in 1..MaxRecords /\ Len(wal'[current]) = n /\ Size(current) = n - 1
    BY <1>1, <1>3, MaterializerAssumption
  <2>2. \A i \in 1..(n - 1) : wal'[current][i] = wal[current][i]
    BY <1>1, <1>3
  <2>3. \A k \in Keys \ {current} : wal'[k] = wal[k]
    BY <1>1, <1>3
  <2>4. n - 1 # n
    BY <1>1
  <2> HIDE DEF n
  <2> QED
    BY <1>1, <1>2, <2>1, <2>2, <2>3, <2>4, Tip
<1>4. ASSUME NEW kind \in Kinds, GatewayFinish(kind)
      PROVE  [Promise!Accept]_<<Written, Committed>>
  <2> DEFINE n == Len(s)
  <2>1. /\ wal' = [wal EXCEPT ![current] = [s EXCEPT ![n] = kind]]
        /\ n > 0 /\ s[n] = "torn" /\ n <= MaxRecords
    BY <1>1, <1>4 DEF GatewayFinish, Inv, WriterInv, TypeOK
  <2>2. n \in 1..MaxRecords /\ Len(wal'[current]) = n /\ Size(current) = n
    BY <1>1, <2>1, MaterializerAssumption
  <2>3. \A i \in 1..(n - 1) : wal'[current][i] = wal[current][i]
    BY <1>1, <2>1
  <2>4. \A k \in Keys \ {current} : wal'[k] = wal[k]
    BY <1>1, <2>1
  <2>5. ~HasRows(wal[current][n])
    BY <2>1 DEF HasRows
  <2> HIDE DEF n
  <2> QED
    BY <1>1, <1>2, <2>2, <2>3, <2>4, <2>5, Tip
<1>5. ASSUME NEW kind \in Kinds, GatewayAppend(kind)
      PROVE  [Promise!Accept]_<<Written, Committed>>
  <2>1. kind \in Cells
    BY MaterializerAssumption DEF Cells
  <2> QED
    BY <1>3, <1>5, <2>1 DEF GatewayAppend
<1>6. ASSUME wal' = wal PROVE [Promise!Accept]_<<Written, Committed>>
  <2>1. Written' = Written
    BY <1>6 DEF Written, HasRows
  <2> QED
    BY <1>2, <2>1
<1>7. CASE GatewayBegin \/ GatewayGivesUp
  <2>1. "torn" \in Cells
    BY DEF Cells
  <2> QED
    BY <1>3, <1>6, <1>7, <2>1 DEF GatewayBegin, GatewayGivesUp
<1>8. ASSUME NEW k \in Keys, GatewayRotate(k)
      PROVE  [Promise!Accept]_<<Written, Committed>>
  BY <1>6, <1>8 DEF GatewayRotate
<1> QED
  BY <1>4, <1>5, <1>7, <1>8 DEF Gateway

\* A flush brings the table what comes next in each segment.
LEMMA FlushCommitsNext ==
  ASSUME Inv, GapInv, Flush, Committed \subseteq Written,
         \A q \in Written, r \in Committed : Promise!Before(q, r) => q \in Committed
  PROVE  Promise!Commit
<1>1. Committed' = Committed \union batch /\ Written' = Written
  BY FlushCommits DEF Flush, gateway, Written, HasRows
<1>2. \A r \in batch : /\ r[1] \in Keys /\ r[2] \in 1..MaxRecords /\ r = <<r[1], r[2]>>
                       /\ r[2] <= boff[r[1]] /\ r[2] <= Size(r[1])
  <2> SUFFICES ASSUME NEW r \in batch
               PROVE  /\ r[1] \in Keys /\ r[2] \in 1..MaxRecords /\ r = <<r[1], r[2]>>
                      /\ r[2] <= boff[r[1]] /\ r[2] <= Size(r[1])
    OBVIOUS
  <2>1. r[1] \in Keys /\ r[2] \in 1..MaxRecords /\ r = <<r[1], r[2]>>
    BY DEF Inv, TypeOK
  <2>2. r[2] <= boff[r[1]]
    BY <2>1 DEF Inv, BatchInv
  <2>3. r[2] \in Nat /\ boff[r[1]] \in Nat /\ Size(r[1]) \in Nat /\ boff[r[1]] <= Size(r[1])
    BY <2>1, Numbers
  <2> QED
    BY <2>1, <2>2, <2>3
<1>3. batch \subseteq Written
  BY <1>2 DEF GapInv, RowInv, Written
<1>4. ASSUME NEW q \in Written, NEW r \in batch, Promise!Before(q, r)
      PROVE  q \in Committed \union batch
  <2>1. q[1] \in Keys /\ q[2] \in 1..MaxRecords /\ q = <<q[1], q[2]>> /\ HasRows(wal[q[1]][q[2]])
    BY DEF Written
  <2>2. q[1] = r[1] /\ q[2] < r[2]
    BY <1>4 DEF Promise!Before
  <2>3. q[2] \in 1..boff[q[1]]
    <3>1. r[2] <= boff[q[1]] /\ r[2] \in Nat /\ boff[q[1]] \in Nat
      BY <1>2, <2>1, <2>2, Numbers
    <3> QED
      BY <2>1, <2>2, <3>1
  <2> QED
    BY <2>1, <2>3 DEF GapInv, RowInv
<1> QED
  BY <1>1, <1>3, <1>4 DEF Promise!Commit

\* What the table holds was written, and has everything written before it.
InOrder ==
    /\ Committed \subseteq Written
    /\ \A q \in Written, r \in Committed : Promise!Before(q, r) => q \in Committed

\* Every step is a step of RowLog or cannot be seen there.
LEMMA NextPromised ==
  ASSUME Inv, Inv', GapInv, InOrder, [Next]_vars
  PROVE  [Promise!Next]_<<Written, Committed>> /\ InOrder'
<1>1. CASE Gateway
  <2>1. [Promise!Accept]_<<Written, Committed>>
    BY <1>1, GatewayAccepts
  <2>2. InOrder'
    BY <2>1 DEF InOrder, Promise!Accept, Promise!Before
  <2> QED
    BY <2>1, <2>2 DEF Promise!Next
<1>2. CASE Flush
  <2>1. Promise!Commit
    BY <1>2, FlushCommitsNext DEF InOrder
  <2>2. InOrder'
    BY <2>1 DEF InOrder, Promise!Commit, Promise!Before
  <2> QED
    BY <2>1, <2>2 DEF Promise!Next
<1>3. CASE ~Gateway /\ ~Flush
  <2>1. UNCHANGED <<wal, files>>
    BY <1>3 DEF Next, Work, BeginMaterialize, BeginCleanup, Abort, SkipSegment,
       OpenSegment, Unlink, UnlinkFails, LogDeletion, ReadRecord, FindCorruption,
       EndOfFile, CheckSealed, Seal, Quarantine, FinalFlush, EndMaterialize,
       EndCleanup, gateway, manifest, vars
  <2>2. Written' = Written /\ Committed' = Committed
    BY <2>1 DEF Written, Committed, HasRows
  <2> QED
    BY <2>2 DEF InOrder, Promise!Before
<1> QED
  BY <1>1, <1>2, <1>3

\* So what is committed was written, at every moment.
LEMMA Ordered == "clock" \notin Faults => (Spec => [](Inv /\ GapInv /\ InOrder))
<1> SUFFICES ASSUME "clock" \notin Faults PROVE Spec => [](Inv /\ GapInv /\ InOrder)
  OBVIOUS
<1>1. Init => GapInv /\ InOrder
  <2> SUFFICES ASSUME Init PROVE GapInv /\ InOrder
    OBVIOUS
  <2>1. Committed = {} /\ Written = {} /\ batch = {}
    BY DEF Init, Committed, Written
  <2>2. GapInv
    BY <2>1 DEF Init, GapInv, MarkInv, RowInv
  <2> QED
    BY <2>1, <2>2 DEF InOrder
<1>2. Inv /\ OrderInv /\ GapInv /\ [Next]_vars => GapInv'
  BY NextGap
<1>3. Inv /\ Inv' /\ GapInv /\ InOrder /\ [Next]_vars => InOrder'
  BY NextPromised
<1> QED
  BY <1>1, <1>2, <1>3, Order, PTL DEF Spec

\* Materialization implements RowLog: whatever call aborts wherever, and
\* whatever is quarantined or deleted meanwhile, only what the gateway wrote
\* is ever committed, and each segment's rows in order and without a gap
\* (materializer.py:363-423, 490-510).
THEOREM Implementation == "clock" \notin Faults => (Spec => ImplementsRowLog)
<1> SUFFICES ASSUME "clock" \notin Faults PROVE Spec => ImplementsRowLog
  OBVIOUS
<1>1. Init => Promise!Init
  BY DEF Init, Committed, Written, Promise!Init
<1>2. Inv /\ Inv' /\ GapInv /\ InOrder /\ [Next]_vars => [Promise!Next]_<<Written, Committed>>
  BY NextPromised
<1> QED
  BY <1>1, <1>2, Ordered, PTL DEF Spec, ImplementsRowLog, Promise!Spec
=============================================================================
