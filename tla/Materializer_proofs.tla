------------------------ MODULE Materializer_proofs ------------------------
(***************************************************************************)
(* Proofs about Materializer for any bounds, batch size, record kinds and  *)
(* faults: type correctness, no record's rows twice, and no high-water     *)
(* mark ahead of the rows.                                                 *)
(*                                                                         *)
(* Neither is inductive.  Rows are written once because committed rows lie *)
(* below the high-water mark (CommittedBelow), a visit starts at the mark  *)
(* and stays at or beyond it (ReaderInv), and a segment not visited yet    *)
(* has nothing in the batch (QuietInv).  The mark does not overtake the    *)
(* rows because the batch offsets do not overtake the rows committed or    *)
(* batched (BatchInv) and because what lies below them is complete, so the *)
(* gateway never changes it (BelowInv).                                    *)
(***************************************************************************)
EXTENDS Materializer, TLAPS

\* Between OpenSegment and the end of the visit's records.
Reading == pc \in {"read", "eof"} \/ (pc = "flush" /\ resume # "visit")

WriterInv ==
    writing => Size(current) > 0 /\ wal[current][Size(current)] = "torn"

CommittedBelow ==
    \A k \in Keys, i \in 1..MaxRecords :
      <<k, i>> \in Committed => i <= Offset(k)

\* Only a call of materialize() has a batch, and only of segments it visited.
QuietInv ==
    /\ pc \in {"idle", "unlink", "log"} => batch = {} /\ \A k \in Keys : boff[k] = 0
    /\ pc \notin {"unlink", "log"} => \A k \in todo : boff[k] = 0

ReaderInv ==
    Reading =>
      /\ pos <= Size(cur) /\ cur \notin todo
      /\ Offset(cur) <= pos
      /\ boff[cur] = pos \/ (boff[cur] = 0 /\ Offset(cur) = pos)

BatchInv ==
    /\ \A k \in Keys, i \in 1..MaxRecords : <<k, i>> \in batch => i <= boff[k]
    /\ \A k \in Keys \ full : \A i \in 1..boff[k] :
         HasRows(wal[k][i]) => <<k, i>> \in Committed \union batch

\* Offsets lie within the segments, and below them there is nothing torn.
BelowInv ==
    /\ \A k \in Keys : Offset(k) <= Size(k) /\ boff[k] <= Size(k)
    /\ \A k \in Keys \ full : \A i \in 1..Size(k) :
         i <= Offset(k) \/ i <= boff[k] => Readable(wal[k][i])

Inv == /\ TypeOK /\ WriterInv /\ CommittedBelow /\ QuietInv /\ ReaderInv
       /\ BatchInv /\ BelowInv /\ RowsOnce /\ OffsetsCommitted

\* What the data invariants speak of.
Parts == <<wal, current, writing, maxOffset, full, files, batch, boff>>

USE DEF Keys, None, Size, Offset, Records

-----------------------------------------------------------------------------
\* The initial states satisfy the invariant.
LEMMA InitInv == Init => Inv
<1> SUFFICES ASSUME Init PROVE Inv
  OBVIOUS
<1> USE MaterializerAssumption DEF Init
<1>1. Committed = {}
  BY DEF Committed
<1>2. TypeOK
  <2>1. /\ wal \in [Keys -> Seq(RecordKinds \union {"torn"})]
        /\ \A k \in Keys : Size(k) = 0
        /\ files \in Seq(SUBSET Records)
    OBVIOUS
  <2>2. current \in Keys /\ present \subseteq Keys
    OBVIOUS
  <2>3. /\ maxOffset \in [Keys -> 0..MaxRecords \union {None}]
        /\ corruptAt \in [Keys -> 0..MaxRecords \union {None}]
        /\ lifecycle \in [Keys -> {"none", "QUARANTINED", "DELETED"}]
        /\ boff \in [Keys -> 0..MaxRecords]
    OBVIOUS
  <2>4. \A k \in Keys : Size(k) <= MaxRecords
    BY <2>1
  <2>5. batch \subseteq Records /\ start \in 0..MaxRecords /\ pos \in 0..MaxRecords
    OBVIOUS
  <2>6. /\ full \subseteq Keys /\ todo \subseteq Keys
        /\ active \in Keys /\ cur \in Keys /\ writing \in BOOLEAN
        /\ pc \in Locations /\ resume \in {"idle", "visit", "read", "quarantine"}
    BY <2>2 DEF Locations
  <2> HIDE DEF Init, Size, Keys, Records
  <2> QED
    BY <2>1, <2>2, <2>3, <2>4, <2>5, <2>6 DEF TypeOK
<1>3. WriterInv /\ CommittedBelow /\ QuietInv
  BY <1>1 DEF WriterInv, CommittedBelow, QuietInv
<1>4. ReaderInv /\ BatchInv
  BY <1>1 DEF ReaderInv, Reading, BatchInv
<1>5. BelowInv
  BY DEF BelowInv
<1>6. RowsOnce /\ OffsetsCommitted
  BY <1>1 DEF RowsOnce, OffsetsCommitted
<1> QED
  BY <1>2, <1>3, <1>4, <1>5, <1>6 DEF Inv

\* Sizes and marks are numbers within the bound.
LEMMA SizeType ==
  TypeOK => \A k \in Keys : /\ Size(k) \in 0..MaxRecords
                            /\ Offset(k) \in 0..MaxRecords
                            /\ boff[k] \in 0..MaxRecords
  BY MaterializerAssumption DEF TypeOK

\* A step that leaves the segments, marks, files and batch alone preserves
\* what is said of them.
LEMMA SameParts ==
  ASSUME Inv, UNCHANGED Parts
  PROVE  /\ WriterInv' /\ CommittedBelow' /\ BatchInv' /\ BelowInv'
         /\ RowsOnce' /\ OffsetsCommitted'
<1>1. Committed' = Committed
  BY DEF Parts, Committed
<1> QED
  BY <1>1 DEF Inv, Parts, WriterInv, CommittedBelow, BatchInv, BelowInv, RowsOnce,
     OffsetsCommitted, Readable, HasRows

\* What a step of the gateway may change: it adds to segments, and a complete
\* record stays as it is.
Adds ==
    /\ UNCHANGED <<manifest, pc, todo, scan, pending, resume>>
    /\ \A k \in Keys : Size(k) <= Size(k)'
    /\ \A k \in Keys : \A i \in 1..Size(k) :
         Readable(wal[k][i]) => wal'[k][i] = wal[k][i]

Cells == RecordKinds \union {"torn"}

\* The gateway's segment is replaced by w, which extends it.
Extends(w) ==
    /\ w \in Seq(Cells) /\ Len(w) <= MaxRecords
    /\ Size(current) <= Len(w)
    /\ \A i \in 1..Size(current) :
         Readable(wal[current][i]) => w[i] = wal[current][i]
    /\ wal' = [wal EXCEPT ![current] = w]
    /\ UNCHANGED <<current, present, manifest, pc, todo, scan, pending, resume>>
    /\ writing' \in BOOLEAN
    /\ writing' => Len(w) > 0 /\ w[Len(w)] = "torn"

\* Such a step keeps types, writer and what is complete.
LEMMA Extend ==
  ASSUME Inv, NEW w, Extends(w)
  PROVE  TypeOK' /\ WriterInv' /\ Adds
<1> USE DEF Inv, TypeOK, Cells, Extends, manifest, scan, pending
<1>1. /\ wal'[current] = w
      /\ \A k \in Keys \ {current} : wal'[k] = wal[k]
      /\ wal' \in [Keys -> Seq(Cells)]
  OBVIOUS
<1>2. \A k \in Keys : Size(k) \in 0..MaxRecords
  BY SizeType
<1>3. TypeOK'
  BY <1>1
<1>4. WriterInv'
  BY <1>1 DEF WriterInv
<1>5. Adds
  <2>1. ASSUME NEW k \in Keys
        PROVE  /\ Size(k) <= Size(k)'
               /\ \A i \in 1..Size(k) : Readable(wal[k][i]) => wal'[k][i] = wal[k][i]
    <3>1. CASE k = current
      BY <1>1, <3>1
    <3>2. CASE k # current
      BY <1>1, <1>2, <3>2
    <3> QED
      BY <3>1, <3>2
  <2> QED
    BY <2>1 DEF Adds
<1> QED
  BY <1>3, <1>4, <1>5

\* Every gateway step is of that kind, or opens a new segment.
LEMMA GatewayAdds ==
  ASSUME Inv, Gateway
  PROVE  TypeOK' /\ WriterInv' /\ Adds
<1> DEFINE s == wal[current]
<1>1. s \in Seq(Cells) /\ Len(s) \in 0..MaxRecords /\ writing \in BOOLEAN
  BY SizeType DEF Inv, TypeOK, Cells
<1>2. ASSUME NEW c \in Cells, Len(s) < MaxRecords,
             wal' = [wal EXCEPT ![current] = Append(s, c)],
             UNCHANGED <<current, present, manifest, pc, todo, scan, pending, resume>>,
             writing' \in BOOLEAN, writing' => c = "torn"
      PROVE  TypeOK' /\ WriterInv' /\ Adds
  <2>1. /\ Append(s, c) \in Seq(Cells) /\ Len(Append(s, c)) = Len(s) + 1
        /\ Append(s, c)[Len(s) + 1] = c
        /\ \A i \in 1..Len(s) : Append(s, c)[i] = s[i]
    BY <1>1
  <2>2. Extends(Append(s, c))
    <3>1. Len(Append(s, c)) <= MaxRecords /\ Len(s) <= Len(Append(s, c))
          /\ Len(Append(s, c)) > 0 /\ Append(s, c)[Len(Append(s, c))] = c
      BY <1>1, <1>2, <2>1, MaterializerAssumption
    <3>2. writing' => Append(s, c)[Len(Append(s, c))] = "torn"
      BY <1>2, <3>1, Zenon
    <3> QED
      BY <1>2, <2>1, <3>1, <3>2, Zenon DEF Extends
  <2> QED
    BY <2>2, Extend
<1>3. ASSUME NEW kind \in Kinds, GatewayAppend(kind)
      PROVE  TypeOK' /\ WriterInv' /\ Adds
  <2>1. kind \in Cells /\ (writing' => kind = "torn") /\ writing' \in BOOLEAN
    BY <1>1, <1>3, MaterializerAssumption DEF GatewayAppend, Cells
  <2> QED
    BY <1>2, <1>3, <2>1 DEF GatewayAppend
<1>4. ASSUME NEW kind \in Kinds, GatewayFinish(kind)
      PROVE  TypeOK' /\ WriterInv' /\ Adds
  <2> DEFINE w == [s EXCEPT ![Len(s)] = kind]
  <2>1. kind \in Cells /\ Len(s) > 0 /\ s[Len(s)] = "torn"
    BY <1>4, MaterializerAssumption DEF GatewayFinish, Inv, WriterInv, Cells
  <2>2. /\ w \in Seq(Cells) /\ Len(w) = Len(s)
        /\ \A i \in 1..Len(s) : Readable(s[i]) => w[i] = s[i]
    BY <1>1, <2>1 DEF Readable
  <2>3. wal' = [wal EXCEPT ![current] = w] /\ ~writing' /\ writing' \in BOOLEAN
    BY <1>4 DEF GatewayFinish
  <2>4. Extends(w)
    <3> HIDE DEF w
    <3>1. Len(w) <= MaxRecords /\ Len(s) <= Len(w)
      BY <1>1, <2>2, MaterializerAssumption
    <3>2. UNCHANGED <<current, present, manifest, pc, todo, scan, pending, resume>>
      BY <1>4 DEF GatewayFinish
    <3> QED
      BY <2>2, <2>3, <3>1, <3>2, Zenon DEF Extends
  <2> QED
    BY <2>4, Extend
<1>5. ASSUME GatewayBegin PROVE TypeOK' /\ WriterInv' /\ Adds
  <2>1. "torn" \in Cells /\ writing' \in BOOLEAN
    BY <1>5 DEF GatewayBegin, Cells
  <2> QED
    BY <1>2, <1>5, <2>1 DEF GatewayBegin
<1>6. ASSUME GatewayGivesUp PROVE TypeOK' /\ WriterInv' /\ Adds
  <2>1. "torn" \in Cells /\ ~writing' /\ writing' \in BOOLEAN
    BY <1>1, <1>6 DEF GatewayGivesUp, Cells
  <2>2. CASE wal' = wal
    <3>1. UNCHANGED <<wal, current, present, manifest, pc, todo, scan, pending, resume>>
      BY <1>6, <2>2 DEF GatewayGivesUp
    <3>2. TypeOK' /\ WriterInv'
      BY <2>1, <3>1 DEF Inv, TypeOK, WriterInv, manifest, scan, pending
    <3>3. Adds
      BY <3>1, SizeType DEF Inv, Adds
    <3> QED
      BY <3>2, <3>3
  <2>3. CASE wal' # wal
    BY <1>2, <1>6, <2>1, <2>3 DEF GatewayGivesUp
  <2> QED
    BY <2>2, <2>3
<1>7. ASSUME NEW k \in Keys, GatewayRotate(k) PROVE TypeOK' /\ WriterInv' /\ Adds
  <2>1. TypeOK'
    BY <1>7 DEF GatewayRotate, Inv, TypeOK, manifest, scan, pending
  <2>2. WriterInv' /\ Adds
    BY <1>7, SizeType DEF GatewayRotate, Inv, WriterInv, Adds
  <2> QED
    BY <2>1, <2>2
<1> QED
  BY <1>3, <1>4, <1>5, <1>6, <1>7 DEF Gateway

\* The gateway's steps preserve the invariant: marks and batch only speak of
\* complete records.
LEMMA GatewayInv ==
  ASSUME Inv, Gateway
  PROVE  Inv'
<1>1. TypeOK' /\ WriterInv' /\ Adds
  BY GatewayAdds
<1>2. Committed' = Committed
  BY <1>1 DEF Adds, manifest, Committed
<1>3. /\ \A k \in Keys : Size(k) \in 0..MaxRecords /\ Size(k)' \in 0..MaxRecords
      /\ \A k \in Keys : Offset(k) \in 0..MaxRecords /\ boff[k] \in 0..MaxRecords
      /\ cur \in Keys /\ pos \in 0..MaxRecords
  <2>1. SizeType /\ SizeType'
    BY SizeType, PTL
  <2>2. \A k \in Keys : Size(k) \in 0..MaxRecords /\ Size(k)' \in 0..MaxRecords
    BY <1>1, <2>1 DEF Inv
  <2> QED
    BY <2>2, MaterializerAssumption DEF Inv, TypeOK
<1>4. UNCHANGED <<maxOffset, full, files, pc, todo, cur, pos, batch, boff, resume>>
  BY <1>1 DEF Adds, manifest, scan, pending
<1>5. CommittedBelow' /\ QuietInv' /\ RowsOnce'
  BY <1>2, <1>4 DEF Inv, CommittedBelow, QuietInv, RowsOnce
<1>6. ReaderInv'
  BY <1>1, <1>3, <1>4 DEF Inv, Adds, ReaderInv, Reading
<1>7. \A k \in Keys \ full : \A i \in 1..Size(k) :
        i <= Offset(k) \/ i <= boff[k] => Readable(wal[k][i]) /\ wal'[k][i] = wal[k][i]
  BY <1>1 DEF Inv, Adds, BelowInv
<1>8. \A k \in Keys : /\ Offset(k) <= Size(k) /\ Size(k) <= Size(k)'
                      /\ boff[k] <= Size(k)
  BY <1>1 DEF Inv, Adds, BelowInv
<1>9. BelowInv'
  <2>1. \A k \in Keys : Offset(k)' <= Size(k)' /\ boff'[k] <= Size(k)'
    BY <1>3, <1>4, <1>8
  <2>2. ASSUME NEW k \in Keys \ full, NEW i \in 1..Size(k)',
               i <= Offset(k) \/ i <= boff[k]
        PROVE  Readable(wal'[k][i])
    <3>1. i \in 1..Size(k)
      BY <1>3, <1>8, <2>2
    <3> QED
      BY <1>7, <2>2, <3>1
  <2> QED
    BY <1>4, <2>1, <2>2 DEF BelowInv, Readable
<1>10. BatchInv'
  BY <1>2, <1>3, <1>4, <1>7, <1>8 DEF Inv, BatchInv
<1>11. OffsetsCommitted'
  BY <1>2, <1>3, <1>4, <1>7, <1>8 DEF Inv, OffsetsCommitted
<1> QED
  BY <1>1, <1>5, <1>6, <1>9, <1>10, <1>11 DEF Inv

\* The steps of a call that change neither the marks nor the batch.
LEMMA WalkInv ==
  ASSUME Inv,
         \/ BeginMaterialize \/ FindCorruption \/ EndOfFile \/ CheckSealed
         \/ Quarantine \/ FinalFlush \/ BeginCleanup \/ EndCleanup
         \/ \E k \in Keys : \/ SkipSegment(k) \/ OpenSegment(k) \/ Unlink(k)
                            \/ UnlinkFails(k) \/ LogDeletion(k)
  PROVE  Inv'
<1> USE MaterializerAssumption
    DEF Inv, TypeOK, QuietInv, ReaderInv, Reading, gateway, manifest, scan, pending,
        Parts, Locations
<1>1. ASSUME BeginMaterialize
      PROVE  UNCHANGED Parts /\ TypeOK' /\ QuietInv' /\ ReaderInv'
  BY <1>1 DEF BeginMaterialize, Last
<1>2. ASSUME NEW k \in Keys, SkipSegment(k)
      PROVE  UNCHANGED Parts /\ TypeOK' /\ QuietInv' /\ ReaderInv'
  BY <1>2 DEF SkipSegment
<1>3. ASSUME NEW k \in Keys, OpenSegment(k)
      PROVE  UNCHANGED Parts /\ TypeOK' /\ QuietInv' /\ ReaderInv'
  <2>1. /\ Offset(k) \in 0..MaxRecords /\ Offset(k) <= Size(k)
        /\ k \in todo /\ boff[k] = 0
    BY <1>3 DEF OpenSegment, First, BelowInv
  <2>2. UNCHANGED Parts /\ TypeOK'
    BY <1>3, <2>1 DEF OpenSegment
  <2>3. QuietInv'
    BY <1>3 DEF OpenSegment
  <2>4. ReaderInv'
    BY <1>3, <2>1 DEF OpenSegment
  <2> QED
    BY <2>2, <2>3, <2>4
<1>4. ASSUME FindCorruption
      PROVE  UNCHANGED Parts /\ TypeOK' /\ QuietInv' /\ ReaderInv'
  BY <1>4 DEF FindCorruption, FlushThen
<1>5. ASSUME EndOfFile
      PROVE  UNCHANGED Parts /\ TypeOK' /\ QuietInv' /\ ReaderInv'
  BY <1>5 DEF EndOfFile
<1>6. ASSUME CheckSealed
      PROVE  UNCHANGED Parts /\ TypeOK' /\ QuietInv' /\ ReaderInv'
  BY <1>6 DEF CheckSealed
<1>7. ASSUME Quarantine
      PROVE  UNCHANGED Parts /\ TypeOK' /\ QuietInv' /\ ReaderInv'
  BY <1>7 DEF Quarantine
<1>8. ASSUME FinalFlush
      PROVE  UNCHANGED Parts /\ TypeOK' /\ QuietInv' /\ ReaderInv'
  BY <1>8 DEF FinalFlush, FlushThen
<1>9. ASSUME BeginCleanup
      PROVE  UNCHANGED Parts /\ TypeOK' /\ QuietInv' /\ ReaderInv'
  BY <1>9 DEF BeginCleanup
<1>10. ASSUME NEW k \in Keys, Unlink(k)
      PROVE  UNCHANGED Parts /\ TypeOK' /\ QuietInv' /\ ReaderInv'
  BY <1>10 DEF Unlink
<1>11. ASSUME NEW k \in Keys, UnlinkFails(k)
      PROVE  UNCHANGED Parts /\ TypeOK' /\ QuietInv' /\ ReaderInv'
  BY <1>11 DEF UnlinkFails
<1>12. ASSUME NEW k \in Keys, LogDeletion(k)
      PROVE  UNCHANGED Parts /\ TypeOK' /\ QuietInv' /\ ReaderInv'
  BY <1>12 DEF LogDeletion
<1>13. ASSUME EndCleanup
      PROVE  UNCHANGED Parts /\ TypeOK' /\ QuietInv' /\ ReaderInv'
  BY <1>13 DEF EndCleanup
<1> QED
  BY <1>1, <1>2, <1>3, <1>4, <1>5, <1>6, <1>7, <1>8, <1>9, <1>10, <1>11, <1>12,
     <1>13, SameParts

\* A record read lies beyond the mark, so its rows are new.
LEMMA ReadRecordInv ==
  ASSUME Inv, ReadRecord
  PROVE  Inv'
<1> USE MaterializerAssumption DEF Inv, ReadRecord, TypeOK, gateway, manifest
<1>1. /\ Reading /\ Reading'
      /\ pos + 1 \in 1..Size(cur) /\ pos + 1 \in 1..MaxRecords
      /\ Readable(wal[cur][pos + 1])
      /\ boff' = [boff EXCEPT ![cur] = pos + 1]
      /\ pc' \in {"read", "flush"}
  BY DEF Reading, FlushThen
<1>2. /\ Committed' = Committed
      /\ batch \subseteq batch' /\ batch' \subseteq batch \union {<<cur, pos + 1>>}
      /\ HasRows(wal[cur][pos + 1]) => <<cur, pos + 1>> \in batch'
  BY DEF Committed
<1>3. Offset(cur) <= pos /\ boff[cur] <= pos /\ cur \notin todo
  BY <1>1 DEF ReaderInv
<1>4. TypeOK'
  <2>1. <<cur, pos + 1>> \in Records /\ batch' \subseteq Records
    <3>1. cur \in Keys /\ batch \subseteq Records
      OBVIOUS
    <3> HIDE DEF TypeOK, ReadRecord
    <3>2. <<cur, pos + 1>> \in Records
      BY <1>1, <3>1
    <3> HIDE DEF Records
    <3> QED
      BY <1>2, <3>1, <3>2
  <2>2. boff' \in [Keys -> 0..MaxRecords] /\ pos' \in 0..MaxRecords
    BY <1>1
  <2> QED
    BY <1>1, <2>1, <2>2 DEF FlushThen, Locations
<1>12. /\ UNCHANGED <<wal, current, writing, maxOffset, full, files, todo, cur>>
       /\ pos' = pos + 1
  OBVIOUS
<1>13. cur \in Keys /\ pos \in Nat /\ todo \subseteq Keys
  OBVIOUS
<1>14. boff \in [Keys -> Nat] /\ boff' \in [Keys -> Nat]
  BY <1>4
<1> HIDE DEF ReadRecord, TypeOK, gateway, manifest
<1>15. \A k \in Keys : Offset(k) \in 0..MaxRecords /\ Size(k) \in 0..MaxRecords
  BY SizeType
<1> USE <1>12, <1>13, <1>14, <1>15
<1>5. WriterInv' /\ CommittedBelow'
  BY <1>2 DEF WriterInv, CommittedBelow
<1>6. QuietInv'
  BY <1>1, <1>3 DEF QuietInv
<1>7. ReaderInv'
  BY <1>1, <1>3 DEF ReaderInv
<1>8. BatchInv'
  <2>1. ASSUME NEW k \in Keys, NEW i \in 1..MaxRecords, <<k, i>> \in batch'
        PROVE  i <= boff'[k]
    <3>1. <<k, i>> \in batch \/ (k = cur /\ i = pos + 1)
      BY <1>2, <2>1
    <3> QED
      BY <1>1, <1>3, <3>1 DEF BatchInv
  <2>2. ASSUME NEW k \in Keys \ full, NEW i \in 1..boff'[k], HasRows(wal[k][i])
        PROVE  <<k, i>> \in Committed \union batch'
    <3>1. CASE k # cur
      BY <1>1, <1>2, <2>2, <3>1 DEF BatchInv
    <3>2. CASE k = cur /\ i = pos + 1
      BY <1>2, <2>2, <3>2
    <3>3. CASE k = cur /\ i <= pos
      <4>1. i <= boff[k] \/ i <= Offset(k)
        BY <1>1, <3>3 DEF ReaderInv
      <4>2. HasRows(wal[k][i]) => <<k, i>> \in Committed \union batch
        BY <4>1, <3>3 DEF BatchInv, OffsetsCommitted
      <4> QED
        BY <1>2, <2>2, <4>2
    <3> QED
      BY <1>1, <3>1, <3>2, <3>3
  <2> QED
    BY <1>2, <2>1, <2>2 DEF BatchInv, HasRows
<1>9. BelowInv'
  <2>1. ASSUME NEW k \in Keys
        PROVE  Offset(k) <= Size(k) /\ boff'[k] <= Size(k)
    <3>1. Offset(k) <= Size(k) /\ boff[k] <= Size(k)
      BY DEF BelowInv
    <3>2. boff'[k] = boff[k] \/ (k = cur /\ boff'[k] = pos + 1)
      BY <1>1
    <3> QED
      BY <1>1, <3>1, <3>2
  <2>2. ASSUME NEW k \in Keys \ full, NEW i \in 1..Size(k),
               i <= Offset(k) \/ i <= boff'[k]
        PROVE  Readable(wal[k][i])
    <3>1. CASE i <= Offset(k) \/ i <= boff[k]
      BY <3>1 DEF BelowInv
    <3>2. CASE k = cur /\ i <= pos
      <4>1. i <= boff[k] \/ i <= Offset(k)
        BY <1>1, <3>2 DEF ReaderInv
      <4> QED
        BY <4>1 DEF BelowInv
    <3>3. CASE k = cur /\ i = pos + 1
      BY <1>1, <3>3
    <3> QED
      BY <1>1, <2>2, <3>1, <3>2, <3>3
  <2> QED
    BY <2>1, <2>2 DEF BelowInv, Readable
<1>10. RowsOnce'
  <2>1. <<cur, pos + 1>> \notin Committed
    BY <1>1, <1>3 DEF CommittedBelow
  <2> QED
    BY <1>2, <2>1 DEF RowsOnce
<1>11. OffsetsCommitted'
  BY <1>2 DEF OffsetsCommitted, HasRows
<1> QED
  BY <1>4, <1>5, <1>6, <1>7, <1>8, <1>9, <1>10, <1>11

\* Marking a segment takes it out of what OffsetsCommitted is about.
LEMMA SealInv ==
  ASSUME Inv, Seal
  PROVE  Inv'
<1> USE MaterializerAssumption DEF Inv, Seal, TypeOK, gateway, scan, pending
<1>1. Committed' = Committed /\ ~Reading'
  BY DEF Committed, Reading
<1>2. /\ full' = full \union {cur}
      /\ \A k \in Keys : Offset(k) <= Offset(k)' /\ Offset(k)' <= Size(k)
      /\ \A k \in Keys \ {cur} : Offset(k)' = Offset(k)
  <2>1. /\ full' = full \union {cur} /\ cur' = cur
        /\ \A k \in Keys \ {cur} : Offset(k)' = Offset(k)
    OBVIOUS
  <2>2. Offset(cur)' = Offset(cur) \/ (Offset(cur) = 0 /\ Offset(cur)' = Size(cur))
    OBVIOUS
  <2>3. cur \in Keys /\ \A k \in Keys : Offset(k) <= Size(k)
    BY DEF BelowInv
  <2>4. \A k \in Keys : Offset(k) \in 0..MaxRecords /\ Size(k) \in 0..MaxRecords
    BY SizeType
  <2> HIDE DEF Seal, TypeOK
  <2> QED
    BY <2>1, <2>2, <2>3, <2>4
<1>3. TypeOK'
  BY SizeType DEF Locations
<1>4. WriterInv' /\ CommittedBelow' /\ QuietInv' /\ ReaderInv'
  BY <1>1, <1>2 DEF WriterInv, CommittedBelow, QuietInv, ReaderInv
<1>5. BatchInv'
  BY <1>1, <1>2 DEF BatchInv, HasRows
<1>6. BelowInv'
  BY <1>2 DEF BelowInv, Readable
<1>7. RowsOnce' /\ OffsetsCommitted'
  BY <1>1, <1>2 DEF RowsOnce, OffsetsCommitted, HasRows
<1> QED
  BY <1>3, <1>4, <1>5, <1>6, <1>7

\* The batch is dropped; marks and files are as after the last flush.
LEMMA ForgetInv ==
  ASSUME Inv, Forget, UNCHANGED <<gateway, present, manifest, scan, resume>>
  PROVE  Inv'
<1> USE MaterializerAssumption DEF Inv, Forget, TypeOK, gateway, manifest, scan
<1>1. Committed' = Committed /\ ~Reading'
  BY DEF Committed, Reading
<1>2. TypeOK'
  BY DEF Locations
<1>3. /\ UNCHANGED <<wal, current, writing, maxOffset, full, files, cur, pos>>
      /\ pc' = "idle" /\ batch' = {} /\ todo' = {}
      /\ \A k \in Keys : boff'[k] = 0
      /\ \A k \in Keys : Size(k) \in Nat
  BY SizeType
<1> HIDE DEF Forget, TypeOK, gateway, manifest, scan
<1>4. WriterInv' /\ CommittedBelow' /\ QuietInv' /\ ReaderInv'
  BY <1>1, <1>3 DEF WriterInv, CommittedBelow, QuietInv, ReaderInv
<1>5. BatchInv'
  BY <1>1, <1>3 DEF BatchInv
<1>6. BelowInv'
  BY <1>3 DEF BelowInv, Readable
<1>7. RowsOnce' /\ OffsetsCommitted'
  BY <1>1, <1>3 DEF RowsOnce, OffsetsCommitted, HasRows
<1> QED
  BY <1>2, <1>4, <1>5, <1>6, <1>7

\* A flush adds the batch to the files.
LEMMA FlushCommits ==
  ASSUME Inv, Flush
  PROVE  Committed' = Committed \union batch
<1> USE DEF Inv, Flush, TypeOK
<1>1. /\ DOMAIN files = 1..Len(files) /\ DOMAIN files' = 1..(Len(files) + 1)
      /\ \A n \in 1..Len(files) : files'[n] = files[n]
      /\ files'[Len(files) + 1] = batch
      /\ Len(files) \in Nat
  OBVIOUS
<1>2. Committed' = Committed \union batch
  <2>1. \A r : (\E n \in DOMAIN files' : r \in files'[n])
               <=> (\E n \in DOMAIN files : r \in files[n]) \/ r \in batch
    <3> HIDE DEF Inv, Flush, TypeOK
    <3> QED
      BY <1>1
  <2>2. \A r : r \in Committed <=> \E n \in DOMAIN files : r \in files[n]
    BY Zenon DEF Committed
  <2>3. \A r : r \in Committed' <=> \E n \in DOMAIN files' : r \in files'[n]
    BY Zenon DEF Committed
  <2>4. \A r : r \in Committed' <=> r \in Committed \union batch
    BY <2>1, <2>2, <2>3
  <2> QED
    BY <2>4
<1> QED
  BY <1>2

\* The batch's rows and their marks are committed together.
LEMMA FlushInv ==
  ASSUME Inv, Flush
  PROVE  Inv'
<1> USE MaterializerAssumption DEF Inv, Flush, TypeOK, gateway, scan
<1>1. /\ DOMAIN files = 1..Len(files) /\ DOMAIN files' = 1..(Len(files) + 1)
      /\ \A n \in 1..Len(files) : files'[n] = files[n]
      /\ files'[Len(files) + 1] = batch
      /\ Len(files) \in Nat
  OBVIOUS
<1>11. Committed' = Committed \union batch
  BY FlushCommits
<1>2. \A k \in Keys : /\ Offset(k) <= Offset(k)' /\ boff[k] <= Offset(k)'
                      /\ Offset(k)' \in {Offset(k), boff[k]}
                      /\ boff'[k] = 0
  OBVIOUS
<1>3. TypeOK'
  <2>1. files' \in Seq(SUBSET Records)
    OBVIOUS
  <2>2. maxOffset' \in [Keys -> 0..MaxRecords \union {None}]
        /\ boff' \in [Keys -> 0..MaxRecords]
    OBVIOUS
  <2> QED
    BY <2>1, <2>2 DEF Locations
<1>12. /\ UNCHANGED <<wal, current, writing, full, cur, pos, todo>>
       /\ pc = "flush" /\ pc' = resume /\ resume' = resume /\ batch' = {}
  OBVIOUS
<1>13. cur \in Keys /\ pos \in Nat /\ todo \subseteq Keys
  OBVIOUS
<1> HIDE DEF Flush, TypeOK, gateway, scan
<1>14. \A k \in Keys : /\ Size(k) \in 0..MaxRecords
                       /\ Offset(k) \in 0..MaxRecords
                       /\ boff[k] \in 0..MaxRecords
  BY SizeType
<1> USE <1>12, <1>13, <1>14
<1>4. WriterInv' /\ QuietInv'
  BY <1>2 DEF WriterInv, QuietInv
<1>5. CommittedBelow'
  <2>1. ASSUME NEW k \in Keys, NEW i \in 1..MaxRecords, <<k, i>> \in Committed'
        PROVE  i <= Offset(k)'
    <3>1. i <= Offset(k) \/ i <= boff[k]
      BY <1>11, <2>1 DEF CommittedBelow, BatchInv
    <3> HIDE DEF Offset
    <3> QED
      BY <1>2, <3>1
  <2> QED
    BY <2>1 DEF CommittedBelow
<1>6. ReaderInv'
  <2>1. ASSUME Reading' PROVE Reading
    BY <2>1 DEF Reading
  <2>2. ASSUME Reading PROVE Offset(cur)' = pos
    BY <1>2, <2>2 DEF ReaderInv
  <2> QED
    BY <1>2, <2>1, <2>2 DEF ReaderInv
<1>7. BatchInv'
  BY <1>2 DEF BatchInv
<1>8. BelowInv'
  <2>1. ASSUME NEW k \in Keys
        PROVE  Offset(k)' <= Size(k) /\ boff'[k] <= Size(k)
    BY <1>2 DEF BelowInv
  <2>2. ASSUME NEW k \in Keys \ full, NEW i \in 1..Size(k),
               i <= Offset(k)' \/ i <= boff'[k]
        PROVE  Readable(wal[k][i])
    <3>1. i <= Offset(k) \/ i <= boff[k]
      BY <1>2, <2>2
    <3> QED
      BY <3>1 DEF BelowInv
  <2> QED
    BY <2>1, <2>2 DEF BelowInv, Readable
<1>9. RowsOnce'
  <2>1. \A n \in DOMAIN files : files[n] \intersect batch = {}
    BY DEF RowsOnce, Committed
  <2>2. \A m, n \in 1..Len(files) : m # n => files'[m] \intersect files'[n] = {}
    BY <1>1 DEF RowsOnce
  <2>3. \A n \in 1..Len(files) : files'[n] \intersect batch = {}
    BY <1>1, <2>1
  <2>4. \A m, n \in DOMAIN files' : m # n => files'[m] \intersect files'[n] = {}
    BY <1>1, <2>2, <2>3
  <2> QED
    BY <2>4 DEF RowsOnce
<1>10. OffsetsCommitted'
  <2>1. ASSUME NEW k \in Keys \ full, NEW i \in 1..Offset(k)', HasRows(wal[k][i])
        PROVE  <<k, i>> \in Committed \union batch
    <3>1. i \in 1..Offset(k) \/ i \in 1..boff[k]
      BY <1>2, <2>1
    <3> QED
      BY <2>1, <3>1 DEF OffsetsCommitted, BatchInv
  <2> QED
    BY <1>11, <2>1 DEF OffsetsCommitted, HasRows
<1> QED
  BY <1>3, <1>4, <1>5, <1>6, <1>7, <1>8, <1>9, <1>10

\* Every step preserves the invariant.
LEMMA NextInv == Inv /\ [Next]_vars => Inv'
<1> SUFFICES ASSUME Inv, [Next]_vars PROVE Inv'
  OBVIOUS
<1>1. CASE EndMaterialize
  BY <1>1, ForgetInv DEF EndMaterialize
<1>2. CASE Abort
  BY <1>2, ForgetInv DEF Abort
<1>3. CASE UNCHANGED vars
  <2>1. UNCHANGED Parts /\ TypeOK' /\ QuietInv' /\ ReaderInv'
    BY <1>3 DEF vars, Parts, Inv, TypeOK, QuietInv, ReaderInv, Reading, gateway,
       manifest, scan, pending
  <2> QED
    BY <2>1, SameParts DEF Inv
<1> QED
  BY <1>1, <1>2, <1>3, GatewayInv, WalkInv, ReadRecordInv, SealInv, FlushInv
     DEF Next, Work

\* The strengthened invariant holds in every reachable state.
THEOREM Invariant == Spec => []Inv
  BY InitInv, NextInv, PTL DEF Spec

\* Type correctness: in particular no offset leaves its segment's bounds.
THEOREM TypeCorrect == Spec => []TypeOK
<1>1. Inv => TypeOK
  BY DEF Inv
<1> QED
  BY <1>1, Invariant, PTL

\* Materialization is idempotent: whatever run aborts wherever, no record's
\* rows are committed twice (materializer.py:9, 363-423).
THEOREM CommittedOnce == Spec => []RowsOnce
<1>1. Inv => RowsOnce
  BY DEF Inv
<1> QED
  BY <1>1, Invariant, PTL

\* Resuming at a high-water mark skips no record of a segment that is not
\* marked fully processed (materializer.py:407-417, 490).
THEOREM MarksAreSafe == Spec => []OffsetsCommitted
<1>1. Inv => OffsetsCommitted
  BY DEF Inv
<1> QED
  BY <1>1, Invariant, PTL
=============================================================================
