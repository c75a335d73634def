-------------------------- MODULE Pipeline_proofs ---------------------------
(***************************************************************************)
(* Proofs about Pipeline for any threads, bodies, limits and bounds: the   *)
(* WAL writer does to the segments what Materializer expects of a gateway, *)
(* so that what is proved of either holds of both together.                *)
(*                                                                         *)
(* The thread that writes is alone and writes the newest segment, so the   *)
(* record being written is the last one of the segment that a call takes   *)
(* for the active one (Writer); rotation and restart make a name that no   *)
(* call has heard of (KnownInv).                                           *)
(***************************************************************************)
EXTENDS Pipeline, WalWriter_proofs

\* What Materializer allows for: no power failure, which makes a file shorter,
\* and a clock that never steps back; a reader may see half a record, and a
\* writer may leave one.
Environment ==
    /\ KindOf \in [Payloads -> Kinds]
    /\ {"power", "clock"} \cap Faults = {}
    /\ {"partial", "write"} \subseteq CallFaults
    /\ MaxRecords \in Nat

\* There is a newest segment.
TopInv == \E k \in created : \A j \in created : j <= k

\* A call only knows of segments that the gateway has made.
KnownInv == present \union full \union todo \union {cur} \subseteq created

PipelineInv == Inv /\ NewestInv /\ TopInv /\ KnownInv

-----------------------------------------------------------------------------
\* The newest segment is the one that is not before any other.
LEMMA NewestIs ==
  ASSUME created \subseteq Keys, NEW k \in created, \A j \in created : j <= k
  PROVE  Newest = k
<1>1. Newest \in created /\ \A j \in created : j <= Newest
  BY DEF Newest
<1>2. Newest \in Keys /\ k \in Keys
  BY <1>1
<1>3. Newest <= k /\ k <= Newest
  BY <1>1
<1> QED
  BY <1>2, <1>3, WalAssumption DEF Keys

\* Names are made in order.
LEMMA NextTop ==
  ASSUME "clock" \notin Faults, Inv, TopInv, [Next]_vars
  PROVE  TopInv'
<1>1. ASSUME NEW k \in Keys, FreshKey(k), created' = created \union {k} PROVE TopInv'
  <2>1. k \in created' /\ k <= k /\ \A j \in created : j \in Keys /\ j < k
    BY <1>1 DEF FreshKey, Keys, Inv, TypeOK
  <2>2. \A j \in created' : j <= k
    BY <1>1, <2>1 DEF Keys
  <2> QED
    BY <2>1, <2>2 DEF TopInv
<1>2. CASE created' = created
  BY <1>2 DEF TopInv
<1>3. ASSUME NEW t \in Threads, NEW k \in Keys, OpenSegment(t, k) PROVE TopInv'
  BY <1>1, <1>3 DEF OpenSegment
<1>4. CASE Restart
  BY <1>1, <1>4 DEF Restart
<1> QED
  BY <1>2, <1>3, <1>4 DEF Next, Handle, AppendStep, Request, LockMutex, OpenFails, WriteHeader,
     WritePayload, WriteFails, Fsync, FsyncFails, Confirm, Refuse, Crash, PowerLoss, Stop,
     disk, vars

-----------------------------------------------------------------------------
\* What is seen of a segment has its length.
LEMMA SeenSize ==
  ASSUME Inv, NEW k \in Keys
  PROVE  Len(Seen[k]) = Len(wal[k]) /\ Len(wal[k]) \in Nat
<1>1. Len(wal[k]) \in Nat
  BY LenProperties DEF Inv, TypeOK
<1>2. Len(View(wal[k])) = Len(wal[k])
  BY <1>1 DEF View
<1> QED
  BY <1>1, <1>2 DEF Seen

\* That of one that gets a record:
LEMMA SeenAppend ==
  ASSUME Inv, NEW h \in Keys, NEW p \in Records, wal' = [wal EXCEPT ![h] = Append(@, p)]
  PROVE  Seen' = [Seen EXCEPT ![h] = Append(@, Cell(p))]
<1>1. /\ wal \in [Keys -> Seq(Records)] /\ wal[h] \in Seq(Records)
      /\ wal' = [k \in Keys |-> IF k = h THEN Append(wal[h], p) ELSE wal[k]]
  BY DEF Inv, TypeOK
<1> DEFINE n == Len(wal[h])
<1>2. /\ n \in Nat /\ Len(Append(wal[h], p)) = n + 1
      /\ \A i \in 1..n : Append(wal[h], p)[i] = wal[h][i]
      /\ Append(wal[h], p)[n + 1] = p
  BY <1>1, AppendProperties, LenProperties
<1>3. View(Append(wal[h], p)) = Append(View(wal[h]), Cell(p))
  <2> DEFINE s == View(wal[h])
             C == {Cell(wal[h][i]) : i \in 1..n} \union {Cell(p)}
  <2>1. s \in Seq(C) /\ Cell(p) \in C /\ Len(s) = n
    BY <1>2 DEF View
  <2>2. /\ Len(Append(s, Cell(p))) = n + 1 /\ Append(s, Cell(p)) \in Seq(C)
        /\ \A i \in 1..n : Append(s, Cell(p))[i] = s[i]
        /\ Append(s, Cell(p))[n + 1] = Cell(p)
    BY <2>1, AppendProperties
  <2>3. Append(s, Cell(p)) = [i \in 1..n + 1 |-> Append(s, Cell(p))[i]]
    BY <1>2, <2>2
  <2>4. ASSUME NEW i \in 1..n + 1
        PROVE  Cell(Append(wal[h], p)[i]) = Append(s, Cell(p))[i]
    <3>1. i \in 1..n \/ i = n + 1
      BY <1>2
    <3>2. \A j \in 1..n : s[j] = Cell(wal[h][j])
      BY DEF View
    <3> QED
      BY <1>2, <2>2, <3>1, <3>2
  <2>5. View(Append(wal[h], p)) = [i \in 1..n + 1 |-> Cell(Append(wal[h], p)[i])]
    BY <1>2 DEF View
  <2> QED
    BY <2>3, <2>4, <2>5
<1>4. \A k \in Keys : Seen[k] = View(wal[k]) /\ Seen'[k] = View(wal'[k])
  BY DEF Seen, View, Cell
<1>5. Seen'[h] = Append(Seen[h], Cell(p))
  BY <1>1, <1>3, <1>4
<1>6. \A k \in Keys : k # h => Seen'[k] = Seen[k]
  BY <1>1, <1>4
<1> QED
  BY <1>5, <1>6 DEF Seen

\* One whose last record changes:
LEMMA SeenComplete ==
  ASSUME Inv, NEW h \in Keys, wal[h] # <<>>, NEW p \in Records,
         wal' = [wal EXCEPT ![h][Len(wal[h])] = p]
  PROVE  Seen' = [Seen EXCEPT ![h][Len(wal[h])] = Cell(p)]
<1> DEFINE n == Len(wal[h])
           last == [wal[h] EXCEPT ![n] = p]
<1>1. /\ wal \in [Keys -> Seq(Records)] /\ wal[h] \in Seq(Records)
      /\ wal' = [k \in Keys |-> IF k = h THEN last ELSE wal[k]]
  BY DEF Inv, TypeOK
<1>2. /\ n \in Nat /\ n \in 1..n /\ Len(last) = n
      /\ \A i \in 1..n : last[i] = IF i = n THEN p ELSE wal[h][i]
  <2>1. n \in Nat /\ n # 0
    BY <1>1, LenProperties, EmptySeq
  <2> QED
    BY <1>1, <2>1, ExceptSeq
<1>3. View(last) = [View(wal[h]) EXCEPT ![n] = Cell(p)]
  <2>1. View(wal[h]) = [i \in 1..n |-> Cell(wal[h][i])]
    BY DEF View
  <2> HIDE DEF last, n
  <2>2. View(last) = [i \in 1..n |-> Cell(last[i])]
    BY <1>2 DEF View
  <2>3. \A i \in 1..n : View(last)[i] = IF i = n THEN Cell(p) ELSE View(wal[h])[i]
    BY <1>2, <2>1, <2>2
  <2> QED
    BY <2>1, <2>2, <2>3
<1> HIDE DEF last, n
<1>4. \A k \in Keys : Seen[k] = View(wal[k]) /\ Seen'[k] = View(wal'[k])
  BY DEF Seen, View, Cell
<1>5. Seen'[h] = [Seen[h] EXCEPT ![n] = Cell(p)]
  BY <1>1, <1>3, <1>4
<1>6. \A k \in Keys : k # h => Seen'[k] = Seen[k]
  BY <1>1, <1>4
<1> QED
  BY <1>5, <1>6 DEF Seen, n

-----------------------------------------------------------------------------
\* The thread that writes is alone, and it writes the newest segment.
LEMMA Writer ==
  ASSUME PipelineInv, NEW t \in Threads, pc[t] \in Writing
  PROVE  /\ handle \in Keys /\ Newest = handle
         /\ \A u \in Threads : u # t => pc[u] # "payload"
         /\ HalfWritten <=> pc[t] = "payload"
         /\ pc[t] = "payload" => wal[handle] # <<>>
<1>1. handle # NoKey /\ mutex = t
  BY DEF PipelineInv, Inv, MutexInv
<1>2. Newest = handle /\ handle \in Keys
  BY <1>1, NewestIs DEF PipelineInv, NewestInv, Inv, TypeOK
<1>3. \A u \in Threads : u # t => pc[u] # "payload"
  BY <1>1 DEF PipelineInv, Inv, MutexInv, Writing
<1>4. pc[t] = "payload" => wal[handle] # <<>>
  <2> SUFFICES ASSUME pc[t] = "payload", wal[handle] = <<>> PROVE FALSE
    OBVIOUS
  <2>1. synced[handle] < Len(wal[handle])
    BY DEF PipelineInv, Inv, WriteInv
  <2> QED
    BY <1>2, <2>1 DEF PipelineInv, Inv, TypeOK
<1> QED
  BY <1>1, <1>2, <1>3, <1>4 DEF HalfWritten

\* A call sees nothing of a step that leaves the files alone.
LEMMA Unseen ==
  ASSUME UNCHANGED <<created, wal, present, calls>>, HalfWritten' = HalfWritten
  PROVE  UNCHANGED Backend!vars
<1>1. Newest' = Newest /\ Seen' = Seen
  BY DEF Newest, Seen, View, Cell
<1> QED
  BY <1>1 DEF calls, Backend!vars, Backend!gateway, Backend!manifest, Backend!scan,
     Backend!pending

\* Writing a header is the first half of an append, or all there is of one.
LEMMA HeaderSeen ==
  ASSUME Environment, PipelineInv, NEW t \in Threads, pc[t] = "header",
         wal' = [wal EXCEPT ![handle] = Append(@, Torn)],
         Len(wal'[handle]) <= MaxRecords, created' = created,
         UNCHANGED <<present, calls>>
  PROVE  /\ HalfWritten' => Backend!GatewayBegin
         /\ ~HalfWritten' => Backend!GatewayGivesUp
<1>1. handle \in Keys /\ Newest = handle /\ ~HalfWritten
  BY Writer DEF Writing
<1>2. Seen' = [Seen EXCEPT ![handle] = Append(@, "torn")]
  BY <1>1, SeenAppend DEF PipelineInv, Records, Cell
<1>3. Len(wal[handle]) \in Nat /\ Len(wal'[handle]) = Len(wal[handle]) + 1
  BY <1>1, Appended, LenProperties DEF PipelineInv, Inv, TypeOK, NoKey, Keys
<1>4. Newest' = Newest
  BY DEF Newest
<1>5. Len(Seen[Newest]) < MaxRecords
  <2>1. Len(Seen[Newest]) = Len(wal[handle])
    BY <1>1, SeenSize DEF PipelineInv
  <2> QED
    BY <1>3, <2>1 DEF Environment
<1> QED
  BY <1>1, <1>2, <1>4, <1>5 DEF Environment, calls, HalfWritten, Backend!GatewayBegin,
     Backend!GatewayGivesUp, Backend!Size, Backend!manifest, Backend!scan, Backend!pending

\* Writing the payload is the second half.
LEMMA PayloadSeen ==
  ASSUME Environment, PipelineInv, NEW t \in Threads, WritePayload(t),
         UNCHANGED <<present, calls>>
  PROVE  Backend!GatewayFinish(KindOf[body[t]]) /\ KindOf[body[t]] \in Kinds
<1>1. pc[t] = "payload" /\ pc'[t] = "fsync" /\ \A u \in Threads : u # t => pc'[u] = pc[u]
  BY DEF WritePayload, Goto, PipelineInv, Inv, TypeOK
<1>2. /\ handle \in Keys /\ Newest = handle /\ wal[handle] # <<>>
      /\ HalfWritten /\ ~HalfWritten'
  BY <1>1, Writer DEF Writing, HalfWritten
<1>3. body[t] \in Payloads
  BY <1>1 DEF PipelineInv, Inv, MutexInv
<1>4. Cell(body[t]) = KindOf[body[t]]
  BY <1>3, WalAssumption DEF Cell
<1>5. wal' = [wal EXCEPT ![handle][Len(wal[handle])] = body[t]]
  BY DEF WritePayload
<1>6. Seen' = [Seen EXCEPT ![handle][Len(wal[handle])] = KindOf[body[t]]]
  BY <1>2, <1>3, <1>4, <1>5, SeenComplete DEF PipelineInv, Records
<1>7. Newest' = Newest /\ Len(Seen[Newest]) = Len(wal[handle])
  BY <1>2, SeenSize DEF WritePayload, Newest, PipelineInv
<1> QED
  BY <1>2, <1>3, <1>6, <1>7 DEF Environment, calls, Backend!GatewayFinish, Backend!Size,
     Backend!manifest, Backend!scan, Backend!pending

\* Rotation and restart make the next name.
LEMMA RotationSeen ==
  ASSUME Environment, PipelineInv, NEW k \in Keys, FreshKey(k),
         created' = created \union {k}, wal' = wal, ~HalfWritten, ~HalfWritten',
         present' = present \union (created' \ created), UNCHANGED calls
  PROVE  Backend!GatewayRotate(k)
<1>1. "clock" \notin Faults /\ created \subseteq Keys
  BY DEF Environment, PipelineInv, Inv, TypeOK
<1>2. k - 1 \in created /\ \A j \in created : j < k
  BY <1>1 DEF FreshKey
<1>3. \A j \in created : j \in Int /\ j <= k - 1
  BY <1>1, <1>2 DEF Keys
<1>4. Newest = k - 1
  BY <1>1, <1>2, <1>3, NewestIs
<1>5. created' \subseteq Keys /\ k \in created' /\ \A j \in created' : j <= k
  BY <1>1, <1>2, <1>3 DEF Keys
<1>6. Newest' = k
  <2>1. \A n \in created' : (\A j \in created' : j <= n) => n = k
    BY <1>5 DEF Keys
  <2> QED
    BY <1>5, <2>1 DEF Newest
<1>7. k \notin present \union full \union {Newest} /\ k = Newest + 1
  BY <1>4 DEF FreshKey, PipelineInv, KnownInv, Keys
<1>8. present' = present \union {k} /\ Seen' = Seen /\ HalfWritten' = HalfWritten
  BY DEF FreshKey, Seen, View, Cell, HalfWritten
<1> QED
  BY <1>6, <1>7, <1>8 DEF calls, Backend!GatewayRotate, Backend!manifest, Backend!scan,
     Backend!pending

\* A step of a thread outside the payload does not change whether one is there.
LEMMA HalfSame ==
  ASSUME PipelineInv, NEW t \in Threads, NEW from \in Locations \ {"payload"},
         NEW to \in Locations \ {"payload"}, Goto(t, from, to)
  PROVE  HalfWritten' = HalfWritten
<1>1. pc' = [pc EXCEPT ![t] = to] /\ pc \in [Threads -> Locations] /\ pc[t] # "payload"
  BY DEF Goto, PipelineInv, Inv, TypeOK
<1>2. \A u \in Threads : pc'[u] = "payload" <=> pc[u] = "payload"
  BY <1>1
<1> QED
  BY <1>2 DEF HalfWritten

\* One that leaves the payload leaves nobody there.
LEMMA HalfLeft ==
  ASSUME PipelineInv, NEW t \in Threads, NEW to \in Locations \ {"payload"},
         Goto(t, "payload", to)
  PROVE  HalfWritten /\ ~HalfWritten'
<1>1. pc' = [pc EXCEPT ![t] = to] /\ pc \in [Threads -> Locations] /\ pc[t] = "payload"
  BY DEF Goto, PipelineInv, Inv, TypeOK
<1>2. \A u \in Threads : u # t => pc[u] # "payload"
  BY <1>1, Writer DEF Writing
<1> QED
  BY <1>1, <1>2 DEF HalfWritten

\* The gateway gives up what it has begun.
LEMMA GivesUpSeen ==
  ASSUME Environment, HalfWritten, ~HalfWritten', UNCHANGED <<wal, created, present, calls>>
  PROVE  Backend!GatewayGivesUp
<1>1. Newest' = Newest /\ Seen' = Seen
  BY DEF Newest, Seen, View, Cell
<1>2. "write" \in CallFaults /\ HalfWritten' = FALSE
  BY DEF Environment, HalfWritten
<1> QED
  BY <1>1, <1>2 DEF calls, Backend!GatewayGivesUp, Backend!manifest, Backend!scan,
     Backend!pending

\* Every step of the WAL writer is one of the gateway that Materializer knows,
\* or none that a call could see.
LEMMA GatewaySimulated ==
  ASSUME Environment, PipelineInv, GatewayStep
  PROVE  Backend!Gateway \/ UNCHANGED Backend!vars
<1> USE DEF Locations
<1>1. /\ UNCHANGED calls /\ present' = present \union (created' \ created)
      /\ \A k \in Keys : Len(wal'[k]) <= MaxRecords
  BY DEF GatewayStep
<1>2. ASSUME NEW t \in Threads,
             \/ \E p \in Payloads : Request(t, p)
             \/ LockMutex(t) \/ OpenFails(t) \/ Fsync(t) \/ FsyncFails(t)
             \/ Confirm(t) \/ Refuse(t)
      PROVE  UNCHANGED Backend!vars
  <2>1. HalfWritten' = HalfWritten
    BY <1>2, HalfSame DEF Request, LockMutex, OpenFails, Fsync, FsyncFails, Confirm, Refuse,
       Return
  <2>2. UNCHANGED <<created, wal>>
    BY <1>2 DEF Request, LockMutex, OpenFails, Fsync, FsyncFails, Confirm, Refuse, disk
  <2> QED
    BY <1>1, <2>1, <2>2, Unseen
<1>3. ASSUME NEW t \in Threads, NEW k \in Keys, OpenSegment(t, k)
      PROVE  Backend!GatewayRotate(k)
  <2>1. HalfWritten' = HalfWritten
    BY <1>3, HalfSame DEF OpenSegment
  <2>2. \A u \in Threads : pc[u] # "payload"
    <3>1. mutex = t /\ pc[t] = "open"
      BY <1>3 DEF OpenSegment, Goto, PipelineInv, Inv, MutexInv
    <3> QED
      BY <3>1 DEF PipelineInv, Inv, MutexInv, Writing
  <2>3. FreshKey(k) /\ created' = created \union {k} /\ wal' = wal
    BY <1>3 DEF OpenSegment
  <2> QED
    BY <1>1, <2>1, <2>2, <2>3, RotationSeen DEF HalfWritten
<1>4. ASSUME NEW t \in Threads, WriteHeader(t)
      PROVE  Backend!GatewayBegin
  <2>1. pc[t] = "header" /\ HalfWritten'
    BY <1>4 DEF WriteHeader, Goto, HalfWritten, PipelineInv, Inv, TypeOK
  <2>2. Len(wal'[handle]) <= MaxRecords
    BY <1>1, <2>1, Writer DEF Writing
  <2> QED
    BY <1>1, <1>4, <2>1, <2>2, HeaderSeen DEF WriteHeader
<1>5. ASSUME NEW t \in Threads, WritePayload(t)
      PROVE  \E kind \in Kinds : Backend!GatewayFinish(kind)
  <2>1. created' = created
    BY <1>5 DEF WritePayload
  <2> QED
    BY <1>1, <1>5, <2>1, PayloadSeen
<1>6. ASSUME NEW t \in Threads, WriteFails(t)
      PROVE  Backend!GatewayGivesUp \/ UNCHANGED Backend!vars
  <2>1. created' = created /\ present' = present
    BY <1>1, <1>6 DEF WriteFails
  <2>2. CASE pc[t] = "header"
    <3>1. Goto(t, "header", "failed")
      BY <1>6, <2>2 DEF WriteFails, Return, Goto
    <3>2. HalfWritten' = HalfWritten /\ ~HalfWritten'
      BY <2>2, <3>1, HalfSame, Writer DEF Writing
    <3>3. wal' \in {wal, [wal EXCEPT ![handle] = Append(@, Torn)]}
      BY <1>6, <2>2 DEF WriteFails, Return, Goto
    <3>4. Len(wal'[handle]) <= MaxRecords
      BY <1>1, <2>2, Writer DEF Writing
    <3> QED
      BY <1>1, <2>1, <2>2, <3>2, <3>3, <3>4, HeaderSeen, Unseen
  <2>3. CASE pc[t] # "header"
    <3>1. Goto(t, "payload", "failed") /\ wal' = wal
      BY <1>6, <2>3 DEF WriteFails, Return, Goto
    <3>2. HalfWritten /\ ~HalfWritten'
      BY <3>1, HalfLeft
    <3> QED
      BY <1>1, <2>1, <3>1, <3>2, GivesUpSeen
  <2> QED
    BY <2>2, <2>3
<1>7. CASE Crash
  <2>1. ~HalfWritten' /\ created' = created /\ wal' = wal
    BY <1>7 DEF Crash, Stop, HalfWritten
  <2>2. present' = present
    BY <1>1, <2>1
  <2>3. CASE HalfWritten
    BY <1>1, <2>1, <2>2, <2>3, GivesUpSeen DEF Backend!Gateway
  <2>4. CASE ~HalfWritten
    <3>1. HalfWritten' = HalfWritten
      BY <2>1, <2>4 DEF HalfWritten
    <3> QED
      BY <1>1, <2>1, <2>2, <3>1, Unseen
  <2> QED
    BY <2>3, <2>4
<1>8. CASE PowerLoss
  BY <1>8 DEF PowerLoss, Environment
<1>9. CASE Restart
  <2>1. PICK k \in Keys : FreshKey(k) /\ created' = created \union {k}
    BY <1>9 DEF Restart
  <2>2. wal' = wal /\ pc' = pc /\ ~up
    BY <1>9 DEF Restart
  <2>3. \A t \in Threads : pc[t] # "payload" /\ pc'[t] # "payload"
    BY <2>2 DEF PipelineInv, Inv, MutexInv
  <2>4. Backend!GatewayRotate(k)
    BY <1>1, <2>1, <2>2, <2>3, RotationSeen DEF HalfWritten
  <2> QED
    BY <2>4 DEF Backend!Gateway, Backend!Keys, Keys
<1> QED
  <2>1. Next
    BY DEF GatewayStep
  <2> QED
    BY <1>2, <1>3, <1>4, <1>5, <1>6, <1>7, <1>8, <1>9, <2>1
    DEF Next, Handle, AppendStep, Backend!Gateway, Backend!Keys, Keys

\* A call only marks and lists segments that are there.
LEMMA CallKnown ==
  ASSUME KnownInv, CallStep
  PROVE  KnownInv' /\ created' = created
<1>1. created' = created
  BY DEF CallStep, vars
<1> USE <1>1 DEF KnownInv
<1>2. ASSUME NEW k, \/ Backend!SkipSegment(k) \/ Backend!OpenSegment(k) \/ Backend!Unlink(k)
                    \/ Backend!UnlinkFails(k) \/ Backend!LogDeletion(k)
      PROVE  KnownInv'
  BY <1>2 DEF Backend!SkipSegment, Backend!OpenSegment, Backend!Unlink, Backend!UnlinkFails,
     Backend!LogDeletion, Backend!First, Backend!manifest, Backend!scan
<1>3. CASE Backend!BeginMaterialize \/ Backend!BeginCleanup
  BY <1>3 DEF Backend!BeginMaterialize, Backend!BeginCleanup, Backend!manifest, Backend!scan
<1>4. CASE Backend!ReadRecord \/ Backend!FindCorruption \/ Backend!EndOfFile
           \/ Backend!CheckSealed \/ Backend!Seal
  BY <1>4 DEF Backend!ReadRecord, Backend!FindCorruption, Backend!EndOfFile,
     Backend!CheckSealed, Backend!Seal, Backend!manifest, Backend!scan
<1>5. CASE Backend!Flush \/ Backend!Quarantine \/ Backend!FinalFlush
           \/ Backend!EndMaterialize \/ Backend!EndCleanup \/ Backend!Abort
  BY <1>5 DEF Backend!Flush, Backend!Quarantine, Backend!FinalFlush, Backend!EndMaterialize,
     Backend!EndCleanup, Backend!Abort, Backend!Forget, Backend!manifest, Backend!scan
<1> QED
  BY <1>2, <1>3, <1>4, <1>5 DEF CallStep, Backend!Work

\* The invariant of the whole.
LEMMA NextPipeline ==
  ASSUME Environment, PipelineInv, [PipelineNext]_pipelineVars
  PROVE  PipelineInv'
<1> USE DEF PipelineInv
<1>1. [Next]_vars
  BY DEF PipelineNext, GatewayStep, CallStep, pipelineVars, vars
<1>2. Inv' /\ NewestInv' /\ TopInv'
  BY <1>1, NextInv, NextNewest, NextTop DEF Environment
<1>3. CASE CallStep
  BY <1>2, <1>3, CallKnown
<1>4. CASE GatewayStep
  <2>1. created \subseteq created'
    BY <1>4 DEF GatewayStep, Next, Handle, AppendStep, Request, LockMutex, OpenSegment,
       OpenFails, WriteHeader, WritePayload, WriteFails, Fsync, FsyncFails, Confirm, Refuse,
       Crash, PowerLoss, Stop, Restart, disk
  <2> QED
    BY <1>2, <1>4, <2>1 DEF GatewayStep, KnownInv, calls
<1>5. CASE UNCHANGED pipelineVars
  BY <1>2, <1>5 DEF pipelineVars, vars, calls, KnownInv
<1> QED
  BY <1>3, <1>4, <1>5 DEF PipelineNext

LEMMA InitPipeline ==
  ASSUME Environment, PipelineInit
  PROVE  PipelineInv
<1>1. Inv
  BY InitInv DEF PipelineInit
<1>2. created = {1} /\ handle = 1
  BY DEF PipelineInit, Init, Environment
<1>3. Newest = 1
  BY <1>1, <1>2, NewestIs DEF Inv, TypeOK
<1>4. present = {1} /\ full = {} /\ todo = {} /\ cur = 1
  BY <1>3 DEF PipelineInit, Backend!Init
<1> QED
  BY <1>1, <1>2, <1>4 DEF PipelineInv, NewestInv, TopInv, KnownInv

\* The invariant holds, the one of WalWriter with it.
LEMMA Invariants == Environment => (PipelineSpec => []PipelineInv)
<1> SUFFICES ASSUME Environment PROVE PipelineSpec => []PipelineInv
  OBVIOUS
<1>1. PipelineInit => PipelineInv
  BY InitPipeline
<1>2. PipelineInv /\ [PipelineNext]_pipelineVars => PipelineInv'
  BY NextPipeline
<1> QED
  BY <1>1, <1>2, PTL DEF PipelineSpec

\* The WAL writer is a gateway as Materializer assumes it: what is proved of
\* materialize() and cleanup there holds against the append() of
\* wal_writer.cpp:73-135, whatever writes fail and wherever the process dies.
THEOREM Composition == Environment => (PipelineSpec => ImplementsMaterializer)
<1> SUFFICES ASSUME Environment PROVE PipelineSpec => ImplementsMaterializer
  OBVIOUS
<1>1. PipelineInit => Backend!Init
  BY DEF PipelineInit
<1>2. PipelineInv /\ [PipelineNext]_pipelineVars => [Backend!Next]_Backend!vars
  <2> SUFFICES ASSUME PipelineInv, [PipelineNext]_pipelineVars
               PROVE  [Backend!Next]_Backend!vars
    OBVIOUS
  <2>1. CASE GatewayStep
    BY <2>1, GatewaySimulated DEF Backend!Next
  <2>2. CASE CallStep
    BY <2>2 DEF CallStep, Backend!Next
  <2>3. CASE UNCHANGED pipelineVars
    <3>1. UNCHANGED <<created, wal, present, calls>> /\ HalfWritten' = HalfWritten
      BY <2>3 DEF pipelineVars, vars, HalfWritten
    <3> QED
      BY <3>1, Unseen
  <2> QED
    BY <2>1, <2>2, <2>3 DEF PipelineNext
<1> QED
  BY <1>1, <1>2, Invariants, PTL DEF PipelineSpec, ImplementsMaterializer, Backend!Spec

-----------------------------------------------------------------------------
\* What is proved of Materializer.
Calls == INSTANCE Retention_proofs WITH
           wal <- Seen, current <- Newest, writing <- HalfWritten,
           pc <- call, Faults <- CallFaults

\* Backend and Calls are instances of one specification, action by action.
LEMMA SameInit == Backend!Init <=> Calls!Init
  BY DEF Backend!Init, Calls!Init, Backend!Keys, Calls!Keys, Backend!None, Calls!None

LEMMA SameGateway == Backend!Gateway <=> Calls!Gateway
  BY DEF Backend!Gateway, Calls!Gateway, Backend!GatewayAppend,
     Calls!GatewayAppend, Backend!GatewayFinish, Calls!GatewayFinish,
     Backend!GatewayBegin, Calls!GatewayBegin, Backend!GatewayGivesUp,
     Calls!GatewayGivesUp, Backend!GatewayRotate, Calls!GatewayRotate,
     Backend!Keys, Calls!Keys, Backend!Size, Calls!Size, Backend!manifest,
     Calls!manifest, Backend!scan, Calls!scan, Backend!pending, Calls!pending

LEMMA SameSegmentSteps ==
  ASSUME NEW k
  PROVE  /\ Backend!SkipSegment(k) <=> Calls!SkipSegment(k)
         /\ Backend!OpenSegment(k) <=> Calls!OpenSegment(k)
         /\ Backend!Unlink(k) <=> Calls!Unlink(k)
         /\ Backend!UnlinkFails(k) <=> Calls!UnlinkFails(k)
         /\ Backend!LogDeletion(k) <=> Calls!LogDeletion(k)
  BY DEF Backend!SkipSegment, Calls!SkipSegment, Backend!OpenSegment,
     Calls!OpenSegment, Backend!Unlink, Calls!Unlink, Backend!UnlinkFails,
     Calls!UnlinkFails, Backend!LogDeletion, Calls!LogDeletion, Backend!Skip,
     Calls!Skip, Backend!First, Calls!First, Backend!Quarantined,
     Calls!Quarantined, Backend!Offset, Calls!Offset, Backend!Size, Calls!Size,
     Backend!Keys, Calls!Keys, Backend!None, Calls!None, Backend!gateway,
     Calls!gateway, Backend!manifest, Calls!manifest, Backend!scan, Calls!scan,
     Backend!pending, Calls!pending

LEMMA SameCount == \A S : Backend!Cardinality(S) = Calls!Cardinality(S)
  BY DEF Backend!Cardinality, Calls!Cardinality

LEMMA SameReadRecord == Backend!ReadRecord <=> Calls!ReadRecord
  BY SameCount DEF Backend!ReadRecord, Calls!ReadRecord, Backend!Readable, Calls!Readable,
     Backend!HasRows, Calls!HasRows, Backend!FlushThen, Calls!FlushThen, Backend!Size,
     Calls!Size, Backend!gateway, Calls!gateway, Backend!manifest, Calls!manifest

LEMMA SameFindCorruption == Backend!FindCorruption <=> Calls!FindCorruption
  BY DEF Backend!FindCorruption, Calls!FindCorruption, Backend!Readable,
     Calls!Readable, Backend!FlushThen, Calls!FlushThen, Backend!Size,
     Calls!Size, Backend!gateway, Calls!gateway, Backend!manifest,
     Calls!manifest, Backend!scan, Calls!scan, Backend!pending, Calls!pending

LEMMA SameEndOfFile == Backend!EndOfFile <=> Calls!EndOfFile
  BY DEF Backend!EndOfFile, Calls!EndOfFile, Backend!Size, Calls!Size,
     Backend!gateway, Calls!gateway, Backend!manifest, Calls!manifest,
     Backend!scan, Calls!scan, Backend!pending, Calls!pending

LEMMA SameCheckSealed == Backend!CheckSealed <=> Calls!CheckSealed
  BY DEF Backend!CheckSealed, Calls!CheckSealed, Backend!Size, Calls!Size,
     Backend!gateway, Calls!gateway, Backend!manifest, Calls!manifest,
     Backend!scan, Calls!scan, Backend!pending, Calls!pending

LEMMA SameSeal == Backend!Seal <=> Calls!Seal
  BY DEF Backend!Seal, Calls!Seal, Backend!Size, Calls!Size, Backend!None,
     Calls!None, Backend!gateway, Calls!gateway, Backend!manifest,
     Calls!manifest, Backend!scan, Calls!scan, Backend!pending, Calls!pending

LEMMA SameEnds ==
  /\ Backend!Flush <=> Calls!Flush
  /\ Backend!Quarantine <=> Calls!Quarantine
  /\ Backend!FinalFlush <=> Calls!FinalFlush
  /\ Backend!EndMaterialize <=> Calls!EndMaterialize
  /\ Backend!EndCleanup <=> Calls!EndCleanup
  /\ Backend!Abort <=> Calls!Abort
  /\ Backend!BeginMaterialize <=> Calls!BeginMaterialize
  /\ Backend!BeginCleanup <=> Calls!BeginCleanup
  BY DEF Backend!Flush, Calls!Flush, Backend!Quarantine, Calls!Quarantine,
     Backend!FinalFlush, Calls!FinalFlush, Backend!EndMaterialize,
     Calls!EndMaterialize, Backend!EndCleanup, Calls!EndCleanup, Backend!Abort,
     Calls!Abort, Backend!BeginMaterialize, Calls!BeginMaterialize,
     Backend!BeginCleanup, Calls!BeginCleanup, Backend!Convertible,
     Calls!Convertible, Backend!FlushThen, Calls!FlushThen, Backend!Forget,
     Calls!Forget, Backend!Last, Calls!Last, Backend!Keys, Calls!Keys,
     Backend!gateway, Calls!gateway, Backend!manifest, Calls!manifest,
     Backend!scan, Calls!scan, Backend!pending, Calls!pending

LEMMA SameSpec == Backend!Spec => Calls!Spec
<1>1. Backend!Next => Calls!Next
  BY SameGateway, SameSegmentSteps, SameReadRecord,
     SameFindCorruption, SameEndOfFile, SameCheckSealed, SameSeal, SameEnds DEF Backend!Next, Calls!Next,
     Backend!Work, Calls!Work, Backend!Keys, Calls!Keys
<1>2. UNCHANGED Backend!vars => UNCHANGED Calls!vars
  BY DEF Backend!vars, Calls!vars, Backend!gateway, Calls!gateway,
     Backend!manifest, Calls!manifest, Backend!scan, Calls!scan,
     Backend!pending, Calls!pending
<1>3. [Backend!Next]_Backend!vars => [Calls!Next]_Calls!vars
  BY <1>1, <1>2
<1> QED
  BY <1>3, SameInit, PTL DEF Backend!Spec, Calls!Spec

-----------------------------------------------------------------------------
\* Materializer's bounds and kinds make sense, and its clock is the gateway's.
CallAssumption == Backend!MaterializerAssumption /\ "clock" \notin CallFaults

\* What a thread may write, or has written, is a body that is not too large.
SentInv ==
    /\ \A t \in Threads : pc[t] \notin {"idle", "failed"} => body[t] \notin TooLarge
    /\ \A k \in Keys : \A i \in 1..Len(wal[k]) : wal[k][i] \notin TooLarge

LEMMA NextSent ==
  ASSUME "power" \notin Faults, Inv, SentInv, [Next]_vars
  PROVE  SentInv'
<1> USE DEF SentInv
<1>1. ASSUME NEW t \in Threads, NEW p \in Payloads, Request(t, p)
      PROVE  SentInv'
  BY <1>1 DEF Request, Goto, Inv, TypeOK, disk
<1>2. ASSUME NEW t \in Threads,
             \/ LockMutex(t) \/ OpenFails(t) \/ Fsync(t) \/ FsyncFails(t)
             \/ \E k \in Keys : OpenSegment(t, k)
      PROVE  SentInv'
  BY <1>2 DEF LockMutex, OpenFails, Fsync, FsyncFails, OpenSegment, Return, Goto, Inv, TypeOK,
     disk
<1>3. ASSUME NEW t \in Threads, Confirm(t) \/ Refuse(t)
      PROVE  SentInv'
  BY <1>3 DEF Confirm, Refuse, Forget, Goto, Inv, TypeOK, disk
<1>4. ASSUME NEW p \in Records \ TooLarge, handle \in Keys,
             wal' = [wal EXCEPT ![handle] = Append(@, p)]
      PROVE  \A k \in Keys : \A i \in 1..Len(wal'[k]) : wal'[k][i] \notin TooLarge
  <2>1. wal[handle] \in Seq(Records) /\ wal \in [Keys -> Seq(Records)]
    BY <1>4 DEF Inv, TypeOK
  <2>2. \A i \in 1..Len(Append(wal[handle], p)) : Append(wal[handle], p)[i] \notin TooLarge
    BY <1>4, <2>1, AppendProperties, LenProperties
  <2>3. wal'[handle] = Append(wal[handle], p) /\ \A k \in Keys : k # handle => wal'[k] = wal[k]
    BY <1>4, <2>1
  <2> QED
    BY <2>2, <2>3
<1>5. Torn \in Records \ TooLarge
  BY WalAssumption DEF Records
<1>6. ASSUME NEW t \in Threads, pc[t] \in Writing
      PROVE  handle \in Keys
  BY <1>6 DEF Inv, TypeOK, MutexInv
<1>7. ASSUME NEW t \in Threads, WriteHeader(t) \/ WriteFails(t)
      PROVE  SentInv'
  <2>1. pc[t] \in Writing
    BY <1>7 DEF WriteHeader, WriteFails, Return, Goto, Writing
  <2>2. wal' = wal \/ wal' = [wal EXCEPT ![handle] = Append(@, Torn)]
    BY <1>7 DEF WriteHeader, WriteFails
  <2>3. \A k \in Keys : \A i \in 1..Len(wal'[k]) : wal'[k][i] \notin TooLarge
    BY <1>4, <1>5, <1>6, <2>1, <2>2
  <2>4. \A u \in Threads : pc'[u] \notin {"idle", "failed"} => body'[u] \notin TooLarge
    BY <1>7 DEF WriteHeader, WriteFails, Return, Goto, Inv, TypeOK
  <2> QED
    BY <2>3, <2>4
<1>8. ASSUME NEW t \in Threads, WritePayload(t)
      PROVE  SentInv'
  <2>1. pc[t] = "payload"
    BY <1>8 DEF WritePayload, Goto
  <2>2. body[t] \in Payloads \ TooLarge /\ handle \in Keys /\ handle # NoKey
        /\ synced[handle] < Len(wal[handle])
    BY <1>6, <2>1 DEF Inv, MutexInv, WriteInv, Writing
  <2>3. wal' = [wal EXCEPT ![handle] = [wal[handle] EXCEPT ![Len(wal[handle])] = body[t]]]
    BY <1>8 DEF WritePayload
  <2>4. \A k \in Keys : \A i \in 1..Len(wal'[k]) : wal'[k][i] \notin TooLarge
    <3> DEFINE n == Len(wal[handle])
               last == [wal[handle] EXCEPT ![n] = body[t]]
    <3>1. /\ wal[handle] \in Seq(Records) /\ n \in Nat /\ n \in 1..n
          /\ synced[handle] \in Nat
      <4>1. wal[handle] \in Seq(Records) /\ n \in Nat /\ synced[handle] \in Nat
        BY <2>2, LenProperties DEF Inv, TypeOK
      <4> HIDE DEF n
      <4> QED
        BY <2>2, <4>1 DEF n
    <3>2. Len(last) = n /\ \A i \in 1..n : last[i] = IF i = n THEN body[t] ELSE wal[handle][i]
      BY <2>2, <3>1, ExceptSeq DEF Records
    <3>3. wal'[handle] = last /\ \A k \in Keys : k # handle => wal'[k] = wal[k]
      BY <2>2, <2>3 DEF Inv, TypeOK
    <3> HIDE DEF last
    <3> QED
      BY <2>2, <3>2, <3>3
  <2>5. \A u \in Threads : pc'[u] \notin {"idle", "failed"} => body'[u] \notin TooLarge
    BY <1>8 DEF WritePayload, Goto, Inv, TypeOK
  <2> QED
    BY <2>4, <2>5
<1>9. CASE Crash \/ Restart
  BY <1>9 DEF Crash, Stop, Restart
<1>10. CASE UNCHANGED vars
  BY <1>10 DEF vars
<1>11. ~PowerLoss
  BY DEF PowerLoss
<1> QED
  BY <1>1, <1>2, <1>3, <1>7, <1>8, <1>9, <1>10, <1>11 DEF Next, Handle, AppendStep

\* HTTP 200 is a promise about rows: what was confirmed is committed, about to
\* be, or on disk where a call will read it (http_server.cpp:166,
\* materializer.py:9), if no call is aborted between marking a segment and
\* flushing its last rows, and no body carries a row that Arrow refuses.
THEOREM Confirmed ==
  Environment /\ CallAssumption /\ "abort" \notin CallFaults /\ "wild" \notin Kinds
    => (PipelineSpec => []ConfirmedKept)
<1> SUFFICES ASSUME Environment, CallAssumption, "abort" \notin CallFaults, "wild" \notin Kinds
             PROVE  PipelineSpec => []ConfirmedKept
  OBVIOUS
<1>1. Calls!MaterializerAssumption /\ Calls!Faultless
  BY DEF CallAssumption, Calls!Faultless, Backend!MaterializerAssumption,
     Calls!MaterializerAssumption, Backend!RecordKinds, Calls!RecordKinds,
     Backend!FaultKinds, Calls!FaultKinds
<1>2. Calls!Spec => []Calls!AckedKept
  BY <1>1, Calls!RecordsKept
<1>3. PipelineInv /\ Calls!AckedKept => ConfirmedKept
  <2> SUFFICES ASSUME PipelineInv, Calls!AckedKept, NEW r \in acked,
                      Backend!HasRows(KindOf[r[3]])
               PROVE  \/ <<r[1], r[2]>> \in Backend!Committed \union batch
                      \/ r[1] \in present /\ r[2] > Backend!Offset(r[1])
    BY DEF ConfirmedKept
  <2>1. /\ r[1] \in Keys /\ r[3] \in Payloads
        /\ wal[r[1]][r[2]] = r[3] /\ r[2] \in 1..Len(wal[r[1]])
    <3>1. r \in Keys \X Nat \X Payloads
      BY DEF PipelineInv, Inv, TypeOK
    <3>2. Stored(<<r[1], r[2]>>, r[3])
      BY DEF PipelineInv, Inv, AckedInv
    <3>3. /\ Len(wal[r[1]]) \in Nat /\ synced[r[1]] \in Nat
          /\ synced[r[1]] <= Len(wal[r[1]])
      BY <3>1, SeenSize DEF PipelineInv, Inv, TypeOK, SyncedInv
    <3> QED
      BY <3>1, <3>2, <3>3 DEF Stored
  <2>2. Seen[r[1]][r[2]] = KindOf[r[3]] /\ Len(Seen[r[1]]) = Len(wal[r[1]])
    <3>1. Cell(r[3]) = KindOf[r[3]]
      BY <2>1, WalAssumption DEF Cell
    <3> QED
      BY <2>1, <3>1, SeenSize DEF PipelineInv, Seen, View
  <2>3. Calls!HasRows(Seen[r[1]][r[2]])
    BY <2>2 DEF Backend!HasRows, Calls!HasRows
  <2>4. \/ <<r[1], r[2]>> \in Calls!Committed \union batch
        \/ r[1] \in present /\ r[2] > Calls!Offset(r[1])
    BY <2>1, <2>2, <2>3 DEF Calls!AckedKept, Calls!Keys, Keys, Calls!Size
  <2> QED
    BY <2>4 DEF Calls!Committed, Backend!Committed, Calls!Offset, Backend!Offset,
       Calls!None, Backend!None
<1> QED
  BY <1>2, <1>3, Invariants, Composition, SameSpec, PTL DEF ImplementsMaterializer

\* What was confirmed is not condemned: a sealed segment is quarantined for a
\* record no client was promised anything about, or for an empty body, however
\* the gateway's writes fall between a call's reads (materializer.py:299-305,
\* wal_writer.cpp:112-119).
THEOREM ConfirmedNotCondemned ==
  Environment /\ CallAssumption => (PipelineSpec => CondemnedUnconfirmed)
<1> SUFFICES ASSUME Environment, CallAssumption PROVE PipelineSpec => CondemnedUnconfirmed
  OBVIOUS
<1>1. Calls!MaterializerAssumption /\ "clock" \notin CallFaults
  BY DEF CallAssumption, Backend!MaterializerAssumption, Calls!MaterializerAssumption,
     Backend!RecordKinds, Calls!RecordKinds, Backend!FaultKinds, Calls!FaultKinds
<1>2. Calls!Spec => Calls!EventsExact
  BY <1>1, Calls!QuarantineExact
<1> DEFINE Exact(k) ==
             corruptAt[k] = Calls!None /\ corruptAt'[k] # Calls!None =>
               /\ corruptAt'[k] < Calls!Size(k)
               /\ \A i \in 1..corruptAt'[k] : Calls!Readable(Seen[k][i])
               /\ k # active => ~Calls!Readable(Seen[k][corruptAt'[k] + 1])
           Spared(k) ==
             corruptAt[k] = Backend!None /\ corruptAt'[k] # Backend!None /\ k # active
               => \A r \in acked :
                    r[1] = k /\ r[2] = corruptAt'[k] + 1 => KindOf[r[3]] = "zero"
<1>3. PipelineInv /\ [\A k \in Calls!Keys : Exact(k)]_Calls!vars
      => [\A k \in Keys : Spared(k)]_pipelineVars
  <2> SUFFICES ASSUME PipelineInv, [\A k \in Calls!Keys : Exact(k)]_Calls!vars,
                      NEW k \in Keys, corruptAt[k] = Backend!None,
                      corruptAt'[k] # Backend!None, k # active,
                      NEW r \in acked, r[1] = k, r[2] = corruptAt'[k] + 1
               PROVE  KindOf[r[3]] = "zero"
    OBVIOUS
  <2>1. ~UNCHANGED Calls!vars
    BY DEF Calls!vars, Calls!manifest
  <2>2. ~Calls!Readable(Seen[k][r[2]])
    BY <2>1 DEF Calls!Keys, Keys, Calls!None, Backend!None
  <2>3. /\ r[3] \in Payloads /\ wal[k][r[2]] = r[3] /\ r[2] \in 1..Len(wal[k])
    <3>1. r \in Keys \X Nat \X Payloads
      BY DEF PipelineInv, Inv, TypeOK
    <3>2. Stored(<<r[1], r[2]>>, r[3])
      BY DEF PipelineInv, Inv, AckedInv
    <3>3. /\ Len(wal[r[1]]) \in Nat /\ synced[r[1]] \in Nat
          /\ synced[r[1]] <= Len(wal[r[1]])
      BY <3>1, SeenSize DEF PipelineInv, Inv, TypeOK, SyncedInv
    <3> QED
      BY <3>1, <3>2, <3>3 DEF Stored
  <2>4. Seen[k][r[2]] = KindOf[r[3]]
    <3>1. Cell(r[3]) = KindOf[r[3]]
      BY <2>3, WalAssumption DEF Cell
    <3> QED
      BY <2>3, <3>1 DEF Seen, View
  <2>5. KindOf[r[3]] \in {"span", "void", "zero", "wild"}
    BY <2>3 DEF Environment, CallAssumption, Backend!MaterializerAssumption,
       Backend!RecordKinds
  <2> QED
    BY <2>2, <2>4, <2>5 DEF Calls!Readable
<1> QED
  BY <1>2, <1>3, Invariants, Composition, SameSpec, PTL
     DEF ImplementsMaterializer, Calls!EventsExact, CondemnedUnconfirmed

\* Nothing is made up on the way: a committed row is one of a body that a
\* client sent and that was not refused for its size, whatever was torn,
\* whatever call was aborted and whatever is deleted since.
THEOREM NothingInvented ==
  Environment /\ CallAssumption => (PipelineSpec => []OnlySentCommitted)
<1> SUFFICES ASSUME Environment, CallAssumption PROVE PipelineSpec => []OnlySentCommitted
  OBVIOUS
<1>1. Calls!MaterializerAssumption /\ "clock" \notin CallFaults
  BY DEF CallAssumption, Backend!MaterializerAssumption, Calls!MaterializerAssumption,
     Backend!RecordKinds, Calls!RecordKinds, Backend!FaultKinds, Calls!FaultKinds
<1>2. Calls!Spec => [](Calls!Inv /\ Calls!GapInv /\ Calls!InOrder)
  BY <1>1, Calls!Ordered
<1>3. PipelineSpec => []SentInv
  <2>1. PipelineInit => SentInv
    BY DEF PipelineInit, Init, SentInv
  <2>2. PipelineInv /\ SentInv /\ [PipelineNext]_pipelineVars => SentInv'
    <3> SUFFICES ASSUME PipelineInv, SentInv, [PipelineNext]_pipelineVars PROVE SentInv'
      OBVIOUS
    <3>1. [Next]_vars
      BY DEF PipelineNext, GatewayStep, CallStep, pipelineVars, vars
    <3> QED
      BY <3>1, NextSent DEF Environment, PipelineInv
  <2> QED
    BY <2>1, <2>2, Invariants, PTL DEF PipelineSpec
<1>4. PipelineInv /\ SentInv /\ Calls!InOrder => OnlySentCommitted
  <2> SUFFICES ASSUME PipelineInv, SentInv, Calls!InOrder, NEW c \in Backend!Committed
               PROVE  /\ c[2] \in 1..Len(wal[c[1]])
                      /\ wal[c[1]][c[2]] \in Payloads \ TooLarge
    BY DEF OnlySentCommitted
  <2>1. c \in Calls!Written
    BY DEF Calls!InOrder, Calls!Committed, Backend!Committed
  <2>2. /\ c[1] \in Keys /\ c[2] \in 1..MaxRecords /\ c[2] <= Len(Seen[c[1]])
        /\ Calls!HasRows(Seen[c[1]][c[2]])
    BY <2>1 DEF Calls!Written, Calls!Records, Calls!Keys, Keys, Calls!Size
  <2>3. c[2] \in 1..Len(wal[c[1]]) /\ wal[c[1]][c[2]] \in Records
    <3>1. c[2] \in 1..Len(wal[c[1]])
      BY <2>2, SeenSize DEF PipelineInv, Environment
    <3> QED
      BY <2>2, <3>1, ElementOfSeq DEF PipelineInv, Inv, TypeOK
  <2>4. Seen[c[1]][c[2]] = Cell(wal[c[1]][c[2]])
    BY <2>2, <2>3 DEF Seen, View
  <2>5. wal[c[1]][c[2]] # Torn
    BY <2>2, <2>4 DEF Cell, Calls!HasRows
  <2> QED
    BY <2>2, <2>3, <2>5 DEF SentInv, Records
<1> QED
  BY <1>2, <1>3, <1>4, Invariants, Composition, SameSpec, PTL DEF ImplementsMaterializer

=============================================================================
