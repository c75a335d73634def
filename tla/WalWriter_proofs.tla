-------------------------- MODULE WalWriter_proofs --------------------------
(***************************************************************************)
(* Proofs about WalWriter for any threads, bodies, limits and faults: type *)
(* correctness, durability of what was confirmed, that it implements       *)
(* AckLog, that the mutex is released on every path, and that segments     *)
(* stay bounded.                                                           *)
(*                                                                         *)
(* Durability is not inductive.  The record a thread is writing must be    *)
(* the last of the open segment and beyond what fsync has covered, or the  *)
(* next write could hit a confirmed one (WriteInv); that needs the mutex   *)
(* to keep other writers away (MutexInv); and between fsync and the 200 a  *)
(* thread's record must stay where it put it (StoredInv).                  *)
(*                                                                         *)
(* The bound on a segment is about a sum, a fold over a set.  The provers  *)
(* have no induction over data, so the sum is counted instead: it is the   *)
(* cardinality of the set of the records' bytes (SumIsCount), or else      *)
(* there would be a smallest set of records for which it is not.  Between  *)
(* fsync and the 200 a record counts as well (BoundInv).                   *)
(***************************************************************************)
EXTENDS WalWriter, SequenceTheorems, FiniteSetTheorems, TLAPS

Writing == {"header", "payload", "fsync"}

SyncedInv == \A k \in Keys : synced[k] <= Len(wal[k])

MutexInv ==
    \A t \in Threads : /\ pc[t] \in Writing \union {"open"} => mutex = t
                       /\ pc[t] \in Writing => handle # NoKey
                       /\ pc[t] # "idle" => body[t] \in Payloads /\ up

WriteInv ==
    \A t \in Threads :
      /\ pc[t] \in {"payload", "fsync"} => synced[handle] < Len(wal[handle])
      /\ pc[t] = "fsync" => /\ place[t] = <<handle, Len(wal[handle])>>
                            /\ wal[handle][Len(wal[handle])] = body[t]

\* The record r is in segment r[1], on stable storage, with body p.
Stored(r, p) ==
    /\ r[1] \in created
    /\ r[2] \in 1..synced[r[1]]
    /\ wal[r[1]][r[2]] = p

StoredInv == \A t \in Threads : pc[t] = "stored" => Stored(place[t], body[t])

AckedInv == \A r \in acked : Stored(<<r[1], r[2]>>, r[3])

Inv == TypeOK /\ SyncedInv /\ MutexInv /\ WriteInv /\ StoredInv /\ AckedInv

-----------------------------------------------------------------------------
\* What no step does: shrink the synced part of a segment, or change a record
\* in it.
Keeps ==
    /\ created \subseteq created'
    /\ \A k \in Keys :
         /\ synced'[k] \in Nat /\ synced[k] <= synced'[k]
         /\ synced'[k] <= Len(wal'[k])
         /\ \A i \in 1..synced[k] : wal'[k][i] = wal[k][i]

\* The initial states satisfy the invariant.
LEMMA InitInv == Init => Inv
<1> SUFFICES ASSUME Init PROVE Inv
  OBVIOUS
<1>1. handle \in Keys
  BY WalAssumption DEF Init, Keys
<1>2. \A k \in Keys : wal[k] = <<>> /\ synced[k] = 0
  BY DEF Init
<1>3. wal \in [Keys -> Seq(Records)]
  BY <1>2, EmptySeq DEF Init
<1>4. TypeOK
  BY <1>1, <1>3 DEF Init, TypeOK, Locations, NoPlace
<1> QED
  BY <1>2, <1>4 DEF Init, Inv, SyncedInv, MutexInv, WriteInv, StoredInv, AckedInv,
     Writing

\* A record on stable storage stays there.
LEMMA StaysStored ==
  ASSUME Inv, Keeps, NEW r, NEW p, Stored(r, p)
  PROVE  Stored(r, p)'
<1>1. r[1] \in Keys /\ synced[r[1]] \in Nat /\ created \subseteq Keys
  BY DEF Inv, TypeOK, Stored
<1>2. r[2] \in 1..synced[r[1]] /\ r[1] \in created'
  BY DEF Stored, Keeps
<1>3. synced'[r[1]] \in Int /\ synced[r[1]] <= synced'[r[1]]
      => r[2] \in 1..synced'[r[1]]
  BY <1>1, <1>2
<1> QED
  BY <1>1, <1>2, <1>3 DEF Stored, Keeps

\* The file system calls leave the synced records alone.  An append to the
\* open segment:
LEMMA Appended ==
  ASSUME Inv, handle # NoKey, UNCHANGED <<created, synced>>,
         wal' = [wal EXCEPT ![handle] = Append(@, Torn)]
  PROVE  /\ wal' \in [Keys -> Seq(Records)]
         /\ Keeps
         /\ Len(wal'[handle]) = Len(wal[handle]) + 1
<1>1. handle \in Keys /\ wal \in [Keys -> Seq(Records)] /\ synced \in [Keys -> Nat]
  BY DEF Inv, TypeOK
<1>2. /\ Append(wal[handle], Torn) \in Seq(Records)
      /\ Len(Append(wal[handle], Torn)) = Len(wal[handle]) + 1
      /\ \A i \in 1..Len(wal[handle]) : Append(wal[handle], Torn)[i] = wal[handle][i]
  BY <1>1, AppendProperties DEF Records
<1>3. \A k \in Keys : synced[k] <= Len(wal[k]) /\ Len(wal[k]) \in Nat
  BY <1>1, LenProperties DEF Inv, SyncedInv
<1> QED
  BY <1>1, <1>2, <1>3 DEF Keeps

\* Completing its last record, while fsync has not covered it:
LEMMA Completed ==
  ASSUME Inv, handle # NoKey, synced[handle] < Len(wal[handle]),
         NEW p \in Payloads, UNCHANGED <<created, synced>>,
         wal' = [wal EXCEPT ![handle][Len(wal[handle])] = p]
  PROVE  /\ wal' \in [Keys -> Seq(Records)]
         /\ Keeps
         /\ Len(wal'[handle]) = Len(wal[handle])
         /\ wal'[handle][Len(wal[handle])] = p
<1> DEFINE s == wal[handle]
<1> DEFINE n == Len(s)
<1>1. handle \in Keys /\ wal \in [Keys -> Seq(Records)] /\ synced \in [Keys -> Nat]
  BY DEF Inv, TypeOK
<1>2. s \in Seq(Records) /\ n \in 1..n /\ p \in Records
  BY <1>1, LenProperties DEF Records
<1>3. /\ [s EXCEPT ![n] = p] \in Seq(Records)
      /\ Len([s EXCEPT ![n] = p]) = n
      /\ \A i \in 1..n : [s EXCEPT ![n] = p][i] = IF i = n THEN p ELSE s[i]
  BY <1>2, ExceptSeq
<1>4. ASSUME NEW k \in Keys
      PROVE  synced[k] <= Len(wal[k]) /\ Len(wal[k]) \in Nat
  <2>1. wal[k] \in Seq(Records)
    BY <1>1
  <2> QED
    BY <2>1, LenProperties DEF Inv, SyncedInv
<1>5. wal' = [wal EXCEPT ![handle] = [s EXCEPT ![n] = p]]
  BY <1>1
<1> QED
  BY <1>1, <1>2, <1>3, <1>4, <1>5 DEF Keeps

\* And a power failure:
LEMMA Cut ==
  ASSUME Inv, PowerLoss
  PROVE  wal' \in [Keys -> Seq(Records)] /\ Keeps
<1>1. wal \in [Keys -> Seq(Records)] /\ synced \in [Keys -> Nat]
  BY DEF Inv, TypeOK
<1>2. created' = created /\ synced' = synced
  BY DEF PowerLoss, Stop
<1> DEFINE kept(k) == SubSeq(wal[k], 1, synced[k])
<1>3. /\ wal' = [k \in Keys |-> wal'[k]]
      /\ \A k \in Keys : wal'[k] \in {wal[k], kept(k), Append(kept(k), Torn)}
  <2>1. PICK lost, part :
          wal' = [k \in Keys |-> IF k \in part THEN Append(kept(k), Torn)
                                 ELSE IF k \in lost THEN kept(k) ELSE wal[k]]
    BY DEF PowerLoss
  <2> HIDE DEF kept
  <2> QED
    BY <2>1
<1>4. ASSUME NEW k \in Keys
      PROVE  /\ kept(k) \in Seq(Records)
             /\ Len(kept(k)) = synced[k]
             /\ \A i \in 1..synced[k] : kept(k)[i] = wal[k][i]
  <2>1. synced[k] <= Len(wal[k]) /\ Len(wal[k]) \in Nat /\ synced[k] \in Nat
    BY <1>1, LenProperties DEF Inv, SyncedInv
  <2>2. \A i \in 1..synced[k] : wal[k][i] \in Records
    BY <1>1, <2>1, ElementOfSeq
  <2> QED
    BY <2>1, <2>2, SubSeqProperties
<1>5. ASSUME NEW k \in Keys
      PROVE  /\ Append(kept(k), Torn) \in Seq(Records)
             /\ Len(Append(kept(k), Torn)) = synced[k] + 1
             /\ \A i \in 1..synced[k] : Append(kept(k), Torn)[i] = wal[k][i]
  BY <1>4, AppendProperties DEF Records
<1>6. ASSUME NEW k \in Keys
      PROVE  /\ wal'[k] \in Seq(Records)
             /\ synced[k] <= Len(wal'[k])
             /\ \A i \in 1..synced[k] : wal'[k][i] = wal[k][i]
  <2>1. synced[k] \in Nat /\ synced[k] <= Len(wal[k]) /\ wal[k] \in Seq(Records)
    BY <1>1 DEF Inv, SyncedInv
  <2>2. wal'[k] = wal[k] \/ wal'[k] = kept(k) \/ wal'[k] = Append(kept(k), Torn)
    BY <1>3
  <2>3. CASE wal'[k] = wal[k]
    BY <2>1, <2>3
  <2>4. CASE wal'[k] = kept(k)
    BY <1>4, <2>1, <2>4
  <2>5. CASE wal'[k] = Append(kept(k), Torn)
    BY <1>5, <2>1, <2>5
  <2> QED
    BY <2>2, <2>3, <2>4, <2>5
<1>7. wal' \in [Keys -> Seq(Records)]
  BY <1>3, <1>6
<1> QED
  BY <1>1, <1>2, <1>6, <1>7 DEF Keeps

-----------------------------------------------------------------------------
\* A step that confirms nothing and finishes no fsync only has to keep types,
\* mutex and the record being written in order.
LEMMA Preserved ==
  ASSUME Inv, Keeps, TypeOK', MutexInv', WriteInv', acked' = acked,
         \A t \in Threads : pc'[t] = "stored" =>
           pc[t] = "stored" /\ place'[t] = place[t] /\ body'[t] = body[t]
  PROVE  Inv'
<1>1. SyncedInv'
  BY DEF Keeps, SyncedInv
<1>2. StoredInv'
  <2> SUFFICES ASSUME NEW t \in Threads, pc'[t] = "stored"
               PROVE  Stored(place[t], body[t])'
    BY DEF StoredInv
  <2>1. Stored(place[t], body[t])
    BY DEF Inv, StoredInv
  <2> QED
    BY <2>1, StaysStored DEF Stored
<1>3. AckedInv'
  <2> SUFFICES ASSUME NEW r \in acked PROVE Stored(<<r[1], r[2]>>, r[3])'
    BY DEF AckedInv
  <2>1. Stored(<<r[1], r[2]>>, r[3])
    BY DEF Inv, AckedInv
  <2> QED
    BY <2>1, StaysStored
<1> QED
  BY <1>1, <1>2, <1>3 DEF Inv

\* Types, for the steps that write nothing and for the end of the process.
LEMMA QuietTypes ==
  ASSUME TypeOK, NEW t \in Threads,
         \/ \E p \in Payloads : Request(t, p)
         \/ LockMutex(t) \/ OpenFails(t) \/ FsyncFails(t) \/ Refuse(t)
         \/ \E k \in Keys : OpenSegment(t, k)
  PROVE  TypeOK'
<1> USE DEF TypeOK, Locations, Goto, disk, counters
<1>1. ASSUME NEW p \in Payloads, Request(t, p) PROVE TypeOK'
  BY <1>1 DEF Request
<1>2. CASE LockMutex(t)
  BY <1>2 DEF LockMutex
<1>3. CASE OpenFails(t)
  BY <1>3 DEF OpenFails, Return
<1>4. CASE FsyncFails(t)
  BY <1>4 DEF FsyncFails, Return
<1>5. CASE Refuse(t)
  BY <1>5 DEF Refuse, Forget, NoPlace
<1>6. ASSUME NEW k \in Keys, OpenSegment(t, k) PROVE TypeOK'
  BY <1>6 DEF OpenSegment
<1> QED
  BY <1>1, <1>2, <1>3, <1>4, <1>5, <1>6

LEMMA StopTypes ==
  ASSUME TypeOK, Stop, wal' \in [Keys -> Seq(Records)],
         UNCHANGED <<synced, size>>
  PROVE  TypeOK'
<1> USE DEF TypeOK, Stop
<1>1. place' \in [Threads -> (Keys \union {NoKey}) \X Nat]
  BY DEF NoPlace
<1>2. /\ pc' \in [Threads -> Locations]
      /\ body' \in [Threads -> Payloads \union {NoBody}]
  BY DEF Locations
<1>3. up' \in BOOLEAN
  BY Zenon
<1>4. /\ created' \subseteq Keys /\ handle' \in created' \union {NoKey}
      /\ mutex' \in Threads \union {NoThread}
  OBVIOUS
<1>5. acked' \subseteq Keys \X Nat \X Payloads /\ requests' \in Nat /\ crashes' \in Nat
  OBVIOUS
<1> QED
  BY <1>1, <1>2, <1>3, <1>4, <1>5

\* Steps that touch no segment.
LEMMA QuietInv ==
  ASSUME Inv, NEW t \in Threads,
         \/ \E p \in Payloads : Request(t, p)
         \/ LockMutex(t) \/ OpenFails(t) \/ FsyncFails(t) \/ Refuse(t)
         \/ \E k \in Keys : OpenSegment(t, k)
  PROVE  Inv' /\ Keeps /\ acked' = acked
<1> USE WalAssumption DEF Inv, TypeOK, Locations, MutexInv, WriteInv, Writing,
        disk, counters, NoPlace
<1>1. Keeps
  <2>1. wal' = wal /\ synced' = synced /\ created \subseteq created'
    BY DEF Request, LockMutex, OpenFails, FsyncFails, Refuse, OpenSegment
  <2> QED
    BY <2>1 DEF Keeps, SyncedInv
<1>2. ASSUME NEW p \in Payloads, Request(t, p) PROVE Inv'
  <2>1. TypeOK'
    BY QuietTypes
  <2>2. MutexInv' /\ WriteInv'
    BY <1>2 DEF Request, Goto
  <2> QED
    BY <1>1, <1>2, <2>1, <2>2, Preserved DEF Request, Goto
<1>3. CASE LockMutex(t)
  <2>1. TypeOK'
    BY QuietTypes
  <2>2. MutexInv' /\ WriteInv'
    BY <1>3 DEF LockMutex, Goto, MustRotate
  <2> QED
    BY <1>1, <1>3, <2>1, <2>2, Preserved DEF LockMutex, Goto
<1>4. CASE OpenFails(t) \/ FsyncFails(t)
  <2>1. TypeOK'
    BY QuietTypes
  <2>2. MutexInv'
    BY <1>4 DEF OpenFails, FsyncFails, Return, Goto
  <2>3. WriteInv'
    <3>1. \A u \in Threads : pc'[u] \notin {"payload", "fsync"}
      BY <1>4 DEF OpenFails, FsyncFails, Return, Goto
    <3> QED
      BY <3>1
  <2> QED
    BY <1>1, <1>4, <2>1, <2>2, <2>3, Preserved DEF OpenFails, FsyncFails, Return, Goto
<1>5. CASE Refuse(t)
  <2>1. TypeOK'
    BY QuietTypes
  <2>2. MutexInv' /\ WriteInv'
    BY <1>5 DEF Refuse, Goto, Forget
  <2> QED
    BY <1>1, <1>5, <2>1, <2>2, Preserved DEF Refuse, Goto, Forget
<1>6. ASSUME NEW k \in Keys, OpenSegment(t, k) PROVE Inv'
  <2>1. TypeOK'
    BY QuietTypes
  <2>2. MutexInv'
    BY <1>6 DEF OpenSegment, Goto, Keys, NoKey
  <2>3. WriteInv'
    BY <1>6 DEF OpenSegment, Goto, Keys, NoKey
  <2> QED
    BY <1>1, <1>6, <2>1, <2>2, <2>3, Preserved DEF OpenSegment, Goto, Keys, NoKey
<1>7. acked' = acked
  BY DEF Request, LockMutex, OpenFails, FsyncFails, Refuse, OpenSegment
<1> QED
  BY <1>1, <1>2, <1>3, <1>4, <1>5, <1>6, <1>7

\* The process dies, and starts again.
LEMMA RestartInv ==
  ASSUME Inv, Crash \/ Restart
  PROVE  Inv' /\ Keeps /\ acked' = acked
<1> USE WalAssumption DEF Inv, TypeOK, Locations, MutexInv, WriteInv, Writing,
        disk, counters, NoPlace
<1>1. Keeps
  <2>1. wal' = wal /\ synced' = synced /\ created \subseteq created'
    BY DEF Crash, Restart, Stop
  <2> QED
    BY <2>1 DEF Keeps, SyncedInv
<1>2. CASE Crash
  <2>1. TypeOK'
    BY <1>2, StopTypes DEF Crash
  <2>2. MutexInv'
    BY <1>2 DEF Crash, Stop
  <2>3. WriteInv'
    BY <1>2 DEF Crash, Stop
  <2> QED
    BY <1>1, <1>2, <2>1, <2>2, <2>3, Preserved DEF Crash, Stop
<1>3. CASE Restart
  <2>1. TypeOK'
    BY <1>3 DEF Restart, Keys, NoKey
  <2>2. MutexInv'
    BY <1>3 DEF Restart, Keys, NoKey
  <2>3. WriteInv'
    BY <1>3 DEF Restart, Keys, NoKey
  <2> QED
    BY <1>1, <1>3, <2>1, <2>2, <2>3, Preserved DEF Restart, Keys, NoKey
<1>4. acked' = acked
  BY DEF Crash, Restart, Stop
<1> QED
  BY <1>1, <1>2, <1>3, <1>4

\* Steps that write to the open segment.
LEMMA WriteStepInv ==
  ASSUME Inv, NEW t \in Threads,
         WriteHeader(t) \/ WritePayload(t) \/ WriteFails(t)
  PROVE  Inv' /\ Keeps /\ acked' = acked
<1> USE WalAssumption DEF Inv, TypeOK, Locations, MutexInv, WriteInv, Writing,
        disk, counters
<1>1. ASSUME WriteHeader(t) PROVE Inv' /\ Keeps
  <2>1. /\ wal' \in [Keys -> Seq(Records)]
        /\ Keeps
        /\ Len(wal'[handle]) = Len(wal[handle]) + 1
    BY <1>1, Appended DEF WriteHeader, Goto
  <2>2. TypeOK' /\ MutexInv'
    BY <1>1, <2>1 DEF WriteHeader, Goto
  <2>3. WriteInv'
    <3>1. handle \in Keys /\ synced[handle] \in Nat /\ wal[handle] \in Seq(Records)
      BY <1>1 DEF WriteHeader, Goto
    <3>2. synced[handle] <= Len(wal[handle]) /\ Len(wal[handle]) \in Nat
      BY <3>1, LenProperties DEF SyncedInv
    <3> QED
      BY <1>1, <2>1, <3>1, <3>2 DEF WriteHeader, Goto
  <2> QED
    BY <1>1, <2>1, <2>2, <2>3, Preserved DEF WriteHeader, Goto
<1>2. ASSUME WritePayload(t) PROVE Inv' /\ Keeps
  <2>1. body[t] \in Payloads /\ handle \in Keys /\ wal[handle] \in Seq(Records)
    BY <1>2 DEF WritePayload, Goto
  <2>2. /\ wal' \in [Keys -> Seq(Records)]
        /\ Keeps
        /\ Len(wal'[handle]) = Len(wal[handle])
        /\ wal'[handle][Len(wal[handle])] = body[t]
    BY <1>2, <2>1, Completed DEF WritePayload, Goto
  <2>3. TypeOK' /\ MutexInv'
    BY <1>2, <2>1, <2>2, LenProperties DEF WritePayload, Goto
  <2>4. WriteInv'
    BY <1>2, <2>1, <2>2 DEF WritePayload, Goto
  <2> QED
    BY <1>2, <2>2, <2>3, <2>4, Preserved DEF WritePayload, Goto
<1>3. ASSUME WriteFails(t) PROVE Inv' /\ Keeps
  <2>1. wal' = wal \/ wal' = [wal EXCEPT ![handle] = Append(@, Torn)]
    BY <1>3 DEF WriteFails
  <2>2. wal' \in [Keys -> Seq(Records)] /\ Keeps
    <3>1. CASE wal' = wal
      BY <1>3, <3>1 DEF WriteFails, Keeps, SyncedInv
    <3>2. CASE wal' = [wal EXCEPT ![handle] = Append(@, Torn)]
      BY <1>3, <3>2, Appended DEF WriteFails, Return, Goto
    <3> QED
      BY <2>1, <3>1, <3>2
  <2>3. TypeOK' /\ MutexInv'
    BY <1>3, <2>2 DEF WriteFails, Return, Goto
  <2>4. WriteInv'
    BY <1>3 DEF WriteFails, Return, Goto
  <2> QED
    BY <1>3, <2>2, <2>3, <2>4, Preserved DEF WriteFails, Return, Goto
<1>4. acked' = acked
  BY DEF WriteHeader, WritePayload, WriteFails
<1> QED
  BY <1>1, <1>2, <1>3, <1>4

\* A successful fsync: every record of the open segment becomes stable, the
\* one just written among them.
LEMMA FsyncInv ==
  ASSUME Inv, NEW t \in Threads, Fsync(t)
  PROVE  Inv' /\ Keeps /\ acked' = acked
<1> USE WalAssumption DEF Inv, TypeOK, Locations, MutexInv, WriteInv, Writing,
        Fsync, Return, Goto, counters
<1>1. /\ handle \in Keys /\ handle \in created
      /\ wal[handle] \in Seq(Records)
      /\ synced[handle] \in Nat
      /\ body[t] \in Payloads
  OBVIOUS
<1>2. Len(wal[handle]) \in Nat /\ synced[handle] < Len(wal[handle])
  BY <1>1, LenProperties
<1>3. \A k \in Keys : synced'[k] = IF k = handle THEN Len(wal[handle]) ELSE synced[k]
  BY <1>1
<1>4. Keeps
  <2>1. ASSUME NEW k \in Keys
        PROVE  synced[k] \in Nat /\ synced[k] <= Len(wal[k])
    BY DEF SyncedInv
  <2>2. wal' = wal /\ created' = created
    OBVIOUS
  <2> HIDE DEF Inv, TypeOK, MutexInv, WriteInv, Fsync, Return, Goto
  <2> QED
    BY <1>2, <1>3, <2>1, <2>2 DEF Keeps
<1>5. TypeOK'
  <2>1. RecordSize[body[t]] \in Nat
    BY <1>1
  <2>2. size' \in Nat /\ synced' \in [Keys -> Nat]
    BY <1>1, <1>2, <2>1
  <2>3. mutex' = NoThread /\ pc' \in [Threads -> Locations]
    OBVIOUS
  <2> QED
    BY <2>2, <2>3
<1>6. MutexInv' /\ WriteInv'
  BY <1>1
<1>7. SyncedInv'
  BY <1>4 DEF Keeps, SyncedInv
<1>8. StoredInv'
  <2> SUFFICES ASSUME NEW u \in Threads, pc'[u] = "stored"
               PROVE  Stored(place[u], body[u])'
    BY DEF StoredInv
  <2>1. CASE u = t
    BY <1>1, <1>2, <1>3, <2>1 DEF Stored
  <2>2. CASE u # t
    <3>1. Stored(place[u], body[u])
      BY <2>2 DEF StoredInv
    <3> QED
      BY <1>4, <3>1, StaysStored DEF Stored
  <2> QED
    BY <2>1, <2>2
<1>9. AckedInv'
  <2> SUFFICES ASSUME NEW r \in acked PROVE Stored(<<r[1], r[2]>>, r[3])'
    BY DEF AckedInv
  <2>1. Stored(<<r[1], r[2]>>, r[3])
    BY DEF AckedInv
  <2> QED
    BY <1>4, <2>1, StaysStored
<1> QED
  BY <1>4, <1>5, <1>6, <1>7, <1>8, <1>9

\* Steps of the request's end and of the machine.
LEMMA ConfirmInv ==
  ASSUME Inv, NEW t \in Threads, Confirm(t)
  PROVE  Inv'
<1> USE WalAssumption DEF Inv, TypeOK, Locations, MutexInv, WriteInv, Writing,
        Confirm, Forget, Goto, disk, counters, NoPlace
<1>1. Stored(place[t], body[t]) /\ body[t] \in Payloads
  BY DEF StoredInv
<1>2. Keeps
  BY DEF Keeps, SyncedInv
<1>3. place[t][1] \in Keys /\ place[t][2] \in Nat
  BY <1>1 DEF Stored
<1>4. TypeOK'
  <2>1. acked' \subseteq Keys \X Nat \X Payloads
    BY <1>1, <1>3
  <2>2. /\ pc' \in [Threads -> Locations]
        /\ body' \in [Threads -> Payloads \union {NoBody}]
        /\ place' \in [Threads -> (Keys \union {NoKey}) \X Nat]
    OBVIOUS
  <2>3. /\ wal' = wal /\ synced' = synced /\ size' = size /\ created' = created
        /\ requests' = requests /\ crashes' = crashes
        /\ handle' = handle /\ mutex' = mutex /\ up' = up
    OBVIOUS
  <2> QED
    BY <2>1, <2>2, <2>3
<1>5. MutexInv' /\ WriteInv' /\ SyncedInv'
  BY DEF SyncedInv
<1>6. StoredInv'
  BY DEF StoredInv, Stored
<1>7. AckedInv'
  <2> SUFFICES ASSUME NEW r \in acked' PROVE Stored(<<r[1], r[2]>>, r[3])'
    BY DEF AckedInv
  <2>1. CASE r \in acked
    BY <2>1 DEF AckedInv, Stored
  <2>2. CASE r = <<place[t][1], place[t][2], body[t]>>
    BY <1>1, <2>2 DEF Stored
  <2> QED
    BY <2>1, <2>2
<1> QED
  BY <1>4, <1>5, <1>6, <1>7

LEMMA PowerLossInv ==
  ASSUME Inv, PowerLoss
  PROVE  Inv' /\ Keeps /\ acked' = acked
<1> USE WalAssumption DEF Inv, TypeOK, Locations, MutexInv, WriteInv, Writing, NoPlace
<1>1. wal' \in [Keys -> Seq(Records)] /\ Keeps
  BY Cut
<1>2. TypeOK'
  BY <1>1, StopTypes DEF PowerLoss
<1>3. MutexInv' /\ WriteInv'
  BY DEF PowerLoss, Stop
<1> QED
  BY <1>1, <1>2, <1>3, Preserved DEF PowerLoss, Stop

\* A step other than the sending of a 200.
LEMMA OtherInv ==
  ASSUME Inv, Next
  PROVE  \/ \E t \in Threads : Confirm(t)
         \/ Inv' /\ Keeps /\ acked' = acked
<1>1. ASSUME NEW t \in Threads, NEW p \in Payloads, Request(t, p)
      PROVE  Inv' /\ Keeps /\ acked' = acked
  BY <1>1, QuietInv
<1>2. ASSUME NEW t \in Threads,
             LockMutex(t) \/ OpenFails(t) \/ FsyncFails(t) \/ Refuse(t)
      PROVE  Inv' /\ Keeps /\ acked' = acked
  BY <1>2, QuietInv
<1>3. ASSUME NEW t \in Threads, NEW k \in Keys, OpenSegment(t, k)
      PROVE  Inv' /\ Keeps /\ acked' = acked
  BY <1>3, QuietInv
<1>4. ASSUME NEW t \in Threads, AppendStep(t)
      PROVE  Inv' /\ Keeps /\ acked' = acked
  BY <1>2, <1>3, <1>4, WriteStepInv, FsyncInv DEF AppendStep
<1> QED
  BY <1>1, <1>2, <1>4, RestartInv, PowerLossInv DEF Next, Handle

\* Every step preserves the invariant.
LEMMA NextInv == Inv /\ [Next]_vars => Inv'
<1> SUFFICES ASSUME Inv, [Next]_vars PROVE Inv'
  OBVIOUS
<1>1. CASE UNCHANGED vars
  BY <1>1 DEF vars, Inv, TypeOK, SyncedInv, MutexInv, WriteInv, StoredInv,
     AckedInv, Stored
<1>2. CASE Next
  BY <1>2, OtherInv, ConfirmInv
<1> QED
  BY <1>1, <1>2

-----------------------------------------------------------------------------
\* The strengthened invariant holds in every reachable state.
THEOREM Invariant == Spec => []Inv
  BY InitInv, NextInv, PTL DEF Spec

\* Type correctness.
THEOREM TypeCorrect == Spec => []TypeOK
<1>1. Inv => TypeOK
  BY DEF Inv
<1> QED
  BY <1>1, Invariant, PTL

\* What was confirmed is durable, for any number of threads, bodies, segment
\* limits, failures and crashes (http_server.cpp:166, wal_writer.cpp:112-121).
THEOREM Durability == Spec => []AckedDurable
<1>1. Inv => AckedDurable
  <2> SUFFICES ASSUME Inv, NEW r \in acked
               PROVE  /\ r[2] \in 1..synced[r[1]]
                      /\ r[2] <= Len(wal[r[1]])
                      /\ wal[r[1]][r[2]] = r[3]
    BY DEF AckedDurable
  <2>1. Stored(<<r[1], r[2]>>, r[3]) /\ r[1] \in Keys
    BY DEF Inv, AckedInv, TypeOK
  <2>2. /\ wal[r[1]] \in Seq(Records) /\ synced[r[1]] \in Nat
        /\ synced[r[1]] <= Len(wal[r[1]])
    BY <2>1 DEF Inv, TypeOK, SyncedInv
  <2> QED
    BY <2>1, <2>2, LenProperties DEF Stored
<1> QED
  BY <1>1, Invariant, PTL

\* Records that are complete and covered by fsync only accumulate.
LEMMA DurableGrows ==
  ASSUME Inv, Keeps
  PROVE  Durable \subseteq Durable'
<1> SUFFICES ASSUME NEW k \in created, NEW i \in 1..synced[k], wal[k][i] # Torn
             PROVE  <<k, i, wal[k][i]>> \in Durable'
  BY DEF Durable
<1>1. k \in Keys /\ k \in created' /\ synced[k] \in Nat
  BY DEF Inv, TypeOK, Keeps
<1>2. /\ synced'[k] \in Nat /\ synced[k] <= synced'[k]
      /\ wal'[k][i] = wal[k][i]
  BY <1>1 DEF Keeps
<1>3. i \in 1..synced'[k]
  BY <1>1, <1>2
<1> QED
  BY <1>1, <1>2, <1>3 DEF Durable

\* The writer implements AckLog: a 200 confirms a record that is durable, and
\* no other step takes a durable record away.
THEOREM Implementation == Spec => ImplementsAckLog
<1>1. Init => Log!Init
  <2> SUFFICES ASSUME Init PROVE Durable = {}
    BY DEF Init, Log!Init
  <2>1. \A k \in created : synced[k] = 0
    BY WalAssumption DEF Init, Keys
  <2>2. ASSUME NEW k \in created
        PROVE  {<<k, i, wal[k][i]>> : i \in {j \in 1..synced[k] : wal[k][j] # Torn}} = {}
    BY <2>1
  <2> QED
    BY <2>2 DEF Durable
<1>2. Inv /\ [Next]_vars => [Log!Next]_<<Durable, acked>>
  <2> SUFFICES ASSUME Inv, [Next]_vars PROVE [Log!Next]_<<Durable, acked>>
    OBVIOUS
  <2>1. CASE UNCHANGED vars
    BY <2>1 DEF vars, Durable
  <2>2. ASSUME NEW t \in Threads, Confirm(t) PROVE Log!Ack
    <3> DEFINE r == <<place[t][1], place[t][2], body[t]>>
    <3>1. Stored(place[t], body[t]) /\ body[t] \in Payloads
      BY <2>2 DEF Inv, StoredInv, MutexInv, Confirm, Goto
    <3>2. body[t] # Torn
      BY <3>1, WalAssumption
    <3>3. r \in Durable
      BY <3>1, <3>2 DEF Stored, Durable
    <3>4. Durable' = Durable /\ acked' = acked \union {r}
      BY <2>2 DEF Confirm, Durable, disk
    <3> QED
      BY <3>3, <3>4 DEF Log!Ack
  <2>3. ASSUME Keeps, acked' = acked PROVE Log!Persist
    BY <2>3, DurableGrows DEF Log!Persist
  <2> QED
    BY <2>1, <2>2, <2>3, OtherInv DEF Log!Next
<1> QED
  BY <1>1, <1>2, Invariant, PTL DEF Spec, ImplementsAckLog, Log!Spec

-----------------------------------------------------------------------------
\* When no write fails, torn bytes are only ever the record being written or
\* the end of a segment that nobody writes any more.
TornInv ==
    /\ \A k \in Keys \ created : Len(wal[k]) = 0
    /\ \A k \in Keys : \A i \in 1..synced[k] : wal[k][i] # Torn
    /\ handle # NoKey =>
         \A i \in 1..Len(wal[handle]) : wal[handle][i] = Torn =>
           i = Len(wal[handle]) /\ \E t \in Threads : pc[t] = "payload"

\* The initial states satisfy it.
LEMMA InitTorn == Init => TornInv
<1> SUFFICES ASSUME Init PROVE TornInv
  OBVIOUS
<1>1. \A k \in Keys : wal[k] = <<>> /\ synced[k] = 0 /\ Len(wal[k]) = 0
  BY DEF Init
<1>2. handle \in Keys
  BY WalAssumption DEF Init, Keys
<1> QED
  BY <1>1, <1>2 DEF TornInv

\* Every step that no failing write takes preserves it.
LEMMA NextTorn ==
  ASSUME "write" \notin Faults, Inv, TornInv, [Next]_vars
  PROVE  TornInv'
<1> USE DEF Inv, TypeOK, TornInv
<1>1. ASSUME wal' = wal, synced' = synced, created' = created,
             handle' \in {handle, NoKey},
             \A t \in Threads : pc[t] = "payload" /\ handle' # NoKey => pc'[t] = "payload"
      PROVE  TornInv'
  BY <1>1
<1>2. ASSUME NEW t \in Threads,
             \/ \E p \in Payloads : Request(t, p)
             \/ LockMutex(t) \/ OpenFails(t) \/ FsyncFails(t)
             \/ Confirm(t) \/ Refuse(t)
      PROVE  TornInv'
  BY <1>1, <1>2 DEF Request, LockMutex, OpenFails, FsyncFails, Confirm, Refuse,
     Return, Goto, disk
<1>3. ASSUME NEW k \in Keys \ created, created' = created \union {k},
             handle' = k, wal' = wal, synced' = synced
      PROVE  TornInv'
  BY <1>3
<1>4. ASSUME NEW t \in Threads, NEW k \in Keys, OpenSegment(t, k) PROVE TornInv'
  BY <1>3, <1>4 DEF OpenSegment, FreshKey
<1>5. CASE Restart
  BY <1>3, <1>5 DEF Restart, FreshKey
<1>6. CASE Crash
  BY <1>1, <1>6 DEF Crash, Stop
<1>7. CASE UNCHANGED vars
  BY <1>1, <1>7 DEF vars
<1>8. ASSUME NEW t \in Threads, WriteHeader(t) PROVE TornInv'
  <2> DEFINE s == wal[handle]
  <2>1. /\ handle \in Keys /\ handle # NoKey /\ handle \in created
        /\ mutex = t /\ \A u \in Threads : pc[u] # "payload"
    BY <1>8 DEF WriteHeader, Goto, MutexInv, Writing
  <2>2. s \in Seq(Records)
    BY <2>1
  <2>3. /\ Len(Append(s, Torn)) = Len(s) + 1 /\ Len(s) \in Nat
        /\ \A i \in 1..Len(s) : Append(s, Torn)[i] = s[i]
    BY <2>2, AppendProperties, LenProperties DEF Records
  <2>4. \A i \in 1..Len(s) : s[i] # Torn
    BY <2>1
  <2>5. /\ wal' = [wal EXCEPT ![handle] = Append(s, Torn)]
        /\ synced' = synced /\ created' = created /\ handle' = handle
        /\ pc'[t] = "payload"
    BY <1>8 DEF WriteHeader, Goto
  <2>6. \A k \in Keys : synced[k] \in Nat /\ synced[k] <= Len(wal[k])
    BY DEF SyncedInv
  <2> HIDE DEF s
  <2>7. \A k \in Keys : wal'[k] = IF k = handle THEN Append(s, Torn) ELSE wal[k]
    BY <2>1, <2>5
  <2>8. \A k \in Keys \ created' : Len(wal'[k]) = 0
    BY <2>1, <2>5, <2>7
  <2>9. ASSUME NEW k \in Keys, NEW i \in 1..synced'[k] PROVE wal'[k][i] # Torn
    <3>1. CASE k = handle
      <4>1. i \in 1..Len(s)
        BY <2>3, <2>5, <2>6, <3>1 DEF s
      <4> QED
        BY <2>3, <2>4, <2>7, <3>1, <4>1
    <3>2. CASE k # handle
      BY <2>5, <2>7, <3>2
    <3> QED
      BY <3>1, <3>2
  <2>10. ASSUME NEW i \in 1..Len(wal'[handle]), wal'[handle][i] = Torn
         PROVE  i = Len(wal'[handle])
    <3>1. wal'[handle] = Append(s, Torn)
      BY <2>1, <2>7
    <3>2. i \in 1..(Len(s) + 1) /\ Append(s, Torn)[i] = Torn
      BY <2>3, <2>10, <3>1
    <3>3. ~(i \in 1..Len(s))
      BY <2>3, <2>4, <3>2
    <3> QED
      BY <2>3, <3>1, <3>2, <3>3
  <2> QED
    BY <2>5, <2>8, <2>9, <2>10
<1>9. ASSUME NEW t \in Threads, WritePayload(t) PROVE TornInv'
  <2> DEFINE n == Len(wal[handle])
  <2>1. /\ handle \in Keys /\ handle # NoKey /\ handle \in created
        /\ body[t] \in Payloads /\ body[t] # Torn /\ synced[handle] < n
    BY <1>9, WalAssumption DEF WritePayload, Goto, MutexInv, WriteInv, Writing
  <2>2. /\ wal' \in [Keys -> Seq(Records)]
        /\ Len(wal'[handle]) = n
        /\ wal'[handle][n] = body[t]
    BY <1>9, <2>1, Completed DEF WritePayload
  <2>3. /\ wal' = [wal EXCEPT ![handle] = [wal[handle] EXCEPT ![n] = body[t]]]
        /\ synced' = synced /\ created' = created /\ handle' = handle
    BY <1>9 DEF WritePayload
  <2>4. \A i \in 1..n : i # n => wal'[handle][i] = wal[handle][i]
    BY <2>1, <2>3
  <2>5. \A k \in Keys : k # handle => wal'[k] = wal[k]
    BY <2>1, <2>3
  <2>6. n \in Nat /\ \A k \in Keys : synced[k] \in Nat
    BY <2>1, LenProperties
  <2> HIDE DEF n
  <2>7. \A k \in Keys \ created' : Len(wal'[k]) = 0
    BY <2>1, <2>3, <2>5
  <2>8. ASSUME NEW k \in Keys, NEW i \in 1..synced'[k] PROVE wal'[k][i] # Torn
    BY <2>1, <2>3, <2>4, <2>5, <2>6
  <2>9. ASSUME NEW i \in 1..n PROVE wal'[handle][i] # Torn
    BY <2>1, <2>2, <2>4, <2>6 DEF n
  <2> QED
    BY <2>2, <2>3, <2>7, <2>8, <2>9
<1>10. ASSUME NEW t \in Threads, Fsync(t) PROVE TornInv'
  <2>1. /\ handle \in Keys /\ handle # NoKey
        /\ \A u \in Threads : pc[u] # "payload"
    BY <1>10 DEF Fsync, Return, Goto, MutexInv, Writing
  <2>2. /\ wal' = wal /\ created' = created /\ handle' = handle
        /\ synced' = [synced EXCEPT ![handle] = Len(wal[handle])]
    BY <1>10 DEF Fsync
  <2> QED
    BY <2>1, <2>2
<1>11. CASE PowerLoss
  <2>1. Keeps
    BY <1>11, Cut
  <2>2. handle' = NoKey /\ synced' = synced /\ created' = created
    BY <1>11 DEF PowerLoss, Stop
  <2>3. \A k \in Keys \ created : wal'[k] = wal[k]
    BY <1>11 DEF PowerLoss
  <2> QED
    BY <2>1, <2>2, <2>3 DEF Keeps
<1>12. ASSUME NEW t \in Threads PROVE ~WriteFails(t)
  BY DEF WriteFails
<1> QED
  BY <1>2, <1>4, <1>5, <1>6, <1>7, <1>8, <1>9, <1>10, <1>11, <1>12
     DEF Next, Handle, AppendStep

\* What was confirmed can be read back, unless a write fails: crashes, power
\* failures, failing opens and fsyncs never put torn bytes in front of a
\* confirmed record.  (Run WalTornReadable shows that a failing write does.)
THEOREM Readability == "write" \notin Faults => (Spec => []AckedReadable)
<1> SUFFICES ASSUME "write" \notin Faults PROVE Spec => []AckedReadable
  OBVIOUS
<1>1. Init => TornInv
  BY InitTorn
<1>2. Inv /\ TornInv /\ [Next]_vars => TornInv'
  BY NextTorn
<1>3. Inv /\ TornInv => AckedReadable
  <2> SUFFICES ASSUME Inv, TornInv, NEW r \in acked, NEW i \in 1..r[2]
               PROVE  wal[r[1]][i] # Torn
    BY DEF AckedReadable
  <2>1. r[1] \in Keys /\ r[2] \in 1..synced[r[1]] /\ synced[r[1]] \in Nat
    BY DEF Inv, AckedInv, TypeOK, Stored
  <2>2. i \in 1..synced[r[1]]
    BY <2>1
  <2> QED
    BY <2>1, <2>2 DEF TornInv
<1> QED
  BY <1>1, <1>2, <1>3, Invariant, PTL DEF Spec

-----------------------------------------------------------------------------
\* With a clock that never steps back, the open segment is the newest.
NewestInv == handle # NoKey => \A j \in created : j <= handle

LEMMA NextNewest ==
  ASSUME "clock" \notin Faults, Inv, NewestInv, [Next]_vars
  PROVE  NewestInv'
<1> USE DEF NewestInv
<1>1. ASSUME NEW k \in Keys, FreshKey(k), created' = created \union {k}, handle' = k
      PROVE  NewestInv'
  BY <1>1 DEF FreshKey, Keys, Inv, TypeOK
<1>2. ASSUME handle' \in {handle, NoKey}, created' = created PROVE NewestInv'
  BY <1>2
<1>3. ASSUME NEW t \in Threads, NEW k \in Keys, OpenSegment(t, k) PROVE NewestInv'
  BY <1>1, <1>3 DEF OpenSegment
<1>4. ASSUME NEW t \in Threads,
             \/ \E p \in Payloads : Request(t, p)
             \/ LockMutex(t) \/ OpenFails(t) \/ WriteHeader(t) \/ WritePayload(t)
             \/ WriteFails(t) \/ Fsync(t) \/ FsyncFails(t) \/ Confirm(t) \/ Refuse(t)
      PROVE  NewestInv'
  BY <1>2, <1>4 DEF Request, LockMutex, OpenFails, WriteHeader, WritePayload,
     WriteFails, Fsync, FsyncFails, Confirm, Refuse, disk
<1>5. CASE Restart
  BY <1>1, <1>5 DEF Restart
<1>6. CASE Crash \/ PowerLoss
  BY <1>2, <1>6 DEF Crash, PowerLoss, Stop
<1>7. CASE UNCHANGED vars
  BY <1>2, <1>7 DEF vars
<1> QED
  BY <1>3, <1>4, <1>5, <1>6, <1>7 DEF Next, Handle, AppendStep

\* A power failure makes no segment longer.
LEMMA PowerShrinks ==
  ASSUME Inv, PowerLoss, NEW k \in Keys
  PROVE  Len(wal'[k]) <= Len(wal[k])
<1> DEFINE kept == SubSeq(wal[k], 1, synced[k])
<1>1. /\ wal[k] \in Seq(Records) /\ Len(wal[k]) \in Nat
      /\ synced[k] \in Nat /\ synced[k] <= Len(wal[k])
  BY LenProperties DEF Inv, TypeOK, SyncedInv
<1>2. \/ wal'[k] = wal[k] \/ wal'[k] = kept
      \/ wal'[k] = Append(kept, Torn) /\ Len(wal[k]) > synced[k]
  <2>1. PICK lost, part :
          /\ lost \subseteq {c \in created : Len(wal[c]) > synced[c]} /\ part \subseteq lost
          /\ wal' = [c \in Keys |-> LET K == SubSeq(wal[c], 1, synced[c]) IN
                                   IF c \in part THEN Append(K, Torn)
                                   ELSE IF c \in lost THEN K ELSE wal[c]]
    BY DEF PowerLoss
  <2>2. wal'[k] = IF k \in part THEN Append(kept, Torn)
                  ELSE IF k \in lost THEN kept ELSE wal[k]
    BY <2>1
  <2> HIDE DEF kept
  <2> QED
    BY <2>1, <2>2
<1>3. kept \in Seq(Records) /\ Len(kept) = synced[k]
  <2>1. \A i \in 1..synced[k] : wal[k][i] \in Records
    BY <1>1, ElementOfSeq
  <2> QED
    BY <1>1, <2>1, SubSeqProperties
<1>4. Len(Append(kept, Torn)) = synced[k] + 1
  BY <1>3, AppendProperties DEF Records
<1> HIDE DEF kept
<1> QED
  BY <1>1, <1>2, <1>3, <1>4

\* Only the newest segment grows, if the clock never steps back: the
\* materializer may take every other one for finished (materializer.py:474-476).
THEOREM NewestGrows == "clock" \notin Faults => (Spec => OnlyNewestGrows)
<1> SUFFICES ASSUME "clock" \notin Faults PROVE Spec => OnlyNewestGrows
  OBVIOUS
<1>1. Init => NewestInv
  BY WalAssumption DEF Init, NewestInv, Keys
<1>2. Inv /\ NewestInv /\ [Next]_vars => NewestInv'
  BY NextNewest
<1>3. Inv /\ NewestInv /\ [Next]_vars
      => [\A k \in Keys : Len(wal'[k]) > Len(wal[k]) => \A j \in created : j <= k]_vars
  <2> SUFFICES ASSUME Inv, NewestInv, Next, NEW k \in Keys, Len(wal'[k]) > Len(wal[k])
               PROVE  \A j \in created : j <= k
    OBVIOUS
  <2>1. wal' # wal /\ Len(wal[k]) \in Nat
    BY LenProperties DEF Inv, TypeOK
  <2>2. ~PowerLoss
    BY <2>1, PowerShrinks DEF Inv, TypeOK
  <2>3. PICK t \in Threads : WriteHeader(t) \/ WritePayload(t) \/ WriteFails(t)
    BY <2>1, <2>2 DEF Next, Handle, AppendStep, Request, LockMutex, OpenSegment, OpenFails,
       Fsync, FsyncFails, Confirm, Refuse, Crash, Restart, disk
  <2>4. handle # NoKey
    BY <2>3 DEF Inv, MutexInv, Writing, WriteHeader, WritePayload, WriteFails, Return, Goto
  <2>5. k = handle
    BY <2>1, <2>3, <2>4 DEF Inv, TypeOK, WriteHeader, WritePayload, WriteFails
  <2> QED
    BY <2>4, <2>5 DEF NewestInv
<1> QED
  BY <1>1, <1>2, <1>3, Invariant, PTL DEF Spec, OnlyNewestGrows
-----------------------------------------------------------------------------
\* The mutex is held by a thread that is inside append() and past its lock,
\* and by no other: no return, failure or crash leaves it behind.
HeldInside ==
    mutex # NoThread =>
      mutex \in Threads /\ pc[mutex] \in {"open", "header", "payload", "fsync"}

LEMMA NextHeld ==
  ASSUME Inv, HeldInside, [Next]_vars
  PROVE  HeldInside'
<1> USE DEF HeldInside, Inv, TypeOK, Goto, Return
<1>1. ASSUME NEW t \in Threads, NEW p \in Payloads, Request(t, p) PROVE HeldInside'
  BY <1>1 DEF Request
<1>2. ASSUME NEW t \in Threads, LockMutex(t) PROVE HeldInside'
  BY <1>2 DEF LockMutex
<1>3. ASSUME NEW t \in Threads, NEW k \in Keys, OpenSegment(t, k) PROVE HeldInside'
  BY <1>3 DEF OpenSegment
<1>4. ASSUME NEW t \in Threads, WriteHeader(t) \/ WritePayload(t) PROVE HeldInside'
  BY <1>4 DEF WriteHeader, WritePayload
<1>5. ASSUME NEW t \in Threads,
             OpenFails(t) \/ WriteFails(t) \/ Fsync(t) \/ FsyncFails(t)
      PROVE  HeldInside'
  BY <1>5 DEF OpenFails, WriteFails, Fsync, FsyncFails
<1>6. ASSUME NEW t \in Threads, Confirm(t) \/ Refuse(t) PROVE HeldInside'
  BY <1>6 DEF Confirm, Refuse
<1>7. CASE Crash \/ PowerLoss
  BY <1>7 DEF Crash, PowerLoss, Stop
<1>8. CASE Restart
  BY <1>8 DEF Restart
<1>9. CASE UNCHANGED vars
  BY <1>9 DEF vars
<1> QED
  BY <1>1, <1>2, <1>3, <1>4, <1>5, <1>6, <1>7, <1>8, <1>9 DEF Next, Handle, AppendStep

\* No path of append() ends with the mutex held (wal_writer.cpp:101): what
\* RequestAnswered needs of every failing call, for any threads.
THEOREM MutexReleased == Spec => []HeldInside
<1>1. Init => HeldInside
  BY DEF Init, HeldInside
<1> QED
  BY <1>1, NextHeld, Invariant, PTL DEF Spec

-----------------------------------------------------------------------------
\* The sum of a set of records' sizes is how many bytes they have together.
Sum(S) == MapThenSumSet(LAMBDA r : RecordSize[r[3]], S)
Bytes(S) == {b \in S \X (Nat \ {0}) : b[2] <= RecordSize[b[1][3]]}

\* The recursion behind Sum takes one record after the other.
Taken(s) == CHOOSE r \in s : TRUE

SumsUp(f, S) ==
    f = [s \in SUBSET S |-> IF s = {} THEN 0
                            ELSE RecordSize[Taken(s)[3]] + f[s \ {Taken(s)}]]

\* Another record adds its bytes.
LEMMA OneMore ==
  ASSUME NEW S, NEW r, r \notin S, r[3] \in Payloads, IsFiniteSet(Bytes(S))
  PROVE  /\ IsFiniteSet(Bytes(S \union {r}))
         /\ Cardinality(Bytes(S \union {r})) = Cardinality(Bytes(S)) + RecordSize[r[3]]
<1> DEFINE n == RecordSize[r[3]]
           new == {<<r, i>> : i \in 1..n}
           f == [i \in 1..n |-> <<r, i>>]
<1>1. n \in Nat \ {0}
  BY WalAssumption
<1>2. IsFiniteSet(1..n) /\ Cardinality(1..n) = n
  <2> HIDE DEF n
  <2>1. n \in Int /\ 1 \in Int /\ ~(1 > n) /\ n - 1 + 1 = n
    BY <1>1
  <2> QED
    BY <2>1, FS_Interval
<1>3. f \in Bijection(1..n, new)
  <2>1. f \in [1..n -> new] /\ \A i \in 1..n : f[i] = <<r, i>>
    OBVIOUS
  <2> HIDE DEF f, n
  <2> QED
    BY <2>1 DEF Bijection, Injection, Surjection, IsInjective
<1>4. IsFiniteSet(new) /\ Cardinality(new) = n
  BY <1>2, <1>3, FS_Bijection DEF ExistsBijection
<1>5. Bytes(S \union {r}) = Bytes(S) \union new
  BY <1>1 DEF Bytes
<1>6. Bytes(S) \cap new = {}
  BY DEF Bytes
<1>7. Cardinality({}) = 0 /\ Cardinality(Bytes(S)) \in Nat
  BY FS_EmptySet, FS_CardinalityType
<1> HIDE DEF n, new, f
<1>8. IsFiniteSet(Bytes(S) \union new)
  BY <1>4, <1>6, <1>7, FS_Union
<1>9. Cardinality(Bytes(S) \union new) = Cardinality(Bytes(S)) + n
  <2>1. Cardinality(Bytes(S) \union new) = Cardinality(Bytes(S)) + Cardinality(new) - Cardinality({})
    BY <1>4, <1>6, FS_Union
  <2> QED
    BY <1>1, <1>4, <1>7, <2>1
<1>10. n = RecordSize[r[3]]
  BY DEF n
<1> QED
  BY <1>1, <1>5, <1>7, <1>8, <1>9, <1>10

\* Finitely many records have finitely many bytes: a smallest set of records
\* that had not would have after one is taken out.
LEMMA BytesFinite ==
  ASSUME NEW S, IsFiniteSet(S), \A r \in S : r[3] \in Payloads
  PROVE  IsFiniteSet(Bytes(S))
<1> DEFINE Bad == {s \in SUBSET S : ~IsFiniteSet(Bytes(s))}
<1>1. SUFFICES ASSUME Bad # {} PROVE FALSE
  OBVIOUS
<1>2. IsWellFoundedOn(StrictSubsetOrdering(S), SUBSET S)
  BY FS_StrictSubsetOrderingWellFounded, FS_FiniteSubsetsOfFinite
<1>3. PICK s \in Bad : \A u \in Bad : <<u, s>> \notin StrictSubsetOrdering(S)
  <2> HIDE DEF Bad
  <2>1. Bad \subseteq SUBSET S
    BY DEF Bad
  <2> QED
    BY <1>1, <1>2, <2>1, WFMin
<1>4. CASE s = {}
  BY <1>4, FS_EmptySet DEF Bytes
<1>5. ASSUME NEW r \in s PROVE FALSE
  <2>1. s \ {r} \in SUBSET S /\ s \ {r} # s /\ (s \ {r}) \union {r} = s
    BY <1>3, <1>5
  <2>2. IsFiniteSet(Bytes(s \ {r}))
    BY <1>3, <2>1 DEF StrictSubsetOrdering
  <2> QED
    BY <1>3, <1>5, <2>1, <2>2, OneMore
<1> QED
  BY <1>4, <1>5

\* Counting bytes satisfies the recursion,
LEMMA Counts ==
  ASSUME NEW S, IsFiniteSet(S), \A r \in S : r[3] \in Payloads
  PROVE  SumsUp([s \in SUBSET S |-> Cardinality(Bytes(s))], S)
<1> DEFINE f == [s \in SUBSET S |-> Cardinality(Bytes(s))]
<1>1. f[{}] = 0
  BY FS_EmptySet DEF Bytes
<1>2. ASSUME NEW s \in SUBSET S, s # {}
      PROVE  f[s] = RecordSize[Taken(s)[3]] + f[s \ {Taken(s)}]
  <2> DEFINE r == Taken(s)
             u == s \ {r}
  <2>1. r \in s /\ u \in SUBSET S /\ u \union {r} = s /\ r \notin u
    BY <1>2 DEF Taken
  <2>2. IsFiniteSet(Bytes(u)) /\ r[3] \in Payloads
    <3> HIDE DEF u, r
    <3>1. IsFiniteSet(u)
      BY <2>1, FS_Subset
    <3> QED
      BY <2>1, <3>1, BytesFinite
  <2>3. Cardinality(Bytes(u)) \in Nat /\ RecordSize[r[3]] \in Nat
    BY <2>2, WalAssumption, FS_CardinalityType
  <2> HIDE DEF u, r
  <2>4. Cardinality(Bytes(s)) = RecordSize[r[3]] + Cardinality(Bytes(u))
    BY <2>1, <2>2, <2>3, OneMore
  <2> QED
    BY <2>1, <2>4 DEF u, r
<1> HIDE DEF f
<1>3. f = [s \in SUBSET S |-> IF s = {} THEN 0
                            ELSE RecordSize[Taken(s)[3]] + f[s \ {Taken(s)}]]
  BY <1>1, <1>2 DEF f
<1> QED
  BY <1>3 DEF SumsUp, f

\* which determines the result: take a smallest set where two differ.
LEMMA SumsAgree ==
  ASSUME NEW S, IsFiniteSet(S), NEW f, NEW g, SumsUp(f, S), SumsUp(g, S)
  PROVE  f[S] = g[S]
<1> DEFINE Bad == {s \in SUBSET S : f[s] # g[s]}
<1>1. SUFFICES ASSUME Bad # {} PROVE FALSE
  OBVIOUS
<1>2. IsWellFoundedOn(StrictSubsetOrdering(S), SUBSET S)
  BY FS_StrictSubsetOrderingWellFounded, FS_FiniteSubsetsOfFinite
<1>3. PICK s \in Bad : \A u \in Bad : <<u, s>> \notin StrictSubsetOrdering(S)
  <2> HIDE DEF Bad
  <2>1. Bad \subseteq SUBSET S
    BY DEF Bad
  <2> QED
    BY <1>1, <1>2, <2>1, WFMin
<1>4. s # {}
  BY <1>3 DEF SumsUp
<1>5. s \ {Taken(s)} \in SUBSET S /\ s \ {Taken(s)} # s
  BY <1>3, <1>4 DEF Taken
<1>6. f[s \ {Taken(s)}] = g[s \ {Taken(s)}]
  BY <1>3, <1>5 DEF StrictSubsetOrdering
<1>7. /\ f[s] = RecordSize[Taken(s)[3]] + f[s \ {Taken(s)}]
      /\ g[s] = RecordSize[Taken(s)[3]] + g[s \ {Taken(s)}]
  BY <1>3, <1>4 DEF SumsUp
<1> QED
  BY <1>3, <1>6, <1>7

LEMMA SumIsCount ==
  ASSUME NEW S, IsFiniteSet(S), \A r \in S : r[3] \in Payloads
  PROVE  Sum(S) = Cardinality(Bytes(S))
<1>1. Sum(S) = (CHOOSE f : SumsUp(f, S))[S]
  BY DEF Sum, MapThenSumSet, MapThenFoldSet, SumsUp, Taken
<1> DEFINE g == [s \in SUBSET S |-> Cardinality(Bytes(s))]
<1>2. SumsUp(g, S)
  BY Counts
<1> HIDE DEF g
<1>3. SumsUp(CHOOSE f : SumsUp(f, S), S)
  BY <1>2
<1>4. Sum(S) = g[S]
  BY <1>1, <1>2, <1>3, SumsAgree
<1> QED
  BY <1>4 DEF g

\* So a sum of sizes grows with the set, by the size of what is added, and is
\* zero for the empty set only.
LEMMA SumGrows ==
  ASSUME NEW S, IsFiniteSet(S), \A r \in S : r[3] \in Payloads
  PROVE  /\ Sum(S) \in Nat
         /\ Sum(S) = 0 => S = {}
         /\ \A T \in SUBSET S : Sum(T) <= Sum(S)
         /\ \A r : r \notin S /\ r[3] \in Payloads
                     => Sum(S \union {r}) = Sum(S) + RecordSize[r[3]]
<1>1. /\ IsFiniteSet(Bytes(S)) /\ Sum(S) = Cardinality(Bytes(S))
      /\ Cardinality(Bytes(S)) \in Nat
  BY BytesFinite, SumIsCount, FS_CardinalityType
<1>2. ASSUME Sum(S) = 0 PROVE S = {}
  <2>1. Bytes(S) = {}
    BY <1>1, <1>2, FS_EmptySet
  <2>2. ASSUME NEW r \in S PROVE FALSE
    <3>1. RecordSize[r[3]] \in Nat \ {0}
      BY WalAssumption
    <3>2. <<r, 1>> \in Bytes(S)
      BY <3>1 DEF Bytes
    <3> QED
      BY <2>1, <3>2
  <2> QED
    BY <2>2
<1>3. ASSUME NEW T \in SUBSET S PROVE Sum(T) <= Sum(S)
  <2>1. IsFiniteSet(T) /\ \A r \in T : r[3] \in Payloads
    BY <1>3, FS_Subset
  <2>2. Sum(T) = Cardinality(Bytes(T))
    BY <2>1, SumIsCount
  <2>3. Bytes(T) \in SUBSET Bytes(S)
    BY DEF Bytes
  <2> QED
    BY <1>1, <2>2, <2>3, FS_Subset
<1>4. ASSUME NEW r, r \notin S, r[3] \in Payloads
      PROVE  Sum(S \union {r}) = Sum(S) + RecordSize[r[3]]
  <2>1. IsFiniteSet(S \union {r}) /\ \A a \in S \union {r} : a[3] \in Payloads
    BY <1>4, FS_AddElement
  <2>2. Sum(S \union {r}) = Cardinality(Bytes(S \union {r}))
    BY <2>1, SumIsCount
  <2> QED
    BY <1>1, <1>4, <2>2, OneMore
<1> QED
  BY <1>1, <1>2, <1>3, <1>4

-----------------------------------------------------------------------------
\* The records of a segment whose append() succeeds: those confirmed, and
\* those whose 200 is still to be sent.
Succeeded ==
    acked \union {<<place[t][1], place[t][2], body[t]>>
                    : t \in {u \in Threads : pc[u] = "stored"}}
In(k) == {r \in Succeeded : r[1] = k}

Bounded(S) == Cardinality(S) > 1 => Sum(S) <= MaxFileBytes

\* Why the limit holds: size counts the records of the open segment, and the
\* thread that holds the mutex has seen that its record fits, or is the first.
BoundInv ==
    /\ IsFiniteSet(Succeeded)
    /\ \A k \in created : Bounded(In(k))
    /\ handle # NoKey => Sum(In(handle)) <= size
    /\ \A t \in Threads : pc[t] \in Writing =>
         size = 0 \/ size + RecordSize[body[t]] <= MaxFileBytes

LEMMA EmptyBounded == Sum({}) = 0 /\ Bounded({})
<1>1. Bytes({}) = {} /\ IsFiniteSet({}) /\ Cardinality({}) = 0
  BY FS_EmptySet DEF Bytes
<1>2. Sum({}) = Cardinality(Bytes({}))
  BY <1>1, SumIsCount
<1> QED
  BY <1>1, <1>2 DEF Bounded

LEMMA SubsetBounded ==
  ASSUME NEW S, IsFiniteSet(S), \A r \in S : r[3] \in Payloads, Bounded(S),
         NEW T \in SUBSET S
  PROVE  Bounded(T)
<1>1. /\ Cardinality(T) <= Cardinality(S) /\ IsFiniteSet(T)
      /\ \A r \in T : r[3] \in Payloads
  BY FS_Subset
<1>2. /\ Cardinality(T) \in Nat /\ Cardinality(S) \in Nat
      /\ Sum(T) <= Sum(S) /\ Sum(T) \in Nat /\ Sum(S) \in Nat
  BY <1>1, FS_CardinalityType, SumGrows
<1> QED
  BY <1>1, <1>2, WalAssumption DEF Bounded

\* What succeeded is in its place on stable storage.
LEMMA SucceededStored ==
  ASSUME Inv, NEW r \in Succeeded
  PROVE  Stored(<<r[1], r[2]>>, r[3]) /\ r[3] \in Payloads
<1>1. CASE r \in acked
  BY <1>1 DEF Inv, TypeOK, AckedInv
<1>2. ASSUME NEW t \in Threads, pc[t] = "stored",
             r = <<place[t][1], place[t][2], body[t]>>
      PROVE  Stored(<<r[1], r[2]>>, r[3]) /\ r[3] \in Payloads
  BY <1>2 DEF Inv, StoredInv, MutexInv, Stored
<1> QED
  BY <1>1, <1>2 DEF Succeeded

\* The records of one segment are finitely many.
LEMMA InFinite ==
  ASSUME Inv, BoundInv, NEW k
  PROVE  IsFiniteSet(In(k)) /\ \A r \in In(k) : r[3] \in Payloads
<1>1. In(k) \in SUBSET Succeeded /\ IsFiniteSet(Succeeded)
  BY DEF In, BoundInv
<1> QED
  BY <1>1, FS_Subset, SucceededStored

\* A step that stores nothing and opens nothing.
LEMMA SameBound ==
  ASSUME Inv, BoundInv, Succeeded' \subseteq Succeeded, created' = created,
         handle' \in {handle, NoKey}, size' = size,
         \A t \in Threads : pc'[t] \in Writing =>
           \/ pc[t] \in Writing /\ body'[t] = body[t]
           \/ size = 0
           \/ size + RecordSize[body'[t]] <= MaxFileBytes
  PROVE  BoundInv'
<1>1. IsFiniteSet(Succeeded')
  BY FS_Subset DEF BoundInv
<1>2. \A k : In(k)' \in SUBSET In(k)
  BY DEF In
<1>3. ASSUME NEW k \in created PROVE Bounded(In(k)')
  BY <1>2, <1>3, InFinite, SubsetBounded DEF BoundInv
<1>4. ASSUME NEW h, handle' = h, h # NoKey PROVE Sum(In(h)') <= size
  <2>1. Sum(In(h)) <= size
    BY <1>4 DEF BoundInv
  <2>2. Sum(In(h)') <= Sum(In(h)) /\ Sum(In(h)) \in Nat
    BY <1>2, InFinite, SumGrows
  <2>3. IsFiniteSet(In(h)') /\ \A r \in In(h)' : r[3] \in Payloads
    BY <1>2, InFinite, FS_Subset
  <2>4. Sum(In(h)') \in Nat /\ size \in Nat
    BY <2>3, SumGrows DEF Inv, TypeOK
  <2> QED
    BY <2>1, <2>2, <2>4
<1>5. \A t \in Threads : pc'[t] \in Writing =>
         size' = 0 \/ size' + RecordSize[body'[t]] <= MaxFileBytes
  BY DEF BoundInv
<1>6. handle' # NoKey => Sum(In(handle)') <= size'
  <2>1. \A h : handle' = h => In(handle)' = In(h)'
    BY DEF In
  <2> QED
    BY <1>4, <2>1
<1> QED
  BY <1>1, <1>3, <1>5, <1>6 DEF BoundInv

\* A new segment is empty.
LEMMA OpenBound ==
  ASSUME Inv, BoundInv, Succeeded' \subseteq Succeeded, NEW k \in Keys \ created,
         created' = created \union {k}, handle' = k, size' = 0
  PROVE  BoundInv'
<1>1. \A j : In(j)' \in SUBSET In(j)
  BY DEF In
<1>2. In(k)' = {}
  BY <1>1, SucceededStored DEF In, Stored
<1>3. Bounded(In(k)') /\ Sum(In(k)') = 0
  BY <1>2, EmptyBounded
<1>4. Sum(In(handle)') = 0
  BY <1>3 DEF In
<1>5. ASSUME NEW j \in created PROVE Bounded(In(j)')
  BY <1>1, <1>5, InFinite, SubsetBounded DEF BoundInv
<1>6. IsFiniteSet(Succeeded')
  BY FS_Subset DEF BoundInv
<1> QED
  BY <1>3, <1>4, <1>5, <1>6 DEF BoundInv

\* Nothing but an fsync adds to what succeeded, and a 200 moves it only.
LEMMA SucceededSame ==
  ASSUME Inv, acked' = acked,
         \A t \in Threads : pc'[t] = "stored" =>
           pc[t] = "stored" /\ place'[t] = place[t] /\ body'[t] = body[t]
  PROVE  Succeeded' \subseteq Succeeded
<1> SUFFICES ASSUME NEW r \in Succeeded', r \notin acked PROVE r \in Succeeded
  BY DEF Succeeded
<1>1. PICK t \in Threads : pc'[t] = "stored" /\ r = <<place'[t][1], place'[t][2], body'[t]>>
  BY DEF Succeeded
<1>2. pc[t] = "stored" /\ r = <<place[t][1], place[t][2], body[t]>>
  BY <1>1
<1> QED
  BY <1>2 DEF Succeeded

\* Steps that leave the open segment's size alone.
LEMMA QuietBound ==
  ASSUME Inv, BoundInv, NEW t \in Threads,
         \/ \E p \in Payloads : Request(t, p)
         \/ LockMutex(t) \/ OpenFails(t) \/ FsyncFails(t) \/ Refuse(t)
         \/ WriteHeader(t) \/ WritePayload(t) \/ WriteFails(t)
  PROVE  BoundInv'
<1> USE DEF Inv, TypeOK, Goto, Return, Writing
<1>1. /\ created' = created /\ handle' \in {handle, NoKey} /\ size' = size
      /\ acked' = acked
  BY DEF Request, LockMutex, OpenFails, FsyncFails, Refuse, WriteHeader, WritePayload,
     WriteFails, disk
<1>2. ASSUME NEW p \in Payloads, Request(t, p) PROVE BoundInv'
  <2>1. \A u \in Threads : pc'[u] \in Writing \union {"stored"} =>
          u # t /\ pc[u] = pc'[u] /\ place'[u] = place[u] /\ body'[u] = body[u]
    BY <1>2 DEF Request
  <2> QED
    BY <1>1, <2>1, SucceededSame, SameBound
<1>3. CASE LockMutex(t)
  <2>1. \A u \in Threads : pc'[u] \in Writing \union {"stored"} =>
          /\ u # t => pc[u] = pc'[u]
          /\ u = t => ~MustRotate(t) /\ pc'[u] = "header"
          /\ place'[u] = place[u] /\ body'[u] = body[u]
    BY <1>3 DEF LockMutex
  <2>2. ~MustRotate(t) => size = 0 \/ size + RecordSize[body[t]] <= MaxFileBytes
    <3>1. pc[t] = "lock" /\ body[t] \in Payloads
      BY <1>3 DEF LockMutex, MutexInv
    <3>2. size \in Nat /\ RecordSize[body[t]] \in Nat /\ MaxFileBytes \in Nat
      BY <3>1, WalAssumption
    <3> QED
      BY <3>2 DEF MustRotate
  <2> QED
    BY <1>1, <2>1, <2>2, SucceededSame, SameBound
<1>4. CASE OpenFails(t) \/ FsyncFails(t) \/ WriteFails(t)
  <2>1. \A u \in Threads : pc'[u] \in Writing \union {"stored"} =>
          pc[u] = pc'[u] /\ place'[u] = place[u] /\ body'[u] = body[u]
    BY <1>4 DEF OpenFails, FsyncFails, WriteFails
  <2> QED
    BY <1>1, <2>1, SucceededSame, SameBound
<1>5. CASE Refuse(t)
  <2>1. \A u \in Threads : pc'[u] \in Writing \union {"stored"} =>
          pc[u] = pc'[u] /\ place'[u] = place[u] /\ body'[u] = body[u]
    BY <1>5 DEF Refuse, Forget
  <2> QED
    BY <1>1, <2>1, SucceededSame, SameBound
<1>6. CASE WriteHeader(t) \/ WritePayload(t)
  <2>1. \A u \in Threads :
          /\ pc'[u] \in Writing => pc[u] \in Writing /\ body'[u] = body[u]
          /\ pc'[u] = "stored" =>
               pc[u] = pc'[u] /\ place'[u] = place[u] /\ body'[u] = body[u]
    BY <1>6 DEF WriteHeader, WritePayload
  <2> QED
    BY <1>1, <2>1, SucceededSame, SameBound
<1> QED
  BY <1>2, <1>3, <1>4, <1>5, <1>6

\* The next segment, and the end and the start of the process.
LEMMA NewBound ==
  ASSUME Inv, BoundInv,
         \/ \E t \in Threads, k \in Keys : OpenSegment(t, k)
         \/ Crash \/ PowerLoss \/ Restart
  PROVE  BoundInv'
<1> USE DEF Inv, TypeOK, Goto, Writing
<1>1. ASSUME NEW t \in Threads, NEW k \in Keys, OpenSegment(t, k) PROVE BoundInv'
  <2>1. /\ k \in Keys \ created /\ created' = created \union {k} /\ handle' = k
        /\ size' = 0 /\ acked' = acked
    BY <1>1 DEF OpenSegment, FreshKey
  <2>2. \A u \in Threads : pc'[u] = "stored" =>
          pc[u] = "stored" /\ place'[u] = place[u] /\ body'[u] = body[u]
    BY <1>1 DEF OpenSegment
  <2> QED
    BY <2>1, <2>2, SucceededSame, OpenBound
<1>2. CASE Crash \/ PowerLoss
  <2>1. /\ created' = created /\ handle' = NoKey /\ size' = size /\ acked' = acked
        /\ \A u \in Threads : pc'[u] = "idle"
    BY <1>2 DEF Crash, PowerLoss, Stop
  <2> QED
    BY <2>1, SucceededSame, SameBound
<1>3. CASE Restart
  <2>1. PICK k \in Keys : FreshKey(k) /\ created' = created \union {k} /\ handle' = k
    BY <1>3 DEF Restart
  <2>2. k \in Keys \ created /\ size' = 0 /\ Succeeded' \subseteq Succeeded
    BY <1>3, <2>1, SucceededSame DEF Restart, FreshKey
  <2> QED
    BY <2>1, <2>2, OpenBound
<1> QED
  BY <1>1, <1>2, <1>3

\* A confirmed record counted as succeeded before.
LEMMA ConfirmBound ==
  ASSUME Inv, BoundInv, NEW t \in Threads, Confirm(t)
  PROVE  BoundInv'
<1> USE DEF Inv, TypeOK, Confirm, Forget, Goto, Writing
<1>1. Succeeded' \subseteq Succeeded
  <2> SUFFICES ASSUME NEW r \in Succeeded' PROVE r \in Succeeded
    OBVIOUS
  <2>1. CASE r \in acked'
    BY <2>1 DEF Succeeded
  <2>2. ASSUME NEW u \in Threads, pc'[u] = "stored",
               r = <<place'[u][1], place'[u][2], body'[u]>>
        PROVE  r \in Succeeded
    <3>1. pc[u] = "stored" /\ r = <<place[u][1], place[u][2], body[u]>>
      BY <2>2
    <3> QED
      BY <3>1 DEF Succeeded
  <2> QED
    BY <2>1, <2>2 DEF Succeeded
<1>2. \A u \in Threads : pc'[u] \in Writing => pc[u] \in Writing /\ body'[u] = body[u]
  OBVIOUS
<1>3. created' = created /\ handle' = handle /\ size' = size
  BY DEF disk
<1> QED
  BY <1>1, <1>2, <1>3, SameBound

\* A successful fsync: the record is a new one of the open segment, and its
\* thread had seen that it fits, or is the first.
LEMMA FsyncBound ==
  ASSUME Inv, BoundInv, NEW t \in Threads, Fsync(t)
  PROVE  BoundInv'
<1> DEFINE r == <<handle, Len(wal[handle]), body[t]>>
<1>1. /\ pc[t] = "fsync" /\ mutex = t /\ handle \in created /\ handle \in Keys
      /\ body[t] \in Payloads /\ place[t] = <<handle, Len(wal[handle])>>
      /\ synced[handle] < Len(wal[handle])
  BY DEF Inv, TypeOK, MutexInv, WriteInv, Writing, Fsync, Return, Goto
<1>2. /\ created' = created /\ handle' = handle /\ acked' = acked /\ place' = place
      /\ body' = body /\ size' = size + RecordSize[body[t]]
      /\ pc' = [pc EXCEPT ![t] = "stored"] /\ pc \in [Threads -> Locations]
  BY DEF Inv, TypeOK, Fsync, Return, Goto
<1>3. r \notin Succeeded
  <2>1. synced[handle] \in Nat /\ Len(wal[handle]) \in Nat
    BY <1>1, LenProperties DEF Inv, TypeOK
  <2>2. Stored(<<r[1], r[2]>>, r[3]) => Len(wal[handle]) <= synced[handle]
    BY <2>1 DEF Stored
  <2> QED
    BY <1>1, <2>1, <2>2, SucceededStored
<1>4. Succeeded' = Succeeded \union {r}
  <2>1. ASSUME NEW a \in Succeeded' PROVE a \in Succeeded \union {r}
    <3>1. ASSUME NEW u \in Threads, pc'[u] = "stored",
                 a = <<place'[u][1], place'[u][2], body'[u]>>
          PROVE  a \in Succeeded \union {r}
      BY <1>1, <1>2, <3>1 DEF Succeeded
    <3> QED
      BY <1>2, <2>1, <3>1 DEF Succeeded
  <2>2. ASSUME NEW a \in Succeeded \union {r} PROVE a \in Succeeded'
    <3>1. ASSUME NEW u \in Threads, pc'[u] = "stored",
                 a = <<place'[u][1], place'[u][2], body'[u]>>
          PROVE  a \in Succeeded'
      BY <3>1 DEF Succeeded
    <3>2. \A u \in Threads : pc[u] = "stored" => pc'[u] = "stored"
      BY <1>2
    <3>3. r = <<place'[t][1], place'[t][2], body'[t]>> /\ pc'[t] = "stored"
      BY <1>1, <1>2
    <3> QED
      BY <1>2, <2>2, <3>1, <3>2, <3>3 DEF Succeeded
  <2> QED
    BY <2>1, <2>2
<1> DEFINE S == In(handle)
<1>5. /\ IsFiniteSet(S) /\ \A a \in S : a[3] \in Payloads
      /\ Sum(S) \in Nat /\ Sum(S) <= size /\ (Sum(S) = 0 => S = {})
      /\ Sum(S \union {r}) = Sum(S) + RecordSize[body[t]]
      /\ size \in Nat /\ RecordSize[body[t]] \in Nat /\ handle # NoKey
  <2>1. handle # NoKey
    BY <1>1 DEF Keys, NoKey
  <2>2. IsFiniteSet(S) /\ \A a \in S : a[3] \in Payloads
    BY InFinite
  <2>3. r \notin S /\ r[3] \in Payloads
    BY <1>1, <1>3 DEF In
  <2>4. Sum(S) <= size /\ size \in Nat
    BY <2>1 DEF BoundInv, Inv, TypeOK
  <2>5. r[3] = body[t] /\ RecordSize[body[t]] \in Nat
    BY <1>1, WalAssumption
  <2> HIDE DEF S, r
  <2>6. Sum(S) \in Nat /\ (Sum(S) = 0 => S = {})
    BY <2>2, SumGrows
  <2>7. Sum(S \union {r}) = Sum(S) + RecordSize[r[3]]
    BY <2>2, <2>3, SumGrows
  <2> QED
    BY <2>1, <2>2, <2>4, <2>5, <2>6, <2>7
<1>6. size = 0 \/ size + RecordSize[body[t]] <= MaxFileBytes
  BY <1>1 DEF BoundInv, Writing
<1>7. Bounded(S \union {r})
  <2>1. CASE size = 0
    <3>1. S = {}
      BY <1>5, <2>1
    <3>2. Cardinality(S \union {r}) = 1
      BY <3>1, FS_Singleton
    <3> QED
      BY <3>2 DEF Bounded
  <2>2. CASE size + RecordSize[body[t]] <= MaxFileBytes
    <3>1. MaxFileBytes \in Nat
      BY WalAssumption
    <3> HIDE DEF S, r
    <3>2. Sum(S \union {r}) <= MaxFileBytes
      BY <1>5, <2>2, <3>1
    <3> QED
      BY <3>2 DEF Bounded
  <2> QED
    BY <1>6, <2>1, <2>2
<1>8. In(handle)' = S \union {r} /\ \A k : k # handle => In(k)' = In(k)
  BY <1>2, <1>4 DEF In
<1>9. \A k \in created' : Bounded(In(k)')
  <2>1. ASSUME NEW k, k = handle PROVE In(k)' = S \union {r}
    BY <1>2, <1>4, <2>1 DEF In
  <2> HIDE DEF S, r
  <2> QED
    BY <1>2, <1>7, <1>8, <2>1 DEF BoundInv
<1>10. Sum(In(handle)') <= size'
  <2> HIDE DEF S, r
  <2> QED
    BY <1>2, <1>5, <1>8
<1>11. ASSUME NEW u \in Threads PROVE pc'[u] \notin Writing
  BY <1>1, <1>2 DEF Inv, MutexInv, Writing
<1>12. IsFiniteSet(Succeeded')
  BY <1>4, FS_AddElement DEF BoundInv
<1> QED
  BY <1>9, <1>10, <1>11, <1>12 DEF BoundInv

LEMMA NextBound == Inv /\ BoundInv /\ [Next]_vars => BoundInv'
<1> SUFFICES ASSUME Inv, BoundInv, [Next]_vars PROVE BoundInv'
  OBVIOUS
<1>1. CASE UNCHANGED vars
  BY <1>1 DEF vars, BoundInv, Succeeded, In
<1>2. CASE Next
  BY <1>2, QuietBound, NewBound, ConfirmBound, FsyncBound DEF Next, Handle, AppendStep
<1> QED
  BY <1>1, <1>2

\* A segment with more than one confirmed record stays within the limit
\* (wal_writer.h:24), for any bodies, limit and failures: also the record that
\* is confirmed last, and also after a failed open, write or fsync.
THEOREM SegmentsBounded == Spec => []SegmentBound
<1>1. Init => BoundInv
  <2> SUFFICES ASSUME Init PROVE BoundInv
    OBVIOUS
  <2>1. Succeeded = {} /\ size = 0 /\ \A t \in Threads : pc[t] = "idle"
    BY DEF Init, Succeeded
  <2>2. In(handle) = {} /\ \A k : In(k) = {}
    BY <2>1 DEF In
  <2> QED
    BY <2>1, <2>2, EmptyBounded, FS_EmptySet DEF BoundInv, Writing
<1>2. Inv /\ BoundInv => SegmentBound
  <2> SUFFICES ASSUME Inv, BoundInv, NEW k \in created
               PROVE  Bounded({r \in acked : r[1] = k})
    BY DEF SegmentBound, Bounded, Sum
  <2>1. {r \in acked : r[1] = k} \in SUBSET In(k) /\ Bounded(In(k))
    BY DEF In, Succeeded, BoundInv
  <2> QED
    BY <2>1, InFinite, SubsetBounded
<1> QED
  BY <1>1, <1>2, NextBound, Invariant, PTL DEF Spec

=============================================================================
