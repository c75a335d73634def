--------------------------- MODULE Gateway_proofs ---------------------------
(***************************************************************************)
(* Proofs about Gateway for any sessions, bodies, limits and faults: it    *)
(* uses the writer as WalWriter allows (Refinement), so that durability    *)
(* and the refinement of AckLog hold for the process as well; its types;   *)
(* that its statistics promise no more than the log holds, and that no     *)
(* record gets into the log uncounted.                                     *)
(*                                                                         *)
(* Truthful counters need that no two confirmations are of the same        *)
(* record: the place of a stored record is its thread's own until the 200  *)
(* is sent (OwnInv), since a record being written lies behind all that is  *)
(* synced.  That all records are counted needs the other direction: each   *)
(* complete one is matched by an answer or by a busy session (CountInv).   *)
(***************************************************************************)
EXTENDS Gateway, WalWriter_proofs, FiniteSetTheorems

OwnInv ==
    /\ IsFiniteSet(acked)
    /\ \A t \in Threads : pc[t] = "stored" =>
         /\ \A r \in acked : place[t] # <<r[1], r[2]>>
         /\ \A u \in Threads \ {t} : pc[u] = "stored" => place[u] # place[t]

GatewayInv == Inv /\ OwnInv /\ GatewayTypeOK /\ CountersTruthful

-----------------------------------------------------------------------------
\* Every step of the gateway is one of the writer, or leaves it alone.
LEMMA NextInWriter == [GatewayNext]_gatewayVars => [Next]_vars
<1> SUFFICES ASSUME [GatewayNext]_gatewayVars PROVE [Next]_vars
  OBVIOUS
<1> USE DEF Next
<1>1. CASE UNCHANGED gatewayVars
  BY <1>1 DEF gatewayVars
<1>2. ASSUME NEW t \in Threads,
             \/ Accept(t) \/ HangUp(t) \/ Health(t) \/ Reject(t)
             \/ \E p \in Payloads : Export(t, p)
             \/ Wait(t) \/ Serve(t) \/ Written(t)
      PROVE  [Next]_vars
  BY <1>2 DEF Accept, HangUp, Health, Reject, Export, Wait, Serve, Write, AnswerStored,
     AnswerFailed, Written, Handle
<1>3. CASE Signal \/ Exit \/ Die \/ Start
  BY <1>3 DEF Signal, Exit, Die, Start
<1> QED
  BY <1>1, <1>2, <1>3 DEF GatewayNext

\* The sessions use the writer as WalWriter allows.
THEOREM Refinement == GatewaySpec => Spec
<1>1. GatewayInit => Init
  BY DEF GatewayInit
<1> QED
  BY <1>1, NextInWriter, PTL DEF GatewaySpec, Spec

\* So what the gateway confirms is durable (http_server.cpp:166).
THEOREM ConfirmedDurable == GatewaySpec => []AckedDurable
  BY Refinement, Durability, PTL

\* And the gateway implements AckLog.
THEOREM GatewayImplements == GatewaySpec => ImplementsAckLog
  BY Refinement, Implementation, PTL

\* And with a clock that never steps back only the newest segment grows, which
\* the materializer relies on (materializer.py:474-476).
THEOREM GatewayNewest == "clock" \notin Faults => (GatewaySpec => OnlyNewestGrows)
  BY Refinement, NewestGrows, PTL

\* And the segments of the whole process stay within the limit, across its
\* restarts (wal_writer.h:24).
THEOREM GatewayBounded == GatewaySpec => []SegmentBound
  BY Refinement, SegmentsBounded, PTL

\* And no path of append() leaves the mutex behind, also while the process is
\* being stopped (wal_writer.cpp:101).
THEOREM GatewayReleases == GatewaySpec => []HeldInside
  BY Refinement, MutexReleased, PTL

-----------------------------------------------------------------------------
LEMMA InitGateway == GatewayInit => GatewayInv
<1> SUFFICES ASSUME GatewayInit PROVE GatewayInv
  OBVIOUS
<1>1. Inv
  BY InitInv DEF GatewayInit
<1>2. acked = {} /\ \A t \in Threads : pc[t] = "idle"
  BY DEF GatewayInit, Init
<1>3. OwnInv
  BY <1>2, FS_EmptySet DEF OwnInv
<1>4. CountersTruthful
  BY <1>2, FS_EmptySet DEF GatewayInit, CountersTruthful
<1>5. GatewayTypeOK
  BY <1>1, <1>2 DEF Inv, GatewayInit, GatewayTypeOK, Connections
<1> QED
  BY <1>1, <1>3, <1>4, <1>5 DEF GatewayInv

\* Only fsync makes a record one that waits for its 200, and nothing moves it.
LEMMA StoredBefore ==
  ASSUME Inv, Next, NEW t \in Threads, pc'[t] = "stored"
  PROVE  \/ Fsync(t)
         \/ pc[t] = "stored" /\ place'[t] = place[t]
<1> USE DEF Inv, TypeOK, Goto, Return
<1>1. ASSUME NEW s \in Threads, NEW p \in Payloads, Request(s, p)
      PROVE  pc[t] = "stored" /\ place'[t] = place[t]
  BY <1>1 DEF Request
<1>2. ASSUME NEW s \in Threads, LockMutex(s) \/ OpenFails(s) \/ FsyncFails(s)
      PROVE  pc[t] = "stored" /\ place'[t] = place[t]
  BY <1>2 DEF LockMutex, OpenFails, FsyncFails
<1>3. ASSUME NEW s \in Threads, NEW k \in Keys, OpenSegment(s, k)
      PROVE  pc[t] = "stored" /\ place'[t] = place[t]
  BY <1>3 DEF OpenSegment
<1>4. ASSUME NEW s \in Threads, WriteHeader(s) \/ WritePayload(s) \/ WriteFails(s)
      PROVE  pc[t] = "stored" /\ place'[t] = place[t]
  BY <1>4 DEF WriteHeader, WritePayload, WriteFails
<1>5. ASSUME NEW s \in Threads, Confirm(s) \/ Refuse(s)
      PROVE  pc[t] = "stored" /\ place'[t] = place[t]
  BY <1>5 DEF Confirm, Refuse, Forget
<1>6. ASSUME NEW s \in Threads, Fsync(s), s # t
      PROVE  pc[t] = "stored" /\ place'[t] = place[t]
  BY <1>6 DEF Fsync
<1>7. CASE Crash \/ PowerLoss
  BY <1>7 DEF Crash, PowerLoss, Stop
<1>8. CASE Restart
  BY <1>8 DEF Restart
<1> QED
  BY <1>1, <1>2, <1>3, <1>4, <1>5, <1>6, <1>7, <1>8 DEF Next, Handle, AppendStep

\* The record whose fsync ends lies behind everything stored before.
LEMMA FsyncOwn ==
  ASSUME Inv, NEW t \in Threads, Fsync(t)
  PROVE  /\ \A r \in acked : place'[t] # <<r[1], r[2]>>
         /\ \A u \in Threads : pc[u] = "stored" => place[u] # place'[t]
<1>1. /\ place'[t] = <<handle, Len(wal[handle])>>
      /\ handle \in Keys /\ synced[handle] \in Nat /\ Len(wal[handle]) \in Nat
      /\ synced[handle] < Len(wal[handle])
  BY LenProperties DEF Inv, TypeOK, MutexInv, WriteInv, Writing, Fsync, Return, Goto
<1>2. \A r, p : Stored(r, p) => r[1] # handle \/ r[2] # Len(wal[handle])
  BY <1>1 DEF Stored
<1>3. ASSUME NEW r \in acked PROVE place'[t] # <<r[1], r[2]>>
  <2>1. Stored(<<r[1], r[2]>>, r[3])
    BY DEF Inv, AckedInv
  <2> QED
    BY <1>1, <1>2, <2>1
<1>4. ASSUME NEW u \in Threads, pc[u] = "stored" PROVE place[u] # place'[t]
  <2>1. Stored(place[u], body[u])
    BY <1>4 DEF Inv, StoredInv
  <2> QED
    BY <1>1, <1>2, <2>1
<1> QED
  BY <1>3, <1>4

\* A confirmation is one of a record not confirmed before.
LEMMA ConfirmOwn ==
  ASSUME Inv, OwnInv, NEW t \in Threads, Confirm(t)
  PROVE  OwnInv' /\ Cardinality(acked') = Cardinality(acked) + 1
<1> DEFINE r == <<place[t][1], place[t][2], body[t]>>
<1>1. /\ pc[t] = "stored" /\ acked' = acked \union {r}
      /\ pc' = [pc EXCEPT ![t] = "idle"] /\ place' = [place EXCEPT ![t] = NoPlace]
      /\ place[t] = <<r[1], r[2]>>
  BY DEF Inv, TypeOK, Confirm, Goto, Forget
<1>2. r \notin acked
  BY <1>1 DEF OwnInv
<1>3. IsFiniteSet(acked') /\ Cardinality(acked') = Cardinality(acked) + 1
  BY <1>1, <1>2, FS_AddElement DEF OwnInv
<1>4. ASSUME NEW u \in Threads, pc'[u] = "stored"
      PROVE  /\ u # t /\ pc[u] = "stored" /\ place'[u] = place[u]
             /\ place[u] # place[t]
  BY <1>1, <1>4 DEF OwnInv, Inv, TypeOK
<1>5. ASSUME NEW u \in Threads, pc'[u] = "stored"
      PROVE  \A a \in acked' : place'[u] # <<a[1], a[2]>>
  BY <1>1, <1>4, <1>5 DEF OwnInv
<1> QED
  BY <1>3, <1>4, <1>5 DEF OwnInv

LEMMA NextOwn ==
  ASSUME Inv, OwnInv, [Next]_vars
  PROVE  OwnInv'
<1>1. CASE UNCHANGED vars
  BY <1>1 DEF vars, OwnInv
<1>2. ASSUME NEW t \in Threads, Confirm(t) PROVE OwnInv'
  BY <1>2, ConfirmOwn
<1>3. CASE Next /\ acked' = acked
  <2>1. ASSUME NEW t \in Threads, pc'[t] = "stored", NEW r \in acked
        PROVE  place'[t] # <<r[1], r[2]>>
    BY <1>3, <2>1, StoredBefore, FsyncOwn DEF OwnInv
  <2>2. ASSUME NEW t \in Threads, NEW u \in Threads \ {t},
               pc'[t] = "stored", pc'[u] = "stored"
        PROVE  place'[u] # place'[t]
    <3>1. ASSUME NEW s \in Threads, Fsync(s)
          PROVE  \A v \in Threads \ {s} : pc'[v] = pc[v] /\ place'[v] = place[v]
      BY <3>1 DEF Fsync, Return, Goto, Inv, TypeOK
    <3>2. CASE Fsync(t)
      BY <2>2, <3>1, <3>2, FsyncOwn
    <3>3. CASE Fsync(u)
      BY <2>2, <3>1, <3>3, FsyncOwn
    <3>4. CASE ~Fsync(t) /\ ~Fsync(u)
      BY <1>3, <2>2, <3>4, StoredBefore DEF OwnInv
    <3> QED
      BY <3>2, <3>3, <3>4
  <2> QED
    BY <1>3, <2>1, <2>2 DEF OwnInv
<1> QED
  BY <1>1, <1>2, <1>3, OtherInv

-----------------------------------------------------------------------------
\* The statistics grow by confirmations only.
LEMMA CountersInv ==
  ASSUME GatewayInv, [GatewayNext]_gatewayVars
  PROVE  CountersTruthful' /\ accepted' \in Nat /\ rejected' \in Nat
<1>1. /\ Inv /\ OwnInv /\ accepted <= Cardinality(acked)
      /\ accepted \in Nat /\ rejected \in Nat /\ IsFiniteSet(acked)
  BY DEF GatewayInv, GatewayTypeOK, CountersTruthful, OwnInv
<1>2. Cardinality(acked) \in Nat
  BY <1>1, FS_CardinalityType
<1>3. ASSUME NEW t \in Threads, AnswerStored(t)
      PROVE  accepted' = accepted + 1 /\ Cardinality(acked') = Cardinality(acked) + 1
                                     /\ rejected' = rejected
  BY <1>1, <1>3, ConfirmOwn DEF AnswerStored
<1>4. ASSUME NEW t \in Threads,
             \/ Accept(t) \/ HangUp(t) \/ Health(t) \/ Reject(t)
             \/ \E p \in Payloads : Export(t, p)
             \/ Wait(t) \/ Write(t) \/ AnswerFailed(t) \/ Written(t)
      PROVE  accepted' = accepted /\ acked' = acked /\ rejected' \in Nat
  <2>1. CASE Write(t)
    <3>1. acked' = acked
      BY <2>1 DEF Write, AppendStep, OpenSegment, OpenFails, WriteHeader, WritePayload,
         WriteFails, Fsync, FsyncFails
    <3> QED
      BY <1>1, <2>1, <3>1 DEF Write, http
  <2>2. CASE \/ Accept(t) \/ HangUp(t) \/ Health(t) \/ Reject(t) \/ AnswerFailed(t)
             \/ Written(t)
    BY <1>1, <2>2 DEF Accept, HangUp, Health, Reject, AnswerFailed, Refuse, Written, vars
  <2>3. CASE (\E p \in Payloads : Export(t, p)) \/ Wait(t)
    BY <1>1, <2>3 DEF Export, Request, Wait, LockMutex, http
  <2> QED
    BY <1>4, <2>1, <2>2, <2>3
<1>5. CASE Signal \/ Exit \/ Die
  BY <1>1, <1>5 DEF Signal, Exit, Die, Crash, PowerLoss, Stop, vars, CountersTruthful
<1>6. CASE Start
  BY <1>1, <1>2, <1>6 DEF Start, Restart, CountersTruthful
<1>7. CASE UNCHANGED gatewayVars
  BY <1>1, <1>7 DEF gatewayVars, vars, http, CountersTruthful
<1> QED
  BY <1>1, <1>2, <1>3, <1>4, <1>5, <1>6, <1>7 DEF GatewayNext, Serve, CountersTruthful

LEMMA ConnInv ==
  ASSUME GatewayInv, TypeOK', [GatewayNext]_gatewayVars
  PROVE  /\ conn' \in [Threads -> Connections] /\ running' \in BOOLEAN
         /\ \A t \in Threads : pc'[t] # "idle" => conn'[t] = "reading"
<1> DEFINE Good ==
      /\ conn' \in [Threads -> Connections] /\ running' \in BOOLEAN
      /\ \A t \in Threads : pc'[t] # "idle" => conn'[t] = "reading"
<1> USE DEF Connections
<1>1. /\ conn \in [Threads -> Connections] /\ running \in BOOLEAN
      /\ pc \in [Threads -> Locations]
      /\ \A t \in Threads : pc[t] # "idle" => conn[t] = "reading"
  BY DEF GatewayInv, GatewayTypeOK, TypeOK
<1>2. ASSUME NEW t \in Threads,
             Accept(t) \/ HangUp(t) \/ Health(t) \/ Reject(t) \/ Written(t)
      PROVE  Good
  BY <1>1, <1>2 DEF Accept, HangUp, Health, Reject, Written, Ready, Answer, vars
<1>3. ASSUME NEW t \in Threads, NEW p \in Payloads, Export(t, p) PROVE Good
  BY <1>1, <1>3 DEF Export, Ready, Request, Goto, http
<1>4. ASSUME NEW t \in Threads, Wait(t) \/ Write(t) PROVE Good
  <2>1. UNCHANGED http
    BY <1>4 DEF Wait, Write
  <2>2. pc[t] # "idle" /\ \E l : pc' = [pc EXCEPT ![t] = l]
    BY <1>4 DEF Wait, LockMutex, Write, AppendStep, OpenSegment, OpenFails, WriteHeader,
       WritePayload, WriteFails, Fsync, FsyncFails, Return, Goto
  <2> QED
    BY <1>1, <2>1, <2>2 DEF http
<1>5. ASSUME NEW t \in Threads, AnswerStored(t) \/ AnswerFailed(t) PROVE Good
  BY <1>1, <1>5 DEF AnswerStored, Confirm, AnswerFailed, Refuse, Goto, Answer
<1>6. CASE Signal
  BY <1>1, <1>6 DEF Signal, vars
<1>7. CASE Exit \/ Die
  BY <1>1, <1>7 DEF Exit, Die, Disconnect, Crash, PowerLoss, Stop
<1>8. CASE Start
  BY <1>1, <1>8 DEF Start, Restart
<1>9. CASE UNCHANGED gatewayVars
  BY <1>1, <1>9 DEF gatewayVars, vars, http
<1> QED
  BY <1>2, <1>3, <1>4, <1>5, <1>6, <1>7, <1>8, <1>9 DEF GatewayNext, Serve

LEMMA NextGateway == GatewayInv /\ [GatewayNext]_gatewayVars => GatewayInv'
<1> SUFFICES ASSUME GatewayInv, [GatewayNext]_gatewayVars PROVE GatewayInv'
  OBVIOUS
<1>1. Inv' /\ TypeOK' /\ OwnInv'
  BY NextInWriter, NextInv, NextOwn DEF GatewayInv, Inv
<1> QED
  BY <1>1, CountersInv, ConnInv DEF GatewayInv, GatewayTypeOK

-----------------------------------------------------------------------------
\* The strengthened invariant holds in every reachable state.
THEOREM GatewayInvariant == GatewaySpec => []GatewayInv
  BY InitGateway, NextGateway, PTL DEF GatewaySpec

\* Type correctness: a session in append() is connected and owes no response,
\* a request found in the rest of a refused body included (http_server.cpp:96-118,
\* 204).
THEOREM GatewayTypes == GatewaySpec => []GatewayTypeOK
<1>1. GatewayInv => GatewayTypeOK
  BY DEF GatewayInv
<1> QED
  BY <1>1, GatewayInvariant, PTL

\* Every request counted as accepted was confirmed, with a durable record of its
\* own, for any number of sessions and whatever fails (http_server.cpp:166).
THEOREM TruthfulCounters == GatewaySpec => []CountersTruthful
<1>1. GatewayInv => CountersTruthful
  BY DEF GatewayInv
<1> QED
  BY <1>1, GatewayInvariant, PTL
-----------------------------------------------------------------------------
\* Sessions that may have written a record and are still to be counted.
Late == {t \in Threads : pc[t] \in {"fsync", "stored", "failed"}}

\* The process has not died, other than by an orderly stop.
Unbroken == crashes = 0 \/ (crashes = 1 /\ ~up /\ ~running)

\* A complete record is that of a request already counted, or of a session
\* that is past its write: one that is before it has none yet.
CountInv ==
    /\ ~up => crashes > 0
    /\ \A k \in Keys \ created : wal[k] = <<>>
    /\ IsFiniteSet(Busy)
    /\ Unbroken => /\ IsFiniteSet(Complete)
                   /\ Cardinality(Complete) <= accepted + rejected + Cardinality(Late)

LEMMA LateFinite ==
  ASSUME IsFiniteSet(Busy)
  PROVE  /\ IsFiniteSet(Late) /\ Cardinality(Late) \in Nat
         /\ Cardinality(Busy) \in Nat /\ Cardinality(Late) <= Cardinality(Busy)
<1>1. Late \in SUBSET Busy
  BY DEF Late, Busy
<1> QED
  BY <1>1, FS_Subset, FS_CardinalityType

\* What a step of one session does to those sets.
Moves(t) == \A u \in Threads \ {t} : pc'[u] = pc[u]

LEMMA MovesBusy ==
  ASSUME IsFiniteSet(Busy), NEW t \in Threads, Moves(t)
  PROVE  IsFiniteSet(Busy')
<1>1. Busy' \in SUBSET (Busy \union {t})
  BY DEF Busy, Moves
<1> QED
  BY <1>1, FS_AddElement, FS_Subset

\* A step of a session that completes no record.
LEMMA CountSame ==
  ASSUME GatewayInv, CountInv, NEW t \in Threads, Moves(t),
         UNCHANGED <<up, crashes, running>>, Complete' = Complete,
         \A k \in Keys \ created' : wal'[k] = <<>>,
         \/ /\ accepted' = accepted /\ rejected' = rejected
            /\ t \in Late => t \in Late'
         \/ accepted' = accepted + 1 /\ rejected' = rejected
         \/ accepted' = accepted /\ rejected' = rejected + 1
  PROVE  CountInv'
<1>1. IsFiniteSet(Busy')
  BY MovesBusy DEF CountInv
<1>2. /\ Cardinality(Late) \in Nat /\ Cardinality(Late') \in Nat
      /\ IsFiniteSet(Late) /\ IsFiniteSet(Late')
  <2>1. Late \in SUBSET Busy /\ Late' \in SUBSET Busy' /\ IsFiniteSet(Busy)
    BY DEF Late, Busy, CountInv
  <2>2. IsFiniteSet(Late) /\ IsFiniteSet(Late')
    BY <1>1, <2>1, FS_Subset
  <2> QED
    BY <2>2, FS_CardinalityType
<1>3. t \in Late => Cardinality(Late \ {t}) = Cardinality(Late) - 1
  BY <1>2, FS_RemoveElement
<1>4. /\ accepted \in Nat /\ rejected \in Nat
      /\ \/ accepted' = accepted /\ rejected' = rejected /\ (t \in Late => t \in Late')
         \/ accepted' = accepted + 1 /\ rejected' = rejected
         \/ accepted' = accepted /\ rejected' = rejected + 1
  BY DEF GatewayInv, GatewayTypeOK
<1>5. ASSUME Unbroken
      PROVE  Cardinality(Complete) <= accepted' + rejected' + Cardinality(Late')
  <2>1. /\ IsFiniteSet(Complete)
        /\ Cardinality(Complete) <= accepted + rejected + Cardinality(Late)
    BY <1>5 DEF CountInv
  <2>2. Cardinality(Complete) \in Nat
    BY <2>1, FS_CardinalityType
  <2>3. CASE t \in Late => t \in Late'
    <3>1. Late \in SUBSET Late'
      BY <2>3 DEF Late, Moves
    <3>2. Cardinality(Late) <= Cardinality(Late')
      BY <1>2, <3>1, FS_Subset
    <3> QED
      BY <1>2, <1>4, <2>1, <2>2, <3>2
  <2>4. CASE ~(t \in Late => t \in Late')
    <3>1. Late \ {t} \in SUBSET Late'
      BY DEF Late, Moves
    <3>2. Cardinality(Late \ {t}) <= Cardinality(Late')
      BY <1>2, <3>1, FS_Subset
    <3>3. Cardinality(Late) - 1 <= Cardinality(Late')
      BY <1>3, <2>4, <3>2
    <3> QED
      BY <1>2, <1>4, <2>1, <2>2, <2>4, <3>3
  <2> QED
    BY <2>3, <2>4
<1> QED
  BY <1>1, <1>5 DEF CountInv, Unbroken

\* The write that completes a record.
LEMMA CountWritten ==
  ASSUME GatewayInv, CountInv, NEW t \in Threads, WritePayload(t), UNCHANGED http
  PROVE  CountInv'
<1> DEFINE r == <<handle, Len(wal[handle])>>
<1>1. /\ pc[t] = "payload" /\ pc' = [pc EXCEPT ![t] = "fsync"]
      /\ UNCHANGED <<up, crashes, running, accepted, rejected, created>>
      /\ wal' = [wal EXCEPT ![handle][Len(wal[handle])] = body[t]]
      /\ handle \in Keys /\ wal[handle] \in Seq(Records)
      /\ pc \in [Threads -> Locations] /\ created \subseteq Keys
      /\ wal \in [Keys -> Seq(Records)]
  <2>1. /\ pc[t] = "payload" /\ pc' = [pc EXCEPT ![t] = "fsync"]
        /\ UNCHANGED <<up, crashes, running, accepted, rejected, created>>
        /\ wal' = [wal EXCEPT ![handle][Len(wal[handle])] = body[t]]
    BY DEF WritePayload, Goto, http, counters
  <2>2. TypeOK /\ handle # NoKey
    BY <2>1 DEF GatewayInv, Inv, MutexInv, Writing
  <2> QED
    BY <2>1, <2>2 DEF TypeOK
<1>2. IsFiniteSet(Busy')
  <2>1. Moves(t)
    BY <1>1 DEF Moves
  <2> QED
    BY <2>1, MovesBusy DEF CountInv
<1>3. Late' = Late \union {t} /\ t \notin Late
  BY <1>1 DEF Late
<1>4. Complete' \in SUBSET (Complete \union {r})
  <2>1. ASSUME NEW k \in created, NEW i \in DOMAIN wal'[k], wal'[k][i] # Torn,
               <<k, i>> # r
        PROVE  i \in DOMAIN wal[k] /\ wal[k][i] # Torn
    <3>1. k \in Keys /\ DOMAIN wal'[k] = DOMAIN wal[k]
      BY <1>1
    <3>2. wal'[k][i] = wal[k][i]
      BY <1>1, <2>1, <3>1
    <3> QED
      BY <2>1, <3>1, <3>2
  <2>2. created' = created
    BY <1>1
  <2> HIDE DEF r
  <2> QED
    BY <2>1, <2>2 DEF Complete
<1>5. ASSUME Unbroken
      PROVE  /\ IsFiniteSet(Complete')
             /\ Cardinality(Complete') <= accepted + rejected + Cardinality(Late')
  <2>1. /\ IsFiniteSet(Complete)
        /\ Cardinality(Complete) <= accepted + rejected + Cardinality(Late)
    BY <1>5 DEF CountInv
  <2>2. /\ IsFiniteSet(Complete')
        /\ Cardinality(Complete') <= Cardinality(Complete \union {r})
    BY <1>4, <2>1, FS_AddElement, FS_Subset
  <2>3. Cardinality(Complete \union {r}) <= Cardinality(Complete) + 1
    <3>1. Cardinality(Complete) \in Nat
      BY <2>1, FS_CardinalityType
    <3> HIDE DEF r
    <3> QED
      BY <2>1, <3>1, FS_AddElement
  <2>4. Cardinality(Late') = Cardinality(Late) + 1
    BY <1>3, LateFinite, FS_AddElement DEF CountInv
  <2>5. /\ Cardinality(Complete) \in Nat /\ Cardinality(Complete') \in Nat
        /\ Cardinality(Complete \union {r}) \in Nat
        /\ Cardinality(Late) \in Nat /\ accepted \in Nat /\ rejected \in Nat
    BY <2>1, <2>2, FS_AddElement, FS_CardinalityType, LateFinite
       DEF CountInv, GatewayInv, GatewayTypeOK
  <2> HIDE DEF r
  <2> QED
    BY <2>1, <2>2, <2>3, <2>4, <2>5
<1>6. \A k \in Keys \ created' : wal'[k] = <<>>
  <2>1. handle \in created
    BY <1>1 DEF GatewayInv, Inv, TypeOK, MutexInv, Writing
  <2> QED
    BY <1>1, <2>1 DEF CountInv
<1> QED
  BY <1>1, <1>2, <1>5, <1>6 DEF CountInv, Unbroken

\* Appending torn bytes completes no record.
LEMMA TornCompletes ==
  ASSUME Inv, handle # NoKey, created' = created,
         wal' = [wal EXCEPT ![handle] = Append(@, Torn)]
  PROVE  Complete' = Complete
<1>1. handle \in Keys /\ wal \in [Keys -> Seq(Records)] /\ created \subseteq Keys
  BY DEF Inv, TypeOK
<1>2. ASSUME NEW k \in created
      PROVE  {i \in DOMAIN wal'[k] : wal'[k][i] # Torn} = {i \in DOMAIN wal[k] : wal[k][i] # Torn}
  <2>1. CASE k # handle
    BY <1>1, <2>1
  <2>2. CASE k = handle
    <3> DEFINE s == wal[k]
               n == Len(s)
    <3>1. s \in Seq(Records) /\ wal'[k] = Append(s, Torn)
      BY <1>1, <2>2
    <3>2. /\ n \in Nat /\ DOMAIN s = 1..n /\ DOMAIN wal'[k] = 1..(n+1)
          /\ wal'[k][n+1] = Torn /\ \A i \in 1..n : wal'[k][i] = s[i]
      <4> HIDE DEF s
      <4>1. n \in Nat /\ DOMAIN s = 1..n
        BY <3>1, LenProperties
      <4>2. Torn \in Records
        BY DEF Records
      <4>3. /\ Append(s, Torn) \in Seq(Records) /\ Len(Append(s, Torn)) = n + 1
            /\ Append(s, Torn)[n + 1] = Torn /\ \A i \in 1..n : Append(s, Torn)[i] = s[i]
        BY <3>1, <4>1, <4>2, AppendProperties
      <4>4. DOMAIN Append(s, Torn) = 1..(n + 1)
        BY <4>3, LenProperties
      <4> QED
        BY <3>1, <4>1, <4>3, <4>4
    <3> HIDE DEF n
    <3>3. \A i : i \in 1..(n+1) <=> i \in 1..n \/ i = n + 1
      BY <3>2
    <3> HIDE DEF s
    <3> QED
      BY <3>2, <3>3 DEF s
  <2> QED
    BY <2>1, <2>2
<1> QED
  BY <1>2 DEF Complete

\* Nor does opening a segment.
LEMMA OpenCompletes ==
  ASSUME CountInv, NEW k \in Keys \ created, created' = created \union {k}, wal' = wal
  PROVE  Complete' = Complete
<1>1. DOMAIN wal[k] = {}
  BY DEF CountInv
<1> QED
  BY <1>1 DEF Complete

\* The steps of append(), but for the write that completes a record.
LEMMA CountAppend ==
  ASSUME GatewayInv, CountInv, NEW t \in Threads, Wait(t) \/ Write(t), ~WritePayload(t)
  PROVE  CountInv'
<1> USE DEF GatewayInv, Inv, TypeOK, Goto, Return
<1>1. UNCHANGED <<up, crashes, running, accepted, rejected>> /\ Moves(t)
  BY DEF Wait, LockMutex, Write, AppendStep, OpenSegment, OpenFails, WriteHeader,
     WritePayload, WriteFails, Fsync, FsyncFails, http, counters, Moves
<1>2. t \in Late => t \in Late'
  BY DEF Wait, LockMutex, Write, AppendStep, OpenSegment, OpenFails, WriteHeader,
     WritePayload, WriteFails, Fsync, FsyncFails, Late
<1>3. Complete' = Complete /\ \A k \in Keys \ created' : wal'[k] = <<>>
  <2>1. CASE wal' = wal /\ created' = created
    BY <2>1 DEF Complete, CountInv
  <2>2. ASSUME NEW k \in Keys, OpenSegment(t, k)
        PROVE  Complete' = Complete /\ \A j \in Keys \ created' : wal'[j] = <<>>
    BY <2>2, OpenCompletes DEF OpenSegment, FreshKey, CountInv
  <2>3. CASE wal' = [wal EXCEPT ![handle] = Append(@, Torn)] /\ created' = created /\ handle # NoKey
    <3>1. handle \in created
      BY <2>3
    <3> QED
      BY <2>3, <3>1, TornCompletes DEF CountInv
  <2>4. CASE WriteHeader(t) \/ WriteFails(t)
    BY <2>1, <2>3, <2>4 DEF WriteHeader, WriteFails, MutexInv, Writing
  <2> QED
    BY <2>1, <2>2, <2>4 DEF Wait, LockMutex, Write, AppendStep, OpenFails, Fsync,
       FsyncFails, disk
<1> QED
  BY <1>1, <1>2, <1>3, CountSame

\* The steps of the sessions around it.
LEMMA CountSession ==
  ASSUME GatewayInv, CountInv, NEW t \in Threads,
         \/ Accept(t) \/ HangUp(t) \/ Health(t) \/ Reject(t) \/ Written(t)
         \/ \E p \in Payloads : Export(t, p)
         \/ AnswerStored(t) \/ AnswerFailed(t)
  PROVE  CountInv'
<1> USE DEF GatewayInv, Inv, TypeOK, Goto
<1>1. wal' = wal /\ created' = created /\ UNCHANGED <<up, crashes, running>> /\ Moves(t)
  BY DEF Accept, HangUp, Health, Reject, Written, Export, Request, AnswerStored, Confirm,
     AnswerFailed, Refuse, vars, http, disk, counters, Moves
<1>2. Complete' = Complete /\ \A k \in Keys \ created' : wal'[k] = <<>>
  BY <1>1 DEF Complete, CountInv
<1>3. \/ /\ accepted' = accepted /\ rejected' = rejected
         /\ t \in Late => t \in Late'
      \/ accepted' = accepted + 1 /\ rejected' = rejected
      \/ accepted' = accepted /\ rejected' = rejected + 1
  BY DEF Accept, HangUp, Health, Reject, Written, Export, Request, AnswerStored,
     AnswerFailed, vars, http, Late
<1> QED
  BY <1>1, <1>2, <1>3, CountSame

\* The steps of the process: once it has died without an orderly stop, nothing
\* is claimed any more.
LEMMA CountProcess ==
  ASSUME GatewayInv, CountInv, Signal \/ Exit \/ Die \/ Start
  PROVE  CountInv'
<1> USE DEF GatewayInv, Inv, TypeOK
<1>1. CASE Signal
  <2>1. UNCHANGED vars /\ UNCHANGED <<accepted, rejected>> /\ up
    BY <1>1 DEF Signal
  <2>2. /\ UNCHANGED <<wal, created, pc, up, crashes, accepted, rejected>>
        /\ Complete' = Complete /\ Busy' = Busy /\ Late' = Late
    BY <2>1 DEF vars, Complete, Busy, Late
  <2> QED
    BY <2>1, <2>2 DEF CountInv, Unbroken
<1>2. CASE Exit
  <2>1. /\ crashes' = crashes + 1 /\ wal' = wal /\ created' = created
        /\ accepted' = accepted /\ rejected' = rejected
        /\ Busy = {} /\ Busy' = {} /\ Late = {} /\ Late' = {}
    BY <1>2 DEF Exit, Crash, Stop, Busy, Late
  <2>2. Complete' = Complete
    BY <2>1 DEF Complete
  <2>3. Unbroken' => Unbroken
    BY <2>1 DEF Unbroken
  <2> QED
    BY <2>1, <2>2, <2>3 DEF CountInv
<1>3. CASE Die
  <2>1. /\ crashes' = crashes + 1 /\ running' = TRUE /\ created' = created /\ Busy' = {}
        /\ \A k \in Keys \ created : wal'[k] = wal[k]
    BY <1>3 DEF Die, Crash, PowerLoss, Stop, Busy
  <2>2. ~Unbroken'
    BY <2>1 DEF Unbroken
  <2> QED
    BY <2>1, <2>2, FS_EmptySet DEF CountInv
<1>4. CASE Start
  <2>1. /\ crashes' = crashes /\ crashes > 0 /\ up' = TRUE /\ pc' = pc /\ wal' = wal
        /\ created \subseteq created'
    BY <1>4 DEF Start, Restart, counters, CountInv
  <2>2. ~Unbroken' /\ Busy' = Busy
    BY <2>1 DEF Unbroken, Busy
  <2> QED
    BY <2>1, <2>2 DEF CountInv
<1> QED
  BY <1>1, <1>2, <1>3, <1>4

\* No record gets into the log unnoticed: until the process dies, and after an
\* orderly stop, each complete record is that of a request counted or still
\* being handled (http_server.cpp:166-177, main.cpp:63-66), for any number of
\* sessions and whatever fails.
THEOREM AllCounted == GatewaySpec => []RecordsCounted
<1>1. GatewayInit => CountInv
  <2> SUFFICES ASSUME GatewayInit PROVE CountInv
    OBVIOUS
  <2>1. /\ up /\ Busy = {} /\ Late = {} /\ accepted = 0 /\ rejected = 0
        /\ handle \in Keys /\ created = {handle} /\ \A k \in Keys : wal[k] = <<>>
    BY WalAssumption DEF GatewayInit, Init, Busy, Late, Keys
  <2>2. Complete = {}
    BY <2>1 DEF Complete
  <2> QED
    BY <2>1, <2>2, FS_EmptySet DEF CountInv
<1>2. GatewayInv /\ CountInv /\ [GatewayNext]_gatewayVars => CountInv'
  <2> SUFFICES ASSUME GatewayInv, CountInv, [GatewayNext]_gatewayVars PROVE CountInv'
    OBVIOUS
  <2>1. CASE UNCHANGED gatewayVars
    BY <2>1 DEF gatewayVars, vars, http, CountInv, Unbroken, Complete, Busy, Late
  <2>2. ASSUME NEW t \in Threads, Wait(t) \/ Write(t) PROVE CountInv'
    <3>1. Write(t) => UNCHANGED http
      BY DEF Write
    <3>2. WritePayload(t) => ~Wait(t)
      BY DEF WritePayload, Wait, LockMutex, Goto
    <3> QED
      BY <2>2, <3>1, <3>2, CountAppend, CountWritten
  <2> QED
    BY <2>1, <2>2, CountSession, CountProcess DEF GatewayNext, Serve
<1>3. GatewayInv /\ CountInv => RecordsCounted
  <2> SUFFICES ASSUME GatewayInv, CountInv, Unbroken
               PROVE  Cardinality(Complete) <= accepted + rejected + Cardinality(Busy)
    BY DEF RecordsCounted, Unbroken
  <2>1. /\ IsFiniteSet(Complete)
        /\ Cardinality(Complete) <= accepted + rejected + Cardinality(Late)
    BY DEF CountInv
  <2>2. Cardinality(Complete) \in Nat /\ accepted \in Nat /\ rejected \in Nat
    BY <2>1, FS_CardinalityType DEF GatewayInv, GatewayTypeOK
  <2>3. /\ Cardinality(Late) \in Nat /\ Cardinality(Busy) \in Nat
        /\ Cardinality(Late) <= Cardinality(Busy)
    BY LateFinite DEF CountInv
  <2> QED
    BY <2>1, <2>2, <2>3
<1> QED
  BY <1>1, <1>2, <1>3, GatewayInvariant, PTL DEF GatewaySpec

=============================================================================
