----------------------------- MODULE WalWriter ------------------------------
(***************************************************************************)
(* The write side of the WAL: cpp/gateway/src/wal_writer.cpp and the part  *)
(* of http_server.cpp that calls it.  io_context threads handle requests   *)
(* in parallel and serialise on the writer's mutex; the file system calls  *)
(* may fail, the process may be killed and the machine may lose power      *)
(* between any two of them.                                                *)
(*                                                                         *)
(* A segment is the sequence of its records; Torn stands for the bytes of  *)
(* a record not completely written.  Segment names carry the clock's       *)
(* nanoseconds and are compared by them: a name is its key, a number.      *)
(***************************************************************************)
EXTENDS Integers, Sequences, FiniteSetsExt

CONSTANTS Threads, NoThread,
          Payloads,      \* request bodies
          RecordSize,    \* bytes of each one's record, 8-byte header included
          TooLarge,      \* bodies of more than UINT32_MAX bytes
          Torn,          \* a record not completely written
          MaxFileBytes,  \* max_file_bytes_
          MaxKey,        \* bound: segment keys are 1..MaxKey
          MaxRequests,   \* bound: requests handled
          MaxCrashes,    \* bound: crashes and power failures
          Faults         \* what may go wrong, see FaultKinds

FaultKinds == {"open",   \* open(2) fails
               "write",  \* write(2) fails, possibly after some bytes
               "fsync",  \* fsync(2) fails
               "crash",  \* the process dies
               "power",  \* the machine does: unsynced bytes may be lost
               "clock"}  \* system_clock steps back, or another host's lags

NoBody == "none"

ASSUME WalAssumption ==
    /\ NoThread \notin Threads
    /\ {Torn, NoBody} \cap Payloads = {}
    /\ TooLarge \subseteq Payloads
    /\ RecordSize \in [Payloads -> Nat \ {0}]
    /\ {MaxFileBytes, MaxKey, MaxRequests, MaxCrashes} \subseteq Nat
    /\ MaxKey > MaxRequests + MaxCrashes
    /\ Faults \subseteq FaultKinds

Keys == 1..MaxKey
NoKey == 0
NoPlace == <<NoKey, 0>>

VARIABLES created,   \* keys of the segments on disk
          wal,       \* wal[k]: the records of segment k
          synced,    \* synced[k]: how many of them fsync has made durable
          handle,    \* segment behind handle_ (NoKey: handle_ is -1)
          size,      \* current_file_size_
          mutex,     \* holder of mutex_
          pc,        \* where each thread is
          body,      \* the request body each thread handles
          place,     \* <<segment, index>> of the record it has written
          acked,     \* <<segment, index, body>> confirmed with HTTP 200
          up,        \* the gateway process runs
          requests, crashes  \* counted for the bounds only

vars == <<created, wal, synced, handle, size, mutex, pc, body, place, acked,
          up, requests, crashes>>
disk == <<created, wal, synced>>
counters == <<requests, crashes>>

Locations == {"idle", "lock", "open", "header", "payload", "fsync",
              "stored", "failed"}

\* Mutant of FreshKey: random names.
RandomKey(k) == k \notin created

\* A name not used before; later than all others if clocks are monotonic.
\* Only the order of keys counts, so then the next one stands for all.
FreshKey(k) ==
    /\ k \notin created
    /\ "clock" \in Faults \/ (k - 1 \in created /\ \A j \in created : j < k)

Init ==
    /\ handle \in (IF "clock" \in Faults THEN Keys ELSE {1})
    /\ created = {handle}
    /\ wal = [k \in Keys |-> <<>>]
    /\ synced = [k \in Keys |-> 0]
    /\ size = 0
    /\ mutex = NoThread
    /\ pc = [t \in Threads |-> "idle"]
    /\ body = [t \in Threads |-> NoBody]
    /\ place = [t \in Threads |-> NoPlace]
    /\ acked = {}
    /\ up = TRUE
    /\ requests = 0 /\ crashes = 0

Goto(t, from, to) == pc[t] = from /\ pc' = [pc EXCEPT ![t] = to]

\* append() returns: the scoped_lock is released on every path.
Return(t, from, to) == Goto(t, from, to) /\ mutex' = NoThread

(* Mutants of the definitions below: see the README. *)

\* Rotates only once the segment is over the limit.
RotateLate(t) == handle = NoKey \/ size > MaxFileBytes

\* An early return that keeps the mutex.
OpenFailsLocked(t) ==
    /\ "open" \in Faults
    /\ Goto(t, "open", "failed")
    /\ handle' = NoKey
    /\ UNCHANGED <<disk, size, mutex, body, place, acked, up, counters>>

\* No fsync.
SkipFsync(t) ==
    /\ Return(t, "fsync", "stored")
    /\ size' = size + RecordSize[body[t]]
    /\ UNCHANGED <<disk, handle, body, place, acked, up, counters>>

-----------------------------------------------------------------------------
\* A valid OTLP POST reaches append(); one that is too large is refused there.
Request(t, p) ==
    /\ up /\ requests < MaxRequests
    /\ Goto(t, "idle", IF p \in TooLarge THEN "failed" ELSE "lock")
    /\ body' = [body EXCEPT ![t] = p]
    /\ requests' = requests + 1
    /\ UNCHANGED <<disk, handle, size, mutex, place, acked, up, crashes>>

\* No open segment, or the record would take a non-empty one over the limit.
MustRotate(t) ==
    \/ handle = NoKey
    \/ size > 0 /\ size + RecordSize[body[t]] > MaxFileBytes

\* Mutant of LockMutex: append() without its scoped_lock.
LockNothing(t) ==
    /\ Goto(t, "lock", IF MustRotate(t) THEN "open" ELSE "header")
    /\ UNCHANGED <<disk, handle, size, mutex, body, place, acked, up, counters>>

LockMutex(t) ==
    /\ mutex = NoThread
    /\ Goto(t, "lock", IF MustRotate(t) THEN "open" ELSE "header")
    /\ mutex' = t
    /\ UNCHANGED <<disk, handle, size, body, place, acked, up, counters>>

OpenSegment(t, k) ==
    /\ FreshKey(k)
    /\ Goto(t, "open", "header")
    /\ created' = created \union {k}
    /\ handle' = k
    /\ size' = 0
    /\ UNCHANGED <<wal, synced, mutex, body, place, acked, up, counters>>

\* The old handle is closed first: the next append opens a new segment too.
OpenFails(t) ==
    /\ "open" \in Faults
    /\ Return(t, "open", "failed")
    /\ handle' = NoKey
    /\ UNCHANGED <<disk, size, body, place, acked, up, counters>>

WriteHeader(t) ==
    /\ Goto(t, "header", "payload")
    /\ wal' = [wal EXCEPT ![handle] = Append(@, Torn)]
    /\ UNCHANGED <<created, synced, handle, size, mutex, body, place, acked,
                   up, counters>>

WritePayload(t) ==
    LET last == Len(wal[handle]) IN
    /\ Goto(t, "payload", "fsync")
    /\ wal' = [wal EXCEPT ![handle][last] = body[t]]
    /\ place' = [place EXCEPT ![t] = <<handle, last>>]
    /\ UNCHANGED <<created, synced, handle, size, mutex, body, acked, up,
                   counters>>

\* write_all gives up: nothing or a part of the record is in the file, and
\* the handle stays open for the next append.
WriteFails(t) ==
    /\ "write" \in Faults
    /\ \/ Return(t, "header", "failed")
          /\ wal' \in {wal, [wal EXCEPT ![handle] = Append(@, Torn)]}
       \/ Return(t, "payload", "failed") /\ wal' = wal
    /\ UNCHANGED <<created, synced, handle, size, body, place, acked, up,
                   counters>>

Fsync(t) ==
    /\ Return(t, "fsync", "stored")
    /\ synced' = [synced EXCEPT ![handle] = Len(wal[handle])]
    /\ size' = size + RecordSize[body[t]]
    /\ UNCHANGED <<created, wal, handle, body, place, acked, up, counters>>

FsyncFails(t) ==
    /\ "fsync" \in Faults
    /\ Return(t, "fsync", "failed")
    /\ UNCHANGED <<disk, handle, size, body, place, acked, up, counters>>

\* The request is over, and its local variables with it.
Forget(t) ==
    /\ body' = [body EXCEPT ![t] = NoBody]
    /\ place' = [place EXCEPT ![t] = NoPlace]

\* append() returned true: HTTP 200.
Confirm(t) ==
    /\ Goto(t, "stored", "idle")
    /\ acked' = acked \union {<<place[t][1], place[t][2], body[t]>>}
    /\ Forget(t)
    /\ UNCHANGED <<disk, handle, size, mutex, up, counters>>

\* append() returned false: HTTP 503.
Refuse(t) ==
    /\ Goto(t, "failed", "idle")
    /\ Forget(t)
    /\ UNCHANGED <<disk, handle, size, mutex, acked, up, counters>>

-----------------------------------------------------------------------------
Stop ==
    /\ up /\ crashes < MaxCrashes
    /\ up' = FALSE
    /\ crashes' = crashes + 1
    /\ handle' = NoKey
    /\ mutex' = NoThread
    /\ pc' = [t \in Threads |-> "idle"]
    /\ body' = [t \in Threads |-> NoBody]
    /\ place' = [t \in Threads |-> NoPlace]
    /\ UNCHANGED <<created, acked, requests>>

\* The process dies; what it wrote stays in the page cache.
Crash ==
    /\ "crash" \in Faults
    /\ Stop
    /\ UNCHANGED <<wal, synced, size>>

\* The machine dies.  Each segment keeps what is synced; of what is not, a
\* segment loses nothing, everything, or everything but a torn first record.
\* Assumed: the directory entry of a new segment, which is not fsynced, stays.
PowerLoss ==
    /\ "power" \in Faults
    /\ Stop
    /\ \E lost \in SUBSET {k \in created : Len(wal[k]) > synced[k]} :
       \E part \in SUBSET lost :
         wal' = [k \in Keys |->
                   LET kept == SubSeq(wal[k], 1, synced[k]) IN
                   IF k \in part THEN Append(kept, Torn)
                   ELSE IF k \in lost THEN kept ELSE wal[k]]
    /\ UNCHANGED <<synced, size>>

\* The constructor opens a new segment; old ones are never written again.
Restart ==
    /\ ~up
    /\ \E k \in Keys :
         /\ FreshKey(k)
         /\ created' = created \union {k}
         /\ handle' = k
    /\ size' = 0
    /\ up' = TRUE
    /\ UNCHANGED <<wal, synced, mutex, pc, body, place, acked, counters>>

-----------------------------------------------------------------------------
AppendStep(t) ==
    \/ \E k \in Keys : OpenSegment(t, k)
    \/ OpenFails(t)
    \/ WriteHeader(t) \/ WritePayload(t) \/ WriteFails(t)
    \/ Fsync(t) \/ FsyncFails(t)

Handle(t) == AppendStep(t) \/ Confirm(t) \/ Refuse(t)

Next ==
    \/ \E t \in Threads : \/ \E p \in Payloads : Request(t, p)
                          \/ LockMutex(t) \/ Handle(t)
    \/ Crash \/ PowerLoss \/ Restart

Spec == Init /\ [][Next]_vars

\* System calls return and threads run; a thread waiting for the mutex gets it
\* if it is released again and again.
FairSpec ==
    /\ Spec
    /\ \A t \in Threads : WF_vars(Handle(t)) /\ SF_vars(LockMutex(t))

-----------------------------------------------------------------------------
(* Properties. *)

Records == Payloads \union {Torn}

TypeOK ==
    /\ created \subseteq Keys
    /\ wal \in [Keys -> Seq(Records)]
    /\ synced \in [Keys -> Nat]
    /\ handle \in created \union {NoKey}
    /\ size \in Nat
    /\ mutex \in Threads \union {NoThread}
    /\ pc \in [Threads -> Locations]
    /\ body \in [Threads -> Payloads \union {NoBody}]
    /\ place \in [Threads -> (Keys \union {NoKey}) \X Nat]
    /\ acked \subseteq Keys \X Nat \X Payloads
    /\ up \in BOOLEAN
    /\ requests \in Nat /\ crashes \in Nat

\* A confirmed record is complete, unaltered and on stable storage, in its
\* place, whatever calls fail and whenever the process or the machine dies
\* (http_server.cpp:166 answers 200 only after wal_writer.cpp:121).
AckedDurable ==
    \A r \in acked : /\ r[2] \in 1..synced[r[1]]
                     /\ r[2] <= Len(wal[r[1]])
                     /\ wal[r[1]][r[2]] = r[3]

\* A confirmed record can also be reached: a reader walks a segment from its
\* start and stops at the first bad record, so none may stand in front of it.
AckedReadable ==
    \A r \in acked : \A i \in 1..r[2] : wal[r[1]][i] # Torn

\* "Rotates to a new segment when current file size + record size exceeds
\* max_file_bytes" (wal_writer.h:24): the confirmed records of a segment that
\* holds more than one stay within the limit.  (Records of a failed write or
\* fsync are in the file too, but current_file_size_ does not count them.)
SegmentBound ==
    \A k \in created :
      LET confirmed == {r \in acked : r[1] = k} IN
      Cardinality(confirmed) > 1 =>
        MapThenSumSet(LAMBDA r : RecordSize[r[3]], confirmed) <= MaxFileBytes

\* Only the newest segment grows.  The materializer takes the newest one for
\* the active one and every other for finished (materializer.py:474-476).
OnlyNewestGrows ==
    [][\A k \in Keys : Len(wal'[k]) > Len(wal[k])
                         => \A j \in created : j <= k]_vars

\* Every request is answered, if the process lives: no path of append() ends
\* with the mutex held.
RequestAnswered == \A t \in Threads : pc[t] # "idle" ~> pc[t] = "idle"

\* The writer implements the promise: a record counts as stored once it is
\* complete and covered by a successful fsync.
Durable ==
    UNION {{<<k, i, wal[k][i]>> : i \in {j \in 1..synced[k] : wal[k][j] # Torn}}
             : k \in created}

Log == INSTANCE AckLog WITH stored <- Durable
ImplementsAckLog == Log!Spec
=============================================================================
