---------------------------- MODULE Materializer ----------------------------
(***************************************************************************)
(* materialize() and cleanup_materialized_wal_files() of                   *)
(* backend/app/materializer.py, against a gateway that keeps appending.    *)
(*                                                                         *)
(* Both run under storage_lifecycle_lock: one call at a time (that is what *)
(* LifecycleLock is about), so one program counter stands for all callers. *)
(* The manifest (SQLite) and the files survive a crash, the batch does not.*)
(*                                                                         *)
(* A segment is the sequence of its records' kinds, its byte offsets are   *)
(* counted in records, and record i of segment k is <<k, i>>.              *)
(***************************************************************************)
EXTENDS Integers, Sequences, FiniteSets

CONSTANTS MaxKey,      \* bound: segments are named 1..MaxKey, in name order
          MaxRecords,  \* bound: records per segment
          BatchSize,   \* settings.materialize_batch_size
          Kinds,       \* the kinds of record the gateway accepts
          Faults       \* what may go wrong, see FaultKinds

\* One record's payload: spans, a request without any span, an empty body
\* (zero length), spans with a value the Arrow schema refuses; or a record
\* of which only a part is in the file.
RecordKinds == {"span", "void", "zero", "wild"}

FaultKinds == {"abort",    \* a call raises, or its process dies, at any step
               "unlink",   \* unlink(2) fails
               "partial",  \* a reader sees a record half written
               "write",    \* a failed write leaves half a record
               "clock"}    \* a new segment may sort before an older one

ASSUME MaterializerAssumption ==
    /\ MaxKey \in Nat \ {0} /\ MaxRecords \in Nat
    /\ BatchSize \in Nat \ {0}
    /\ Kinds \subseteq RecordKinds
    /\ Faults \subseteq FaultKinds

Keys == 1..MaxKey
None == -1

VARIABLES wal,       \* wal[k]: the records of segment k
          present,   \* the segments on disk
          current,   \* the segment the gateway writes
          writing,   \* its last record is still being written
          maxOffset, \* materialized_wal_offsets.max_offset, None: no row
          full,      \* segments with is_fully_processed = 1
          corruptAt, \* wal_corruption_events.offset, None: no event
          lifecycle, \* wal_file_lifecycle.status
          files,     \* the records in each committed Parquet file
          pc,        \* where the call holding the lock is
          todo,      \* wal_files not visited yet
          active,    \* active_wal_filename
          cur,       \* the segment being read
          start,     \* start_offset
          pos,       \* end of the last record yielded
          batch,     \* records of current_batch_rows
          boff,      \* current_batch_offsets, 0: no entry
          resume     \* where _flush_batch returns to

gateway == <<wal, current, writing>>
manifest == <<maxOffset, full, corruptAt, lifecycle, files>>
scan == <<active, cur, start, pos>>
pending == <<batch, boff>>
vars == <<gateway, present, manifest, pc, todo, scan, pending, resume>>

Locations == {"idle", "visit", "read", "eof", "seal", "flush", "quarantine",
              "unlink", "log"}

(* Mutants of definitions below are marked so: see the README. *)

\* Mutants of Offset: no default for a segment without a row; no fast resume.
RawOffset(k) == maxOffset[k]
ZeroOffset(k) == 0

Size(k) == Len(wal[k])
Offset(k) == IF maxOffset[k] = None THEN 0 ELSE maxOffset[k]
Quarantined == {k \in Keys : corruptAt[k] # None}

\* A record _wal_records_from yields, and one whose rows are not empty.
Readable(kind) == kind \in {"span", "void", "wild"}
HasRows(kind) == kind \in {"span", "wild"}

\* Mutant of Last: the listing sorted the other way round.
Oldest(k, S) == k \in S /\ \A j \in S : k <= j

First(k, S) == k \in S /\ \A j \in S : k <= j
Last(k, S) == k \in S /\ \A j \in S : j <= k

Init ==
    /\ wal = [k \in Keys |-> <<>>]
    /\ current \in (IF "clock" \in Faults THEN Keys ELSE {1})
    /\ present = {current}
    /\ writing = FALSE
    /\ maxOffset = [k \in Keys |-> None]
    /\ full = {}
    /\ corruptAt = [k \in Keys |-> None]
    /\ lifecycle = [k \in Keys |-> "none"]
    /\ files = <<>>
    /\ pc = "idle"
    /\ todo = {}
    /\ active = current /\ cur = current
    /\ start = 0 /\ pos = 0
    /\ batch = {} /\ boff = [k \in Keys |-> 0]
    /\ resume = "idle"

-----------------------------------------------------------------------------
(* The gateway, seen from its files (WalWriter has the detail). *)

GatewayAppend(kind) ==
    /\ ~writing /\ Size(current) < MaxRecords
    /\ wal' = [wal EXCEPT ![current] = Append(@, kind)]
    /\ UNCHANGED <<current, writing, present, manifest, pc, todo, scan,
                   pending, resume>>

\* The same append in two steps: between them a reader finds part of it.
GatewayBegin ==
    /\ "partial" \in Faults
    /\ ~writing /\ Size(current) < MaxRecords
    /\ wal' = [wal EXCEPT ![current] = Append(@, "torn")]
    /\ writing' = TRUE
    /\ UNCHANGED <<current, present, manifest, pc, todo, scan, pending, resume>>

GatewayFinish(kind) ==
    /\ writing
    /\ wal' = [wal EXCEPT ![current][Size(current)] = kind]
    /\ writing' = FALSE
    /\ UNCHANGED <<current, present, manifest, pc, todo, scan, pending, resume>>

\* The write fails half way, or the gateway dies: no HTTP 200, the bytes stay.
GatewayGivesUp ==
    /\ "write" \in Faults
    /\ \/ /\ ~writing /\ Size(current) < MaxRecords
          /\ wal' = [wal EXCEPT ![current] = Append(@, "torn")]
       \/ writing /\ wal' = wal
    /\ writing' = FALSE
    /\ UNCHANGED <<current, present, manifest, pc, todo, scan, pending, resume>>

\* Rotation or restart: a name not used before (a deleted one is in full).
GatewayRotate(k) ==
    /\ ~writing
    /\ k \notin present \union full \union {current}
    /\ "clock" \in Faults \/ k = current + 1
    /\ current' = k
    /\ present' = present \union {k}
    /\ UNCHANGED <<wal, writing, manifest, pc, todo, scan, pending, resume>>

-----------------------------------------------------------------------------
(* materialize(). *)

\* Load the manifest and list the WAL.  Each segment is visited once and the
\* lock keeps other writers out, so the manifest rows a visit uses are those
\* in the tables when it starts.
BeginMaterialize ==
    /\ pc = "idle" /\ present # {}
    /\ todo' = present
    /\ Last(active', present)
    /\ pc' = "visit"
    /\ UNCHANGED <<gateway, present, manifest, cur, start, pos, pending, resume>>

\* Mutant of Skip: what was read once is not looked at again.
SkipStarted(k) == k \in Quarantined \union full \/ Offset(k) > 0

\* Nothing new: skipped before the file is opened.
Skip(k) ==
    \/ k \in Quarantined
    \/ k \in full /\ Offset(k) >= Size(k)
    \/ Offset(k) >= Size(k) /\ Size(k) > 0

SkipSegment(k) ==
    /\ pc = "visit" /\ First(k, todo)
    /\ Skip(k)
    /\ todo' = todo \ {k}
    /\ UNCHANGED <<gateway, present, manifest, pc, scan, pending, resume>>

OpenSegment(k) ==
    /\ pc = "visit" /\ First(k, todo)
    /\ ~Skip(k)
    /\ todo' = todo \ {k}
    /\ cur' = k
    /\ start' = Offset(k)
    /\ pos' = Offset(k)
    /\ pc' = "read"
    /\ UNCHANGED <<gateway, present, manifest, active, pending, resume>>

FlushThen(where) == pc' = "flush" /\ resume' = where

\* The next record's rows join the batch; a full batch is flushed at once.
ReadRecord ==
    LET rows == IF HasRows(wal[cur][pos + 1]) THEN {<<cur, pos + 1>>} ELSE {} IN
    /\ pc = "read" /\ pos < Size(cur)
    /\ Readable(wal[cur][pos + 1])
    /\ pos' = pos + 1
    /\ batch' = batch \union rows
    /\ boff' = [boff EXCEPT ![cur] = pos + 1]
    /\ IF Cardinality(batch') >= BatchSize THEN FlushThen("read")
       ELSE UNCHANGED <<pc, resume>>
    /\ UNCHANGED <<gateway, present, manifest, todo, active, cur, start>>

\* Mutant of FindCorruption: quarantine at once.
QuarantineFirst ==
    /\ pc = "read" /\ pos < Size(cur)
    /\ ~Readable(wal[cur][pos + 1])
    /\ pc' = "quarantine"
    /\ UNCHANGED <<gateway, present, manifest, todo, scan, pending, resume>>

\* WalCorruptionError at pos: first flush what was collected before it.
FindCorruption ==
    /\ pc = "read" /\ pos < Size(cur)
    /\ ~Readable(wal[cur][pos + 1])
    /\ IF batch # {} THEN FlushThen("quarantine")
       ELSE pc' = "quarantine" /\ UNCHANGED resume
    /\ UNCHANGED <<gateway, present, manifest, todo, scan, pending>>

EndOfFile ==
    /\ pc = "read" /\ pos >= Size(cur)
    /\ pc' = "eof"
    /\ UNCHANGED <<gateway, present, manifest, todo, scan, pending, resume>>

\* Mutant of CheckSealed: the active segment may be sealed too.
SealActive ==
    /\ pc = "eof"
    /\ pc' = IF Size(cur) = boff[cur] THEN "seal" ELSE "visit"
    /\ UNCHANGED <<gateway, present, manifest, todo, scan, pending, resume>>

\* "a sealed file (not active) and we reached the end of file": the offset
\* compared is the batch's, or start_offset when a flush has just cleared it.
CheckSealed ==
    LET reached == IF boff[cur] > 0 THEN boff[cur] ELSE start IN
    /\ pc = "eof"
    /\ pc' = IF cur # active /\ Size(cur) = reached THEN "seal" ELSE "visit"
    /\ UNCHANGED <<gateway, present, manifest, todo, scan, pending, resume>>

\* Mutant of Seal: the offset moves to the end, the flag is not set.
SealByOffset ==
    /\ pc = "seal"
    /\ maxOffset' = [maxOffset EXCEPT ![cur] = Size(cur)]
    /\ pc' = "visit"
    /\ UNCHANGED <<gateway, present, full, corruptAt, lifecycle, files, todo,
                   scan, pending, resume>>

\* The batch may still hold the segment's last records.
Seal ==
    /\ pc = "seal"
    /\ full' = full \union {cur}
    /\ maxOffset' = [maxOffset EXCEPT ![cur] = IF @ = None THEN Size(cur) ELSE @]
    /\ pc' = "visit"
    /\ UNCHANGED <<gateway, present, corruptAt, lifecycle, files, todo, scan,
                   pending, resume>>

Convertible == \A r \in batch : wal[r[1]][r[2]] # "wild"

\* _flush_batch, seen from the manifest: the file and the offsets of its
\* records become visible in one transaction.
Flush ==
    /\ pc = "flush" /\ Convertible
    /\ files' = Append(files, batch)
    /\ maxOffset' = [k \in Keys |-> IF boff[k] > maxOffset[k] /\ boff[k] > 0
                                    THEN boff[k] ELSE maxOffset[k]]
    /\ batch' = {}
    /\ boff' = [k \in Keys |-> 0]
    /\ pc' = resume
    /\ UNCHANGED <<gateway, present, full, corruptAt, lifecycle, todo, scan,
                   resume>>

\* Mutant of Quarantine: the offset where the scan began.
QuarantineAtStart ==
    /\ pc = "quarantine"
    /\ corruptAt' = [corruptAt EXCEPT ![cur] = start]
    /\ lifecycle' = [lifecycle EXCEPT ![cur] = "QUARANTINED"]
    /\ pc' = "visit"
    /\ UNCHANGED <<gateway, present, maxOffset, full, files, todo, scan,
                   pending, resume>>

Quarantine ==
    /\ pc = "quarantine"
    /\ corruptAt' = [corruptAt EXCEPT ![cur] = pos]
    /\ lifecycle' = [lifecycle EXCEPT ![cur] = "QUARANTINED"]
    /\ pc' = "visit"
    /\ UNCHANGED <<gateway, present, maxOffset, full, files, todo, scan,
                   pending, resume>>

\* All segments visited: flush the rest, then return.
FinalFlush ==
    /\ pc = "visit" /\ todo = {} /\ batch # {}
    /\ FlushThen("visit")
    /\ UNCHANGED <<gateway, present, manifest, todo, scan, pending>>

Forget ==
    /\ batch' = {}
    /\ boff' = [k \in Keys |-> 0]
    /\ todo' = {}
    /\ pc' = "idle"

\* Mutant of EndMaterialize: no final flush.
EndUnflushed ==
    /\ pc = "visit" /\ todo = {}
    /\ Forget
    /\ UNCHANGED <<gateway, present, manifest, scan, resume>>

EndMaterialize ==
    /\ pc = "visit" /\ todo = {} /\ batch = {}
    /\ Forget
    /\ UNCHANGED <<gateway, present, manifest, scan, resume>>

\* The call raises or its process dies: a row Arrow refuses always does.
Abort ==
    /\ pc # "idle"
    /\ "abort" \in Faults \/ (pc = "flush" /\ ~Convertible)
    /\ Forget
    /\ UNCHANGED <<gateway, present, manifest, scan, resume>>

-----------------------------------------------------------------------------
(* cleanup_materialized_wal_files(). *)

\* Mutant of BeginCleanup: any segment with a row, not only the marked ones.
CleanupTouched ==
    /\ pc = "idle"
    /\ todo' = {k \in present : maxOffset[k] # None /\ ~Last(k, present)}
    /\ todo' # {}
    /\ pc' = "unlink"
    /\ UNCHANGED <<gateway, present, manifest, scan, pending, resume>>

\* All but the newest segment, of those marked fully processed.
BeginCleanup ==
    /\ pc = "idle"
    /\ todo' = {k \in present \intersect full : ~Last(k, present)}
    /\ todo' # {}
    /\ pc' = "unlink"
    /\ UNCHANGED <<gateway, present, manifest, scan, pending, resume>>

\* Mutant of Unlink: the deletion is not logged.
UnlinkSilently(k) ==
    /\ pc = "unlink" /\ First(k, todo)
    /\ present' = present \ {k}
    /\ todo' = todo \ {k}
    /\ UNCHANGED <<gateway, manifest, pc, scan, pending, resume>>

Unlink(k) ==
    /\ pc = "unlink" /\ First(k, todo)
    /\ present' = present \ {k}
    /\ pc' = "log"
    /\ UNCHANGED <<gateway, manifest, todo, scan, pending, resume>>

UnlinkFails(k) ==
    /\ "unlink" \in Faults
    /\ pc = "unlink" /\ First(k, todo)
    /\ todo' = todo \ {k}
    /\ UNCHANGED <<gateway, present, manifest, pc, scan, pending, resume>>

LogDeletion(k) ==
    /\ pc = "log" /\ First(k, todo)
    /\ lifecycle' = [lifecycle EXCEPT ![k] = "DELETED"]
    /\ todo' = todo \ {k}
    /\ pc' = "unlink"
    /\ UNCHANGED <<gateway, present, maxOffset, full, corruptAt, files, scan,
                   pending, resume>>

EndCleanup ==
    /\ pc = "unlink" /\ todo = {}
    /\ pc' = "idle"
    /\ UNCHANGED <<gateway, present, manifest, todo, scan, pending, resume>>

-----------------------------------------------------------------------------
Gateway ==
    \/ \E kind \in Kinds : GatewayAppend(kind) \/ GatewayFinish(kind)
    \/ GatewayBegin \/ GatewayGivesUp
    \/ \E k \in Keys : GatewayRotate(k)

\* A call that has begun goes on to its end.
Work ==
    \/ \E k \in Keys : \/ SkipSegment(k) \/ OpenSegment(k)
                       \/ Unlink(k) \/ UnlinkFails(k) \/ LogDeletion(k)
    \/ ReadRecord \/ FindCorruption \/ EndOfFile \/ CheckSealed \/ Seal
    \/ Flush \/ Quarantine \/ FinalFlush \/ EndMaterialize \/ EndCleanup

Next == Gateway \/ BeginMaterialize \/ BeginCleanup \/ Work \/ Abort

Spec == Init /\ [][Next]_vars

\* A call runs to its end; the background loop calls materialize() again and
\* again, and gets the lock.
FairSpec == Spec /\ WF_vars(Work \/ Abort) /\ SF_vars(BeginMaterialize)

\* Somebody also keeps calling cleanup_materialized_wal_files().
CleanedSpec == FairSpec /\ SF_vars(BeginCleanup)

-----------------------------------------------------------------------------
(* Properties. *)

Records == Keys \X (1..MaxRecords)
Committed == UNION {files[n] : n \in DOMAIN files}

TypeOK ==
    /\ wal \in [Keys -> Seq(RecordKinds \union {"torn"})]
    /\ \A k \in Keys : Size(k) <= MaxRecords
    /\ present \subseteq Keys /\ full \subseteq Keys /\ todo \subseteq Keys
    /\ current \in Keys /\ active \in Keys /\ cur \in Keys
    /\ writing \in BOOLEAN
    /\ maxOffset \in [Keys -> 0..MaxRecords \union {None}]
    /\ corruptAt \in [Keys -> 0..MaxRecords \union {None}]
    /\ lifecycle \in [Keys -> {"none", "QUARANTINED", "DELETED"}]
    /\ files \in Seq(SUBSET Records)
    /\ batch \subseteq Records
    /\ boff \in [Keys -> 0..MaxRecords]
    /\ start \in 0..MaxRecords /\ pos \in 0..MaxRecords
    /\ pc \in Locations
    /\ resume \in {"idle", "visit", "read", "quarantine"}

\* No record's rows are committed twice, nor about to be: not by an overlapping
\* batch, not by a run that repeats what an aborted one had already flushed
\* (materializer.py:9 "Crash-Safe & Idempotent").
RowsOnce ==
    /\ \A m, n \in DOMAIN files : m # n => files[m] \intersect files[n] = {}
    /\ batch \intersect Committed = {}

\* A high-water mark never runs ahead of the rows: whatever lies below it in a
\* segment not marked fully processed is committed, so resuming there after an
\* abort skips nothing (materializer.py:407-417, 434 "Fast resume").
OffsetsCommitted ==
    \A k \in Keys \ full : \A i \in 1..Offset(k) :
      HasRows(wal[k][i]) => <<k, i>> \in Committed

\* "stops at the corruption boundary without discarding valid preceding data"
\* (docs/ARCHITECTURE.md:345-346), even if the run that found it was aborted.
PrefixSalvaged ==
    \A k \in Quarantined : \A i \in 1..corruptAt[k] :
      HasRows(wal[k][i]) => <<k, i>> \in Committed

\* Every accepted record with spans is committed, in the batch of the running
\* call, or still on disk beyond its segment's high-water mark.
AckedKept ==
    \A k \in Keys : \A i \in 1..Size(k) :
      HasRows(wal[k][i]) =>
        \/ <<k, i>> \in Committed \union batch
        \/ k \in present /\ i > Offset(k)

\* "Records exact byte offsets and diagnostics whenever malformed or corrupted
\* records are quarantined" (docs/ARCHITECTURE.md:468): when a segment is put
\* into quarantine, everything before the offset recorded can be read, more
\* stands behind it, and in a segment the call knows to be sealed that is a bad
\* record.  In the one it takes for active it need not be: a record found half
\* written may be complete before its segment is quarantined for it, a
\* good record then standing where the event says that a bad one is.
EventsExact ==
    [][\A k \in Keys : corruptAt[k] = None /\ corruptAt'[k] # None =>
         /\ corruptAt'[k] < Size(k)
         /\ \A i \in 1..corruptAt'[k] : Readable(wal[k][i])
         /\ k # active => ~Readable(wal[k][corruptAt'[k] + 1])]_vars

Deleted(k) == k \in present \ present'
Unmaterialized(k) ==
    \E i \in 1..Size(k) : HasRows(wal[k][i]) /\ <<k, i>> \notin Committed

\* The rules of cleanup_materialized_wal_files (materializer.py:605-607):
\* "Never delete the active (newest) WAL segment",
NeverDeleteActive == [][\A k \in Keys : Deleted(k) => k # current]_vars
\* "Never delete unmaterialized segments",
NeverDeleteUnmaterialized ==
    [][\A k \in Keys : Deleted(k) => ~Unmaterialized(k)]_vars
\* "Never delete quarantined segments silently",
NeverDeleteQuarantined ==
    [][\A k \in Keys : Deleted(k) => k \notin Quarantined]_vars
\* "Log all deletions and record in lifecycle table" (608): between calls,
\* every segment that is gone is recorded as deleted.
DeletionsLogged ==
    pc = "idle" => \A k \in full \ present : lifecycle[k] = "DELETED"

\* Every accepted record with spans is committed in the end, unless its
\* segment was quarantined: the loop's next run gets further than the last.
EventuallyCommitted ==
    \A k \in Keys : \A i \in 1..MaxRecords :
      i <= Size(k) /\ HasRows(wal[k][i])
        ~> <<k, i>> \in Committed \/ k \in Quarantined

\* "Indefinite WAL growth eliminated via size-based rotation and safe lifecycle
\* management" (docs/PROJECT_STATUS.md:77): a segment the gateway has rotated
\* away from is deleted in the end, unless it is quarantined.
RotatedDeleted ==
    \A k \in Keys : k \in present /\ k < current
                      ~> k \notin present \/ k \in Quarantined
=============================================================================
