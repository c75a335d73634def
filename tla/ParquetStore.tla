---------------------------- MODULE ParquetStore ----------------------------
(***************************************************************************)
(* The Parquet directory and its manifest (table parquet_files): how       *)
(* _flush_batch and compact_parquet_files (backend/app/materializer.py)    *)
(* add and replace files, how cleanup_orphaned_parquet_files deletes them, *)
(* and how a query finds the files to scan (backend/app/control.py).       *)
(*                                                                         *)
(* Materialization and compaction hold storage_lifecycle_lock: one actor,  *)
(* Call, stands for all of them.  A process that starts sweeps without the *)
(* lock: actor Startup.  Queries take no lock either.                      *)
(***************************************************************************)
EXTENDS Integers, FiniteSets

CONSTANTS MaxFiles,    \* bound: file names ever used
          MaxBatches,  \* bound: batches flushed
          MaxMerge,    \* max_files_to_merge
          Faults       \* what may go wrong, see FaultKinds

FaultKinds == {"abort",    \* an exception or a crash, at any step
               "unlink",   \* unlink(2) fails
               "sqlite",   \* a SELECT on the manifest fails, or an exists()
               "close",    \* ParquetWriter.close() fails: no footer
               "overlap"}  \* a process starts while another one is working

ASSUME StoreAssumption ==
    /\ {MaxFiles, MaxBatches} \subseteq Nat
    /\ MaxMerge \in Nat \ {0, 1}
    /\ Faults \subseteq FaultKinds

Names == 1..MaxFiles
Batches == 1..MaxBatches
Call == "call"
Startup == "startup"
Actors == {Call, Startup}

VARIABLES rows,     \* rows[f]: batches readable in file f, {}: it has no footer
          tmp,      \* files under their temporary name
          final,    \* files under their final name
          status,   \* parquet_files.status, "none": no row
          flushed,  \* batches whose WAL offsets are committed
          pc,       \* where each actor is
          made,     \* names used so far; the newest is the file being made
          merging,  \* to_merge: the files being compacted
          known,    \* per actor, the committed names a sweep has read
          doomed,   \* per actor, the files it is about to unlink
          qpc,      \* where the query is
          listed,   \* the files it is going to scan
          expected  \* the batches readable when it began; no part of the
                    \* code, it serves QueryComplete

disk == <<rows, tmp, final>>
manifest == <<status, flushed>>
query == <<qpc, listed, expected>>
vars == <<disk, manifest, pc, made, merging, known, doomed, query>>

\* Mutant of Committed: every file that has a row.
Registered == {f \in Names : status[f] # "none"}

Committed == {f \in Names : status[f] = "COMMITTED"}
Readable(f) == f \in final /\ rows[f] # {}
Visible == UNION {rows[f] : f \in Committed \intersect final}

Init ==
    /\ rows = [f \in Names |-> {}]
    /\ tmp = {} /\ final = {}
    /\ status = [f \in Names |-> "none"]
    /\ flushed = 0
    /\ pc = [a \in Actors |-> "idle"]
    /\ made = 0
    /\ merging = {}
    /\ known = [a \in Actors |-> {}] /\ doomed = [a \in Actors |-> {}]
    /\ qpc = "idle" /\ listed = {} /\ expected = {}

Goto(a, from, to) == pc[a] = from /\ pc' = [pc EXCEPT ![a] = to]

\* Within one process the startup sweep is over before any call begins.
Alone(a) == "overlap" \in Faults \/ \A b \in Actors \ {a} : pc[b] = "idle"

-----------------------------------------------------------------------------
(* cleanup_orphaned_parquet_files(): at the start of materialize(), inside *)
(* the lock, and in the lifespan of a starting process, outside it.        *)

BeginSweep(a) ==
    /\ Alone(a)
    /\ Goto(a, "idle", "tmp")
    /\ UNCHANGED <<disk, manifest, made, merging, known, doomed, query>>

\* All *.tmp files, in one step: at most one of them is anybody's.
SweepTmp(a) ==
    /\ Goto(a, "tmp", "select")
    /\ tmp' \in IF "unlink" \in Faults THEN SUBSET tmp ELSE {{}}
    /\ UNCHANGED <<rows, final, manifest, made, merging, known, doomed, query>>

SelectCommitted(a) ==
    /\ Goto(a, "select", "glob")
    /\ known' = [known EXCEPT ![a] = Committed]
    /\ UNCHANGED <<disk, manifest, made, merging, doomed, query>>

\* Mutant of SelectFails: the sweep goes on with no committed name.
SweepAnyway(a) ==
    /\ "sqlite" \in Faults
    /\ Goto(a, "select", "glob")
    /\ UNCHANGED <<disk, manifest, made, merging, known, doomed, query>>

\* sqlite3.Error: only the temporary files are swept.
SelectFails(a) ==
    /\ "sqlite" \in Faults
    /\ Goto(a, "select", "unlink")
    /\ UNCHANGED <<disk, manifest, made, merging, known, doomed, query>>

GlobParquet(a) ==
    /\ Goto(a, "glob", "unlink")
    /\ doomed' = [doomed EXCEPT ![a] = final \ known[a]]
    /\ UNCHANGED <<disk, manifest, made, merging, known, query>>

\* Also the last phase of a compaction.
Unlink(a, f) ==
    /\ pc[a] = "unlink" /\ f \in doomed[a]
    /\ doomed' = [doomed EXCEPT ![a] = @ \ {f}]
    /\ final' \in {final \ {f}} \union IF "unlink" \in Faults THEN {final} ELSE {}
    /\ UNCHANGED <<rows, tmp, manifest, pc, made, merging, known, query>>

\* materialize() goes on with its batches; a compaction or a startup is over.
EndUnlink(a) ==
    /\ doomed[a] = {}
    /\ Goto(a, "unlink", IF a = Call /\ merging = {} THEN "batch" ELSE "idle")
    /\ merging' = IF a = Call THEN {} ELSE merging
    /\ known' = [known EXCEPT ![a] = {}]
    /\ UNCHANGED <<disk, manifest, made, doomed, query>>

-----------------------------------------------------------------------------
(* _flush_batch(), for the first batch whose offsets are not committed.    *)

NewTmp ==
    /\ made < MaxFiles
    /\ made' = made + 1
    /\ tmp' = tmp \union {made'}

WriteBatch ==
    /\ flushed < MaxBatches
    /\ Goto(Call, "batch", "rename")
    /\ NewTmp
    /\ rows' = [rows EXCEPT ![made'] = {flushed + 1}]
    /\ UNCHANGED <<final, manifest, merging, known, doomed, query>>

Rename ==
    /\ made \in tmp
    /\ Goto(Call, "rename", "commit")
    /\ tmp' = tmp \ {made}
    /\ final' = final \union {made}
    /\ UNCHANGED <<rows, manifest, made, merging, known, doomed, query>>

\* Mutant of CommitBatch: a compacted file advances the offsets too.
CommitAny ==
    /\ Goto(Call, "commit", "batch")
    /\ status' = [status EXCEPT ![made] = "COMMITTED"]
    /\ flushed' = flushed + 1
    /\ UNCHANGED <<disk, made, merging, known, doomed, query>>

\* One transaction: the file, its provenance and the WAL offsets.
CommitBatch ==
    /\ merging = {}
    /\ Goto(Call, "commit", "batch")
    /\ status' = [status EXCEPT ![made] = "COMMITTED"]
    /\ flushed' = flushed + 1
    /\ UNCHANGED <<disk, made, merging, known, doomed, query>>

EndMaterialize ==
    /\ Goto(Call, "batch", "idle")
    /\ UNCHANGED <<disk, manifest, made, merging, known, doomed, query>>

-----------------------------------------------------------------------------
(* compact_parquet_files().  It renames as _flush_batch does.              *)

\* The oldest max_files_to_merge of the committed files that exist; which
\* ones they are makes no difference here.
BeginCompaction ==
    LET valid == Committed \intersect final IN
    /\ Alone(Call)
    /\ Goto(Call, "idle", "merge")
    /\ Cardinality(valid) > 1
    /\ merging' \in {S \in SUBSET valid :
         Cardinality(S) = MaxMerge \/ (Cardinality(S) < MaxMerge /\ S = valid)}
    /\ NewTmp
    /\ UNCHANGED <<rows, final, manifest, known, doomed, query>>

\* An exception of close() after the last batch is swallowed by the finally.
Merge ==
    LET all == UNION {rows[f] : f \in merging} IN
    /\ \A f \in merging : Readable(f)
    /\ Goto(Call, "merge", "rename")
    /\ \E written \in {all} \union IF "close" \in Faults THEN {{}} ELSE {} :
         rows' = [rows EXCEPT ![made] = written]
    /\ UNCHANGED <<tmp, final, manifest, made, merging, known, doomed, query>>

\* Mutant of StatusAfter: the merged file is not registered.
StatusWithoutNew ==
    [f \in Names |-> IF f \in merging THEN "COMPACTED" ELSE status[f]]

StatusAfter ==
    [f \in Names |-> IF f = made THEN "COMMITTED"
                     ELSE IF f \in merging THEN "COMPACTED" ELSE status[f]]

\* One transaction: the new file in, the old ones out.
CommitMerge ==
    /\ merging # {}
    /\ Goto(Call, "commit", "unlink")
    /\ status' = StatusAfter
    /\ doomed' = [doomed EXCEPT ![Call] = merging]
    /\ UNCHANGED <<disk, flushed, made, merging, known, query>>

\* The call raises, or its process dies.  A missing input or temporary file
\* always raises; a failing merge removes its temporary file.
Abort(a) ==
    /\ \/ "abort" \in Faults /\ pc[a] # "idle"
       \/ a = Call /\ pc[a] = "rename" /\ made \notin tmp
       \/ a = Call /\ pc[a] = "merge" /\ \E f \in merging : ~Readable(f)
    /\ pc' = [pc EXCEPT ![a] = "idle"]
    /\ tmp' \in {tmp} \union IF a = Call /\ pc[a] = "merge" THEN {tmp \ {made}} ELSE {}
    /\ merging' = IF a = Call THEN {} ELSE merging
    /\ known' = [known EXCEPT ![a] = {}]
    /\ doomed' = [doomed EXCEPT ![a] = {}]
    /\ UNCHANGED <<rows, final, manifest, made, query>>

-----------------------------------------------------------------------------
(* list_traces, get_trace and the analytics: get_committed_parquet_files,  *)
(* then read_parquet over what it returned.                                *)

QuerySelect ==
    /\ qpc = "idle"
    /\ qpc' = "exists"
    /\ listed' = Committed
    /\ expected' = Visible
    /\ UNCHANGED <<disk, manifest, pc, made, merging, known, doomed>>

\* Every exception of get_committed_parquet_files, of its SELECT or of an
\* exists(), becomes an empty list: HTTP 200 without any span.
QueryLookupFails ==
    /\ "sqlite" \in Faults
    /\ qpc \in {"idle", "exists"}
    /\ qpc' = "scan"
    /\ listed' = {}
    /\ expected' = IF qpc = "idle" THEN Visible ELSE expected
    /\ UNCHANGED <<disk, manifest, pc, made, merging, known, doomed>>

\* Mutant of QueryExists: the query lists the directory.
QueryGlob ==
    /\ qpc = "exists"
    /\ qpc' = "scan"
    /\ listed' = final
    /\ UNCHANGED <<disk, manifest, pc, made, merging, known, doomed, expected>>

QueryExists ==
    /\ qpc = "exists"
    /\ qpc' = "scan"
    /\ listed' = listed \intersect final
    /\ UNCHANGED <<disk, manifest, pc, made, merging, known, doomed, expected>>

QueryScan ==
    /\ qpc = "scan"
    /\ \A f \in listed : Readable(f)
    /\ qpc' = "answer"
    /\ UNCHANGED <<disk, manifest, pc, made, merging, known, doomed, listed,
                   expected>>

QueryEnd == qpc' = "idle" /\ listed' = {} /\ expected' = {}

\* HTTP 500.
QueryFails ==
    /\ qpc = "scan"
    /\ \E f \in listed : ~Readable(f)
    /\ QueryEnd
    /\ UNCHANGED <<disk, manifest, pc, made, merging, known, doomed>>

QueryReturn ==
    /\ qpc = "answer"
    /\ QueryEnd
    /\ UNCHANGED <<disk, manifest, pc, made, merging, known, doomed>>

-----------------------------------------------------------------------------
Next ==
    \/ \E a \in Actors :
         \/ BeginSweep(a) \/ SweepTmp(a) \/ SelectCommitted(a)
         \/ SelectFails(a) \/ GlobParquet(a)
         \/ \E f \in Names : Unlink(a, f)
         \/ EndUnlink(a) \/ Abort(a)
    \/ WriteBatch \/ Rename \/ CommitBatch \/ EndMaterialize
    \/ BeginCompaction \/ Merge \/ CommitMerge
    \/ QuerySelect \/ QueryLookupFails \/ QueryExists \/ QueryScan
    \/ QueryFails \/ QueryReturn

Spec == Init /\ [][Next]_vars

-----------------------------------------------------------------------------
(* Properties. *)

TypeOK ==
    /\ rows \in [Names -> SUBSET Batches]
    /\ tmp \subseteq Names /\ final \subseteq Names
    /\ status \in [Names -> {"none", "COMMITTED", "COMPACTED"}]
    /\ flushed \in 0..MaxBatches
    /\ pc \in [Actors -> {"idle", "tmp", "select", "glob", "unlink", "batch",
                          "rename", "commit", "merge"}]
    /\ made \in 0..MaxFiles
    /\ merging \subseteq Names
    /\ known \in [Actors -> SUBSET Names] /\ doomed \in [Actors -> SUBSET Names]
    /\ qpc \in {"idle", "exists", "scan", "answer"}
    /\ listed \subseteq Names /\ expected \subseteq Batches

\* No span is in two committed files, whatever run was repeated or merge
\* interrupted: aggregates count it once.
OneCopy ==
    \A f, g \in Committed : f # g => rows[f] \intersect rows[g] = {}

\* The WAL offsets and the Parquet files agree at every instant: what the
\* offsets say is done can be read, so a crash between the steps of a flush,
\* a compaction or a sweep loses nothing, and nothing else can be read
\* (materializer.py:647-648 "old files remain COMMITTED").
OffsetsMatchFiles == Visible = 1..flushed

\* A query that runs through a compaction counts no span twice.
QueryDistinct ==
    qpc = "answer" =>
      \A f, g \in listed : f # g => rows[f] \intersect rows[g] = {}

\* A query that answers 200 returns every span committed before it began.  Old
\* files may be deleted after a compaction because "they are already excluded
\* from queries via manifest status" (materializer.py:733).
QueryComplete ==
    qpc = "answer" => expected \subseteq UNION {rows[f] : f \in listed}

\* The store implements the growing table: no step but a batch's commit
\* changes what can be read.
Table == INSTANCE SpanTable WITH table <- Visible
ImplementsSpanTable == Table!Spec
=============================================================================
