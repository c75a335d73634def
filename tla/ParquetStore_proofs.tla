------------------------ MODULE ParquetStore_proofs ------------------------
(***************************************************************************)
(* Proofs about ParquetStore for any number of files and batches.  Under   *)
(* every fault: type correctness, no span in two committed files or twice  *)
(* in an answer.  Without an unlocked sweep by another process and without *)
(* a failing close(): the offsets match the files, and the store           *)
(* implements SpanTable; and if besides no compaction commits while a      *)
(* query looks for its files, and no such lookup raises, the query misses  *)
(* nothing.                                                                *)
(*                                                                         *)
(* OneCopy is not inductive: the file about to be committed must hold the  *)
(* next batch, or nothing beyond the files it replaces, which must all be  *)
(* committed still (StageInv).                                             *)
(***************************************************************************)
EXTENDS ParquetStore, FiniteSetTheorems, TLAPS

Making == pc[Call] \in {"rename", "commit"}

Merged == UNION {rows[f] : f \in merging}

StageInv ==
    /\ pc[Startup] \in {"idle", "tmp", "select", "glob", "unlink"}
    /\ pc[Call] = "merge" \/ Making => /\ made \in Names
                                       /\ status[made] = "none"
                                       /\ merging \subseteq Committed
    /\ pc[Call] = "merge" => merging # {}
    /\ pc[Call] \in {"idle", "tmp", "select", "glob", "batch"} => merging = {}
    /\ Making /\ merging = {} =>
         flushed < MaxBatches /\ rows[made] = {flushed + 1}
    /\ Making /\ merging # {} => rows[made] \subseteq Merged

FreshInv == \A f \in Names : f > made => status[f] = "none"

CopyInv == (\A f \in Committed : rows[f] \subseteq 1..flushed) /\ OneCopy

\* A file with a row keeps its contents, so what was distinct when the query
\* read the manifest stays so.
QueryInv ==
    /\ \A f \in listed : status[f] # "none"
    /\ \A f, g \in listed : f # g => rows[f] \intersect rows[g] = {}

Inv == TypeOK /\ StageInv /\ FreshInv /\ CopyInv /\ QueryInv

-----------------------------------------------------------------------------
\* The initial states satisfy the invariant.
LEMMA InitInv == Init => Inv
  BY StoreAssumption DEF Init, Inv, TypeOK, StageInv, FreshInv, CopyInv, OneCopy,
     QueryInv, Making, Merged, Committed, Actors, Call, Startup, Names, Batches

\* A step that leaves the contents and the manifest as they are preserves
\* what is said of them.
LEMMA SameTables ==
  ASSUME Inv, UNCHANGED <<rows, status, flushed>>
  PROVE  /\ Committed' = Committed
         /\ CopyInv'
         /\ made' \in Nat /\ made' >= made => FreshInv'
         /\ listed' \subseteq listed => QueryInv'
<1>1. Committed' = Committed
  BY DEF Committed
<1>2. CopyInv'
  BY <1>1 DEF Inv, CopyInv, OneCopy
<1>3. made' \in Nat /\ made' >= made => FreshInv'
  BY DEF Inv, TypeOK, FreshInv, Names
<1>4. listed' \subseteq listed => QueryInv'
  BY DEF Inv, QueryInv
<1> QED
  BY <1>1, <1>2, <1>3, <1>4

\* The steps of a sweep, of either actor, preserve the invariant.
LEMMA SweepStep ==
  ASSUME Inv, NEW a \in Actors,
         \/ BeginSweep(a) \/ SweepTmp(a) \/ SelectCommitted(a)
         \/ SelectFails(a) \/ GlobParquet(a)
         \/ \E f \in Names : Unlink(a, f)
         \/ EndUnlink(a)
  PROVE  Inv'
<1>1. UNCHANGED <<rows, status, flushed, made, qpc, listed, expected>>
  BY DEF BeginSweep, SweepTmp, SelectCommitted, SelectFails, GlobParquet, Unlink,
     EndUnlink, disk, manifest, query
<1>2. Committed' = Committed /\ CopyInv' /\ FreshInv' /\ QueryInv'
  BY <1>1, SameTables DEF Inv, TypeOK, Names
<1>3. Committed \subseteq Names
  BY DEF Committed
<1>4. TypeOK' /\ StageInv'
  <2> USE <1>1, <1>2, <1>3 DEF Inv, TypeOK, StageInv, Making, Merged, Actors, Call,
          Startup, Goto
  <2>1. CASE BeginSweep(a)
    BY <2>1 DEF BeginSweep, disk
  <2>2. CASE SweepTmp(a)
    BY <2>2 DEF SweepTmp
  <2>3. CASE SelectCommitted(a)
    BY <2>3 DEF SelectCommitted, disk
  <2>4. CASE SelectFails(a)
    BY <2>4 DEF SelectFails, disk
  <2>5. CASE GlobParquet(a)
    BY <2>5 DEF GlobParquet, disk
  <2>6. CASE \E f \in Names : Unlink(a, f)
    BY <2>6 DEF Unlink
  <2>7. CASE EndUnlink(a)
    BY <2>7 DEF EndUnlink, disk
  <2> QED
    BY <2>1, <2>2, <2>3, <2>4, <2>5, <2>6, <2>7
<1> QED
  BY <1>2, <1>4 DEF Inv

\* The steps of a query.
LEMMA QueryStep ==
  ASSUME Inv,
         \/ QuerySelect \/ QueryLookupFails \/ QueryExists \/ QueryScan
         \/ QueryFails \/ QueryReturn
  PROVE  Inv'
<1>1. UNCHANGED <<rows, tmp, final, status, flushed, pc, made, merging, known, doomed>>
  BY DEF QuerySelect, QueryLookupFails, QueryExists, QueryScan, QueryFails,
     QueryReturn, disk, manifest
<1>2. Committed' = Committed /\ CopyInv' /\ FreshInv' /\ (listed' \subseteq listed => QueryInv')
  BY <1>1, SameTables DEF Inv, TypeOK, Names
<1>3. StageInv'
  BY <1>1, <1>2 DEF Inv, StageInv, Making, Merged
<1>4. expected' \subseteq Batches /\ listed' \subseteq Names /\ qpc' \in {"idle", "exists", "scan", "answer"}
  BY DEF QuerySelect, QueryLookupFails, QueryExists, QueryScan, QueryFails,
     QueryReturn, QueryEnd, Visible, Committed, Inv, TypeOK
<1>5. TypeOK'
  BY <1>1, <1>4 DEF Inv, TypeOK
<1>6. QueryInv'
  <2>1. CASE QuerySelect
    BY <2>1 DEF QuerySelect, Inv, CopyInv, OneCopy, QueryInv, Committed, disk, manifest
  <2>2. CASE ~QuerySelect
    BY <1>2, <2>2 DEF QueryLookupFails, QueryExists, QueryScan, QueryFails,
       QueryReturn, QueryEnd
  <2> QED
    BY <2>1, <2>2
<1> QED
  BY <1>2, <1>3, <1>5, <1>6 DEF Inv

\* A new file: no row names it yet, so its contents matter to nobody.
LEMMA NewFile ==
  ASSUME Inv, NewTmp, UNCHANGED <<status, flushed, listed>>,
         \A f \in Names : f # made' => rows'[f] = rows[f]
  PROVE  /\ made' \in Names /\ status[made'] = "none" /\ made' \notin Committed
         /\ Committed' = Committed
         /\ FreshInv' /\ CopyInv' /\ QueryInv'
<1>1. made' \in Names /\ made' > made
  BY StoreAssumption DEF NewTmp, Inv, TypeOK, Names
<1>2. status[made'] = "none"
  BY <1>1 DEF Inv, FreshInv
<1>3. Committed' = Committed /\ made' \notin Committed
  BY <1>2 DEF Committed
<1>4. FreshInv'
  BY <1>1 DEF Inv, TypeOK, FreshInv, Names
<1>5. \A f \in Committed : f \in Names /\ f # made'
  BY <1>3 DEF Committed
<1>6. CopyInv'
  BY <1>3, <1>5 DEF Inv, CopyInv, OneCopy
<1>7. \A f \in listed : f \in Names /\ f # made'
  BY <1>2 DEF Inv, TypeOK, QueryInv
<1>8. QueryInv'
  BY <1>7 DEF Inv, QueryInv
<1> QED
  BY <1>1, <1>2, <1>3, <1>4, <1>6, <1>8

\* The steps that write a file under its temporary name and rename it.
LEMMA WriteStep ==
  ASSUME Inv, WriteBatch \/ BeginCompaction \/ Merge \/ Rename \/ EndMaterialize
  PROVE  Inv'
<1> USE DEF Inv, TypeOK, StageInv, Making, Merged, Goto, Actors, Call, Startup
<1>1. CASE WriteBatch
  <2>1. /\ NewTmp /\ rows' = [rows EXCEPT ![made'] = {flushed + 1}]
        /\ flushed < MaxBatches /\ merging = {}
        /\ pc' = [pc EXCEPT ![Call] = "rename"]
        /\ UNCHANGED <<final, status, flushed, merging, known, doomed, listed,
                       qpc, expected>>
    BY <1>1 DEF WriteBatch, manifest, query
  <2>2. /\ made' \in Names /\ status[made'] = "none"
        /\ FreshInv' /\ CopyInv' /\ QueryInv'
    BY <2>1, NewFile
  <2>3. {flushed + 1} \subseteq Batches
    BY <2>1, StoreAssumption DEF Batches
  <2>4. TypeOK'
    BY <2>1, <2>2, <2>3 DEF NewTmp, Names
  <2>5. StageInv'
    BY <2>1, <2>2
  <2> QED
    BY <2>2, <2>4, <2>5
<1>2. CASE BeginCompaction
  <2>1. /\ NewTmp
        /\ pc' = [pc EXCEPT ![Call] = "merge"]
        /\ UNCHANGED <<rows, final, status, flushed, known, doomed, listed,
                       qpc, expected>>
    BY <1>2 DEF BeginCompaction, manifest, query
  <2>2. merging' \subseteq Committed /\ merging' # {}
    <3> DEFINE valid == Committed \intersect final
    <3>1. /\ merging' \subseteq valid /\ Cardinality(valid) > 1
          /\ Cardinality(merging') = MaxMerge \/ merging' = valid
      BY <1>2 DEF BeginCompaction
    <3>2. Cardinality({}) = 0
      BY FS_EmptySet
    <3> HIDE DEF valid
    <3>3. valid # {}
      BY <3>1, <3>2
    <3>4. MaxMerge # 0
      BY StoreAssumption
    <3>5. merging' # {}
      BY <3>1, <3>2, <3>3, <3>4
    <3> QED
      BY <3>1, <3>5 DEF valid
  <2>3. /\ made' \in Names /\ status[made'] = "none" /\ Committed' = Committed
        /\ FreshInv' /\ CopyInv' /\ QueryInv'
    BY <2>1, NewFile
  <2>4. TypeOK'
    BY <2>1, <2>2, <2>3 DEF NewTmp, Names, Committed
  <2>5. StageInv'
    BY <2>1, <2>2, <2>3
  <2> QED
    BY <2>3, <2>4, <2>5
<1>3. CASE Merge
  <2>1. /\ pc[Call] = "merge" /\ pc' = [pc EXCEPT ![Call] = "rename"]
        /\ UNCHANGED <<tmp, final, status, flushed, made, merging, known, doomed,
                       listed, qpc, expected>>
    BY <1>3 DEF Merge, manifest, query
  <2>2. PICK written : /\ written \subseteq Merged
                       /\ rows' = [rows EXCEPT ![made] = written]
    BY <1>3 DEF Merge
  <2>3. made \in Names /\ made \notin Committed /\ made \notin listed
    BY <2>1 DEF Committed, QueryInv
  <2>4. Committed' = Committed /\ Merged \subseteq Batches
    BY <2>1 DEF Committed
  <2>5. CopyInv' /\ FreshInv' /\ QueryInv'
    BY <2>1, <2>2, <2>3, <2>4 DEF CopyInv, OneCopy, FreshInv, QueryInv, Committed
  <2>6. TypeOK'
    BY <2>1, <2>2, <2>4
  <2>7. Merged' = Merged
    BY <2>1, <2>2, <2>3 DEF Committed
  <2>8. StageInv'
    BY <2>1, <2>2, <2>4, <2>7
  <2> QED
    BY <2>5, <2>6, <2>8
<1>4. CASE Rename \/ EndMaterialize
  <2>1. UNCHANGED <<rows, status, flushed, made, merging, known, doomed, listed, qpc,
                    expected>>
    BY <1>4 DEF Rename, EndMaterialize, disk, manifest, query
  <2>2. Committed' = Committed /\ CopyInv' /\ FreshInv' /\ QueryInv'
    BY <2>1, SameTables DEF Names
  <2>3. TypeOK' /\ StageInv'
    BY <1>4, <2>1, <2>2 DEF Rename, EndMaterialize, disk, Names
  <2> QED
    BY <2>2, <2>3
<1> QED
  BY <1>1, <1>2, <1>3, <1>4

\* The transactions: a new batch, or a merged file for the files it replaces.
LEMMA CommitStep ==
  ASSUME Inv, CommitBatch \/ CommitMerge
  PROVE  Inv'
<1> USE DEF Inv, TypeOK, StageInv, Making, Merged, Goto, Actors, Call, Startup
<1>1. /\ pc[Call] = "commit" /\ made \in Names /\ status[made] = "none"
      /\ UNCHANGED <<rows, tmp, final, made, merging, known, qpc, listed, expected>>
  BY DEF CommitBatch, CommitMerge, disk, query
<1>2. made \notin Committed
  BY <1>1 DEF Committed
<1>3. CASE CommitBatch
  <2>1. /\ merging = {} /\ status' = [status EXCEPT ![made] = "COMMITTED"]
        /\ flushed' = flushed + 1 /\ pc' = [pc EXCEPT ![Call] = "batch"]
        /\ UNCHANGED doomed
    BY <1>3 DEF CommitBatch
  <2>2. Committed' = Committed \union {made}
    BY <1>1, <2>1 DEF Committed
  <2>3. rows[made] = {flushed + 1} /\ flushed < MaxBatches
    BY <1>1, <2>1
  <2>4. \A f \in Committed : flushed + 1 \notin rows[f]
    BY DEF CopyInv
  <2>5. CopyInv'
    BY <1>1, <2>1, <2>2, <2>3, <2>4 DEF CopyInv, OneCopy
  <2>6. TypeOK' /\ StageInv'
    BY <1>1, <2>1, <2>3, StoreAssumption
  <2>7. FreshInv' /\ QueryInv'
    BY <1>1, <2>1 DEF FreshInv, QueryInv, Names
  <2> QED
    BY <2>5, <2>6, <2>7
<1>4. CASE CommitMerge
  <2>1. /\ merging # {} /\ merging \subseteq Committed /\ status' = StatusAfter
        /\ doomed' = [doomed EXCEPT ![Call] = merging]
        /\ pc' = [pc EXCEPT ![Call] = "unlink"]
        /\ UNCHANGED flushed
    BY <1>1, <1>4 DEF CommitMerge
  <2>2. Committed' = (Committed \ merging) \union {made}
    BY <1>1, <1>2, <2>1 DEF Committed, StatusAfter
  <2>3. rows[made] \subseteq Merged
    BY <1>1, <2>1
  <2>4. \A f \in Committed \ merging : rows[f] \intersect rows[made] = {}
    BY <2>1, <2>3 DEF CopyInv, OneCopy
  <2>5. CopyInv'
    BY <1>1, <2>1, <2>2, <2>3, <2>4 DEF CopyInv, OneCopy
  <2>6. TypeOK'
    BY <1>1, <2>1 DEF StatusAfter
  <2>7. StageInv'
    BY <1>1, <2>1
  <2>8. FreshInv' /\ QueryInv'
    BY <1>1, <2>1 DEF FreshInv, QueryInv, StatusAfter, Names, Committed
  <2> QED
    BY <2>5, <2>6, <2>7, <2>8
<1> QED
  BY <1>3, <1>4

\* An exception or a crash: the files and the manifest stay as they are.
LEMMA AbortStep ==
  ASSUME Inv, NEW a \in Actors, Abort(a)
  PROVE  Inv'
<1>1. UNCHANGED <<rows, final, status, flushed, made, qpc, listed, expected>>
  BY DEF Abort, manifest, query
<1>2. Committed' = Committed /\ CopyInv' /\ FreshInv' /\ QueryInv'
  BY <1>1, SameTables DEF Inv, TypeOK, Names
<1>3. TypeOK' /\ StageInv'
  BY <1>1, <1>2 DEF Abort, Inv, TypeOK, StageInv, Making, Merged, Actors, Call, Startup
<1> QED
  BY <1>2, <1>3 DEF Inv

\* Every step preserves the invariant.
LEMMA NextInv == Inv /\ [Next]_vars => Inv'
<1> SUFFICES ASSUME Inv, [Next]_vars PROVE Inv'
  OBVIOUS
<1>1. CASE UNCHANGED vars
  BY <1>1 DEF vars, disk, manifest, query, Inv, TypeOK, StageInv, Making, Merged,
     FreshInv, CopyInv, OneCopy, QueryInv, Committed
<1> QED
  BY <1>1, SweepStep, QueryStep, WriteStep, CommitStep, AbortStep DEF Next

\* The invariant holds in every reachable state.
THEOREM Invariant == Spec => []Inv
  BY InitInv, NextInv, PTL DEF Spec

\* Type correctness, under every fault.
THEOREM TypeCorrect == Spec => []TypeOK
<1>1. Inv => TypeOK
  BY DEF Inv
<1> QED
  BY <1>1, Invariant, PTL

\* No span is in two committed files, whatever flush, compaction or sweep was
\* interrupted, of whichever process, even if a file lost its footer.
THEOREM SingleCopy == Spec => []OneCopy
<1>1. Inv => OneCopy
  BY DEF Inv, CopyInv
<1> QED
  BY <1>1, Invariant, PTL

\* A query running beside compactions and sweeps counts no span twice.
THEOREM DistinctAnswers == Spec => []QueryDistinct
<1>1. Inv => QueryDistinct
  BY DEF Inv, QueryInv, QueryDistinct
<1> QED
  BY <1>1, Invariant, PTL

-----------------------------------------------------------------------------
(* Files and offsets agree if every sweep of another process keeps away    *)
(* from running calls and every close() writes its footer.  What is doomed *)
(* or missing from a snapshot is then never a committed file, and the file *)
(* about to be committed is there with all it must hold.                   *)

Orderly == {"overlap", "close"} \intersect Faults = {}

SafeSweep ==
    /\ pc[Startup] = "idle" \/ pc[Call] = "idle"
    /\ \A a \in Actors : /\ pc[a] # "unlink" => doomed[a] = {}
                         /\ pc[a] = "glob" => known[a] = Committed
                         /\ doomed[a] \intersect Committed = {}

MadeInv ==
    /\ pc[Call] \in {"merge", "rename"} => made \in tmp
    /\ pc[Call] = "commit" => made \in final
    /\ Making => rows[made] # {} /\ (merging # {} => rows[made] = Merged)

Present == \A f \in Committed : f \in final /\ rows[f] # {}

OrderlyInv == Inv /\ SafeSweep /\ MadeInv /\ Present /\ OffsetsMatchFiles

\* The initial states are orderly.
LEMMA InitOrderly == Init => OrderlyInv
<1> SUFFICES ASSUME Init PROVE OrderlyInv
  OBVIOUS
<1>1. Inv
  BY InitInv
<1>2. Committed = {}
  BY DEF Init, Committed
<1> QED
  BY <1>1, <1>2 DEF Init, OrderlyInv, SafeSweep, MadeInv, Present, OffsetsMatchFiles,
     Visible, Making, Actors, Call, Startup

\* Where the committed files are all there, a query sees them all.
LEMMA AllVisible ==
  ASSUME Present
  PROVE  Visible = UNION {rows[f] : f \in Committed}
  BY DEF Present, Visible

\* A step that leaves the manifest and the contents of files alone, and unlinks
\* no committed file, changes nothing that can be read.
LEMMA QuietStep ==
  ASSUME OrderlyInv, UNCHANGED <<status, flushed>>,
         \A f \in Committed : rows'[f] = rows[f] /\ f \in final'
  PROVE  Committed' = Committed /\ Present' /\ OffsetsMatchFiles'
<1>1. Committed' = Committed
  BY DEF Committed
<1>2. Present'
  BY <1>1 DEF OrderlyInv, Present
<1>3. \A f \in Committed : f \in final /\ f \in final' /\ rows'[f] = rows[f]
  BY DEF OrderlyInv, Present
<1>4. Visible' = Visible
  BY <1>1, <1>3 DEF Visible
<1> QED
  BY <1>1, <1>2, <1>4 DEF OrderlyInv, OffsetsMatchFiles

\* A sweep is alone, so the names it read stay the committed ones.
LEMMA SweepOrderly ==
  ASSUME Orderly, OrderlyInv, Inv', NEW a \in Actors,
         \/ BeginSweep(a) \/ SweepTmp(a) \/ SelectCommitted(a)
         \/ SelectFails(a) \/ GlobParquet(a)
         \/ \E f \in Names : Unlink(a, f)
         \/ EndUnlink(a)
  PROVE  OrderlyInv'
<1>1. UNCHANGED <<rows, status, flushed, made>>
  BY DEF BeginSweep, SweepTmp, SelectCommitted, SelectFails, GlobParquet, Unlink,
     EndUnlink, disk, manifest
<1>2. \A f \in Committed : f \in final'
  <2>1. CASE \E f \in Names : Unlink(a, f)
    BY <2>1 DEF Unlink, OrderlyInv, Present, SafeSweep
  <2>2. CASE ~\E f \in Names : Unlink(a, f)
    BY <2>2 DEF BeginSweep, SweepTmp, SelectCommitted, SelectFails, GlobParquet,
       EndUnlink, disk, OrderlyInv, Present
  <2> QED
    BY <2>1, <2>2
<1>3. Committed' = Committed /\ Present' /\ OffsetsMatchFiles'
  BY <1>1, <1>2, QuietStep
<1>4. SafeSweep' /\ MadeInv'
  <2> USE <1>1, <1>3 DEF OrderlyInv, Inv, TypeOK, StageInv, SafeSweep, MadeInv,
          Making, Merged, Actors, Call, Startup, Goto
  <2>1. CASE BeginSweep(a)
    BY <2>1 DEF BeginSweep, Alone, Orderly, disk
  <2>2. CASE SweepTmp(a)
    BY <2>2 DEF SweepTmp
  <2>3. CASE SelectCommitted(a)
    BY <2>3 DEF SelectCommitted, disk
  <2>4. CASE SelectFails(a)
    BY <2>4 DEF SelectFails, disk
  <2>5. CASE GlobParquet(a)
    BY <2>5 DEF GlobParquet, disk
  <2>6. CASE \E f \in Names : Unlink(a, f)
    BY <2>6 DEF Unlink
  <2>7. CASE EndUnlink(a)
    BY <2>7 DEF EndUnlink, disk
  <2> QED
    BY <2>1, <2>2, <2>3, <2>4, <2>5, <2>6, <2>7
<1> QED
  BY <1>3, <1>4 DEF OrderlyInv

\* The steps of a query touch nothing.
LEMMA QueryOrderly ==
  ASSUME OrderlyInv, Inv',
         \/ QuerySelect \/ QueryLookupFails \/ QueryExists \/ QueryScan
         \/ QueryFails \/ QueryReturn
  PROVE  OrderlyInv'
<1>1. UNCHANGED <<rows, tmp, final, status, flushed, pc, made, merging, known, doomed>>
  BY DEF QuerySelect, QueryLookupFails, QueryExists, QueryScan, QueryFails,
     QueryReturn, disk, manifest
<1>2. Committed' = Committed /\ Present' /\ OffsetsMatchFiles'
  BY <1>1, QuietStep DEF OrderlyInv, Present
<1> QED
  BY <1>1, <1>2 DEF OrderlyInv, SafeSweep, MadeInv, Making, Merged

\* Making a file: it is complete before it gets its final name.
LEMMA WriteOrderly ==
  ASSUME Orderly, OrderlyInv, Inv',
         WriteBatch \/ BeginCompaction \/ Merge \/ Rename \/ EndMaterialize
  PROVE  OrderlyInv'
<1>1. UNCHANGED <<status, flushed, known, doomed>>
  BY DEF WriteBatch, BeginCompaction, Merge, Rename, EndMaterialize, disk, manifest
<1>2. \A f \in Committed : rows'[f] = rows[f] /\ f \in final'
  <2> USE DEF OrderlyInv, Present
  <2>1. CASE WriteBatch
    <3>1. NewTmp /\ \A f \in Names : f # made' => rows'[f] = rows[f]
      BY <2>1 DEF WriteBatch, Inv, TypeOK
    <3>2. made' \notin Committed
      BY <2>1, <3>1, <1>1, NewFile DEF WriteBatch, query
    <3> QED
      BY <2>1, <3>1, <3>2 DEF WriteBatch, Committed
  <2>2. CASE Merge
    <3>1. made \notin Committed
      BY <2>2 DEF Merge, Goto, Inv, StageInv, Committed
    <3> QED
      BY <2>2, <3>1 DEF Merge, Inv, TypeOK, Committed
  <2>3. CASE BeginCompaction \/ Rename \/ EndMaterialize
    BY <2>3 DEF BeginCompaction, Rename, EndMaterialize, disk
  <2> QED
    BY <2>1, <2>2, <2>3
<1>3. Committed' = Committed /\ Present' /\ OffsetsMatchFiles'
  BY <1>1, <1>2, QuietStep
<1>4. SafeSweep'
  BY <1>1, <1>3 DEF OrderlyInv, SafeSweep, Inv, TypeOK, WriteBatch, BeginCompaction,
     Merge, Rename, EndMaterialize, Goto, Alone, Orderly, Actors, Call, Startup
<1>5. MadeInv'
  <2> USE DEF OrderlyInv, Inv, TypeOK, StageInv, MadeInv, Making, Merged, Goto, Call,
          Startup, Actors
  <2>1. CASE WriteBatch
    BY <2>1 DEF WriteBatch, NewTmp
  <2>2. CASE BeginCompaction
    BY <2>2 DEF BeginCompaction, NewTmp
  <2>3. CASE Merge
    <3>1. /\ pc[Call] = "merge" /\ pc' = [pc EXCEPT ![Call] = "rename"]
          /\ rows' = [rows EXCEPT ![made] = Merged]
          /\ UNCHANGED <<tmp, made, merging>>
      BY <2>3 DEF Merge, Orderly
    <3>2. made \in tmp /\ made \in Names /\ made \notin merging /\ merging # {}
      BY <3>1 DEF Committed
    <3>3. Merged' = Merged
      BY <3>1, <3>2
    <3>4. PICK f \in merging : rows[f] # {}
      BY <3>1, <3>2 DEF Present
    <3>5. Merged # {}
      BY <3>4
    <3> QED
      BY <3>1, <3>2, <3>3, <3>5
  <2>4. CASE Rename
    BY <2>4 DEF Rename
  <2>5. CASE EndMaterialize
    BY <2>5 DEF EndMaterialize, disk
  <2> QED
    BY <2>1, <2>2, <2>3, <2>4, <2>5
<1> QED
  BY <1>3, <1>4, <1>5 DEF OrderlyInv

\* The transactions: a batch adds itself, a merge changes nothing to be read.
LEMMA CommitOrderly ==
  ASSUME OrderlyInv, Inv', CommitBatch \/ CommitMerge
  PROVE  OrderlyInv'
<1> USE DEF OrderlyInv, Inv, TypeOK, StageInv, MadeInv, Making, Merged, Goto, Actors,
        Call, Startup
<1>1. /\ pc[Call] = "commit" /\ made \in Names /\ status[made] = "none"
      /\ made \in final /\ rows[made] # {} /\ pc[Startup] = "idle"
      /\ merging \subseteq Committed
      /\ UNCHANGED <<rows, tmp, final, made, merging, known>>
  BY DEF CommitBatch, CommitMerge, SafeSweep, disk
<1>2. /\ pc' = [pc EXCEPT ![Call] = pc'[Call]] /\ pc'[Call] \in {"batch", "unlink"}
      /\ doomed[Call] = {} /\ doomed[Startup] = {} /\ doomed'[Startup] = {}
  BY <1>1 DEF CommitBatch, CommitMerge, SafeSweep
<1>3. CASE CommitBatch
  <2>1. /\ merging = {} /\ status' = [status EXCEPT ![made] = "COMMITTED"]
        /\ flushed' = flushed + 1 /\ pc'[Call] = "batch" /\ UNCHANGED doomed
    BY <1>3 DEF CommitBatch
  <2>2. Committed' = Committed \union {made}
    BY <1>1, <2>1 DEF Committed
  <2>3. Present'
    BY <1>1, <2>2 DEF Present
  <2>4. Visible' = Visible \union {flushed + 1}
    BY <1>1, <2>1, <2>2 DEF Visible
  <2>5. OffsetsMatchFiles'
    BY <2>1, <2>4, StoreAssumption DEF OffsetsMatchFiles
  <2> QED
    BY <1>1, <1>2, <2>1, <2>3, <2>5 DEF SafeSweep
<1>4. CASE CommitMerge
  <2>1. /\ merging # {} /\ status' = StatusAfter /\ pc'[Call] = "unlink"
        /\ doomed' = [doomed EXCEPT ![Call] = merging] /\ UNCHANGED flushed
    BY <1>4 DEF CommitMerge
  <2>2. Committed' = (Committed \ merging) \union {made}
    BY <1>1, <2>1 DEF Committed, StatusAfter
  <2>3. made \notin merging
    BY <1>1 DEF Committed
  <2>4. Present'
    BY <1>1, <2>2 DEF Present
  <2>5. rows[made] = Merged
    BY <1>1, <2>1
  <2>6. Visible' = Visible
    <3>1. Visible' = UNION {rows[f] : f \in Committed'}
      BY <1>1, <2>4 DEF Visible, Present
    <3>2. \A b : b \in Visible <=> \E f \in Committed : b \in rows[f]
      BY AllVisible
    <3>3. \A b : b \in rows[made] <=> \E f \in merging : b \in rows[f]
      BY <2>5
    <3>4. \A b : b \in Visible' <=> b \in Visible
      BY <1>1, <2>2, <3>1, <3>2, <3>3
    <3> QED
      BY <3>4
  <2>7. OffsetsMatchFiles'
    BY <2>1, <2>6 DEF OffsetsMatchFiles
  <2> QED
    BY <1>1, <1>2, <2>1, <2>2, <2>3, <2>4, <2>7 DEF SafeSweep
<1> QED
  BY <1>3, <1>4

\* An abort forgets what the call was doing and loses no file that counts.
LEMMA AbortOrderly ==
  ASSUME OrderlyInv, Inv', NEW a \in Actors, Abort(a)
  PROVE  OrderlyInv'
<1>1. /\ UNCHANGED <<rows, final, status, flushed, made>>
      /\ pc[a] # "idle" /\ pc' = [pc EXCEPT ![a] = "idle"]
      /\ doomed' = [doomed EXCEPT ![a] = {}] /\ known' = [known EXCEPT ![a] = {}]
      /\ a # Call => UNCHANGED <<tmp, merging>>
  BY DEF Abort, manifest
<1>2. Committed' = Committed /\ Present' /\ OffsetsMatchFiles'
  BY <1>1, QuietStep DEF OrderlyInv, Present
<1> QED
  BY <1>1, <1>2 DEF OrderlyInv, Inv, TypeOK, StageInv, SafeSweep, MadeInv, Making,
     Merged, Actors, Call, Startup

\* Every step of an orderly system preserves the invariant.
LEMMA NextOrderly == Orderly /\ OrderlyInv /\ [Next]_vars => OrderlyInv'
<1> SUFFICES ASSUME Orderly, OrderlyInv, [Next]_vars PROVE OrderlyInv'
  OBVIOUS
<1>1. Inv'
  BY NextInv DEF OrderlyInv
<1>2. CASE UNCHANGED vars
  BY <1>1, <1>2 DEF vars, disk, manifest, query, OrderlyInv, SafeSweep, MadeInv, Present,
     OffsetsMatchFiles, Visible, Making, Merged, Committed
<1> QED
  BY <1>1, <1>2, SweepOrderly, QueryOrderly, WriteOrderly, CommitOrderly, AbortOrderly
     DEF Next

\* The WAL offsets and what can be read agree at every instant, whatever
\* exception or crash interrupts a flush, a compaction or a sweep.
THEOREM Agreement == Orderly => (Spec => []OffsetsMatchFiles)
<1> SUFFICES ASSUME Orderly PROVE Spec => []OffsetsMatchFiles
  OBVIOUS
<1>1. OrderlyInv => OffsetsMatchFiles
  BY DEF OrderlyInv
<1>2. OrderlyInv /\ [Next]_vars => OrderlyInv'
  BY NextOrderly
<1> QED
  BY <1>1, <1>2, InitOrderly, PTL DEF Spec

\* A step of the store is an insertion into the table, or cannot be seen.
LEMMA NextInserts ==
  ASSUME OrderlyInv, OrderlyInv', [Next]_vars
  PROVE  [Table!Next]_Visible
<1>1. flushed' \in {flushed, flushed + 1}
  BY DEF Next, vars, manifest, BeginSweep, SweepTmp, SelectCommitted, SelectFails,
     GlobParquet, Unlink, EndUnlink, Abort, WriteBatch, Rename, CommitBatch,
     EndMaterialize, BeginCompaction, Merge, CommitMerge, QuerySelect,
     QueryLookupFails, QueryExists, QueryScan, QueryFails, QueryReturn
<1>2. Visible = 1..flushed /\ Visible' = 1..flushed'
  BY DEF OrderlyInv, OffsetsMatchFiles
<1>3. flushed \in 0..MaxBatches /\ flushed' \in 0..MaxBatches
  BY DEF OrderlyInv, Inv, TypeOK
<1>4. CASE flushed' = flushed
  BY <1>2, <1>4
<1>5. CASE flushed' = flushed + 1
  <2>1. /\ flushed + 1 \in Batches /\ flushed + 1 \notin Visible
        /\ Visible' = Visible \union {flushed + 1}
    BY <1>2, <1>3, <1>5, StoreAssumption DEF Batches
  <2> QED
    BY <2>1 DEF Table!Next, Table!Insert
<1> QED
  BY <1>1, <1>4, <1>5

\* The store implements the growing table: compaction, orphan cleanup, retries
\* and crashes cannot be seen in what a query may read.
THEOREM Implementation == Orderly => (Spec => ImplementsSpanTable)
<1> SUFFICES ASSUME Orderly PROVE Spec => ImplementsSpanTable
  OBVIOUS
<1>1. Init => Table!Init
  BY DEF Init, Table!Init, Visible, Committed
<1>2. OrderlyInv /\ [Next]_vars => OrderlyInv'
  BY NextOrderly
<1>3. OrderlyInv /\ OrderlyInv' /\ [Next]_vars => [Table!Next]_Visible
  BY NextInserts
<1> QED
  BY <1>1, <1>2, <1>3, InitOrderly, PTL DEF Spec, ImplementsSpanTable, Table!Spec
-----------------------------------------------------------------------------
(* A query that answers 200 leaves committed spans out for two reasons     *)
(* only: a compaction commits between its SELECT on the manifest and its   *)
(* look at the directory, or one of the two raises and the exception is    *)
(* swallowed (control.py:88-90).                                           *)

CommitOutsideWindow == CommitMerge => qpc # "exists"
LookupSucceeds == ~QueryLookupFails
Undisturbed == CommitOutsideWindow /\ LookupSucceeds

FoundInv ==
    /\ qpc = "exists" => listed \subseteq Committed
    /\ expected \subseteq UNION {rows[f] : f \in listed}

CompleteInv == OrderlyInv /\ FoundInv

\* A file that a query has listed never changes its contents.
LEMMA ListedSame ==
  ASSUME Inv, [Next]_vars
  PROVE  \A f \in listed : f \in Names /\ rows'[f] = rows[f]
<1>1. \A f \in listed : f \in Names /\ status[f] # "none"
  BY DEF Inv, TypeOK, QueryInv
<1>2. CASE WriteBatch
  <2>1. /\ NewTmp /\ rows' = [rows EXCEPT ![made'] = {flushed + 1}]
        /\ UNCHANGED <<status, flushed, listed>>
    BY <1>2 DEF WriteBatch, manifest, query
  <2>2. status[made'] = "none"
    BY <2>1, NewFile DEF Inv, TypeOK
  <2> QED
    BY <1>1, <2>1, <2>2 DEF Inv, TypeOK
<1>3. CASE Merge
  <2>1. status[made] = "none"
    BY <1>3 DEF Merge, Goto, Inv, StageInv
  <2> QED
    BY <1>1, <1>3, <2>1 DEF Merge, Inv, TypeOK
<1>4. CASE ~WriteBatch /\ ~Merge
  <2>1. rows' = rows
    BY <1>4 DEF Next, vars, disk, BeginSweep, SweepTmp, SelectCommitted, SelectFails,
       GlobParquet, Unlink, EndUnlink, Abort, Rename, CommitBatch,
       EndMaterialize, BeginCompaction, CommitMerge, QuerySelect,
       QueryLookupFails, QueryExists, QueryScan, QueryFails, QueryReturn
  <2> QED
    BY <1>1, <2>1
<1> QED
  BY <1>2, <1>3, <1>4

\* Only a compaction takes a file out of the manifest.
LEMMA StaysCommitted ==
  ASSUME Inv, [Next]_vars, ~CommitMerge
  PROVE  Committed \subseteq Committed'
<1>1. CASE CommitBatch
  BY <1>1 DEF CommitBatch, Committed, Inv, TypeOK, Goto
<1>2. CASE ~CommitBatch
  <2>1. status' = status
    BY <1>2 DEF Next, vars, manifest, BeginSweep, SweepTmp, SelectCommitted,
       SelectFails, GlobParquet, Unlink, EndUnlink, Abort, WriteBatch, Rename,
       EndMaterialize, BeginCompaction, Merge, QuerySelect,
       QueryLookupFails, QueryExists, QueryScan, QueryFails, QueryReturn
  <2> QED
    BY <2>1 DEF Committed
<1> QED
  BY <1>1, <1>2

\* A step of a query keeps what it has promised.
LEMMA QueryFinds ==
  ASSUME OrderlyInv, FoundInv,
         QuerySelect \/ QueryExists \/ QueryScan \/ QueryFails \/ QueryReturn
  PROVE  FoundInv'
<1>1. Committed' = Committed /\ rows' = rows
  BY DEF Committed, QuerySelect, QueryExists, QueryScan, QueryFails, QueryReturn,
     disk, manifest
<1>2. CASE QuerySelect
  BY <1>1, <1>2 DEF QuerySelect, FoundInv, Visible
<1>3. CASE QueryExists
  <2>1. listed \intersect final = listed
    BY <1>3 DEF QueryExists, FoundInv, OrderlyInv, Present
  <2>2. qpc' = "scan" /\ listed' = listed /\ expected' = expected
    BY <1>3, <2>1 DEF QueryExists
  <2> QED
    BY <1>1, <2>2 DEF FoundInv
<1>4. CASE QueryScan
  <2>1. qpc' # "exists" /\ listed' = listed /\ expected' = expected
    BY <1>4 DEF QueryScan
  <2> QED
    BY <1>1, <2>1 DEF FoundInv
<1>5. CASE QueryFails \/ QueryReturn
  <2>1. qpc' = "idle" /\ expected' = {}
    BY <1>5 DEF QueryFails, QueryReturn, QueryEnd
  <2> QED
    BY <2>1 DEF FoundInv
<1> QED
  BY <1>2, <1>3, <1>4, <1>5

\* So does every other step, a compaction's commit outside the window included.
LEMMA OthersFind ==
  ASSUME OrderlyInv, FoundInv, [Next]_vars, CommitOutsideWindow,
         UNCHANGED query
  PROVE  FoundInv'
<1>1. qpc' = qpc /\ listed' = listed /\ expected' = expected
  BY DEF query
<1>2. \A f \in listed : rows'[f] = rows[f]
  BY ListedSame DEF OrderlyInv
<1>3. qpc = "exists" => Committed \subseteq Committed'
  BY StaysCommitted DEF OrderlyInv, CommitOutsideWindow
<1> QED
  BY <1>1, <1>2, <1>3 DEF FoundInv

\* Every step of an orderly system that keeps its commits out of the window
\* and in which no lookup fails preserves the invariant.
LEMMA NextComplete ==
  Orderly /\ CompleteInv /\ [Next]_vars /\ [Undisturbed]_vars => CompleteInv'
<1> SUFFICES ASSUME Orderly, CompleteInv, [Next]_vars, [Undisturbed]_vars
             PROVE  CompleteInv'
  OBVIOUS
<1>1. OrderlyInv'
  BY NextOrderly DEF CompleteInv
<1>2. CommitOutsideWindow /\ LookupSucceeds
  <2>1. ASSUME UNCHANGED vars, CommitMerge PROVE FALSE
    BY <2>1 DEF vars, CommitMerge, Goto, CompleteInv, OrderlyInv, Inv, TypeOK, Actors,
       Call
  <2>2. ASSUME UNCHANGED vars, QueryLookupFails PROVE FALSE
    BY <2>2 DEF vars, query, QueryLookupFails
  <2> QED
    BY <2>1, <2>2 DEF Undisturbed, CommitOutsideWindow, LookupSucceeds
<1>3. CASE UNCHANGED query
  BY <1>1, <1>2, <1>3, OthersFind DEF CompleteInv
<1>4. CASE ~UNCHANGED query
  <2>1. QuerySelect \/ QueryExists \/ QueryScan \/ QueryFails \/ QueryReturn
    BY <1>2, <1>4 DEF LookupSucceeds, Next, vars, BeginSweep, SweepTmp,
       SelectCommitted, SelectFails, GlobParquet, Unlink, EndUnlink, Abort, WriteBatch,
       Rename, CommitBatch, EndMaterialize, BeginCompaction, Merge, CommitMerge
  <2> QED
    BY <1>1, <2>1, QueryFinds DEF CompleteInv
<1> QED
  BY <1>1, <1>3, <1>4 DEF CompleteInv

\* A query that answers 200 returns every span committed before it began, if no
\* compaction commits between its SELECT and its check that the files exist and
\* neither of the two raises (control.py:77-90): flushes, sweeps, unlinks,
\* crashes, a later commit and errors of a sweep's SELECT do no harm.
THEOREM CompleteAnswers ==
  Orderly => (Spec /\ [][Undisturbed]_vars => []QueryComplete)
<1> SUFFICES ASSUME Orderly
             PROVE  Spec /\ [][Undisturbed]_vars => []QueryComplete
  OBVIOUS
<1>1. Init => CompleteInv
  BY InitOrderly DEF Init, CompleteInv, FoundInv
<1>2. CompleteInv /\ [Next]_vars /\ [Undisturbed]_vars => CompleteInv'
  BY NextComplete
<1>3. CompleteInv => QueryComplete
  BY DEF CompleteInv, FoundInv, QueryComplete
<1> QED
  BY <1>1, <1>2, <1>3, PTL DEF Spec
=============================================================================
