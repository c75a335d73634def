# TLA+ models of the LLM reliability control plane

This directory holds a formal model of the control plane: the storage path from
the OTLP request that reaches the gateway, through the write-ahead log (WAL) and
the materializer, to the Parquet files a query scans; the processes around it,
gateway and backend, from start to shutdown; and who may see what. TLC checks the
modules on small instances, TLAPS proves theorems about them for every value of
their constants. `PROJECT.json` maps each definition to the lines it models and
lists the runs, mutants, findings, hazards and theorems.

Source paths are shortened below: `materializer.py`, `main.py`, `control.py` and
`settings.py` are in `backend/app/`, `wal_writer.cpp`, `http_server.cpp` and
`main.cpp` in `cpp/gateway/src/`.

## 1. Inventory

| Component | Code | State | Operations | Must hold |
|---|---|---|---|---|
| WAL writer | `wal_writer.cpp`, `wal_writer.h` | open segment (`handle_`, `current_file_size_`), `mutex_`, segment files | constructor, `append` (rotate, write header, write payload, fsync) | confirmed = durable; segments bounded; only the newest segment grows; every request answered |
| HTTP sessions | `http_server.cpp` | one strand per connection, counters | read, `handle_request`, write, close; accept, stop | the counters never promise more than the log holds; no record gets in uncounted; every request answered |
| Gateway process | `main.cpp` | pool of `io_context` threads | start, signal, join, exit | a stop ends, and no `append` is cut short by it |
| Lifecycle lock | `materializer.py:44, 87-122` | per-process `RLock`, lock database shared by all processes | enter, leave, two timeouts | mutual exclusion; balanced; every call returns |
| WAL reader | `materializer.py:256-320` | position in a segment | yield the next record, refuse a bad one | stops at the first bad record with its offset |
| Materializer | `materializer.py:363-597` | manifest tables `materialized_wal_offsets`, `wal_corruption_events`, `wal_file_lifecycle`; batch in memory | `materialize()` | each record's rows committed once; offsets never ahead of rows; everything committed in the end |
| WAL cleanup | `materializer.py:600-639` | WAL files, `wal_file_lifecycle` | `cleanup_materialized_wal_files()` | its four rules (605-608) |
| Parquet store | `materializer.py:323-423, 642-741` | Parquet directory, table `parquet_files` | `_flush_batch`, `compact_parquet_files`, `cleanup_orphaned_parquet_files` | what can be read is what the offsets say, once |
| Queries | `control.py:68-90`, `main.py:323-447` | - | `get_committed_parquet_files`, `read_parquet` | no span twice, no committed span missing |
| Analytics | `main.py:499-684` | - | two SQL aggregations over the same files | as queries |
| Control store, credentials | `control.py:32-65, 93-196`, `main.py:100-136, 449-497` | table `projects`; per request the identity found | create and list projects, authenticate, the project filter of each query | a project's key opens only its data, and for ever; one creator wins; failures close |
| Lifespan, background loop | `main.py:138-196` | `stop_event`, task, calls handed to worker threads | sweep at start, loop, endpoint calls, shutdown | the loop runs `materialize()` again and again, one run at a time; a shutdown ends and leaves nothing running |
| Settings | `settings.py` | - | read the environment | authentication is never required without a key |
| Frontend, deployment, examples | `frontend/`, `deploy/`, `examples/` | - | - | - |

How they interact. The gateway and the backend share no memory and no lock: the
WAL directory is their only channel, and the backend reads segments the gateway
is writing. Within the backend, the background loop, three HTTP endpoints and
other processes on the same data directory call materialization, compaction and
cleanup; these exclude each other by the lifecycle lock. Queries take no lock,
and neither does the orphan sweep of a starting process. The manifest (SQLite)
says which Parquet files count and up to which offset each segment is done.

Hard behaviours, by kind (the list with lines is "hazards" in `PROJECT.json`):
threads of the gateway interleave in `append`; `open`, `write` and `fsync` fail
half way; processes and machines die between any two system calls; the reader
meets half-written records and a rotation under way; one manifest transaction
vouches for rows another one commits later; offsets of several segments travel
with one batch; compaction swaps files under running queries; the lock nests,
times out, and its set-up may raise; a signal meets threads in the middle of
`append`, and a shutdown meets a run of the loop; an identity is decided in one
transaction and used in another, while projects are added.

## 2. Modules

```
                      AckLog             RowLog              SpanTable
                         ^ implements       ^ implements         ^ implements
 LifecycleLock       WalWriter          Materializer        ParquetStore      Api
      ^ EXTENDS          ^   ^ EXTENDS      ^ implements
   Backend         Gateway   Pipeline ------+
```

`Gateway` and `Backend` compose: they EXTEND the component the process is built
around and conjoin its actions with their own state. Every step of theirs is a step
of that component or leaves it alone, which is proved (`Refinement` in
`Gateway_proofs` and `Backend_proofs`), so what holds of the component holds of the
process. `Pipeline` composes the WAL writer with the calls of the backend over one
directory. `MC*` modules give function-valued constants and symmetry to the
modules that need them; `Materializer` and `ParquetStore` are run directly. Proofs are
in `<module>_proofs`; `Retention_proofs` is the second part of `Materializer_proofs`,
and those about `LifecycleLock` are in `Backend_proofs`.

The three abstract modules say what a component promises; `INSTANCE ... WITH`
in the detailed module gives the refinement mapping (that of `RowLog` stands in
`Retention_proofs`). `Pipeline` has no run of its own: that it implements `Materializer`,
and what follows for both, is proved.

### LifecycleLock - `storage_lifecycle_lock`

`owner`, `count` are the RLock of each process; `dbThread`, `dbLevel` say whose
connection holds `BEGIN EXCLUSIVE`; `pc`, `level` say where the innermost
activation of each thread is. One action per statement that can block, fail or
change shared state: `TakeRLock`/`RLockTimeout` (line 97), `MakeDataDir`/
`MakeDataDirFails` (101), `BeginExclusive`/`BusyTimeout` (105-110),
`CloseConnection` and `ReleaseRLock` (112-122). `EnterNested` is the call at the
end of `materialize()` when `auto_cleanup_wal` is set; an exception of the nested
call propagates, so leaving the nested activation leads to the outer `finally`.
`Crash(p)` kills a process with its threads, RLock and file locks: that the operating
system frees the lock database is what `DatabaseFreed` rests on in that case. `leaked` is a
ghost: it counts the acquisitions lost to `mkdir`.

The timeouts are untimed: a waiting thread may give up as soon as it would have
to wait. That is every behaviour of a timer and more. A thread waiting for the
database holds the RLock, as in the code.

### WalWriter - `WalWriter::append` and its caller

A segment is the sequence of its records, and `synced` says how many of them
fsync covered. A record is the request body, or `Torn` for bytes that are not a
complete record. `append` is cut at its system calls: `LockMutex` (size check),
`OpenSegment`/`OpenFails`, `WriteHeader`, `WritePayload`, `WriteFails`,
`Fsync`/`FsyncFails`; the session then does `Confirm` (200) or `Refuse` (503).
`Crash` keeps what was written (page cache), `PowerLoss` may lose what was not
synced, per segment. It takes no segment away: the code never fsyncs the directory,
and the model assumes that the entry of a new segment survives (as on file systems
that write it with the file's first fsync). Where it may be lost, so may every record
confirmed in that segment. A segment's name is a number, its place in name order:
`FreshKey` says a new one is the highest, unless the fault `clock` is on.
Which faults may happen is the constant `Faults`.

### Gateway - sessions and process

`conn` says where each session's connection is, `running` whether the `io_context` still
runs handlers, `accepted` and `rejected` are the two counters; a thread of `WalWriter` is a
session here, because a session runs on a strand and so has at most one handler
at work. `Accept`, `HangUp`, `Health`, `Reject` (everything refused before `append`),
`Export` (a valid body: the handler calls `append`), `Wait` and `Write` (the steps of
`append`), `AnswerStored`, `AnswerFailed`, `Written`. After a 413 the session reads on
(`http_server.cpp:107-110, 204`) from what is left of the refused body. Those bytes are
the client's and may be any HTTP request, one that appends a record included, so
nothing sets such a connection apart from others. `Signal` closes the acceptor and stops
the `io_context`: from then on no completion handler starts, those that run go on;
`Exit` is `main()` returning after it has joined its threads. `Die` and `Start` are a
death and a restart, which resets the counters.

Of a response only its kind counts. The counters of resource spans and spans
move with `accepted_requests_` and are left out, and so is the 500 for an empty
response that cannot be serialised, which cannot happen. A failed `async_accept` is
a delay of `Accept`.

### Backend - lifespan, loop, endpoint calls

`phase[p]` is where the lifespan of process p is, `stop` its `stop_event`, `loop` where
`_materialize_loop` is, `queue` what was handed to the executor, `job[t]` the call
thread t runs. A thread that takes a call enters `LifecycleLock`; `InLock` and `Nest`
are its steps there, and `CallEnds` gives the result, or the exception, back to
whoever awaits it. `Startup`/`StartupFails`, `Close` (the server takes no more
requests), `StopLoop` (`stop_event.set()` once the requests are answered, which is
the web server's doing and external), `ShutdownComplete` (`await task`), `Exit` (the
interpreter joins its threads) and `Kill`. `LoopRun`, `LoopEnd` and `LoopWake` are the
loop's head and its pause, which ends early when the event is set.

### Api - projects, credentials, queries

`rows` is the table `projects` in rowid order; for each worker `token`, `request` and `who`, the
identity found; `answer` is the response given in the last step, `issued` a ghost: the
keys shown to creators. `Arrive` is the first transaction of a request
(`get_auth_identity`), every other action the second one (the endpoint), and other
workers step in between. `Create` with `Conflict` and `CreateLost` (committed, but
never answered), `ListProjects`, `Manage`, `Forbid`, `Query` (two listings, one trace,
two analytics: they filter in the same way) and `Fail`. The settings are chosen in
`Init` among those `from_environment` accepts. A hash stands for its key; a query's
answer is the set of spans it is about.

### Materializer - `materialize()`, `cleanup_materialized_wal_files()`

Under the lock only one call runs, so one `pc` stands for all callers; offsets
are counted in records. The manifest is `maxOffset`, `full`
(`is_fully_processed`), `corruptAt`, `lifecycle` and `files` (the records in
each committed Parquet file); the call's own data are `todo`, `active`, `cur`,
`start`, `pos`, `batch`, `boff`. The steps follow the loop: `SkipSegment`/
`OpenSegment`, `ReadRecord` (with the flush of a full batch), `FindCorruption`,
`EndOfFile`, `CheckSealed`, `Seal`, `Quarantine`, `FinalFlush`; `Flush` is
`_flush_batch` seen from the manifest. `Abort` is an exception or the death of
the process at any step. The gateway appends, in one step or in two, gives up
half way (or dies there), and rotates, at any moment. A payload is one of four kinds: `span`,
`void` (no span), `zero` (empty body), `wild` (a value the Arrow schema refuses).

The rows of a record never split over two batches in the code
(`current_batch_rows` is tested after a record's rows are in), so a record counts
as one row. A segment is visited at most once in a call and only this call writes
the manifest, so the rows loaded at the start (447-468) are read where used.

### Pipeline - one WAL directory, writer and reader

`Materializer` has four actions of its own for a gateway. `Pipeline` has none: it
EXTENDS `WalWriter` and INSTANCEs `Materializer` with the segments the writer makes
(`Seen`, a record's kind being `KindOf` its body and a `Torn` one unreadable), its
newest one for the active one (`Newest`, `materializer.py:474-476`), and a thread between
its two writes for a record half written (`HalfWritten`). `GatewayStep` is any step of
`WalWriter`, and a new segment appears in `present`; `CallStep` is any step of a call,
which leaves the writer alone. `ImplementsMaterializer` says that the result is a
behaviour of `Materializer`, `ConfirmedKept`, `CondemnedUnconfirmed` and
`OnlySentCommitted` what that means from the client's 200 to the manifest.

### ParquetStore - files, manifest, queries

`rows[f]` are the batches in file `f`, `tmp` and `final` its two names, `status` its
manifest row, `flushed` the number of batches whose WAL offsets are committed:
Materializer's `Flush` appears here as `WriteBatch`, `Rename`, `CommitBatch`. The actor
`Call` is whoever holds the lock; the actor `Startup` is the lifespan's sweep,
which runs beside it only under the fault `overlap` (another process). A query
goes through `QuerySelect`, `QueryExists`, `QueryScan`, interleaved with
everything. An error of the SELECT or of an `exists()` makes the list of files empty
(`QueryLookupFails`, under the fault `sqlite`), and the answer is still 200: the ghost
`expected`, what was committed when the query began, does not follow it. A compaction's early return for `total_rows == 0` (707-709) is left out:
committed files always hold rows (372-373).

### Mutants

Definitions marked as mutants stand before the definition each of them changes;
they are used nowhere in the specifications. Each is that definition with one
plausible slip (a guard dropped, `BEGIN` for `BEGIN EXCLUSIVE`, a flush or a log
entry forgotten); the property listed with it in `PROJECT.json` catches it.

## 3. Runs

| Run | Instance | What it shows |
|---|---|---|
| `ApiCalls` | 2 workers, 2 projects with a span each, a span of none, 2 chosen and 2 generated keys, failing database; every valid setting | one creator wins, identities stay, issued keys open, isolation, failures close |
| `BackendFaults` | 2 processes (one with the loop, told to stop), 3 threads, nested entry, 1 queued call, 1 failing mkdir, failing start-ups, deaths | the lock excludes, is balanced and never stays with a dead process; one run at a time; quiet when down; every call, a shutdown and the loop's next run come |
| `LockAutoCleanup` | the lock alone, without faults | violation: `AutoCleanupRuns` |
| `GatewayFaults` | 2 sessions, 3 bodies, 3 requests, 1 refusal, 1 signal, death or power loss, every I/O fault | durability, segment bound, truthful counters, nothing uncounted, refinement of `AckLog`, growth of the newest only, every request answered, a stop ends |
| `WalTornReadable` | the writer alone, write faults only | violation: `AckedReadable` |
| `MatFaults` | 3 segments of 2 records, batch of 2, `span`/`wild`, faults abort, unlink, partial, write | exactly-once rows, offsets, salvaged prefix, exact corruption events, two cleanup rules |
| `MatCalls` | 2 segments of 3 records, batch of 2, `span`/`void`/`zero`, failing unlink, half-written reads | no loss, logged deletions, third cleanup rule, progress |
| `MatAbortDeletes` | 2 segments of 2 records, fault abort | violation: `NeverDeleteUnmaterialized` |
| `MatNeverDeleted` | batch of 1, no fault | violation: `RotatedDeleted` |
| `StoreFaults` | 5 file names, 3 batches, merges of 2, faults abort, unlink, sqlite | one copy, offsets = files, distinct answers, refinement of `SpanTable` |
| `StoreQuery` | 2 batches, no fault | violation: `QueryComplete` |
| `StoreOverlap` | fault overlap | violation: `OffsetsMatchFiles` |

### Bounds, and why they are enough

- Api: two workers are the caller whose identity is already decided and the one who
  creates meanwhile; two projects are the caller's and another's; the chosen keys can
  be the admin's, the same for both projects, blank, or none. `Symmetry` permutes
  workers, chosen keys, generated keys, and the projects together with their spans:
  no definition tells the members of one of these sets apart, and the run checks no
  liveness, so it is sound.
- Backend: two threads of one process compete for the RLock, two processes for the
  database; a third thread in either place only repeats a waiter. `Looping` and
  `Stopped` hold the process with two threads, where loop and requests meet; the other
  one stands for everybody else. `MaxQueued = 1` leaves one call queued behind two
  running ones. A leaked RLock (`MaxLeaks`) and nested entry are in p1.
- Gateway: sizes 2 (small) and 5 (large) against a limit of 4: two small records
  fill a segment exactly, a large one exceeds it alone, and either order forces
  or forbids a rotation; 9 (huge) is beyond the length field. Three requests let one
  fail, a second go behind it and a third rotate; `MaxKey = 5` is one more than they
  and the restart can use, so the bound on names never stops a step. After one
  refusal the session reads on, and what it finds may be any of the bodies.
- Materializer: three segments are an old one, a sealed one and an active one;
  two records per segment and batches of two give a flush in the middle of a
  segment, across two segments, and exactly at an end. `MatCalls` trades a
  segment for a third record, so that something lies behind a bad record and
  before the end.
- Store: five names are three batches and two compactions (or an aborted attempt);
  merging two of three files leaves one outside.
- Everything unbounded in the code (requests, records, files, crashes) is capped by
  a guard on a constant whose comment says "bound". `CHECK_DEADLOCK FALSE` stands
  only in `GatewayFaults`, whose gateway may be stopped or dead with `MaxCrashes`
  spent, and in `WalTornReadable`, whose writer is idle with `MaxRequests` spent.

### Fairness

- Backend: `WF(Lifespan(p))`, `WF(Background(p))`: the event loop runs, the server
  ends its shutdown, the pause of the loop is over some day. `WF(Worker(t))`: a free
  thread takes a queued call, and a thread in the lock goes on as in `LifecycleLock`:
  its timed waits end (15 s by default), and the protected body returns. Nobody has
  to send requests, start, stop or kill a process.
- Gateway: `WF(Serve(t))`, system calls return and the handler answers;
  `SF(Wait(t))`, a thread waiting for a mutex that is released again and again gets
  it; `WF(Exit)`, `main()` returns once its threads have. Requests, clients and signals
  are not fair. A process death is no obstacle: it ends the request.
- Materializer: `WF(Work \/ Abort)`, a call that runs goes on or raises;
  `SF(BeginMaterialize)`, the background loop (`main.py:163-177`) calls again
  whatever the last call did, and other callers leave the lock free again and
  again (`LoopGoesOn` and `EveryCallReturns` of `BackendFaults`). No fairness for the
  gateway. `CleanedSpec` adds `SF(BeginCleanup)`, somebody keeps calling cleanup: it
  makes the violation of `RotatedDeleted` the code's doing, not an idle operator's.
- `EventuallyCommitted` is checked where every call runs to its end; with a `wild`
  record or unlimited aborts it would rightly fail, as every call could be cut short.

## 4. What the runs found

Six properties that the documents or comments state do not hold; the quotes and
lines are under "findings" in `PROJECT.json`.

1. `AutoCleanupRuns`: the cleanup nested in `materialize()` opens a second
   connection to the lock database its own thread has locked, and times out.
2. `AckedReadable`: `append` reuses a segment after a failed write. The bytes of
   the failed record stay in front of the next, confirmed, one, and readers stop there.
3. `NeverDeleteUnmaterialized`: the seal mark is committed before the rows. A call
   that dies in between leaves a segment that cleanup deletes.
4. `RotatedDeleted`: a segment read up while active, or flushed exactly at its
   end, is never marked, so it is never deleted.
5. `QueryComplete`: a compaction between a query's SELECT and its exists() checks
   makes it answer without the merged spans.
6. `OffsetsMatchFiles` with `overlap`: the unlocked sweep of a starting process deletes
   the file another process is about to commit.

The passing runs and the theorems state where these end: without aborted calls
nothing unmaterialized is deleted (`MatCalls`, `MaterializedFirst`), without failing
writes nothing torn precedes a confirmed record (`Readability`), in one process the
offsets match the files (`StoreFaults`, `Agreement`).

Some faults of the modules are in no run of the property they break:

- `clock` (a new segment sorts before an older one): the newest is not last, and
  `OnlyNewestGrows`, `NeverDeleteActive` and `PrefixSalvaged` fail. No document says
  that clocks may step back.
- `sqlite` for `QueryComplete`: an error of the manifest is swallowed
  (`control.py:88-90`) and the query answers 200 without any span. No run is spent on
  this second cause; `CompleteAnswers` excludes it by name.
- `close` (a Parquet file without footer is committed): `OffsetsMatchFiles` fails.
- `abort` for `DeletionsLogged`: a crash between the unlink and its row.

One sentence of the documents is only half true and has no violation run.
`docs/ARCHITECTURE.md:468`: "Records exact byte offsets and diagnostics whenever malformed
or corrupted records are quarantined". The gateway writes header and payload in two
writes (`wal_writer.cpp:112-119`) and no lock keeps a reader from what lies between them,
so in normal operation `materialize()` may take the record being written for
corruption. When the call gets to quarantining, after a flush perhaps, the record is
complete: the event then names the offset of a good record, which the client may have
got 200 for, and the segment stays quarantined with everything written behind it. A
property that claims a bad record at every quarantined offset is false of the code.
What does hold, under every fault but `clock`, is `EventsExact`: everything before the
offset can be read, something stands behind it, and in a segment that the call knows to
be sealed that is a bad record.

`IssuedOpens` and `Isolation` have exceptions that are the code's: `create_project` does
not look whether a key is in use, so a second project with the same key, or with
the admin's, cannot be opened by it. `IdentityStays` shows that this never takes away
what a key opened before.

## 5. Proofs

TLAPS checks the theorems of eight modules. The assumptions are those the
modules state on their constants: nothing bounds the threads, processes,
segments, records, batch sizes, files, merges, projects or keys. Every invariant
and every action property of the passing runs is stated by a theorem, and so are the
refinements of `AckLog`, `RowLog` and `SpanTable`.

- `Backend_proofs`, the lock: `TypeCorrect`, `Exclusion`, `Balanced`, `NeverOrphaned`,
  from `LockInv`. Mutual exclusion is not inductive: `DbInv` adds that a thread inside
  the body is the one whose outer connection has the database, so that nobody,
  itself in a nested call included, can begin a second transaction. `RLockInv` says
  that an activation past `acquire()` runs in the RLock's owner; with it the count
  stays balanced, and the balance keeps a release from counting below zero.
  `NeverOrphaned` is the safety half of `DatabaseFreed`: whoever has the lock database is a
  call with its `connection.close()` still before it. That such a call gets there is
  liveness, and checked. `NestedNeverRuns` is finding 1 for every value of the constants: no nested call ever
  gets to its body.
- `Backend_proofs`, the backend: `Refinement` (the processes use the lock as
  `LifecycleLock` allows), hence `CallsExclude`, `CallsRelease` and
  `CallsNeverNest`; `BackendTypes`, `SingleRun` and `ShutdownQuiet`. The last is not
  inductive: when the lifespan has its task back the loop has no run under way,
  because it counts as running exactly as long as one of its calls is queued or taken
  (`RunInv`), and there is no other call, because none is taken up behind the yield
  (`DrainInv`).
- `WalWriter_proofs`: `TypeCorrect`, `Durability`, `Implementation`, `Readability`,
  `NewestGrows`, from `Inv`. Durability is not inductive: the record a thread is
  writing must be the last of the open segment and beyond what fsync has covered, or
  the next write could hit a confirmed one (`WriteInv`); that needs the mutex to keep
  other writers away (`MutexInv`); and between fsync and the 200 the record must stay
  where the thread put it (`StoredInv`). It holds under every fault, `clock` included.
  `Implementation` rests on `DurableGrows`: no step takes a record away from the
  durable ones. `Readability` says that without write errors no torn record
  precedes a confirmed one: a failing `write` is the only cause of finding 2.
  `NewestGrows` assumes clocks that do not step back; it needs that the open segment
  is the newest (`NewestInv`). `MutexReleased`: whoever holds the mutex is in `append`
  past its lock, so no return path keeps it; that is the safety half of
  `RequestAnswered`.
- `WalWriter_proofs`, `SegmentsBounded` (`SegmentBound`). The bound is about a sum over
  the confirmed records of a segment, a fold, and the provers have no induction over
  data. So the sum is turned into a count: it equals the number of pairs of a record
  and one of its bytes (`SumIsCount`). If it did not for some finite set, there would be
  a smallest such set, because proper inclusion of finite sets is well-founded, and
  taking one record out of it gives a smaller one (`SumsAgree`). Counts can be compared
  by inclusion. The invariant `BoundInv` counts a record from its fsync on; it says
  that `current_file_size_` is no less than the sum for the open segment, and that a
  record being written fits, unless the segment is empty.
- `Gateway_proofs`: `Refinement`, hence `ConfirmedDurable`, `GatewayImplements`,
  `GatewayNewest`, `GatewayBounded` and `GatewayReleases` for the whole process; `GatewayTypes`
  (a session in `append` is connected and owes no response, whatever its request was
  read from); `TruthfulCounters`, which needs
  that no two confirmations are of one record: the place of a stored record is its
  thread's own until the 200 (`OwnInv`). `AllCounted` (`RecordsCounted`) is the converse:
  each complete record in the log belongs to a request that was counted, or to a
  session still busy with it. That is not inductive: a session before its write has no
  record yet, so `CountInv` grants one only to those past it.
- `Materializer_proofs`: `TypeCorrect`, `CommittedOnce` (`RowsOnce`), `MarksAreSafe`
  (`OffsetsCommitted`), from its `Inv`. Rows are committed once because committed rows
  lie below the high-water mark (`CommittedBelow`), a visit starts at the mark and
  stays at or beyond it (`ReaderInv`), and a segment not visited yet has nothing in
  the batch (`QuietInv`). The mark does not overtake the rows because the batch's
  offsets do not overtake the rows committed or batched (`BatchInv`), and because
  what lies below them is complete, so that the gateway never changes it
  (`BelowInv`). All of it holds with aborts at any step and with `clock`.
- `Retention_proofs`: the rules of quarantine and cleanup, each under the condition on
  the faults it needs. Without `clock`: `ActiveKept`, `Salvaged`, `QuarantinedKept`. That
  invariant says nothing of a marked segment, so what protects one is stated apart:
  the gateway has left it and all of it was readable (`SealedInv`, from the order of
  names in `NameInv` and of a call's list in `ListInv`), hence it is never condemned
  (`SalvageInv`). `QuarantineExact` (`EventsExact`), also without `clock`: between finding a
  bad record and quarantining its segment the gateway may complete it, but only in
  the newest segment there is, and a segment that the call's list shows to be sealed
  is older than that (`BadInv`, `ListInv`). Without `abort`: `DeletionsRecorded`. Without `clock`, `abort`
  and `wild` records: `RecordsKept` (`AckedKept`) and `MaterializedFirst`
  (`NeverDeleteUnmaterialized`): the rows of a marked segment are committed or in the
  batch (`KeptInv`), and the batch is empty before any cleanup. The runs of section 4
  show that the conditions are needed. `StuckForEver` is finding 4 for every value of
  the constants: a segment the gateway has left, read to its end and not marked, is
  never marked, quarantined or deleted, whatever anybody calls.
- `Retention_proofs`, `Implementation`: `materialize()` implements `RowLog`. What it
  promises the queries is that the rows of a segment arrive in the order in which they
  were written, with none left out before one that arrived, and that nothing arrives
  that was not written. It has to hold across aborted calls, re-reads, quarantine and
  deletion. `OffsetsCommitted` says nothing of marked segments, so `GapInv` does: below any
  segment's offset the rows are committed, unless it is marked and the offset is at its
  end (`MarkInv`): then rows may be lost (finding 3), but no later one of that segment
  can arrive. Without `clock` only: a segment that the gateway still writes might be
  taken for finished, and its next row would arrive behind those that were lost.
- `ParquetStore_proofs`: `TypeCorrect`, `SingleCopy` (`OneCopy`), `DistinctAnswers`
  (`QueryDistinct`) from `Inv`, under every fault. `OneCopy` is not inductive: the file
  about to be committed must hold the next batch, or nothing beyond the files it
  replaces, and those must all be committed still (`StageInv`). A query's files stay
  distinct because a name is never written again (`FreshInv`). `Agreement`
  (`OffsetsMatchFiles`) and `Implementation` (of `SpanTable`) assume `Orderly`: neither
  `overlap` nor `close` is among the faults. From `OrderlyInv`: a sweep of another
  process never runs beside a call, so that what it dooms is no committed file and
  its snapshot stays exact (`SafeSweep`); the file being made is complete before it
  gets its final name (`MadeInv`); a committed file is there (`Present`). Without
  `overlap` ruled out `Agreement` is false, as finding 6 shows. `CompleteAnswers`: under
  `Orderly`, if no compaction commits while a query is between its SELECT and the end
  of its `exists()` checks (`CommitOutsideWindow`) and no lookup raises (`LookupSucceeds`; both
  are conditions on the behaviour), the query misses no span that was committed when it
  began. So the window and the swallowed error are all that can make an answer
  incomplete: an unlink or a commit after the checks, a flush, a sweep or an abort at
  any moment do no harm (`FoundInv`, `CompleteInv`).
- `Pipeline_proofs`: `Composition`, `Confirmed`, `ConfirmedNotCondemned`,
  `NothingInvented`. Every step of the WAL
  writer is one of the gateway that `Materializer` knows, or cannot be seen in the files
  (`GatewaySimulated`): the thread that writes is alone, in the newest segment, and the
  only one half way (`Writer`), and a new name is one no call has seen (`KnownInv`).
  `Composition` follows, and with it everything proved about `Materializer` holds
  against the real `append`. `Confirmed` (`ConfirmedKept`) combines `AckedInv` of the writer
  with `RecordsKept` of the materializer, `ConfirmedNotCondemned` (`CondemnedUnconfirmed`) with
  `QuarantineExact`, `NothingInvented` (`OnlySentCommitted`) the
  writer's types with `RowLog`. The hypotheses are named: `Environment` (no `power`, which
  shortens files, no `clock`; a reader may see half a record) and `CallAssumption`
  (`Materializer`'s bounds), and for `Confirmed` no `abort` and no `wild`, as for `RecordsKept`.
- `Api_proofs`: `TypeCorrect`, `SingleCreation`, `StableIdentity`, `KeysOpen`, `Isolated`,
  `ClosedOnFailure`. Rows are appended only, so the first row with a key stays the
  first; what a worker found out about its caller is therefore still true when it
  answers (`CallerInv`), and so is what was answered (`AnswerInv`).

Only model-checked: liveness (`DatabaseFreed`, `EveryCallReturns`, `ShutdownEnds`, `LoopGoesOn`,
`RequestAnswered`, `StopCompletes`, `EventuallyCommitted`), which is out of this
prover's reach.

## 6. Not modelled, and the plan

Not modelled: the bytes of a record (header, CRC) and of HTTP messages; the contents
of rows; SQL columns, aggregates, ordering and limits; `/api/v1/system/status`; the
answers of request validation (422); the migration of an old `projects` table; the
command line and the paths among the settings; the frontend, the deployment files
and the examples. The CRC is assumed to tell a complete record from a torn one.
Several gateways on one WAL directory are the fault `clock` at most. A WAL that
shrinks or vanishes under the materializer, after a power loss that takes records nobody was
told are stored, is not in `Materializer`.

Next, in order:

1. `Pipeline` with `ParquetStore` behind it, the batches being those of `Materializer`:
   a confirmed request with spans is readable once, unless its segment is
   quarantined.
2. A power loss that shortens a segment under `Materializer`, so that `Pipeline` need
   not exclude it.
3. `WalFraming`: the record format and the reader as pure functions, against a
   reference definition over short byte strings.
