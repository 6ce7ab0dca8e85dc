# A TLA+ model of accretion-db

accretion-db is an embeddable LSM-tree storage engine in Rust. Its promise is in
`README.md` of the repository: *zero acknowledged-write loss*. This directory
holds TLA+ models of the parts that keep that promise, TLC configurations that
check them on small instances, and TLAPS proofs of what holds for every instance.

    tlc -workers 2 -config db_power.cfg MCDb      # model-check one run
    tlapm WriteGateProofs.tla                      # check the proofs of a module

`PROJECT.json` lists the runs, the source lines behind every definition, the
hazards the properties are aimed at, and for each property a *mutant*: a changed
definition, standing for a plausible bug, under which the property fails.

## 1. Inventory

| part | source (under `src/src/`) | state | operations |
|---|---|---|---|
| engine | `db.rs` | `WriteState {next_seq, in_flight, flush_pending}` under a mutex, one condition variable | `put`, `delete`, `get`, `scan`, `flush`, `open_on` |
| memtables | `memtable/mod.rs` | the active map and the frozen ones | `insert_if_newer` with its byte count, `get`, `freeze`, `discard_frozen` |
| write-ahead log | `wal/mod.rs`, `wal/segment.rs`, `wal/recovery.rs`, `wal/frame.rs` | segment files; the writer (active segment) under one mutex, the group-commit coordinator (queue, `synced_through`, leader flag) under another | `open`, `append`, `reset`, rotation, recovery and tail repair |
| manifest | `manifest.rs` | the current `Version` (tiers of table ids, `next_seq`, `next_table_id`), retired versions still pinned | `open`, `install`, `current`, `gc`, `write_manifest` |
| reader cache | `db.rs` | opened readers by table id | `reader_for` |
| compaction | `compaction.rs` | none of its own | `maybe_compact`, `compact_tier`, `write_table` |
| merge iterator | `iter/mod.rs` | a heap of heads, the sources' tails | `next` of `MergeIterator` and `LiveIter` |
| SSTables | `sstable/*.rs` | builder: open block, index, filter keys; reader: index and filter | `add`, `finish`, `open`, `get`, iteration |
| Bloom filter | `sstable/bloom.rs` | the bits, their number, the number of hashes | `new`, `insert`, `contains`, `encode`, `decode` |
| storage seam | `storage/*.rs` | names and bytes, each in a live and a durable image | `create`, `append`, `sync_file`, `sync_dir`, `rename`, `delete`, `crash` |

**How they interact.** A writer takes the engine's mutex, waits until no flush is
pending, takes a sequence number and raises `in_flight` (phase 1); releases the
mutex and waits for the log (phase 2); inserts into the memtable, and under the
mutex again lowers `in_flight` and, if the memtable is full, runs a flush
(phase 3). A flush raises `flush_pending`, waits for `in_flight = 0` and then,
holding the mutex, freezes the memtable, writes each frozen table to a file,
installs a manifest version that names it, collects garbage, discards the frozen
memtable, resets the log, and compacts while a tier is full. Readers take no
engine lock: they copy the memtable handles, then pin a version, then open its
files. Recovery loads the manifest, replays the log into a fresh memtable and
sets `next_seq` past both.

**What is hard.**
- Concurrency: writers, flushers and readers interleave; writers and flushers
  sleep on one condition variable; group-commit leaders act for their followers.
- Order: records reach the log and the memtable in another order than their
  sequence numbers; point lookups stop at the first hit, so the order of sources
  must be the order of sequence numbers.
- Failure: power loss keeps only what a barrier covered, a process kill keeps
  everything written so far, and either may strike between any two storage
  operations, those of recovery included; a storage operation may fail, or fail
  after a part of its bytes.

**What makes each part correct.**
- Gate: a flush body never overlaps a write that has a sequence number and is not
  in the memtable; nobody sleeps for ever.
- Engine: the map a caller sees is linearizable and survives failures.
- Log: an acked frame is recovered from every disk a failure can leave, a
  released frame from none, and recovery never skips a frame.
- Manifest: the version last installed survives every failure; every file a
  version names exists, complete, as long as the version can be used; no other
  file stays for good; a cached reader belongs to the file that has its id.
- Compaction: a tombstone outlives the values it hides.
- Merge, SSTables: the answer is exact or an error.

## 2. Modules

| module | models | built on |
|---|---|---|
| `WriteGate` | the monitor of `db.rs`: `write`, `flush`, `flush_locked` with their mutex, condition variable, count and flag | |
| `MCWriteGate` | the monitor with a budget of calls, and fairness | `WriteGate` |
| `WriteGateProofs` | theorems about the monitor, any number of threads | `WriteGate` |
| `Lsm` | the pure parts: memtable insert, lookup and merge order, `Version` and its transformations, what a compaction outputs | |
| `KvStore` | abstract specification: a linearizable map with crashes | |
| `Db` | the engine: writers, the flush body one storage step at a time, readers, crashes, recovery | `Lsm`; `WriteGate` and `KvStore` as instances |
| `MCDb` | `Db` with thread symmetry, and fairness of the flush body | `Db` |
| `SeqLemmas` | lemmas about numbers, induction over them, and sequences (`FlattenSeq`, `SelectSeq`, ...) | |
| `LsmProofs` | lemmas about `Lsm`: insert, newest entry, versions, compaction | `Lsm`, `SeqLemmas` |
| `DbDataProofs` | the engine implements the monitor; its data: types, byte count, files of versions, clocks | `Db`, `LsmProofs`; `WriteGateProofs` as instance |
| `DbOrderProofs` | the order of the engine's sources, `get` against `scan`, and zero acked-write loss | `DbDataProofs` |
| `DbStoreProofs` | regular reads, and the engine implements `KvStore` | `DbOrderProofs` |
| `Storage` | the file system of `storage/sim.rs`: operations as functions of the file system, and the file systems a power loss may leave | |
| `Wal` | the log, one storage operation per step, its three durability modes, recovery | `Storage` as instance |
| `WalProofs` | group commit; the log's files, what a failure leaves of them and what recovery replays | `Wal`, `SeqLemmas` |
| `Manifest` | `manifest.rs` one storage operation per step, the flush body and cascade that drive it, readers and the reader cache | `Lsm`; `Storage` as instance |
| `MergeIter`, `MCMergeIter` | the heap merge and `LiveIter`, over a scan's range | `Lsm` |
| `MergeIterProofs` | the merge is exact, for any sources and ranges | `MergeIter`, `SeqLemmas` |
| `Bloom` | the filter: sizing, double hashing, the checks of `decode` | |
| `SsTable`, `MCSsTable` | builder, file, reader, iterator | `Lsm` (entries), `Bloom` |

### State and actions, and the code

**WriteGate.** `inFlight` and `flushPending` are the fields of `WriteState`,
`mutex` is `Db.write`, `parked` the threads asleep on `quiesced`; `pc[t]` is where
a call stands. A critical section of `write` is one action, because its mutex
makes it one; only a flush body holds the mutex over several steps, so only a
flush body owns `mutex` between steps. `Claim` is phase 1, `AppendOk` and
`AppendErr` the outcomes of phase 2, `Abort` the error branch, `Apply` the
memtable insert, `Finish` and `FinishFull` phase 3 without and with a full
memtable. `WaitForGate` and `WaitAgain` release the mutex and sleep in one step,
as `Condvar::wait` does; `SpuriousWake` is what the standard library permits.

**Db.** An entry is `(seq, kind)`, a table a function from keys to entries, and a
value is the sequence number of its write, which makes "exact value" a comparison
of numbers. The log is a list of segments, each with the records in it and how
many a barrier has covered, with the deleted ones kept as long as a power loss
could bring them back. `dir` has the manifest and the table files, live and
durable. A segment holds records as `encode_record` writes them, and recovery
reads them through `decode_record`; `bytes` is the memtable's byte count, which
alone decides whether a flush freezes it. `flush` is the program counter of the flush body: `Freeze`, then per
frozen table `FlushTable`, `RenameManifest`, `SyncManifest`, `SwapVersion`,
`GcTables`, `GcSync`, `Discard`; then `ResetCreate`, `RetireSegment` per segment,
`ResetSync`; then `Compact` through the same install. `LogRecord` puts a record
in the log and `SyncLog` is a barrier for every record so far; a
writer returns from phase 2 when its record is covered. A failed flush step is
`FlushErr`, and one of `Wal::reset` after its create, the fault `"reset"`, is
`ResetErr`: the writer stays on the segment it had, deleted or not, with the
fresh one behind it in `wal.spare`. The next reset deletes those too
(`RetireSpare`), a rotation meanwhile finds its id taken (`RollFails`), and a
crash brings them back behind the others. `Die` is the end of the process, at
which the disk becomes the one it leaves. Readers (`ReadStart`, `ReadMem`, `ReadPin`, `ReadTables`,
`ReadReturn`) take the steps of `get` and `scan`.

**Wal.** `fs` is a `Storage` file system; `boot` is the step of `Wal::open`;
`coord` and `writer` are the two locked structures; `durability` is the mode,
chosen once. A frame is a piece of a file, whole, torn or bad. Every storage call
of `append`, `maybe_rotate`, `reset`, `recover` and `truncate_tail` is a step of
its own, so a failure can fall between any two. The segments that `list_segments`
returns sorted are a set here; `recover` and `reset` take them by their ids.
`OpFails` is an error of `append`, `maybe_rotate` or `reset`, `OpenFails` one that
`Wal::open` returns (the fault `"open"`), after which it may be called again. A
rotation or a reset begins only while the bound `MaxSegments` leaves it an id.

**Manifest.** `fs` is again a `Storage` file system, whose files are the manifest,
its scratch file and the tables. `job` is the one flush body (or `open`): every
storage call of `write_table`, `write_manifest` and `gc` is a step, `Swap` is the
exchange of versions under the lock, `Gc` the choice of the files to delete and
`GcDelete` each deletion. `LogSyncDir` is a `sync_dir` of the log, which shares
the directory. A version is encoded field by field and decoded with the checks of
`decode_version`. A reader pins (`Pin`), opens a table that is not in the cache
with no lock held (`OpenTable`) and inserts it (`CacheInsert`). A table's content
is the number of its build, so that two files under one id can be told apart.
`allowed` is a history variable: the version last installed and those whose
install was begun since.

**MergeIter.** One step per pop: `PopWinner`, `PopDuplicate` (the inner loop with
its refill) and `Yield` (with `LiveIter`'s filter). The range cuts the memtables
as `BTreeMap::range` does and the tables with `range_contains`. `Ascending` lists a
set of keys in order by saying how many come before each one, a form the proofs
can use where `SortSeq` is opaque to them.

**SsTable.** A file is a sequence of checksummed regions with offsets and lengths;
`Add` seals a block when the next entry would overflow it; `finish` is one step
per region, so a build can be abandoned (`DropBuilder`) at any of them. The
medium may spoil a region (`Rot`) or shorten the file (`Truncate`), before or
after the reader is opened. The filter's size follows from the expected number
of keys, and the keys' hashes are chosen so that probes wrap around and a table
answers "maybe" for a key it does not hold.

### Abstractions

- A key or a value has a size where the code counts bytes, and no content.
  Encodings are sequences of fields (a record's tag, seq and key; a manifest's
  magic, format, counts and ids); a checksum is modelled by what it detects.
- Whether a memtable has reached its size is left open: any write may find it
  full or not (`Finish`/`FinishFull`). Segment sizes are counted in records.
- `U32` and `U64`, the number of values of the two types, are parameters of
  `Bloom`: TLC's own integers are narrower than either.
- `SimFs` tears the file appended to last. `Storage` lets a power loss tear any
  one file with unsynced appends, and `Db` any segment: more disks than `SimFs`
  leaves, so what holds here holds there.
- In `Db`, `write_manifest`'s scratch file is folded into the rename, and the
  manifest is durable after the `sync_dir` that follows; `Manifest` has all of
  its operations. In turn `Manifest` has no log and no memtables: a flush begins
  when it likes, and after a failure may have one frozen table more.
- `Db` treats a group-commit barrier as covering every record logged before it;
  leaders and followers are in `Wal`.
- In `Db` a power loss keeps all of the segments that failed resets left behind, or
  none: they are empty. The errors of `open_on` itself are in `Wal` and `Manifest`.
- In `Db` a scan asks about one key at a time; merging many is `MergeIter`.

## 3. Runs

Nine runs pass and three show a disagreement between code and documentation.
Deadlock is checked in `manifest`, where a further call is always possible; in
the other models the budget of calls runs out and the system rightly stops.

| run | instance | shows |
|---|---|---|
| `gate` | 3 threads, 5 calls, 1 restart | `QuiescedBody`, `NoLostWakeup`, `GateHasOwner`, the inductive `GateInv`, and `EveryCallReturns` |
| `db_power` | 2 threads, 1 key, 3 writes, GroupCommit, 1 power loss | `AckedVisible`, `SeqOrder`, `GetScanAgree`, `FreshSeqs`, `PinnedFilesExist`, `BufferDrained`, and refinement of `KvStore` |
| `db_deep` | 1 thread, 5 writes, a power loss or a kill | `SeqOrder`, refinement of `KvStore` and `FlushReturns`, through three tiers |
| `db_faults` | 1 writer, 2 writes, 1 reader, Always, 2 faults: I/O error, also inside a reset, or power loss | failing appends and flush bodies lose nothing acked; pinned files stay; reads are regular |
| `wal_group` | 3 threads, 3 appends, GroupCommit, 2 faults: I/O error, failed open, short write, kill | hand-over between leaders and followers; every append returns |
| `wal_modes` | 2 threads, 3 appends, 1 reset, each mode, 2 faults: I/O error or power loss | acked frames are recovered, released ones not, recovery is a prefix |
| `manifest` | 5 table ids, fanout 2, 1 reader, 2 faults: I/O error, kill or power loss | the installed version survives and its tables are complete; pins and cache are right; no garbage stays |
| `merge` | 3 sources over 3 keys, 4 ranges | the merge is exact on the range, `LiveIter` too, and it ends |
| `sstable` | 4 keys, blocks of 3, entries of 2 and 4, filters of 64, 72 and 136 bits | lookups and iteration are exact or fail; a finished table opens |

**Why these bounds reach the hard cases.** Three threads give a flusher, a writer
in flight and a writer at the gate, or a second flusher. With a fanout of 2, four
flushes build a table in tier 2; a tombstone dropped too early shows after two
more in tier 0, which needs four writes, and `db_deep` has five. Two writers of
one key are enough for their log, memtable and sequence orders to differ. A
segment of two records makes rotation happen with three, so a reset has several
segments to delete. Two faults give a failure during the recovery from another,
or an I/O error before a crash. Three committers give a leader, a follower in its
batch, and one queued behind a batch that failed. In `sstable`, entries are
smaller than, equal to and larger than what is left of a block. In `manifest`,
five ids make room for three flushes and a compaction, or four flushes and two
compactions when the first of these leaves no entries, with a fault in any of
their steps and another one later. After the last fault fewer are enough to show
what it did (`LateTables`). Every flush begun has the ids its cascade needs, so
that the bound never cuts one off. A cascade proper, in which the output of a
compaction makes the next tier due, happens in `db_deep`: tables 1 and 2 become 3,
4 and 5 become 6, and in the same flush 3 and 6 become 7, also after a crash.
The four ranges have every kind of bound at either end. Every mutant is
killed inside these bounds.

**Symmetry.** `db_power` identifies states that differ by a renaming of the
threads: `Db` never tells them apart, and the run checks safety only (`KvStore`'s
specification has no fairness).

**Fairness.** `gate` and `wal_group` ask that every thread inside a call keeps
taking steps when it can (weak fairness per thread) and, in `wal_group`, that a
dead process is started again. The scheduler, mutexes that are released in
bounded time and storage calls that return justify it. The number of calls is
bounded, because `std::sync::Mutex` promises no order among waiters: with
endless callers no thread is sure of its turn. Wake-ups are not assumed: a
sleeping thread runs again only if somebody notifies it, or spuriously, which is
never required. `db_deep` asks weak fairness of the flush body, which holds the
write mutex and waits for nobody; a crash ends the body, so it does not stand in
the way of `FlushReturns`. `merge` assumes that its consumer keeps calling `next`.

### Disagreements found

- `db_orphan`, `OrphanNeverBlocks` (`compaction.rs:102`). A crash after a table
  file became durable and before a manifest names it leaves a file under the id
  `next_table_id` still has. The next `write_table` fails in `create` with
  `AlreadyExists`, before the `install` whose `gc` would have removed the file,
  and so does every later one. The comments at `compaction.rs:122` and
  `manifest.rs:255` say the file is reclaimed by the next GC.
- `db_kill_reset`, `AckedVisible` (`wal/mod.rs:148`). Two writers of a key may log
  the newer record in an earlier segment than the older one. A process killed
  while `reset` deletes segments in id order recovers the older record alone and
  serves it from the memtable, over the newer one that is in a table. No kill is
  needed: `reset` may delete the older segment and get an error from the next
  deletion (`wal/mod.rs:149`); the next flush calls `reset` again, whose first
  `sync_dir` makes that deletion durable, and a power loss leaves the other segment.
  A scan, which merges by seq, still shows the acked record. The run finds this with
  `Faults = {"reset", "power"}` and `MaxFaults = 2`.
- `wal_reopen`, `AckedDurable` (`wal/mod.rs:112`). `Wal::open` adopts a tail
  segment without `sync_dir`. In the run, an open creates segment 1 and returns the
  error of its `sync_dir` (`wal/mod.rs:115`); the next open adopts the segment, a
  frame is acked in it, and a power loss takes it with its file. A process killed
  between the two operations leaves the same: with `Faults = {"kill", "power"}`
  the run finds it too.

Further observations, which these models show with other constants and no run
keeps:

- A failed group-commit batch goes back to the queue (`wal/mod.rs:230`) although its
  leader's caller got `Err`. A newer write of the key, acked and flushed before the
  next batch, is in a table and no longer in the log; the next leader logs the
  older record, alone, and recovery serves it from the memtable, over the acked
  one. `db_kill_reset.cfg` with `Durability = "GroupCommit"`, `SegmentSize = 3`,
  `MaxWrites = 3`, `WriteKinds = {"Value"}`, `Faults = {"io", "power"}` and
  `MaxFaults = 2` violates `AckedVisible`.
- An append that fails after part of its bytes (`RealFs::append`) leaves a torn
  frame, and the next append is synced and acked behind it, where recovery does
  not get. `Wal` with one thread, `Modes = {"Always"}`, `SegmentSize = 3`,
  `MaxAppends = 2`, `MaxResets = 0`, `MaxSegments = 2`, `Faults = {"short"}`,
  `MaxFaults = 1` violates `AckedDurable`.
- A rotation whose `sync_dir` fails leaves the writer on the old segment with an empty
  one behind it. Under `OsBuffered` a frame may follow in the old one, unsynced; the
  process is killed, and the next open appends to the newer segment, which is synced
  when it is left. A power loss then takes the frame in the middle: `wal_modes.cfg`
  with `Threads = {t1}`, `Modes = {"OsBuffered"}`, `SegmentSize = 1`, `MaxResets = 0`,
  `Faults = {"io", "kill", "power"}` and `MaxFaults = 3` violates `PrefixRecovered`.
- `Wal::open` hands the records of a killed process to the memtable without a
  barrier. A flush makes them durable in a table; a power loss before the reset
  then leaves a log whose newest record of the key is older than the table's, and
  `get` and `scan` disagree. `db_faults.cfg` with `Faults = {"kill", "power"}`
  violates `SeqOrder`. Nothing that was acked is lost.
- `Manifest::open` (`manifest.rs:184`) takes any failure of `Storage::open` for a
  missing manifest and installs an empty one; `RealFs::open` reports `NotFound`
  for any error of `stat`. `manifest.cfg` with `Faults = {"kill", "stat"}` violates
  `InstalledSurvives`.
- With a `tier_fanout` of 0 or 1, which `Options` accepts, every compaction makes
  the next one due and a flush never returns: with `TierFanout = 1` the state graph
  of `db_deep.cfg` has no end.
- A filter of 2^32 bits or more, for some 430 million entries, has a width that
  does not match its bytes (`bloom.rs:27`), and the reader refuses the table.
  `sstable.cfg` with `U32 = 128` violates `FinishedOpens`.
- The comment on `flush_quiesced` (`db.rs:312`) says that the body runs with
  `flush_pending` set. With two flushers the first to finish clears it, and the
  second runs with the flag down. Writers are still kept out, by the mutex the
  body holds: `QuiescedBody` is what the engine needs, and it is proved.

## 4. Proofs

No theorem bounds a constant: threads, keys, readers, fanout, segment size,
numbers of writes and of faults are arbitrary, subject to the named assumptions
of the modules (`ThreadsAssumption`, `DbAssumption`, `WalAssumption`,
`MergeAssumption`).

**The monitor** (`WriteGateProofs`), for every finite set of threads.
`QuiescedBody` is not inductive: that a flusher which sees `in_flight = 0` meets
no claimed write needs `in_flight` to be their exact number, on the error path
too. `GateInv` says so (`inFlight = Cardinality(Claimed)`), and that the mutex is
owned between steps exactly by the flusher in its body, and only at count zero.
`IInv` is `TypeOK /\ GateInv`. The two counting lemmas (adding or removing a
thread moves the cardinality by one; zero means empty) come from
`FiniteSetTheorems`; `StepInv` has one case per action; `GateInductive`
concludes `Spec => []IInv`, and `GateCounts`, `GateTypeOK`, `GateQuiesced`,
`GateOwned` and `GateNoLostWakeup` follow. `NoLostWakeup` is inductive only with
`GateInv`: a flusher that goes to sleep saw a positive `in_flight`, and only the
count turns that into a thread that will notify it.

**The engine implements the monitor** (`DbDataProofs`, its first part). `DbImplementsGate` shows
`Spec => Gate!Spec`: writer steps are the monitor's steps, the flush body, the
readers, the log's barrier and `Open` leave its variables alone, and a crash is
its `Restart`. `DbQuiescedBody` and `DbNoLostWakeup` carry the theorems over.

**The engine's data** (`DbDataProofs`). `DbDataInductive` shows
`Spec => []DataInv` under every fault, kills and failing resets included. What the conjuncts are for:
- the clocks stay in their bounds and past every seq in use, which needs the
  seqs in the log, in the queue and in calls to be bounded too: a replay puts
  them into a memtable, and `Open` sets the clock from them (`DbFreshSeqs`);
- the byte count is exactly the sum over the active memtable. Freezing is decided
  by the count alone, so without exactness a flush could reset the log with
  entries left in memory (`DbBufferDrained`);
- every version that is current, pinned, being installed or in the manifest,
  live or durable, has its files, and `gc` spares them (`DbPinnedFilesExist`);
- every record in the log decodes to a typed record (`DbTypeOK`).

**The order of the sources** (`DbOrderProofs`). `DbSeqOrder` and `DbGetScanAgree`
have the premise `KeepsOrder`: no process kill, no error of `Wal::reset` after its
create, and no other failing storage operation unless the log is in mode
`Always`. The premise is what the code needs, not what the proof needs: the two
faults of `db_kill_reset` and the requeued batch of section 3 are the three cases
it excludes, and in each the order is really lost. Within it, any
number of power losses may strike anywhere, and in mode `Always` any number of
operations of `append` and of flush bodies may fail, up to and including the
create of a reset. `SeqOrder` is far
from inductive, because a recovery rebuilds the memtable from whatever log is
left. `OrderInv` adds:
- `LogShape`: no queue of failed frames and no segment left by a failed reset;
  segments being deleted exist only during a reset, when the log is otherwise empty;
- `ClaimsFresh`: a claimed seq is newer than anything in a table, and durable by
  the time it is applied (which needs `DbQuiescedBody`);
- `ActiveLogged`: what is only in the active memtable is in the synced log;
- `LogCovers`, the heart of it: a record of a key that is older than a table's
  entry for the key is in the log only together with a synced one that is not. So
  whatever part of the log a power loss keeps, the replayed entry is at least as
  new as every table's;
- `MemOrder` and `FilesOrder`: the order itself, in memory and over the tiers of
  every version that may be read now or after a crash.

`OrderInv` was checked by TLC, on the bounds of `db_deep` with two power losses,
before it was proved. The proof has one lemma per kind of step: `FreezeOrder`,
`FlushTableOrder` and `CompactOrder` (the outputs are ordered as their inputs
were), `FlushOrder` for the rest of the body, `PowerLossOrder` and `OpenOrder`.
`DbGetScanAgree` follows from `DbSeqOrder`: in sources that are in order the first
hit is the newest entry, which is what the merge picks (`FirstHitNewest`).

**Zero acked-write loss** (`DbOrderProofs`, second part). `DbAckedVisible` states `AckedVisible`
under the same premise, which is tight here too: each excluded case loses or
resurrects an acked write. The property is about the last write that returned Ok;
the invariant must speak earlier, of every write that is in the memtable and has
not returned, because from there on no step may undo it (`InEffect`). `AckedInv`
adds to `DataInv` and `OrderInv`:
- `Settled`, the heart of it: each write in effect is kept, for every version that
  may be read now or after a crash, by memory and tables together. One of them has
  an entry at least as new; or a delete at least as new took effect, no table of
  the version mentions the key, and nothing older is left in the log to come back.
  Before a crash "memory" is the memtables, after it the synced log;
- `FrozenLogged` and `LogDrained`: what waits for its flush is in the synced log,
  and the log is empty when tables are compacted, so a tombstone dropped at the
  bottom cannot uncover a logged value;
- `HeadFlushed`: a memtable is discarded only when every version that may be read
  has its table (the rename must be durable and the swap done first);
- `ClaimsLater`: a claimed write that is still to be logged is newer than what is
  in effect or loses to the memtable, so logging it brings back nothing;
- `ErasedCovers`: a tombstone in a table stands for a delete that took effect.

`AckedInv` was checked by TLC, under power losses in both modes and under storage
errors in `Always`, before it was proved. `CompactAcked` is the hardest step
(`CompactionKeeps`: the output has something as new as each input, or the newest
input is a tombstone at the bottom of the tree); `AckedSeen` turns what is kept
into what `get` returns, with the order of the sources.

**What readers see** (`DbStoreProofs`, first part). `DbReadsRegular` states
`ReadsRegular` under the same premise, `KeepsOrder`. It needs that internal steps
change nothing that is seen, in every version that may be read, now or later:
- `OnceInv`: a sequence number stands for one write, wherever it is found, so two
  entries with the same number show the same value (`DbOnceInductive`);
- `Shown`: in every version of `Views`, with the memory beside it, the newest entry
  of a key shows what `get` returns (`DbViewsAgree`). It follows, step by step,
  from what a freeze, a discard, a table and a compaction leave to be found;
  `ShownKept` is the consequence that only `Apply` and a crash change a value;
- `ReaderFine`, for each reader: it holds the entry it met in the memtables, or
  none, and whatever merging it with the version it is about to pin, any of `Views`
  (`BeforePin`), or has pinned (`AfterPin`) gives is among the values its
  key had since the call began. The hard case is a memtable discarded and
  compacted away between a reader's copy of the memtables and its pin.

**The engine implements the map** (`DbStoreProofs`, second part).
`DbImplementsStore` shows `Spec => ImplementsStore` under `PowerOnly`: power losses
are the only faults, in either durability mode. `StoreInit` maps the initial
states; `StoreStep` maps a claim to `Begin`, an `Apply` to `TakeEffect` or, when a
newer write of the key is in the memtable, to `Overtaken`, a power loss to `Crash`
and all else to a stutter. `StoreInv` gives what these need: no write is given up, a
write that will find a newer one is `lapped`, and each record in the log is that
of a write in progress or has been reached by every version, so that what a power
loss drops or keeps was in progress or changes nothing. A failing append is left
out of the premise because it ends a call whose record may still be recovered: the
invariants that hold then are those of the run `db_faults`. A kill of the process,
which keeps every appended record, is left to the run `db_deep`.

**The merge** (`MergeIterProofs`), for any number of sources, any finite set of
integer keys, any entries and ranges. `MergeYieldsNewest` states `MergesNewest`,
`ScanShowsLive` states `LiveShowsNewest`. The invariant `MergeInv` says
- what is left of each source: its head in the heap, one at most, then the rest
  behind it, ascending (`SourcesOK`). So the top of the heap is the smallest of
  all keys left (`TopLeast`), not only of the heads;
- that the keys still to be yielded are those of the heads left and of the winner
  (`PendingOK`), and that each entry of a source is left there, or its key was
  yielded, or is the winner's (`KeptOK`). From the two, every source that mentions
  the key of a popped winner has its entry in the heap at that moment, so
  `HeapHead::cmp` picks the newest of all sources (`TopNewest`);
- that no key left is below the winner's (`WinnerOK`), so when the inner loop ends
  the winner is the next key of the reference (`WinnerNext`).
`MergeInv` was checked by TLC, over two keys, before it was proved.

**Group commit** (`WalProofs`, first part). `GroupInv` says where every frame of a waiting
committer is (in the queue, in the leader's batch, or covered by
`synced_through`) and that seqs in the queue ascend and are later than those of
the batch in hand. A failing leader puts its batch back in front, which keeps the
order only because of the latter. `WalQueueInOrder` and `WalFollowersCarried`
follow, under every fault of the model, failing opens included.

**The log's files** (`WalProofs`, second part). A file is seen through its name, as
a `View` of its live and its durable image; one lemma per operation of `Storage` says
what it does to one view and that it leaves the others alone, which holds because no two
names share an inode (`OneOwner`). `LogInv` keeps that, the progress of recovery with its
scratch file, and that no image holds a piece older than the last completed
reset; `WalTypeOK` and `WalReleasedStayGone` follow from it and `GroupInv`, under every fault.

`WalAckedDurable` and `WalPrefixRecovered` have the premise `Calm`: power losses at any
moment, those of `Wal::open` included, and errors of any operation of `append`,
`maybe_rotate` and `reset`, each in any number; but no process kills, no short
writes and no errors returned by `Wal::open`. That is what `AckedDurable` needs:
`wal_reopen` shows what a failed open or a kill does to it, and section 3 what a short
write does. `PrefixRecovered` survives failing opens (`wal_modes.cfg` without
`AckedDurable` passes with `"open"` among its faults) but not a kill after a failed
rotation (section 3); its proof is under `Calm` too. The invariants are
- `DiskInv`: of the two images. In an open log no segment is damaged, those before the
  active one are synced to the end, and those behind it are empty; so a power loss puts only
  the newest pieces at risk (`AtRisk`). While the log is being opened at most the last segment with anything
  in it is damaged, and what the scratch file holds is that segment's clean prefix. This is why the
  seal of a full segment and the syncs of `truncate_tail` are needed;
- `AckInv`: a frame that was promised is in a piece that both images have, synced,
  with nothing damaged before it (`Kept`). Before that it is followed through the
  call: a caller's frame is in the queue or a batch; the owner of the writer has
  each frame of its batch still to write or in the active segment, which a
  rotation cannot leave before the barrier; a follower's frame is safe once
  `synced_through` reaches its seq, by `GroupInv`;
- `OrderInv`: the pieces of the segments, in either image, are in the order they
  were written. No step but an append adds a piece (`StepShrinks`);
- `HistInv`: every piece of the history is `Placed`, in both images where a scan
  reaches it, and the history ascends. Apart from a reset, a power loss is the only step
  that shortens it, to what recovery will replay.
`AckedIsRecovered` and `PrefixIs` turn these into the properties, for the present
files and for every disk a power loss may leave of them: what is kept is replayed
(`RecoveredFacts` says what recovery replays, and in which order), and a piece written
before one that is replayed is in an older segment, all of whose contents survive,
or before it in the same one (`EarlierStands`); a subset of an ascending list that is
closed downwards is a prefix of it (`ClosedIsPrefix`). The invariants were checked by
TLC, in each mode, before they were proved.

**Induction over data.** The library's induction principles take a predicate as a
parameter, which the provers cannot instantiate. `SeqLemmas` states the principle
for sets instead (`InductionOverNat`: a set of numbers that has 0 and is closed
under successor is all of `Nat`) and derives from it what a fold or a recursive
function computes: `FlattenElements`, `ReplayNewest` (a replay keeps, per key, the
record with the largest seq), the byte count of a replay. The functions of `Db`
that replay a log are recursive functions rather than folds for that reason.

**Only model-checked.** Liveness under fairness (`EveryCallReturns`, `Drains`,
`FlushReturns`). The refinement of `KvStore` under process kills (`db_deep`).
The properties of `Manifest`, whose invariant would relate the file system's two
images to the versions and pins in memory, and those of `SsTable`.

## 5. Not modelled

- Bytes inside a field: endianness, varints, and the polynomial of a CRC. They
  are pure functions with round-trip tests in the repository.
- The hash function behind the Bloom filter; the float arithmetic of its number
  of probes is done in integers, with ln 2 to three places.
- System calls of `RealFs`, apart from a write that stops half-way and the
  existence test; `write_at`, which the engine never calls.
- The memory that the reader cache keeps for tables that are gone.
- A scan over a range whose start is behind its end, on which
  `BTreeMap::range` panics.
- Test drivers and benchmarks (`bin/`, `testkit/`, `benches/`, `scripts/`), and
  the simulator's crash scheduling, which exist to exercise the engine.

## 6. Plan

Written first, because everything else relies on it: the monitor and its proofs;
then the engine against `KvStore`; then the log under the storage model; then the
algorithms below the engine; then the manifest, the reader cache, the byte count,
the encodings and the filter. Next, in this order:

1. `Manifest`'s `InstalledSurvives` and `PinnedTablesStay`, from an invariant on the
   file system's two images; the lemmas of `WalProofs` on `Storage` show the way.
