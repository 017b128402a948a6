# A verification of lsm-db in TLA+

lsm-db is an embedded key-value store: writes go to an optional write-ahead log
and a sorted buffer (the memtable); full buffers are flushed to immutable sorted
runs; a background thread merges the runs; a manifest names the live ones. This
directory models that system, model-checks it with TLC on small instances, and
proves with TLAPS, for every instance, all the safety properties the runs check:
that the engine implements what it promises to clients among them.

## The parts of the system, and what models them

| part | source | module | state |
|---|---|---|---|
| engine: put, delete, write, get, scan, flush, compaction, open, drop | `db.rs` | `Engine` | modelled |
| what clients are promised | `lib.rs`, `db.rs` | `KVStore`; the mapping from `Engine` in `EngineContract` | modelled |
| coordination with the compactor thread | `db.rs` | `Compactor` | modelled |
| records, batches | `record.rs`, `batch.rs` | `Records`, `WriteBuffer` | modelled |
| memtable | `memtable.rs` | `WriteBuffer`; as a table in `Engine` | modelled |
| manifest | `manifest.rs` | `Engine`, `PowerLoss` | contents and rename, not the text format |
| write-ahead log | `durability.rs` (over wal-db) | `Engine`, `WriteBuffer`, `PowerLoss` | modelled; wal-db is external |
| run files | `sstable.rs` | `SsTable`; lifetime in `Engine`, cursor in `Merge` | modelled |
| merge | `merge.rs` | `Merge`; its result in `Records` | modelled |
| block cache | `cache.rs`, `sstable.rs` | `BlockCache` | one shard |
| bloom sidecars | `bloom.rs` | `Sidecars` | modelled; the filter is external |
| configuration | `config.rs` | constants of the modules | capacities, trigger and its clamp |
| scan iterator, errors | `scan.rs`, `error.rs` | none | no shared state |

### How the parts interact

All writes and flushes hold the write lock of `inner`; in `Engine` the thread
that holds it is the one with `wpc # "idle"`. A get or scan captures memtable and
runs under the read lock (`GetBegin`, `ScanBegin`) and searches with no lock
(`GetStep`, `ScanMerge`). The compactor takes a snapshot (`CompactSnapshot`),
merges without a lock and swaps under the write lock (`CompactSwap`). A run file
is removed when the last reference to an obsolete run is dropped: by a reader or
the compactor (`Release`), or with the engine itself when it is closed (`Closed`;
both through `Unlink`).
The manifest rename is the commit point of a flush (`FlushCommit`) and of a
compaction. `Crash` may happen between any two steps, the steps of recovery
(`OpenLoad`, `OpenReclaimTmp`, `OpenReclaimRun`, `OpenReplay`) included.

A key, a value and a run's contents are abstract: memtable, run, log record and
batch are all tables, functions from keys to a value, `Tombstone` or `None`.
`Faults` chooses which I/O steps may fail.

Left out of `Engine` because no production code reads them: `running`,
`generation`, `last_error`, and the `compacting` flag, which only excludes a
test-only caller.

### The components of their own

`Engine` takes a run to be a table, a merge to be `Newest`, a batch to be its net
effect and a filter to be absent. The other modules look at what it abstracts:

- `WriteBuffer` has the bytes: `approx_size` with its subtraction, the capacity
  check, a `Batch` as the list of operations its builder queues, and a log record
  as the fields `encode` writes, cast to 32 bits, and `decode` checks. An append may
  fail before or after its record is in the log (`LogFails`; `refused` remembers
  the places of such records), a rotation may leave the log closed (`Rotate`), and a
  log that `decode` refuses keeps the store closed. A key or value of 2^32 bytes or
  more is longer than its length field says (`Misread`); what `decode` makes of the
  rest is left open. That `Latest` in `Engine` is right rests on `RecoveryExact`.
- `SsTable` is one run: the writer that cuts entries into blocks (`Push`,
  `FlushBlock`, `Finish`), the file with its index and footer, damage to any part
  of it, and the reader (`Open`, `Lookup`). A block is named by the positions of
  its first and last entry, which is also its checksum: other bytes have another.
- `Merge` is one scan or one compaction: cursors that read block by block (`Fill`,
  `ReadFails`), the smallest key taken from every source that has it (`Take`), the
  range (`Below`, `Above`), and what `scan` collects. A compaction is the job with
  an empty memtable and no bounds.
- `Sidecars` is the directory again, seen from the filters: a flush and a
  compaction under way together, the three renames of each, both removals of an
  obsolete run, recovery entry by entry in any order, sidecars whose bytes are
  lost, and openings with and without the feature. A filter is any set that
  contains the keys it was built from. The builder may also yield none (`Built`):
  when the expected number of keys is zero or the filter library reports an error.
- `PowerLoss` puts `Engine` on a disk on which only what was synced is safe. It
  adds the set of directory states a power loss may leave.

## Runs

| run | instance | what it shows |
|---|---|---|
| `engine_recovery` | `MCPowerLoss`: log, 2 keys, no readers, no faults, 4 run numbers, log of 2 | every crash and power loss recovers all acknowledged writes; nothing leaks |
| `engine_readers` | no log, 2 keys, 1 reader, reads may fail | the engine implements `KVStore`: reads are answered from the moment they began, over files that exist |
| `engine_faults` | log, 2 keys, failing append, flush, rotate, compaction, unlink | every step but a failed flush is a step of `KVStore`, across crashes; the directory stays consistent |
| `flush_loses_writes` | log, 2 keys, failing flush | **violated**, see Findings |
| `log_left_closed` | log, failing rotate | **violated**, see Findings |
| `compactor` | two openings, trigger 3, failing rotate and compaction | no request or notification is lost; drop always returns |
| `reopen_uncompacted` | two openings, no faults | **violated**, see Findings |
| `sstable` | streams of up to 3 entries, any part damaged or cut off | a lookup is right or an error; extents are exact; what is intact can be read |
| `merge` | memtable, 2 runs cut into blocks, every kind of bound, failing reads | a scan is exact, ascending, and ends |
| `sidecars` | 2 keys, 3 run numbers, feature on and off, faults, damage | no filter hides a key; orphans are reclaimed; a sidecar, if there is a filter, precedes its run |
| `write_buffer` | 2 keys, values of length 2, 3 and 9, batches of 2, capacities 0 and 6, failing append, flush, rotate | size exact; a log within the decoder's limit replays to the buffer and to what refused writes left in it |
| `block_cache` | 3 slots, 4 blocks, 2 readers | index and ring agree, CLOCK finds a victim |

Bounds. Four run numbers (`MaxSeq = 3`) are two flushes, the compaction of their
runs, and a flush during it; chains of compactions need more and are covered only
by the proofs. Two keys matter: with one, a later write to the same key hides
every loss of an earlier one, and `flush_loses_writes` finds nothing. For that
reason every run that checks the refinement has two. One reader is enough
for what TLC checks of reads, since readers share nothing but file lifetimes; two
readers that hold the same run are covered by the proof of `ReferencedRunsExist`.
`MaxLog = 2` gives a log in which a later record overrides an earlier one.
`sidecars` needs three numbers: a compaction of two runs, whose removal is cut
short, and a third number given out twice. The limits of `SsTable` are small
numbers, the writer's above the reader's as in the code; its proof is for all of
them. In `merge` the older run is cut after every entry and the newer one in every
way, so blocks of the two end at the same key and at different ones.
`write_buffer` has a capacity that writes reach exactly and one (zero) that every
write exceeds. The decoder's limit is 2 there and the length field holds numbers
below 8, so one value is exactly at the limit, one above it is refused by `decode`,
and one above the field is cast to 1 and misread. The cache has more blocks than slots (33 blocks of capacity over 16
shards are 3 slots in each), so evictions occur, and two readers, so that both can
miss the same block. Its blocks and readers are symmetric.

With a failing flush the engine is not a `KVStore` (first finding). `engine_faults`
therefore checks `OnlyFailedFlushesLose`: `KVStore` with that one step added. The
losing step is the failed flush itself, after which the entries are no longer
readable; a later flush makes durable what is readable, as `Persist` says, and so
ends the log's copy of them. `engine_readers` has no failing flush and checks `ImplementsKVStore`
itself. `NothingLeaked` is checked without faults: after a failed step files do
stay until the next opening.

`engine_recovery` does not repeat the refinement: its instance is that of
`engine_faults` without the faults, and `EveryLossRecovers` says that a power loss
leaves the durable view unchanged, as the step `Restart` of `KVStore` does. It
has no failing appends, whose records may or may not survive.

`IdleBelowTrigger` and `SettlesBelowTrigger` are about the first opening while
nothing has failed in it (`Signalled`); the third finding shows that neither
condition can be dropped. `failed` is a history variable for that purpose.

`SidecarFirst` is about the step that commits a run, and says that the run has its
sidecar exactly if the builder yielded a filter. Later a sidecar may disappear: a
damaged one is discarded when it is loaded.

`RecoveryExact` speaks of the time until a flush or a rotation fails, and of
lengths that `decode` accepts. The first condition is the first finding: a failed
flush empties the buffer and not the log. An append that fails after its record is
in the log does not end it: the buffer is then what the successful appends say, and
replay what all records say, the refused ones included.

`FlushedKeysDurable` asks of a flush that every key with an acknowledged write is
recovered with it. A key whose last logged write was not acknowledged may be
recovered either way, so it asks nothing of that key until it is written again.

`PowerLoss` assumes the most favourable file system: directory operations are
journalled in order, and a sync of any file commits all that came before it. A
loss keeps a prefix of the operations since then. Nothing is claimed for file
systems that reorder renames; on those a manifest could survive without its run.

Fairness is assumed in `Compactor` and `Merge` only. In `Merge` the one thread that
runs the loop goes on running. In `Compactor` a thread that can take its next step
does (the compactor, and a client inside flush or drop). Clients need not call
anything and a wait need not end without a notification. Weak fairness is enough
because the liveness properties speak of a time after which no client takes the
write lock, so the compactor's lock is free; nothing is assumed about the
fairness of `RwLock`.

`CHECK_DEADLOCK FALSE` in the `Compactor` runs: a store that is closed after its
last opening stays closed. In `Merge` and `SsTable`: a scan ends, and a writer or
an opening that fails is over. In `Sidecars`: run numbers run out. In
`WriteBuffer`: a store whose log cannot be replayed stays closed.

## Findings

1. **A failed flush loses acknowledged writes** (`db.rs:555`). The memtable is
   taken before any I/O. When the flush fails the entries are gone from memory,
   and the next successful flush removes the log that still had them. The
   documentation of `flush` says that after a successful flush every previously
   written key is durable.
2. **A failed rotation leaves the log closed** (`durability.rs:136`): all later
   writes are refused until the store is reopened. The field's comment says the
   handle is absent only inside `rotate`.
3. **Reopening does not request a compaction** (`db.rs:241`). A store closed with
   a request pending and reopened with that many runs stays that way until it
   flushes. The same happens after a failed rotation (which returns before the
   signal) and a failed compaction (which is not retried): with one opening and
   `Faults = {"rotate"}` or `{"compact"}`, `MergesAtTrigger` is violated too.

Four more differences, met while stating the properties. No run of their own shows
them:

- **Without the log a power loss may undo a flush** (`manifest.rs:93`). The last
  thing such a flush does is a rename, and the directory is not synced after it.
  `engine_recovery` with `Durable = FALSE` violates `EveryLossRecovers`. With the
  log the loss is harmless: the log is removed after the rename and comes back if
  the rename is undone.
- **The writer accepts lengths the reader refuses** (`sstable.rs:425`, `:553`).
  Lengths are written up to `u32::MAX` and read up to 2^30, so a value in between
  is flushed without an error and makes its block read as corrupt. `IntactReadable`
  is false without its condition on lengths. In the log `decode` has the same
  limit and `encode` none (`durability.rs:170-177`), so a value in between is
  acknowledged and the log cannot be replayed if the store stops before the next
  flush. From 2^32 on the cast changes the length and the record is misread, and the
  writer of runs refuses the value, so the flush fails. `RecoveryExact` is false
  without its condition on lengths (`WithinLimits`). Whether wal-db accepts records
  of that size is outside the repository.
- **A large entry joins the entries already buffered** (`sstable.rs:439`); the
  comment on `TARGET_BLOCK_SIZE` gives it a block of its own. Only the layout
  differs; lookups are right (`LookupsExact`).
- **The write that fills the buffer flushes it** (`db.rs:545`). `config.rs:72-73`
  says that when the buffer reaches its capacity "the next write triggers a flush
  to disk". `maybe_flush` runs after the operations of a write are applied, so the
  write that reaches the capacity is flushed itself, and the next one finds an
  empty buffer. No client can tell, except by when it waits.

## Proofs

Every theorem below holds for all keys, values, batches, readers, faults and bounds
that satisfy the assumptions named in the modules (`RecordAssumption`,
`EngineAssumption`, `SsTableAssumption`, `MergeAssumption`, `SidecarAssumption`,
`CompactorAssumption`, `WriteBufferAssumption`, `CacheAssumption`): types of
constants, streams in ascending order, markers that are not data, the clamp of the
trigger. Where a theorem assumes that some steps do not fail, it says so.

### The engine

| module | contents |
|---|---|
| `EngineTypes` | typing and algebra of tables (`Overlay`, `Newest`, `Latest`, `Live`); lists of runs and their contents, the inductive invariant, its typing part, the steps of writers and readers |
| `EngineProofs` | the steps of the compactor and of open, close and crash; the theorems on files; the invariant on data; `NothingIsLeaked` |
| `EngineRefinement` | the step simulation of `KVStore`; power loss |

**Files.** `TypeCorrect`, `ManifestAlwaysComplete`, `FilesOutliveReferences`,
`CompactionTakesOldest` and the action property `InstalledRunsNeverChange`
(`RunsImmutable`), all with every fault. None of the invariants is inductive. That
the manifest is complete after a flush needs that the flushed run is still there,
so that nobody removed it: hence `Fresh`, which says that a run being written is
referred to by nobody, that its number is below `next_seq` and that flush and
compaction never share one. That a swap leaves the manifest complete needs that
the survivors are exactly the newer runs (`SurvivorsArePrefix`), which needs that
the list has no duplicates and that the inputs are a suffix of it. That nobody but
the engine refers to a run while orphans are removed is `Control`. That closing the
store removes no file the manifest names needs that no live run is marked obsolete,
which is part of `Dropping` (`ClosedKeeps`): a compaction marks its inputs once the
manifest without them is stored, and marks nothing if that fails. `IInv` is the
conjunction; `InvStep` shows that every step keeps it.

**Leaks.** `NothingIsLeaked` (`NothingLeaked`), if flushes, compactions and removals
do not fail. `Dropping` also says that somebody still refers to every obsolete run
and so will remove it; `Accounted` says that after recovery every file is live, obsolete,
or between its rename and its commit, and every temporary file is being written.

**Data.** `EngineImplementsKVStore` (`ImplementsKVStore`), if flushes do not fail,
and `OnlyAFailedFlushLoses` (`OnlyFailedFlushesLose`) whatever fails. The mapping
takes the store of `KVStore` to what a read that begins now sees (`CurrentView`),
the durable store to what a crash now would recover (`DurableView`), and each read
to the answer it is bound to give (`ReadsInProgress`). On top of `IInv` the
simulation needs `Data`: records in the writer's hands are not in the memtable as
well, and are in its run once that is installed (`Buffers`); what is in no
committed run is in the log (`Logged`); a compaction's output has the contents of
its inputs without the tombstones (`Merged`); and a get asks for one key (`Reads`).
Two facts carry the argument. The contents of a list do not change when its oldest
runs are replaced by their merge, with tombstones dropped, once tombstones read as
absence; this uses that the inputs are the oldest. A reader's answer is fixed by
the runs it captured, and those do not change (`RunsImmutable`). `StepRefines` then
goes through the actions: each is a write of `KVStore`, a step that writes nothing
(`Unwritten`), or a failed flush.

**Power loss.** `PowerLossRecovers` (`EveryLossRecovers`), with the log and without
failing appends and flushes. Every directory state that may survive is one from
which the store can be opened (`Sound`, in `LossInv`), and all of them recover to the
same data (`Agreed`): only an append changes what is durable, and an append is
synced, which leaves one state. `PowerLossTypes`, `PowerLossKeepsManifest` and
`PowerLossLeaksNothing` carry the theorems on files over to this disk.

### The components

`SsTableProofs`. `LookupsExact` (`AnswersExact`), for every stream, block size, limit
and damage: `SsInv` says that the handles partition what was written (`Partition`:
consecutive blocks, each with its last key) and that an index that opened is the
one written (`ReaderIndex`), which is where the checksum is needed. With both,
`SearchFinds` shows that the first block not below the key is the only one that can
hold it. `BlocksContiguous` (`ExtentsExact`): `ExtInv` adds that blocks lie one behind
the other and that the buffer is as long as the entries in it. Lengths are sums, so
the module first proves of the library's `SumFunction` that its recursion has a
solution and that any element may be taken first (`SumSplit`), by a least
counterexample. `WhatIsWrittenIsRead` (`IntactReadable`) follows: the index the
writer built passes each check of open.

`MergeProofs`: `ScansExact` and `ScansAscend` for any number of runs, blocks and
keys. `MergeInv` adds to the types that the sources are in step (`InStep`: what has
been taken is below everything that is left, decoded or not) and that what was
collected is what the taken keys owe (`Collected`). A tombstone outside the range is
missing from the snapshot of the memtable; that this is harmless is part of it.
`MergeMovesOn` is the safety part of `Terminates`: every step ends the merge, passes
an entry, or decodes one and passes none (`MovesOn`), so the number of steps is
bounded by the number of entries. It takes keys to be numbered from a least one.

`SidecarProofs`: `FiltersSound` (`NoFalseNegative`). `SideInv` says that the sidecar
of every run on disk that is live or about to be is sound (`DiskSound`,
`LiveSound`), that numbers from `next_seq` on have neither run nor sidecar once
recovery is over (`Fresh`, which is why orphan sidecars must be reclaimed before a
number is given out again), and that jobs and obsolete runs do not share numbers
with live ones (`JobsSound`, `ObsoleteSound`). From it, `SidecarsComeFirst`
(`SidecarFirst`), with `FilterWritten`: a job that is past the filter has its sidecar
on disk if the builder yielded one. And `NoSidecarLeft` (`SidecarsReclaimed`).

`CompactorProofs`: `CompactorTypes`; `NoWakeupIsLost` (`NoLostWakeup`), the safety
part of the liveness properties, for all faults and openings; and
`IdleStoresAreSettled` (`IdleBelowTrigger`), for every trigger. Its invariant
`Requested` says who is going to merge when there are enough runs: a pending
request, a compaction that has not chosen its inputs, or one that leaves fewer than
the trigger.

`MemoryProofs` is about what is kept in memory, the write buffer and the block
cache. Both are loops over data, and the provers have no induction over data. The
module gets by with two lemmas about sets: `UpTo` (a set that contains 0 and passes
from each number up to n to the next contains all of them, by a least
counterexample) and `LoopRuns` (for every list of step functions there is a
function that gives the state after each turn). The second shows that the recursive
functions of the model, `Sweep`, and those in `ApplyAll` and `Replay`, are what they
say; the first carries a loop invariant through them.

- The write buffer: `BufferSizeExact` (`SizeExact`) and `BufferRecovers`
  (`RecoveryExact`), for all keys, lengths, capacities, batches and logs.
  `BufferInv` says that the size is exact, that every record in the log is the
  encoding of some operations, and that until a flush or a rotation fails the
  buffer shows the log (`Shows`): each key has the last operation on it that was
  not refused, and replaying gives the buffer if none was. A refused record stays
  in the log until the next rotation, so `Shows` skips its place while later
  records are added behind it (`WrittenShows`, `RefusedShows`). `InsertExact` counts the bytes
  of one key apart from those of the others, so the subtraction is exact for any
  set of keys; `DecodeEncode` is the round trip through the fields of a record
  whose lengths survive the cast (`WithinLimits`);
  `ReplayAppend` says that one record more is its operations applied;
  `ReplayLast` that each key ends with the last operation on it. At an opening the
  log is kept if nothing was replayed: that this log replays to the empty buffer
  needs the exact size again (`EmptyExact`).
- The cache: `CacheTypes`, `CacheIndexExact` (`IndexMatchesSlots`), `CacheReadsExact`
  (`ReadersSeeTheirBlock`), `SweepNeverFallsThrough` (`SweepFindsSlot`) and the action
  property `TouchedBlocksStay` (`TouchedBlocksLast`), for every capacity, set of
  blocks and number of readers. `Searching` is the loop invariant of
  `free_or_evict`: after n turns without a slot the n positions behind the hand were
  taken and touched and have lost their bits, and nothing else changed. After one
  circle every bit is clear, so the next turn returns; and a slot that was touched
  is returned only in the second circle. `CacheInv` adds that each slot holds the
  block of its key. The
  module extends both components, so `BlockCache` names its specification
  `CacheSpec`.

### Only model-checked

All liveness (`Terminates`, `SettlesBelowTrigger`, `DropReturns`), which is outside
the reach of TLAPS. What is proved of it is `MergeMovesOn`, `NoWakeupIsLost` and
`IdleStoresAreSettled`.

## Not modelled

- The text format of the manifest and its parse errors: the file is replaced as a
  whole, so no step of the engine can leave one that does not parse.
- File systems that reorder directory operations, and a power loss that garbles
  synced data.
- The bytes of keys and values; checksums are taken to be perfect.
- The inside of bloom-lib and wal-db. A filter is any superset of its keys; the log
  is a sequence of records.
- `Scan`, an iterator over a vector nobody else sees; `Error` and its formatting;
  getters and defaults of `LsmConfig`; examples and fuzz targets, which only call
  the API.
- Poisoned locks (every guard recovers the value), the choice of a cache shard.
- `wait_for_idle`, `generation`, `last_error`: used by tests only.
