-------------------------------- MODULE Engine --------------------------------
(***************************************************************************)
(* The storage engine of db.rs with the manifest, the write-ahead log and  *)
(* the reference-counted run files it drives: writes and flushes under the *)
(* engine's write lock, gets and scans over a snapshot of the runs with no *)
(* lock held, the background compaction, closing, crashing and recovery.   *)
(*                                                                         *)
(* A step is what a thread does between two points where another thread,   *)
(* a failing system call or a crash can be observed.  A run is named by    *)
(* its sequence number, as its file is (manifest.rs run_filename).         *)
(***************************************************************************)
EXTENDS Records

CONSTANTS Batches,   \* the writes clients issue, each as its net effect
          Ranges,    \* the key ranges scans ask for
          Readers,   \* the client threads that read
          Durable,   \* the `durability` feature: is there a log?
          Capacity,  \* memtable_capacity, counted in records
          Trigger,   \* compaction_trigger_runs
          Faults,    \* which I/O steps may fail: a subset of FaultKinds
          MaxSeq,    \* bound: the largest sequence number allocated
          MaxLog     \* bound: the longest log

FaultKinds == {"log", "flush", "rotate", "compact", "unlink", "read"}

ASSUME EngineAssumption ==
    /\ Batches \subseteq Table
    /\ Ranges \subseteq SUBSET Keys
    /\ Durable \in BOOLEAN
    /\ Capacity \in Nat
    /\ Trigger \in Nat /\ Trigger >= 2      \* config.rs clamps it
    /\ Faults \subseteq FaultKinds
    /\ MaxSeq \in Nat
    /\ MaxLog \in Nat

VARIABLES
    \* The directory.
    files,     \* sequence numbers with an installed run-<seq>.sst
    table,     \* what each installed run holds
    tmp,       \* sequence numbers with a leftover run-<seq>.sst.tmp
    mseq,      \* MANIFEST: next_seq
    mruns,     \* MANIFEST: the live runs, newest first
    log,       \* the log's records, oldest first
    \* The process: Engine and Inner.
    phase,     \* down, reclaim, checkpoint, up, closing
    mem,       \* inner.memtable
    runs,      \* inner.runs, newest first
    wal,       \* whether inner.durability has its log open
    nextSeq,   \* next_seq
    obsolete,  \* runs marked obsolete and not yet dropped
    \* The thread that holds the write lock for a write or a flush.
    wpc,       \* idle when no such thread exists
    held,      \* the batch it is about to apply, or the entries it is flushing
    wseq,      \* the run it is writing
    \* The compactor thread.
    cpc,
    cin,       \* its snapshot of the runs
    cseq,      \* the run it is writing
    pending,   \* CompactionState.pending
    \* The threads in get and scan.
    rd

disk == <<files, table, tmp, mseq, mruns, log>>
process == <<phase, mem, runs, wal, nextSeq, obsolete>>
writer == <<wpc, held, wseq>>
compactor == <<cpc, cin, cseq, pending>>
vars == <<disk, process, writer, compactor, rd>>

Seqs == 0 .. MaxSeq

Phases == {"down", "reclaim", "checkpoint", "up", "closing"}
WriterSteps == {"idle", "apply", "take", "create", "install", "commit",
                "rotate", "reopen"}
CompactorSteps == {"off", "wait", "snapshot", "alloc", "create", "merge",
                   "swap", "drop"}
ReaderSteps == {"idle", "get", "scan", "done"}

Reader == [pc: ReaderSteps, keys: SUBSET Keys, got: Table,
           snap: Seq(Seqs), pos: Nat]

IdleReader == [pc |-> "idle", keys |-> {}, got |-> EmptyTable,
               snap |-> <<>>, pos |-> 1]

\* The contents of a list of runs.
Tables(seqs) == [i \in DOMAIN seqs |-> table[seqs[i]]]

\* approx_size, one unit per record.
ApproxSize(t) == Cardinality({k \in Keys : t[k] # None})

-------------------------------------------------------------------------------
(* Writing: put, delete and write hold the lock from the log to the flush. *)

\* put, delete, write: append to the log before anything else.
Write(b) ==
    /\ phase = "up" /\ wpc = "idle"
    /\ Durable => wal /\ Len(log) < MaxLog
    /\ log' = IF Durable THEN Append(log, b) ELSE log
    /\ held' = b
    /\ wpc' = "apply"
    /\ UNCHANGED <<files, table, tmp, mseq, mruns, process, wseq, compactor, rd>>

\* The append reports an error after the record reached the file: the write is
\* refused, but the log keeps it.
LogFails(b) ==
    /\ "log" \in Faults
    /\ Durable /\ wal /\ Len(log) < MaxLog
    /\ phase = "up" /\ wpc = "idle"
    /\ log' = Append(log, b)
    /\ UNCHANGED <<files, table, tmp, mseq, mruns, process, writer, compactor, rd>>

\* memtable.apply for every operation, then maybe_flush.
Apply ==
    /\ wpc = "apply"
    /\ mem' = Overlay(held, mem)
    /\ held' = EmptyTable
    /\ wpc' = IF mem' # EmptyTable /\ ApproxSize(mem') >= Capacity
              THEN "take" ELSE "idle"
    /\ UNCHANGED <<disk, phase, runs, wal, nextSeq, obsolete, wseq, compactor, rd>>

\* flush(): nothing to do on an empty buffer.
Flush ==
    /\ phase = "up" /\ wpc = "idle"
    /\ mem # EmptyTable
    /\ wpc' = "take"
    /\ UNCHANGED <<disk, process, held, wseq, compactor, rd>>

-------------------------------------------------------------------------------
(* flush_locked. *)

FlushTake ==
    /\ wpc = "take"
    /\ nextSeq <= MaxSeq
    /\ held' = mem
    /\ mem' = EmptyTable
    /\ wseq' = nextSeq
    /\ nextSeq' = nextSeq + 1
    /\ wpc' = "create"
    /\ UNCHANGED <<disk, phase, runs, wal, obsolete, compactor, rd>>

FlushCreate ==
    /\ wpc = "create"
    /\ tmp' = tmp \cup {wseq}
    /\ wpc' = "install"
    /\ UNCHANGED <<files, table, mseq, mruns, log, process, held, wseq, compactor, rd>>

\* The run is complete and synced before the rename gives it its name.
FlushInstall ==
    /\ wpc = "install"
    /\ tmp' = tmp \ {wseq}
    /\ files' = files \cup {wseq}
    /\ table' = [table EXCEPT ![wseq] = held]
    /\ wpc' = "commit"
    /\ UNCHANGED <<mseq, mruns, log, process, held, wseq, compactor, rd>>

\* A mutant: the flushed run is installed as the oldest.
InstalledLast(s, rs) == Append(rs, s)

\* new_runs: the flushed run is the newest.
NewRuns(s, rs) == <<s>> \o rs

\* The rename of the manifest commits the flush.
FlushCommit ==
    /\ wpc = "commit"
    /\ runs' = NewRuns(wseq, runs)
    /\ mruns' = runs'
    /\ mseq' = nextSeq
    /\ held' = EmptyTable
    /\ wpc' = "rotate"
    /\ UNCHANGED <<files, table, tmp, log, phase, mem, wal, nextSeq, obsolete,
                   wseq, compactor, rd>>

\* rotate: the log is closed and its file removed ...
FlushRotate ==
    /\ wpc = "rotate"
    /\ wal' = FALSE
    /\ log' = <<>>
    /\ wpc' = "reopen"
    /\ UNCHANGED <<files, table, tmp, mseq, mruns, phase, mem, runs, nextSeq,
                   obsolete, held, wseq, compactor, rd>>

\* ... and a fresh one opened; then the compactor is asked to run if the flush
\* brought the runs to the trigger.  The checkpoint of open_with ends here too:
\* the compactor thread starts and the handle is returned.
FlushReopen ==
    /\ wpc = "reopen"
    /\ wal' = Durable
    /\ pending' = (pending \/ Len(runs) >= Trigger)
    /\ wpc' = "idle"
    /\ phase' = "up"
    /\ cpc' = IF phase = "checkpoint" THEN "wait" ELSE cpc
    /\ UNCHANGED <<disk, mem, runs, nextSeq, obsolete, held, wseq, cin, cseq, rd>>

\* A system call of the flush fails before the manifest is installed.  The
\* entries taken from the memtable are dropped with the call; whatever was
\* created stays in the directory.  (A failed checkpoint makes open_with return
\* an error, which is a Crash here.)
FlushFail ==
    /\ "flush" \in Faults
    /\ phase = "up"
    /\ wpc \in {"create", "install", "commit"}
    /\ held' = EmptyTable
    /\ wpc' = "idle"
    /\ UNCHANGED <<disk, process, wseq, compactor, rd>>

\* Removing or reopening the log fails: the flush is committed, the log stays
\* closed, and the compactor is not signalled.
RotateFail ==
    /\ "rotate" \in Faults
    /\ Durable
    /\ phase = "up"
    /\ wpc \in {"rotate", "reopen"}
    /\ wal' = FALSE
    /\ wpc' = "idle"
    /\ UNCHANGED <<disk, phase, mem, runs, nextSeq, obsolete, held, wseq, compactor, rd>>

-------------------------------------------------------------------------------
(* Run files are dropped with the last reference to them.                  *)

\* The files of `gone` are removed.  Removal is best effort: with the "unlink"
\* fault some of them stay.
Unlink(gone) ==
    \E kept \in IF "unlink" \in Faults THEN SUBSET gone ELSE {{}} :
        /\ files' = files \ (gone \ kept)
        /\ table' = [s \in Seqs |-> IF s \in gone \ kept THEN EmptyTable ELSE table[s]]

\* A mutant: an obsolete run is removed by whoever drops it first.
ReleaseAtOnce(dropped, others) ==
    LET gone == obsolete \cap dropped
    IN  Unlink(gone) /\ obsolete' = obsolete \ gone

\* Drop for SsTable: runs of `dropped` that are obsolete and that nobody else
\* refers to lose their file.
Release(dropped, others) ==
    LET gone == (obsolete \cap dropped) \ others
    IN  Unlink(gone) /\ obsolete' = obsolete \ gone

\* The runs that readers other than those of R refer to.
HeldByReaders(R) == UNION {Range(rd[r].snap) : r \in Readers \ R}

-------------------------------------------------------------------------------
(* Reading: the memtable and the list of runs are captured under the read  *)
(* lock, the runs searched or merged after it is released.                 *)

\* get: a record in the memtable answers at once, holding no run.
GetBegin(r, k) ==
    /\ phase = "up" /\ wpc = "idle"
    /\ rd[r].pc = "idle"
    /\ rd' = [rd EXCEPT ![r] =
                IF mem[k] # None
                THEN [pc |-> "done", keys |-> {k}, got |-> Only(mem, {k}),
                      snap |-> <<>>, pos |-> 1]
                ELSE [pc |-> IF runs = <<>> THEN "done" ELSE "get", keys |-> {k},
                      got |-> EmptyTable, snap |-> runs, pos |-> 1]]
    /\ UNCHANGED <<disk, process, writer, compactor>>

\* One turn of the loop over the runs: the first record found is the answer.
GetStep(r) ==
    /\ rd[r].pc = "get"
    /\ LET hit == Only(table[rd[r].snap[rd[r].pos]], rd[r].keys)
       IN  rd' = [rd EXCEPT ![r].got = hit,
                            ![r].pos = @ + 1,
                            ![r].pc = IF hit # EmptyTable \/ rd[r].pos = Len(rd[r].snap)
                                      THEN "done" ELSE "get"]
    /\ UNCHANGED <<disk, process, writer, compactor>>

ScanBegin(r, K) ==
    /\ phase = "up" /\ wpc = "idle"
    /\ rd[r].pc = "idle"
    /\ rd' = [rd EXCEPT ![r] = [pc |-> "scan", keys |-> K, got |-> Only(mem, K),
                                snap |-> runs, pos |-> 1]]
    /\ UNCHANGED <<disk, process, writer, compactor>>

\* The merge of the captured memtable and runs, within the range.
ScanMerge(r) ==
    /\ rd[r].pc = "scan"
    /\ rd' = [rd EXCEPT ![r].got = Only(Overlay(@, Newest(Tables(rd[r].snap))), rd[r].keys),
                        ![r].pc = "done"]
    /\ UNCHANGED <<disk, process, writer, compactor>>

\* get and scan return, with an answer or with an error, and drop the snapshot.
ReadEnd(r) ==
    /\ rd[r].pc \in {"done"} \cup (IF "read" \in Faults THEN {"get", "scan"} ELSE {})
    /\ rd' = [rd EXCEPT ![r] = IdleReader]
    /\ Release(Range(rd[r].snap), Range(runs) \cup Range(cin) \cup HeldByReaders({r}))
    /\ UNCHANGED <<tmp, mseq, mruns, log, phase, mem, runs, wal, nextSeq, writer, compactor>>

-------------------------------------------------------------------------------
(* The compactor: compactor_loop and compact_inner.                        *)

\* The loop sees pending (and no shutdown) and takes the request.
CompactWake ==
    /\ cpc = "wait" /\ phase = "up"
    /\ pending
    /\ pending' = FALSE
    /\ cpc' = "snapshot"
    /\ UNCHANGED <<disk, process, writer, cin, cseq, rd>>

\* A mutant: the oldest run is not among the inputs.
CompactSnapshotNewer ==
    /\ cpc = "snapshot"
    /\ wpc = "idle"
    /\ cpc' = IF Len(runs) < 3 THEN "wait" ELSE "alloc"
    /\ cin' = IF Len(runs) < 3 THEN <<>> ELSE SubSeq(runs, 1, Len(runs) - 1)
    /\ UNCHANGED <<disk, process, writer, cseq, pending, rd>>

\* Under the read lock: fewer than two runs leave nothing to do.
CompactSnapshot ==
    /\ cpc = "snapshot"
    /\ wpc = "idle"
    /\ cpc' = IF Len(runs) < 2 THEN "wait" ELSE "alloc"
    /\ cin' = IF Len(runs) < 2 THEN <<>> ELSE runs
    /\ UNCHANGED <<disk, process, writer, cseq, pending, rd>>

\* A mutant: the number is read and not reserved.
CompactAllocUnreserved ==
    /\ cpc = "alloc"
    /\ nextSeq <= MaxSeq
    /\ cseq' = nextSeq
    /\ cpc' = "create"
    /\ UNCHANGED <<disk, process, writer, cin, pending, rd>>

CompactAlloc ==
    /\ cpc = "alloc"
    /\ nextSeq <= MaxSeq
    /\ cseq' = nextSeq
    /\ nextSeq' = nextSeq + 1
    /\ cpc' = "create"
    /\ UNCHANGED <<disk, phase, mem, runs, wal, obsolete, writer, cin, pending, rd>>

CompactCreate ==
    /\ cpc = "create"
    /\ tmp' = tmp \cup {cseq}
    /\ cpc' = "merge"
    /\ UNCHANGED <<files, table, mseq, mruns, log, process, writer, cin, cseq, pending, rd>>

\* All inputs are merged, so nothing older is left for a tombstone to hide.
CompactInstall ==
    /\ cpc = "merge"
    /\ tmp' = tmp \ {cseq}
    /\ files' = files \cup {cseq}
    /\ table' = [table EXCEPT ![cseq] = Live(Newest(Tables(cin)))]
    /\ cpc' = "swap"
    /\ UNCHANGED <<mseq, mruns, log, process, writer, cin, cseq, pending, rd>>

\* A mutant: the output replaces every run there is.
NoSurvivors(rs, ins) == <<>>

\* The runs that are not inputs, in their order (filter on Arc::ptr_eq).
Survivors(rs, ins) ==
    LET kept == {i \in DOMAIN rs : rs[i] \notin Range(ins)}
    IN  [j \in 1 .. Cardinality(kept) |->
            rs[CHOOSE i \in kept : Cardinality({x \in kept : x <= i}) = j]]

\* Under the write lock: keep what was flushed meanwhile, append the output as
\* the oldest run, commit by the manifest, mark the inputs.
CompactSwap ==
    /\ cpc = "swap"
    /\ wpc = "idle"
    /\ runs' = Append(Survivors(runs, cin), cseq)
    /\ mruns' = runs'
    /\ mseq' = nextSeq
    /\ obsolete' = obsolete \cup Range(cin)
    /\ cpc' = "drop"
    /\ UNCHANGED <<files, table, tmp, log, phase, mem, wal, nextSeq, writer, cin,
                   cseq, pending, rd>>

\* drop(inputs), then back to the loop.
CompactDrop ==
    /\ cpc = "drop"
    /\ Release(Range(cin), Range(runs) \cup HeldByReaders({}))
    /\ cin' = <<>>
    /\ cpc' = "wait"
    /\ UNCHANGED <<tmp, mseq, mruns, log, phase, mem, runs, wal, nextSeq, writer,
                   cseq, pending, rd>>

\* A mutant: the inputs are marked before the manifest is stored, which fails.
CompactFailMarked ==
    /\ "compact" \in Faults
    /\ cpc \in {"create", "merge", "swap"}
    /\ obsolete' = IF cpc = "swap" THEN obsolete \cup Range(cin) ELSE obsolete
    /\ cin' = <<>>
    /\ cpc' = "wait"
    /\ UNCHANGED <<disk, phase, mem, runs, wal, nextSeq, writer, cseq, pending, rd>>

\* A system call of the compaction fails before its manifest is installed: the
\* error is stored, the loop goes on, what was created stays in the directory.
CompactFail ==
    /\ "compact" \in Faults
    /\ cpc \in {"create", "merge", "swap"}
    /\ cin' = <<>>
    /\ cpc' = "wait"
    /\ UNCHANGED <<disk, process, writer, cseq, pending, rd>>

-------------------------------------------------------------------------------
(* Opening, closing, crashing.                                             *)

\* Manifest::load, and every run it names opened.  A missing run makes open_with
\* return a corruption error; the directory stays as it is.
OpenLoad ==
    /\ phase = "down"
    /\ Range(mruns) \subseteq files
    /\ phase' = "reclaim"
    /\ runs' = mruns
    /\ nextSeq' = mseq
    /\ UNCHANGED <<disk, mem, wal, obsolete, writer, compactor, rd>>

\* A mutant: no run is reclaimed.
NoFiles == {}

\* The runs on disk that the manifest does not name.
Orphans == files \ Range(runs)

\* A mutant: one past the maximum.
MaxPlusOne(a, b) == IF a >= b THEN a + 1 ELSE b + 1

MaxOf(a, b) == IF a >= b THEN a ELSE b

\* One entry of the directory: a temporary file ...
OpenReclaimTmp(s) ==
    /\ phase = "reclaim"
    /\ s \in tmp
    /\ tmp' = tmp \ {s}
    /\ UNCHANGED <<files, table, mseq, mruns, log, process, writer, compactor, rd>>

\* ... or a run the manifest does not name.
OpenReclaimRun(s) ==
    /\ phase = "reclaim"
    /\ s \in Orphans
    /\ nextSeq' = MaxOf(nextSeq, s + 1)
    /\ files' = files \ {s}
    /\ table' = [table EXCEPT ![s] = EmptyTable]
    /\ UNCHANGED <<tmp, mseq, mruns, log, phase, mem, runs, wal, obsolete, writer,
                   compactor, rd>>

\* The rest of the directory is live runs, which also push next_seq.  Then the
\* log is replayed, in order, into a fresh memtable, and engine.flush()
\* checkpoints what was recovered before the compactor starts.
OpenReplay ==
    /\ phase = "reclaim"
    /\ tmp = {} /\ Orphans = {}
    /\ \E n \in {nextSeq} \cup {s + 1 : s \in Range(runs)} :
          /\ \A s \in Range(runs) : s < n
          /\ nextSeq <= n
          /\ nextSeq' = n
    /\ wal' = Durable
    /\ mem' = Latest(log)
    /\ IF mem' = EmptyTable
       THEN phase' = "up" /\ cpc' = "wait" /\ wpc' = wpc
       ELSE phase' = "checkpoint" /\ cpc' = cpc /\ wpc' = "take"
    /\ UNCHANGED <<disk, runs, obsolete, held, wseq, cin, cseq, pending, rd>>

\* Everything the process held in memory is gone.
ProcessGone ==
    /\ phase' = "down"
    /\ mem' = EmptyTable
    /\ runs' = <<>>
    /\ wal' = FALSE
    /\ nextSeq' = 0
    /\ obsolete' = {}
    /\ wpc' = "idle" /\ held' = EmptyTable /\ wseq' = 0
    /\ cpc' = "off" /\ cin' = <<>> /\ cseq' = 0 /\ pending' = FALSE
    /\ rd' = [r \in Readers |-> IdleReader]

\* Drop for Lsm: no call is in progress on the handle; shutdown is requested ...
Close ==
    /\ phase = "up" /\ wpc = "idle"
    /\ \A r \in Readers : rd[r].pc = "idle"
    /\ phase' = "closing"
    /\ UNCHANGED <<disk, mem, runs, wal, nextSeq, obsolete, writer, compactor, rd>>

\* ... the compactor finishes what it is doing and returns, pending or not; the
\* thread is joined and the engine dropped, with the last reference to each of its
\* runs: one that was marked obsolete would lose its file.  Nothing is flushed.
Closed ==
    /\ phase = "closing" /\ cpc = "wait"
    /\ Unlink(obsolete)
    /\ ProcessGone
    /\ UNCHANGED <<tmp, mseq, mruns, log>>

\* The process dies, or open_with returns an error.
Crash ==
    /\ phase # "down"
    /\ ProcessGone
    /\ UNCHANGED disk

-------------------------------------------------------------------------------
Init ==
    /\ files = {} /\ table = [s \in Seqs |-> EmptyTable] /\ tmp = {}
    /\ mseq = 0 /\ mruns = <<>> /\ log = <<>>
    /\ phase = "down" /\ mem = EmptyTable /\ runs = <<>> /\ wal = FALSE
    /\ nextSeq = 0 /\ obsolete = {}
    /\ wpc = "idle" /\ held = EmptyTable /\ wseq = 0
    /\ cpc = "off" /\ cin = <<>> /\ cseq = 0 /\ pending = FALSE
    /\ rd = [r \in Readers |-> IdleReader]

Writing ==
    \/ \E b \in Batches : Write(b) \/ LogFails(b)
    \/ Apply \/ Flush
    \/ FlushTake \/ FlushCreate \/ FlushInstall \/ FlushCommit
    \/ FlushRotate \/ FlushReopen
    \/ FlushFail \/ RotateFail

Reading ==
    \E r \in Readers :
        \/ \E k \in Keys : GetBegin(r, k)
        \/ GetStep(r)
        \/ \E K \in Ranges : ScanBegin(r, K)
        \/ ScanMerge(r)
        \/ ReadEnd(r)

Compacting ==
    \/ CompactWake \/ CompactSnapshot \/ CompactAlloc \/ CompactCreate
    \/ CompactInstall \/ CompactSwap \/ CompactDrop \/ CompactFail

Lifecycle ==
    \/ OpenLoad
    \/ \E s \in Seqs : OpenReclaimTmp(s) \/ OpenReclaimRun(s)
    \/ OpenReplay
    \/ Close \/ Closed \/ Crash

Next == Writing \/ Reading \/ Compacting \/ Lifecycle

Spec == Init /\ [][Next]_vars

-------------------------------------------------------------------------------
(* Properties.                                                             *)

\* Every variable keeps its type; in particular no sequence number beyond the
\* bound is ever used as a file name.
TypeOK ==
    /\ files \subseteq Seqs /\ table \in [Seqs -> Table] /\ tmp \subseteq Seqs
    /\ mseq \in 0 .. MaxSeq + 1 /\ mruns \in Seq(Seqs) /\ log \in Seq(Table)
    /\ phase \in Phases /\ mem \in Table /\ runs \in Seq(Seqs) /\ wal \in BOOLEAN
    /\ nextSeq \in 0 .. MaxSeq + 1 /\ obsolete \subseteq Seqs
    /\ wpc \in WriterSteps /\ held \in Table /\ wseq \in Seqs
    /\ cpc \in CompactorSteps /\ cin \in Seq(Seqs) /\ cseq \in Seqs
    /\ pending \in BOOLEAN
    /\ rd \in [Readers -> Reader]

\* At every instant, a crash included, each run the manifest on disk names has
\* its file: open_with never fails with "manifest references a missing run"
\* (db.rs:185), however flushes, compactions, the removal of obsolete files and
\* crashes interleave.
ManifestComplete == Range(mruns) \subseteq files

\* Runs that a thread still refers to: the engine's list, the compactor's
\* inputs and the snapshots of the readers.
Referenced == Range(runs) \cup Range(cin) \cup HeldByReaders({})

\* A run file outlives every reference to it (Drop for SsTable, sstable.rs:294):
\* compaction never takes a file from under a get, a scan or its own merge.
ReferencedRunsExist == Referenced \subseteq files

\* A run never changes once it has its name, and no name is used twice for
\* different contents while the file exists: a flush and a compaction that
\* allocate numbers at the same time never write to the same file (db.rs:556,
\* db.rs:633), nor does a store that was recovered after a crash (db.rs:210).
RunsImmutable ==
    [][\A s \in Seqs : s \in files /\ s \in files' => table'[s] = table[s]]_vars

\* The inputs of a running compaction are the oldest runs of the engine, in
\* order: whatever was flushed since the snapshot is in front of them.  This is
\* what makes it right to drop tombstones (db.rs:641) and to append the output
\* as the oldest run (db.rs:671).
InputsAreOldest ==
    cpc \in {"alloc", "create", "merge", "swap"} =>
        /\ Len(cin) <= Len(runs)
        /\ \A i \in 1 .. Len(cin) : cin[i] = runs[Len(runs) - Len(cin) + i]

\* No call and no compaction is in progress.
Quiet == /\ phase = "up" /\ wpc = "idle" /\ cpc = "wait"
         /\ \A r \in Readers : rd[r].pc = "idle"

\* As long as no system call fails, nothing is left behind, even by a crash in
\* the middle of a flush or a compaction: whenever the store is quiet the
\* directory holds exactly the runs in use and no temporary file (db.rs:194-215
\* reclaims, Drop for SsTable removes).  Checked in the run without faults.
NothingLeaked == Quiet => files = Range(runs) /\ tmp = {}

-------------------------------------------------------------------------------
(* What clients can observe.  EngineContract relates it to KVStore.        *)

\* What a crash now would recover: the log over the manifest's runs.
DurableView == Live(Overlay(Latest(log), Newest(Tables(mruns))))

\* What a read that begins now sees.  A batch between its log record and the
\* memtable, and entries between the memtable and their run, count: the write
\* lock is held, so no read begins there.
CurrentView ==
    IF phase \in {"checkpoint", "up", "closing"}
    THEN Live(Overlay(held, Overlay(mem, Newest(Tables(runs)))))
    ELSE DurableView

\* The answer a read in progress is going to give.
Answer(r) ==
    LET rest == SubSeq(rd[r].snap, rd[r].pos, Len(rd[r].snap))
        found == CASE rd[r].pc = "get"  -> Newest(Tables(rest))
                   [] rd[r].pc = "scan" -> Overlay(rd[r].got, Newest(Tables(rd[r].snap)))
                   [] OTHER             -> rd[r].got
    IN  Live(Only(found, rd[r].keys))

ReadsInProgress == [r \in Readers |-> [keys |-> rd[r].keys, answer |-> Answer(r)]]

\* With the log, an open store has its log open whenever no thread is inside a
\* write or a flush: durability.rs:93 says the handle is "`Some` except for the
\* brief moment inside rotate".  A rotation that fails breaks it (RotateFail).
LogOpenWhenIdle == Durable /\ phase = "up" /\ wpc = "idle" => wal
===============================================================================
