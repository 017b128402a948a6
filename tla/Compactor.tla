------------------------------ MODULE Compactor -------------------------------
(***************************************************************************)
(* How flushes, the background compactor and the drop of the handle        *)
(* coordinate through CompactionState, its mutex and its condition         *)
(* variable (db.rs).  Runs are only counted: Engine models what they hold. *)
(*                                                                         *)
(* A critical section of the mutex is one step; Condvar::wait releases the *)
(* mutex and joins the wait set in the same step.                          *)
(***************************************************************************)
EXTENDS Integers

CONSTANTS Durable,   \* the `durability` feature: is there a log?
          Trigger,   \* compaction_trigger_runs
          Faults,    \* which steps may fail: a subset of {"rotate", "compact"}
          MaxRuns,   \* bound: flushes stop at this many runs
          MaxOpens   \* bound: how often the store is opened

ASSUME CompactorAssumption ==
    /\ Durable \in BOOLEAN
    /\ Trigger \in Nat /\ Trigger >= 2      \* config.rs clamps it
    /\ Faults \subseteq {"rotate", "compact"}
    /\ MaxRuns \in Nat /\ MaxOpens \in Nat

VARIABLES
    phase,     \* down, up, closing (shutdown set), joining (notified)
    count,     \* the number of live runs, in memory and in the manifest
    buffered,  \* whether the memtable holds writes
    logged,    \* whether the log on disk does
    wal,       \* whether the process has its log open
    wpc,       \* the thread in flush_locked: idle, or installed its run
    pending,   \* CompactionState.pending
    running,   \* CompactionState.running
    shutdown,  \* CompactionState.shutdown
    cpc,       \* the compactor thread
    inputs,    \* how many runs it is merging
    opens,     \* how often the store has been opened
    failed     \* history: whether a rotation or a compaction has failed

store == <<buffered, logged, wal>>
client == <<phase, wpc, opens, failed, store>>
vars == <<client, count, pending, running, shutdown, cpc, inputs>>

Init ==
    /\ phase = "down" /\ count = 0 /\ wpc = "idle" /\ opens = 0 /\ failed = FALSE
    /\ buffered = FALSE /\ logged = FALSE /\ wal = FALSE
    /\ pending = FALSE /\ running = FALSE /\ shutdown = FALSE
    /\ cpc = "off" /\ inputs = 0

\* Condvar::notify_all: whoever is in the wait set looks at the state again.
NotifyAll == cpc' = IF cpc = "waiting" THEN "check" ELSE cpc

-------------------------------------------------------------------------------
(* The client side.                                                        *)

\* open_with: fresh coordination state.  A log with writes in it is
\* checkpointed by a flush, which signals as any flush does, and then the
\* compactor thread is spawned.
Open ==
    /\ phase = "down" /\ opens < MaxOpens
    /\ opens' = opens + 1
    /\ phase' = "up"
    /\ logged => count < MaxRuns
    /\ count' = IF logged THEN count + 1 ELSE count
    /\ pending' = (logged /\ count' >= Trigger)
    /\ logged' = FALSE /\ buffered' = FALSE /\ wal' = Durable
    /\ running' = FALSE /\ shutdown' = FALSE
    /\ cpc' = "check" /\ inputs' = 0
    /\ wpc' = "idle"
    /\ UNCHANGED failed

\* The checkpoint commits its run and open_with stops before it returns, by a
\* failed rotation or a crash: the log may be gone or not.
OpenStops ==
    /\ phase = "down" /\ opens < MaxOpens
    /\ logged /\ count < MaxRuns
    /\ opens' = opens + 1
    /\ count' = count + 1
    /\ logged' \in BOOLEAN
    /\ UNCHANGED <<phase, wpc, buffered, wal, pending, running, shutdown, cpc, inputs, failed>>

\* put, delete, write: the log first, then the memtable.
Put ==
    /\ phase = "up" /\ wpc = "idle"
    /\ Durable => wal
    /\ buffered' = TRUE
    /\ logged' = Durable
    /\ UNCHANGED <<phase, wpc, opens, wal, count, pending, running, shutdown, cpc, inputs, failed>>

\* flush_locked, under the engine's write lock: the run is committed ...
FlushInstall ==
    /\ phase = "up" /\ wpc = "idle"
    /\ buffered /\ count < MaxRuns
    /\ buffered' = FALSE
    /\ count' = count + 1
    /\ wpc' = "installed"
    /\ UNCHANGED <<phase, opens, logged, wal, pending, running, shutdown, cpc, inputs, failed>>

\* A mutant: the state is set and nobody is told.
FlushSignalSilent ==
    /\ wpc = "installed"
    /\ wpc' = "idle"
    /\ logged' = FALSE
    /\ pending' = (pending \/ count >= Trigger)
    /\ UNCHANGED <<phase, opens, buffered, wal, count, running, shutdown, cpc, inputs, failed>>

\* ... the log is rotated, and signal_compaction called if there are enough
\* runs.
FlushSignal ==
    /\ wpc = "installed"
    /\ wpc' = "idle"
    /\ logged' = FALSE
    /\ IF count >= Trigger
       THEN pending' = TRUE /\ NotifyAll
       ELSE UNCHANGED <<pending, cpc>>
    /\ UNCHANGED <<phase, opens, buffered, wal, count, running, shutdown, inputs, failed>>

\* The rotation fails, in removing the log or in opening the next: flush_locked
\* returns before it looks at the trigger.
RotateFail ==
    /\ "rotate" \in Faults
    /\ Durable
    /\ wpc = "installed"
    /\ wpc' = "idle"
    /\ wal' = FALSE
    /\ logged' \in {logged, FALSE}
    /\ failed' = TRUE
    /\ UNCHANGED <<phase, opens, buffered, count, pending, running, shutdown, cpc, inputs>>

\* Drop for Lsm: shutdown is set in a critical section of its own ...
DropShutdown ==
    /\ phase = "up" /\ wpc = "idle"
    /\ phase' = "closing"
    /\ shutdown' = TRUE
    /\ UNCHANGED <<wpc, opens, store, count, pending, running, cpc, inputs, failed>>

\* ... the compactor is notified after it ...
DropNotify ==
    /\ phase = "closing"
    /\ phase' = "joining"
    /\ NotifyAll
    /\ UNCHANGED <<wpc, opens, store, count, pending, running, shutdown, inputs, failed>>

\* ... and joined.
DropJoin ==
    /\ phase = "joining" /\ cpc = "exited"
    /\ phase' = "down"
    /\ cpc' = "off" /\ buffered' = FALSE /\ wal' = FALSE
    /\ UNCHANGED <<wpc, opens, logged, count, pending, running, shutdown, inputs, failed>>

Crash ==
    /\ phase # "down"
    /\ phase' = "down" /\ wpc' = "idle"
    /\ cpc' = "off" /\ buffered' = FALSE /\ wal' = FALSE
    /\ UNCHANGED <<opens, logged, count, pending, running, shutdown, inputs, failed>>

-------------------------------------------------------------------------------
(* compactor_loop.                                                         *)

Wait ==
    /\ cpc = "check" /\ ~pending /\ ~shutdown
    /\ cpc' = "waiting"
    /\ UNCHANGED <<client, count, pending, running, shutdown, inputs>>

\* Condvar::wait may return without a notification.
WakeSpuriously ==
    /\ cpc = "waiting"
    /\ cpc' = "check"
    /\ UNCHANGED <<client, count, pending, running, shutdown, inputs>>

\* A mutant: a pending request keeps the loop from leaving.
ExitUnlessPending ==
    /\ cpc = "check" /\ shutdown /\ ~pending
    /\ cpc' = "exited"
    /\ UNCHANGED <<client, count, pending, running, shutdown, inputs>>

\* Shutdown goes before a pending request.
Exit ==
    /\ cpc = "check" /\ shutdown
    /\ cpc' = "exited"
    /\ UNCHANGED <<client, count, pending, running, shutdown, inputs>>

\* A mutant: no compaction while there are buffered writes.
TakeWhenEmpty ==
    /\ cpc = "check" /\ pending /\ ~shutdown /\ ~buffered
    /\ pending' = FALSE /\ running' = TRUE
    /\ cpc' = "snapshot"
    /\ UNCHANGED <<client, count, shutdown, inputs>>

Take ==
    /\ cpc = "check" /\ pending /\ ~shutdown
    /\ pending' = FALSE /\ running' = TRUE
    /\ cpc' = "snapshot"
    /\ UNCHANGED <<client, count, shutdown, inputs>>

\* compact_inner, under the engine's read lock.
Snapshot ==
    /\ cpc = "snapshot" /\ wpc = "idle"
    /\ inputs' = count
    /\ cpc' = IF count < 2 THEN "report" ELSE "merge"
    /\ UNCHANGED <<client, count, pending, running, shutdown>>

\* A mutant: one run more than was merged is dropped, and the output with it.
SwapOneMore ==
    /\ cpc = "merge" /\ wpc = "idle"
    /\ count' = count - (inputs + 1)
    /\ cpc' = "report"
    /\ UNCHANGED <<client, pending, running, shutdown, inputs>>

\* The merge has run without a lock; the swap takes the write lock.
Swap ==
    /\ cpc = "merge" /\ wpc = "idle"
    /\ count' = count - inputs + 1
    /\ cpc' = "report"
    /\ UNCHANGED <<client, pending, running, shutdown, inputs>>

CompactFail ==
    /\ "compact" \in Faults
    /\ cpc = "merge"
    /\ cpc' = "report"
    /\ failed' = TRUE
    /\ UNCHANGED <<phase, wpc, opens, store, count, pending, running, shutdown, inputs>>

\* A mutant: a request that arrived during the merge is forgotten.
ReportForgets ==
    /\ cpc = "report"
    /\ running' = FALSE /\ pending' = FALSE
    /\ cpc' = "check"
    /\ UNCHANGED <<client, count, shutdown, inputs>>

\* The end of the loop's body; an error is stored in last_error and no attempt
\* is made again before the next signal.
Report ==
    /\ cpc = "report"
    /\ running' = FALSE
    /\ cpc' = "check"
    /\ UNCHANGED <<client, count, pending, shutdown, inputs>>

-------------------------------------------------------------------------------
Loop == Wait \/ Exit \/ Take \/ Snapshot \/ Swap \/ CompactFail \/ Report

Finish == FlushSignal \/ RotateFail \/ DropNotify \/ DropJoin

Next ==
    \/ Open \/ OpenStops \/ Put \/ FlushInstall \/ DropShutdown \/ Crash
    \/ WakeSpuriously \/ Loop \/ Finish

\* A thread that can go on does: the compactor, and a client inside flush or
\* drop.  Nothing makes a client flush, open or drop, a process crash, or a
\* wait end without a notification.
Spec == Init /\ [][Next]_vars /\ WF_vars(Loop) /\ WF_vars(Finish)

-------------------------------------------------------------------------------
(* Properties.                                                             *)

TypeOK ==
    /\ phase \in {"down", "up", "closing", "joining"}
    /\ wpc \in {"idle", "installed"}
    /\ buffered \in BOOLEAN /\ logged \in BOOLEAN /\ wal \in BOOLEAN
    /\ failed \in BOOLEAN
    /\ opens \in 0 .. MaxOpens /\ count \in 0 .. MaxRuns /\ inputs \in 0 .. MaxRuns
    /\ pending \in BOOLEAN /\ running \in BOOLEAN /\ shutdown \in BOOLEAN
    /\ cpc \in {"off", "check", "waiting", "snapshot", "merge", "report", "exited"}

\* The first opening, as long as nothing has failed in it: the compactor has been
\* signalled for every run there is.
Signalled == phase = "up" /\ wpc = "idle" /\ opens = 1 /\ ~failed

\* What wait_for_idle lets a test conclude (db.rs:410, db.rs:891): with nothing
\* pending or running there are fewer runs than the trigger, also when flushes
\* came in while a compaction was choosing or merging its inputs.
IdleBelowTrigger == Signalled /\ ~pending /\ ~running => count < Trigger

\* A compactor asleep on the condition variable has seen everything it was told:
\* there is no request it missed, and a shutdown it has not seen is about to be
\* notified (db.rs:436), since state is set under the mutex before notify_all and
\* checked under it before each wait (db.rs:704-710).
NoLostWakeup ==
    cpc = "waiting" => ~pending /\ (shutdown => phase = "closing")

\* Once a store in its first opening is left alone its runs are fewer than the
\* trigger for good: no request is lost between signal_compaction and
\* compactor_loop (db.rs:594, db.rs:704-714), and each is carried out.
SettlesBelowTrigger == <>[]Signalled => <>[](count < Trigger)

\* config.rs:18-19: "When it reaches this many, the background compactor merges
\* the runs into one."  A store that is opened with that many runs signals nobody
\* before its next flush.
MergesAtTrigger == <>[](phase = "up" /\ wpc = "idle") => <>[](count < Trigger)

\* Drop for Lsm returns (db.rs:426): the compactor is never left waiting for a
\* notification that was sent before it waited, whatever it was doing.
DropReturns == (phase \in {"closing", "joining"}) ~> (phase = "down")
===============================================================================
