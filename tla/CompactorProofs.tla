---------------------------- MODULE CompactorProofs ---------------------------
(***************************************************************************)
(* The safety of the coordination with the compactor, for every trigger    *)
(* and any number of runs and openings.                                    *)
(***************************************************************************)
EXTENDS Compactor, TLAPS

\* What a compaction under way has read: its inputs are still live runs.
Merging == cpc = "merge" => inputs >= 2 /\ inputs <= count

TypeInv == TypeOK /\ Merging

\* The Boolean part of TypeOK.
Flags ==
    /\ buffered \in BOOLEAN /\ logged \in BOOLEAN /\ wal \in BOOLEAN /\ failed \in BOOLEAN
    /\ pending \in BOOLEAN /\ running \in BOOLEAN /\ shutdown \in BOOLEAN

USE DEF NotifyAll, store, client

-------------------------------------------------------------------------------
LEMMA TypeInit == Init => TypeInv
<1> SUFFICES ASSUME Init PROVE TypeInv
    OBVIOUS
<1>1. opens \in 0 .. MaxOpens /\ count \in 0 .. MaxRuns /\ inputs \in 0 .. MaxRuns
    BY CompactorAssumption DEF Init
<1> QED
    BY <1>1 DEF Init, TypeInv, TypeOK, Merging

LEMMA TypeClient ==
    TypeInv /\ (Open \/ OpenStops \/ Put \/ FlushInstall \/ DropShutdown \/ Crash \/ Finish)
        => TypeInv'
<1> SUFFICES ASSUME TypeInv,
                    Open \/ OpenStops \/ Put \/ FlushInstall \/ DropShutdown \/ Crash \/ Finish
             PROVE  TypeInv'
    OBVIOUS
<1> USE CompactorAssumption DEF TypeInv, TypeOK, Merging
<1>1. CASE Open
  <2>1. opens' \in 0 .. MaxOpens /\ count' \in 0 .. MaxRuns /\ inputs' \in 0 .. MaxRuns
    BY <1>1 DEF Open
  <2>2. pending' \in BOOLEAN /\ logged' \in BOOLEAN /\ buffered' \in BOOLEAN
        /\ wal' \in BOOLEAN /\ running' \in BOOLEAN /\ shutdown' \in BOOLEAN
    BY <1>1, Zenon DEF Open
  <2> QED
    BY <1>1, <2>1, <2>2 DEF Open
<1>2. CASE OpenStops
    BY <1>2 DEF OpenStops
<1>3. CASE Put
    BY <1>3 DEF Put
<1>4. CASE FlushInstall
  <2>1. count' \in 0 .. MaxRuns /\ inputs' <= inputs /\ count' = count + 1
    BY <1>4 DEF FlushInstall
  <2>2. Merging'
    BY <1>4, <2>1 DEF FlushInstall
  <2>3. buffered' \in BOOLEAN
    BY <1>4 DEF FlushInstall
  <2> QED
    BY <1>4, <2>1, <2>2, <2>3 DEF FlushInstall
<1>5. CASE DropShutdown
    BY <1>5 DEF DropShutdown
<1>6. CASE Crash
    BY <1>6 DEF Crash
<1>7. CASE FlushSignal
  <2>1. Flags'
    BY <1>7, Zenon DEF FlushSignal, Flags
  <2>2. Merging' /\ cpc' \in {"off", "check", "waiting", "snapshot", "merge", "report", "exited"}
    BY <1>7 DEF FlushSignal
  <2> QED
    BY <1>7, <2>1, <2>2, Zenon DEF FlushSignal, Flags
<1>8. CASE RotateFail
  <2>1. Flags'
    BY <1>8, Zenon DEF RotateFail, Flags
  <2> QED
    BY <1>8, <2>1, Zenon DEF RotateFail, Flags
<1>9. CASE DropNotify
    BY <1>9 DEF DropNotify
<1>10. CASE DropJoin
    BY <1>10 DEF DropJoin
<1> QED
    BY <1>1, <1>2, <1>3, <1>4, <1>5, <1>6, <1>7, <1>8, <1>9, <1>10 DEF Finish

LEMMA TypeLoop == TypeInv /\ (WakeSpuriously \/ Loop) => TypeInv'
<1> SUFFICES ASSUME TypeInv, WakeSpuriously \/ Loop PROVE TypeInv'
    OBVIOUS
<1> USE CompactorAssumption DEF TypeInv, TypeOK, Merging
<1>1. CASE Wait \/ WakeSpuriously
    BY <1>1 DEF Wait, WakeSpuriously
<1>2. CASE Exit
    BY <1>2 DEF Exit
<1>3. CASE Take
    BY <1>3 DEF Take
<1>4. CASE Snapshot
    BY <1>4 DEF Snapshot
<1>5. CASE Swap
    BY <1>5 DEF Swap
<1>6. CASE CompactFail
    BY <1>6 DEF CompactFail
<1>7. CASE Report
    BY <1>7 DEF Report
<1> QED
    BY <1>1, <1>2, <1>3, <1>4, <1>5, <1>6, <1>7 DEF Loop

LEMMA TypeStep == TypeInv /\ [Next]_vars => TypeInv'
<1>1. TypeInv /\ UNCHANGED vars => TypeInv'
    BY DEF vars, TypeInv, TypeOK, Merging
<1> QED
    BY <1>1, TypeClient, TypeLoop DEF Next

\* Every reachable state is well typed; a swap never leaves fewer than no runs,
\* since what a compaction merges stays live until its swap (db.rs:661-682).
THEOREM CompactorTypes == Spec => []TypeOK
<1>1. TypeInv => TypeOK
    BY DEF TypeInv
<1> QED
    BY <1>1, TypeInit, TypeStep, PTL DEF Spec

-------------------------------------------------------------------------------
(* Before anything fails in the first opening no request is lost.          *)

\* The runs that signal_compaction has been asked about.
Settled == IF wpc = "installed" THEN count - 1 ELSE count

\* Whenever there are enough runs, somebody will merge them: a request is
\* pending, or taken and its inputs not yet chosen, or the compaction under way
\* leaves fewer than the trigger.
Requested ==
    phase = "up" /\ opens = 1 /\ ~failed /\ Settled >= Trigger =>
        pending \/ cpc = "snapshot" \/ (cpc = "merge" /\ Settled - inputs + 1 < Trigger)

\* running is set exactly while the loop is inside a compaction; before the first
\* opening the store is empty.
Once ==
    /\ phase = "up" => (running <=> cpc \in {"snapshot", "merge", "report"})
    /\ phase = "up" => cpc # "off"
    /\ phase # "down" => opens >= 1
    /\ opens = 0 => count = 0 /\ ~logged

IdleInv == Requested /\ Once

LEMMA IdleStep ==
    ASSUME TypeInv, IdleInv, [Next]_vars
    PROVE  IdleInv'
<1> USE CompactorAssumption DEF TypeInv, TypeOK, Merging, IdleInv, Requested, Settled, Once
<1>1. CASE UNCHANGED vars
    BY <1>1 DEF vars
<1>2. CASE Open
    BY <1>2 DEF Open
<1>3. CASE OpenStops
    BY <1>3 DEF OpenStops
<1>4. CASE Put
    BY <1>4 DEF Put
<1>5. CASE FlushInstall
    BY <1>5 DEF FlushInstall
<1>6. CASE FlushSignal
    BY <1>6 DEF FlushSignal
<1>7. CASE DropShutdown
    BY <1>7 DEF DropShutdown
<1>8. CASE DropNotify
    BY <1>8 DEF DropNotify
<1>9. CASE DropJoin \/ Crash
    BY <1>9 DEF DropJoin, Crash
<1>10. CASE Wait \/ WakeSpuriously
    BY <1>10 DEF Wait, WakeSpuriously
<1>11. CASE Exit
    BY <1>11 DEF Exit
<1>12. CASE Take
    BY <1>12 DEF Take
<1>13. CASE Snapshot
    BY <1>13 DEF Snapshot
<1>14. CASE Swap
    BY <1>14 DEF Swap
<1>15. CASE Report
    BY <1>15 DEF Report
<1>16. CASE RotateFail
  <2>1. Requested'
    BY <1>16 DEF RotateFail
  <2>2. logged' => logged
    BY <1>16, Zenon DEF RotateFail
  <2>3. Once'
    BY <1>16, <2>2 DEF RotateFail
  <2> QED
    BY <2>1, <2>3
<1>17. CASE CompactFail
    BY <1>17 DEF CompactFail
<1> QED
    BY <1>1, <1>2, <1>3, <1>4, <1>5, <1>6, <1>7, <1>8, <1>9, <1>10, <1>11, <1>12,
       <1>13, <1>14, <1>15, <1>16, <1>17 DEF Next, Loop, Finish

\* In the first opening and before anything fails, a store with no compaction
\* pending or running has fewer runs than the trigger: no request of flush_locked is lost to
\* a compaction that is choosing or merging its inputs (db.rs:594, db.rs:714).
THEOREM IdleStoresAreSettled == Spec => []IdleBelowTrigger
<1>1. Init => IdleInv
    BY CompactorAssumption DEF Init, IdleInv, Requested, Settled, Once
<1>2. TypeInv /\ IdleInv => IdleBelowTrigger
    BY CompactorAssumption
    DEF TypeInv, TypeOK, IdleInv, Requested, Settled, Once, Signalled, IdleBelowTrigger
<1>3. TypeInv /\ IdleInv /\ [Next]_vars => IdleInv'
    BY IdleStep
<1> QED
    BY <1>1, <1>2, <1>3, TypeInit, TypeStep, PTL DEF Spec

-------------------------------------------------------------------------------
(* No wake-up is lost.                                                     *)

\* While the handle is open nobody has asked for the shutdown, and there is a
\* compactor only while there is a process.
Handle ==
    /\ phase = "up" => ~shutdown
    /\ phase = "down" => cpc = "off"

WakeInv == NoLostWakeup /\ Handle

LEMMA WakeStep == TypeInv /\ WakeInv /\ [Next]_vars => WakeInv'
<1> SUFFICES ASSUME TypeInv, WakeInv, [Next]_vars PROVE WakeInv'
    OBVIOUS
<1> USE DEF TypeInv, TypeOK, WakeInv, NoLostWakeup, Handle
<1>1. CASE UNCHANGED vars
    BY <1>1 DEF vars
<1>2. CASE Open \/ OpenStops
    BY <1>2 DEF Open, OpenStops
<1>3. CASE Put \/ FlushInstall
    BY <1>3 DEF Put, FlushInstall
<1>4. CASE FlushSignal
    BY <1>4 DEF FlushSignal
<1>5. CASE RotateFail
    BY <1>5 DEF RotateFail
<1>11. CASE DropShutdown
    BY <1>11 DEF DropShutdown
<1>6. CASE DropNotify
    BY <1>6 DEF DropNotify
<1>7. CASE DropJoin \/ Crash
    BY <1>7 DEF DropJoin, Crash
<1>8. CASE Wait \/ WakeSpuriously \/ Exit
    BY <1>8 DEF Wait, WakeSpuriously, Exit
<1>9. CASE Take \/ Snapshot \/ Swap
    BY <1>9 DEF Take, Snapshot, Swap
<1>10. CASE CompactFail \/ Report
    BY <1>10 DEF CompactFail, Report
<1> QED
    BY <1>1, <1>2, <1>3, <1>4, <1>5, <1>6, <1>7, <1>8, <1>9, <1>10, <1>11
    DEF Next, Loop, Finish

\* The compactor never sleeps on a request or on a shutdown it was already
\* notified of (signal_compaction, Drop for Lsm and compactor_loop in db.rs),
\* with failing rotations and compactions and across openings.
THEOREM NoWakeupIsLost == Spec => []NoLostWakeup
<1>1. Init => WakeInv
    BY DEF Init, WakeInv, NoLostWakeup, Handle
<1>2. WakeInv => NoLostWakeup
    BY DEF WakeInv
<1> QED
    BY <1>1, <1>2, TypeInit, TypeStep, WakeStep, PTL DEF Spec
===============================================================================
