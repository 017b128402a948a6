------------------------------- MODULE PowerLoss ------------------------------
(***************************************************************************)
(* Engine on a disk that loses power.  The code syncs the contents of a    *)
(* file before it renames it (sstable.rs:502, manifest.rs:90) and every    *)
(* record of the log as it is appended (durability.rs:124); it never syncs *)
(* the directory, so a rename, a creation or a removal is durable only     *)
(* once something is synced after it.                                      *)
(*                                                                         *)
(* The file system is the most favourable one: it journals the directory's *)
(* operations in order, and a sync of any file makes all earlier ones      *)
(* durable.  A power loss then leaves a prefix of what was done since the  *)
(* last sync.                                                              *)
(***************************************************************************)
EXTENDS Engine

VARIABLE stable  \* the states of the directory a power loss may leave

lossVars == <<vars, stable>>

LossInit == Init /\ stable = {disk}

\* A mutant: append without the sync.
AppendUnsynced == FALSE

\* put, delete, write with the log: append_and_sync.
AppendSynced == wpc = "idle" /\ wpc' = "apply" /\ log' # log

\* The rename of a run (finish syncs it first) or of the manifest (store does).
Renamed == ~(files' \subseteq files) \/ mruns' # mruns

Stable ==
    stable' = IF AppendSynced THEN {disk'}
              ELSE (IF Renamed THEN {disk} ELSE stable) \cup {disk'}

\* The machine stops; the next boot finds one of the states left.
Lose ==
    \E d \in stable :
        /\ files' = d[1] /\ table' = d[2] /\ tmp' = d[3]
        /\ mseq' = d[4] /\ mruns' = d[5] /\ log' = d[6]
        /\ stable' = {d}
        /\ ProcessGone

LossNext == (Next /\ Stable) \/ Lose

LossSpec == LossInit /\ [][LossNext]_lossVars

-------------------------------------------------------------------------------
\* What recovery from a state of the directory gives.
RecoveredFrom(d) == Live(Overlay(Latest(d[6]), Newest([i \in DOMAIN d[5] |-> d[2][d[5][i]]])))

\* With the log, whatever a power loss leaves recovers to the writes that were
\* acknowledged, and a manifest it leaves names runs it leaves: undoing the
\* rename of a manifest (manifest.rs:93) or of a run is harmless because the log
\* is removed after them (db.rs:591) and comes back with them.
EveryLossRecovers ==
    \A d \in stable : Range(d[5]) \subseteq d[1] /\ RecoveredFrom(d) = DurableView
===============================================================================
