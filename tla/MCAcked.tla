------------------------------- MODULE MCAcked --------------------------------
(***************************************************************************)
(* Engine with a history variable: what clients have been told is written. *)
(***************************************************************************)
EXTENDS MCEngine

VARIABLE acked  \* for each key, what the last write to it left if that was acknowledged

ackedVars == <<vars, acked>>

AckedInit == Init /\ acked = EmptyTable

\* A write that does not go on to flush returns Ok once it is in the memtable.  One
\* that does, or that a crash interrupts, is logged and not acknowledged: nothing is
\* promised of its keys until they are written again.
AckedNext ==
    /\ Next
    /\ acked' = IF wpc # "apply" \/ wpc' = "apply" THEN acked
                ELSE IF wpc' = "idle" /\ phase' = "up" THEN Overlay(held, acked)
                ELSE [k \in Keys |-> IF held[k] # None THEN None ELSE acked[k]]

AckedSpec == AckedInit /\ [][AckedNext]_ackedVars

FlushSucceeds ==
    /\ phase = "up"
    /\ wpc = "reopen" /\ wpc' = "idle"
    /\ wal'

\* db.rs:372-373, on flush: "After a successful flush every previously written
\* key is durable and will be read back on reopen."  A flush that fails has
\* already taken the memtable, so a later successful one commits and empties the
\* log without those keys.
FlushedKeysDurable ==
    [][FlushSucceeds =>
          \A k \in Keys : acked[k] # None => DurableView'[k] = Live(acked)[k]]_ackedVars
===============================================================================
