---------------------------- MODULE EngineContract ----------------------------
(***************************************************************************)
(* What clients observe of Engine, as a KVStore: the store is what a read  *)
(* that begins now sees, the durable store what a crash now would recover, *)
(* and every read in progress has its answer.                              *)
(***************************************************************************)
EXTENDS Engine

KV == INSTANCE KVStore
        WITH current <- CurrentView,
             durable <- DurableView,
             reading <- ReadsInProgress

\* The engine is a KVStore: a write is visible and (with the log) durable as a
\* whole, a flush loses nothing, compaction is invisible, a read returns the
\* state of the moment it captured its snapshot, and recovery after a crash at
\* any step restores exactly what was durable.
ImplementsKVStore == KV!Spec

\* A failed flush, which takes its entries with it, is the only step of the engine
\* that is not a step of a KVStore.  Whatever else fails, and also after a failed
\* flush: an append reports an error after its record reached the log, a log
\* cannot be rotated, a compaction stops at any of its steps, a file cannot be
\* unlinked, the process crashes.
OnlyFailedFlushesLose == KV!Init /\ [][KV!Next \/ FlushFail]_(KV!vars)
===============================================================================
