----------------------------- MODULE MCBlockCache -----------------------------
(***************************************************************************)
(* A small instance of BlockCache: more blocks than slots.  33 blocks of   *)
(* capacity over 16 shards give this one 3 slots.                          *)
(***************************************************************************)
EXTENDS BlockCache, TLC

CONSTANTS b1, b2, b3, b4, r1, r2

\* Blocks and readers are interchangeable.
Symmetry == Permutations(BlockKeys) \cup Permutations(Readers)
===============================================================================
