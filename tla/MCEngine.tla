------------------------------- MODULE MCEngine -------------------------------
(***************************************************************************)
(* Small instances of Engine.                                              *)
(***************************************************************************)
EXTENDS EngineContract

CONSTANTS k1, k2, v1, v2, r1

\* The table that holds record x for the keys of K and nothing else.
Holding(K, x) == [k \in Keys |-> IF k \in K THEN x ELSE None]

\* A put and a delete of the same key.
MCTwoBatches == {Holding({k1}, v1), Holding({k1}, Tombstone)}

\* A batch that writes two keys, and a delete of one of them.
MCCrossing == {Holding({k1, k2}, v1), Holding({k1}, Tombstone)}

\* The scan of everything.
MCRanges == {Keys}
===============================================================================
