------------------------------ MODULE MCSsTable -------------------------------
(***************************************************************************)
(* Small instances of SsTable.  Keys are 2, 4 and 6, so that lookups also  *)
(* fall before, between and after them.                                    *)
(***************************************************************************)
EXTENDS SsTable, SequencesExt

MCKeys == {2, 4, 6}
MCLookups == 1 .. 7

\* The entry of k whose value has n bytes; a tombstone for n = -1.
EntryOf(k, n) ==
    [key |-> k, key_len |-> 1, tag |-> IF n < 0 THEN "tombstone" ELSE "value",
     val_len |-> IF n < 0 THEN 0 ELSE n]

\* Every ascending stream of tombstones and of values with a length of Lens.
StreamsOf(Lens) ==
    UNION {{[i \in 1 .. Cardinality(K) |-> EntryOf(SetToSortSeq(K, <)[i], f[i])] :
               f \in [1 .. Cardinality(K) -> Lens \cup {-1}]} :
              K \in SUBSET MCKeys}

\* With Target = 20, MaxRecordLen = 20 and MaxU32 = 60: an entry of half the
\* target; the longest value the reader accepts; one beyond its limit and too
\* long for a block that has an entry already; one beyond the length prefix.
MCStreams == StreamsOf({0, 20, 50, 61})
===============================================================================
