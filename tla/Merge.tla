--------------------------------- MODULE Merge --------------------------------
(***************************************************************************)
(* Merge::next over a memtable snapshot and run cursors (merge.rs, and     *)
(* RunCursor in sstable.rs), drained by a scan (db.rs scan) or by a        *)
(* compaction, which is the case of an empty snapshot and no bounds.       *)
(*                                                                         *)
(* A source is a table; which of its entries are decoded and which are     *)
(* still on disk is a pair of sets of keys.  The merge works on a snapshot *)
(* of immutable sources, so no other thread appears here.                  *)
(***************************************************************************)
EXTENDS Records

CONSTANTS Jobs,     \* the merges: memtable, runs, block boundaries and range
          Faults    \* whether reading a block may fail

Entries(t) == {k \in Keys : t[k] # None}

\* Bound: Included, Excluded or Unbounded, in which case the key is not used.
Bound == [kind: {"included", "excluded", "unbounded"}, key: Int]

\* ends[i]: the last keys of the blocks of run i; whatever follows them is its
\* last block.
Job(j) ==
    /\ j.mem \in Table
    /\ j.runs \in Seq(Table)
    /\ j.ends \in Seq(SUBSET Keys) /\ Len(j.ends) = Len(j.runs)
    /\ j.from \in Bound /\ j.to \in Bound

ASSUME MergeAssumption ==
    /\ Keys \subseteq Int
    /\ \A j \in Jobs : Job(j)
    /\ Faults \in BOOLEAN

VARIABLES
    pc,     \* next, done, failed
    job,
    src,    \* sources, newest first
    left,   \* left[s]: the keys of s in blocks not yet read
    block,  \* block[s]: the keys of s decoded and not yet taken
    out     \* what scan has collected

vars == <<pc, job, src, left, block, out>>

-------------------------------------------------------------------------------
(* position().                                                             *)

Below(k) ==
    \/ job.from.kind = "included" /\ k < job.from.key
    \/ job.from.kind = "excluded" /\ k <= job.from.key

Above(k) ==
    \/ job.to.kind = "included" /\ k > job.to.key
    \/ job.to.kind = "excluded" /\ k >= job.to.key

In(k) == ~Below(k) /\ ~Above(k)

-------------------------------------------------------------------------------
(* scan: the snapshot has only the memtable's entries in the range, the    *)
(* cursors stand before the first block of their run.                      *)

Snapshot == <<Only(job.mem, {k \in Keys : In(k)})>> \o job.runs

Init ==
    /\ pc = "next"
    /\ job \in Jobs
    /\ src = Snapshot
    /\ left = [s \in DOMAIN src |-> IF s = 1 THEN {} ELSE Entries(src[s])]
    /\ block = [s \in DOMAIN src |-> IF s = 1 THEN Entries(src[s]) ELSE {}]
    /\ out = <<>>

-------------------------------------------------------------------------------
(* RunCursor::fill.                                                        *)

Unfilled == {s \in DOMAIN src : block[s] = {} /\ left[s] # {}}

\* The next block of source s: up to the next block end.
NextBlock(s) == {k \in left[s] : \A e \in job.ends[s - 1] : e \in left[s] => k <= e}

Fill(s) ==
    /\ pc = "next" /\ s \in Unfilled /\ \A t \in Unfilled : s <= t
    /\ block' = [block EXCEPT ![s] = NextBlock(s)]
    /\ left' = [left EXCEPT ![s] = @ \ NextBlock(s)]
    /\ UNCHANGED <<pc, job, src, out>>

\* read_block fails: next returns the error, and scan or the compaction gives up.
ReadFails ==
    /\ Faults /\ pc = "next" /\ Unfilled # {}
    /\ pc' = "failed"
    /\ UNCHANGED <<job, src, left, block, out>>

-------------------------------------------------------------------------------
(* Merge::next and the loop body of scan.                                  *)

Heads == UNION {block[s] : s \in DOMAIN src}

Holders(k) == {s \in DOMAIN src : k \in block[s]}

\* A mutant: the last source with the key wins.
ChosenOldest(k) == src[CHOOSE s \in Holders(k) : \A t \in Holders(k) : t <= s][k]

\* The record of the newest source with the key.
Chosen(k) == src[CHOOSE s \in Holders(k) : \A t \in Holders(k) : s <= t][k]

\* A mutant: only the source whose record is chosen moves on.
AdvanceOne(k) ==
    block' = [s \in DOMAIN src |->
        IF \A t \in Holders(k) : s <= t THEN block[s] \ {k} ELSE block[s]]

\* A mutant: a tombstone is skipped without moving on.
AdvancePastValues(k) ==
    block' = [s \in DOMAIN src |->
        IF Chosen(k) = Tombstone THEN block[s] ELSE block[s] \ {k}]

\* next_entry of every source that holds the key.
Advance(k) == block' = [s \in DOMAIN src |-> block[s] \ {k}]

Collect(k) ==
    IF Chosen(k) = Tombstone \/ Below(k) THEN UNCHANGED <<pc, out>>
    ELSE IF Above(k) THEN pc' = "done" /\ UNCHANGED out
    ELSE out' = Append(out, <<k, Chosen(k)>>) /\ UNCHANGED pc

Take(k) ==
    /\ pc = "next" /\ Unfilled = {}
    /\ k \in Heads /\ \A h \in Heads : k <= h
    /\ Advance(k)
    /\ Collect(k)
    /\ UNCHANGED <<job, src, left>>

\* No source has a key left.
Exhausted ==
    /\ pc = "next" /\ Unfilled = {} /\ Heads = {}
    /\ pc' = "done"
    /\ UNCHANGED <<job, src, left, block, out>>

Next ==
    \/ \E s \in DOMAIN src : Fill(s)
    \/ ReadFails
    \/ \E k \in Keys : Take(k)
    \/ Exhausted

Spec == Init /\ [][Next]_vars

\* The calling thread runs.
FairSpec == Spec /\ WF_vars(Next)

-------------------------------------------------------------------------------
(* Properties.                                                             *)

\* What the store holds: the memtable over the runs, newest first.
Current == Newest(<<job.mem>> \o job.runs)

Expected == {<<k, Current[k]>> : k \in {k \in Keys : In(k) /\ Current[k] \in Values}}

\* A scan that returns has collected exactly the keys in the range whose newest
\* record is a value, each with that value (db.rs:507-533): no deleted key comes
\* back, none is lost to a block boundary, to a tombstone outside the snapshot,
\* to a failed read (merge.rs:53-54) or to stopping at the end of the range.
ScanExact == pc = "done" => {out[i] : i \in DOMAIN out} = Expected

\* The result is in strictly ascending order (scan.rs:16), which the output of a
\* compaction relies on (sstable.rs push) as does stopping at the first key above
\* the range (db.rs:529).
KeysAscend == \A i, j \in DOMAIN out : i < j => out[i][1] < out[j][1]

\* Every scan and every merge of a compaction comes to an end (merge.rs:75-111 is
\* a loop that only returns on a value, an error or the end of all sources).
Terminates == <>(pc # "next")
===============================================================================
