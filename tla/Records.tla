------------------------------- MODULE Records -------------------------------
(***************************************************************************)
(* The data every part of the store exchanges: records, and sorted tables  *)
(* of records.  The memtable, a sorted run on disk, one entry of the       *)
(* write-ahead log and a batch of writes are all finite maps from keys to  *)
(* records; here such a map is a total function in which None stands for   *)
(* "no record for this key".  None is not Tombstone: a tombstone is the    *)
(* newest word on a deleted key and hides older records, a missing record  *)
(* hides nothing (record.rs, memtable.rs get, sstable.rs lookup).          *)
(***************************************************************************)
EXTENDS Integers, Sequences, FiniteSets, Functions

CONSTANTS Keys,       \* the keys of the instance
          Values,     \* the values of the instance
          Tombstone,  \* Record::Tombstone
          None        \* no record, and the None of get()

ASSUME RecordAssumption ==
    /\ Tombstone \notin Values
    /\ None \notin Values
    /\ Tombstone # None

\* record.rs: a stored record is a value or a tombstone.
Record == Values \cup {Tombstone}

Table == [Keys -> Record \cup {None}]

EmptyTable == [k \in Keys |-> None]

\* What remains readable of a table: tombstones resolve their key away.
Live(t) == [k \in Keys |-> IF t[k] = Tombstone THEN None ELSE t[k]]

View == [Keys -> Values \cup {None}]

\* The records of t for the keys of K only.
Only(t, K) == [k \in Keys |-> IF k \in K THEN t[k] ELSE None]

\* Applying `new` on top of `old`: the newer record of a key replaces the older.
Overlay(new, old) == [k \in Keys |-> IF new[k] # None THEN new[k] ELSE old[k]]

\* The tables that hold a record for k.
Hits(ts, k) == {i \in DOMAIN ts : ts[i][k] # None}

\* One table out of a list ordered newest first: the first record found wins.
Newest(ts) ==
    [k \in Keys |->
        IF Hits(ts, k) = {} THEN None
        ELSE ts[CHOOSE i \in Hits(ts, k) : \A j \in Hits(ts, k) : i <= j][k]]

\* One table out of a list applied in order: the last record applied wins.
Latest(ts) ==
    [k \in Keys |->
        IF Hits(ts, k) = {} THEN None
        ELSE ts[CHOOSE i \in Hits(ts, k) : \A j \in Hits(ts, k) : j <= i][k]]
===============================================================================
