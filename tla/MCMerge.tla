------------------------------- MODULE MCMerge --------------------------------
(***************************************************************************)
(* Two runs over three keys and a memtable over two of them.  The sources  *)
(* have different values, so that a record tells where it came from.  The  *)
(* newer run is cut into blocks in every way, the older one after every    *)
(* entry.                                                                  *)
(***************************************************************************)
EXTENDS Merge

CONSTANTS m, r1, r2

TablesOf(v) == [Keys -> {None, Tombstone, v}]

\* The keys a block of t other than the last can end in.
Inner(t) == {k \in Entries(t) : \E j \in Entries(t) : k < j}

Unbounded == [kind |-> "unbounded", key |-> 0]
At(kind, k) == [kind |-> kind, key |-> k]

Ranges == {<<Unbounded, Unbounded>>,
           <<At("included", 1), At("excluded", 2)>>,
           <<At("excluded", 1), At("included", 2)>>,
           <<At("included", 3), At("excluded", 2)>>}

Newer == UNION {{<<t, c>> : c \in SUBSET Inner(t)} : t \in TablesOf(r1)}
Older == {<<t, Inner(t)>> : t \in TablesOf(r2)}
Memtables == {t \in TablesOf(m) : t[3] = None}

MCJobs == {[mem |-> t, runs |-> <<a[1], b[1]>>, ends |-> <<a[2], b[2]>>,
            from |-> r[1], to |-> r[2]] :
              t \in Memtables, a \in Newer, b \in Older, r \in Ranges}
===============================================================================
