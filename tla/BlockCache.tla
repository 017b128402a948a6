------------------------------ MODULE BlockCache ------------------------------
(***************************************************************************)
(* One shard of the block cache (cache.rs) and the lookups that go through *)
(* it (sstable.rs cached_block).  The shard's mutex makes get and insert   *)
(* one step each; between its miss and its insert a reader decodes the     *)
(* block with no lock held.                                                *)
(*                                                                         *)
(* Runs are immutable and their ids unique, so a key determines what its   *)
(* block decodes to: the decoded block of k is written k.                  *)
(***************************************************************************)
EXTENDS Integers, Functions

CONSTANTS BlockKeys,  \* the keys that map to this shard
          Readers,    \* threads in cached_block
          CapacityBytes,  \* block_cache_capacity
          Empty       \* a free slot; a reader with no block

VARIABLES slots,  \* the ring
          index,  \* where each resident key is
          hand,   \* the CLOCK hand
          rd      \* the readers

cacheVars == <<slots, index, hand, rd>>

ASSUMED_BLOCK_BYTES == 4096
SHARDS == 16

\* The slots of the shard, at least one unless the cache is disabled
\* by a capacity below one block.
per_shard == LET total_slots == CapacityBytes \div ASSUMED_BLOCK_BYTES
             IN  (total_slots + SHARDS - 1) \div SHARDS

Ring == 0 .. per_shard - 1

Slot == [key: BlockKeys, block: BlockKeys, referenced: BOOLEAN]

ASSUME CacheAssumption ==
    /\ CapacityBytes \in Nat
    /\ Empty \notin BlockKeys /\ Empty \notin Slot

Idle == [pc |-> "idle", key |-> Empty, block |-> Empty]

CacheInit ==
    /\ slots = [i \in Ring |-> Empty]
    /\ index = [k \in {} |-> 0]
    /\ hand = 0
    /\ rd = [r \in Readers |-> Idle]

-------------------------------------------------------------------------------
(* free_or_evict.                                                          *)

\* Mutants: one sweep only, one slot only.
OneSweep == per_shard
OneTurn == 1

MaxTurns == 2 * per_shard

\* A mutant: the hand leaves the ring.
Past(h) == h + 1

Advance(h) == (h + 1) % per_shard

\* A slot the hand may take.
Takes(s) == s = Empty \/ ~s.referenced

\* What free_or_evict has come to: the ring and the hand, and the slot at which it
\* returned, if it has.
Start == [found |-> FALSE, at |-> hand, ring |-> slots, hand |-> hand]

\* One turn of the loop.
Turn(s) ==
    IF s.found THEN s
    ELSE LET i == s.hand
             taken == Takes(s.ring[i])
         IN  [found |-> taken, at |-> IF taken THEN i ELSE Advance(i),
              ring |-> IF taken THEN s.ring ELSE [s.ring EXCEPT ![i].referenced = FALSE],
              hand |-> Advance(i)]

Sweep[turns \in 0 .. MaxTurns] == IF turns = 0 THEN Start ELSE Turn(Sweep[turns - 1])

\* `found` is FALSE on the fall-through after the loop, which returns the hand.
FreeOrEvict == Sweep[MaxTurns]

-------------------------------------------------------------------------------
(* cached_block.                                                           *)

Resident(k) == k \in DOMAIN index /\ slots[index[k]] # Empty

\* get: a hit sets the reference bit.
Hit(r, k) ==
    /\ rd[r].pc = "idle"
    /\ Resident(k)
    /\ slots' = [slots EXCEPT ![index[k]].referenced = TRUE]
    /\ rd' = [rd EXCEPT ![r] = [pc |-> "done", key |-> k, block |-> slots[index[k]].block]]
    /\ UNCHANGED <<index, hand>>

\* A miss: the block is read and decoded.  If that fails the lookup returns the
\* error and the cache is left alone.
Miss(r, k) ==
    /\ rd[r].pc = "idle"
    /\ ~Resident(k)
    /\ rd' = [rd EXCEPT ![r] = [pc |-> "decoded", key |-> k, block |-> k]]
    /\ UNCHANGED <<slots, index, hand>>

\* insert of a key that another reader inserted meanwhile.
InsertAgain(r) ==
    LET k == rd[r].key
    IN  /\ rd[r].pc = "decoded"
        /\ k \in DOMAIN index
        /\ slots' = [slots EXCEPT ![index[k]].block = rd[r].block,
                                  ![index[k]].referenced = TRUE]
        /\ rd' = [rd EXCEPT ![r].pc = "done"]
        /\ UNCHANGED <<index, hand>>

\* Mutants: the evicted key stays in the index; the key is not looked up first.
Stale(ind, old) == ind
Never(k) == TRUE

\* index.remove of the key of the slot that is taken over.
Without(ind, old) ==
    IF old = Empty THEN ind ELSE Restrict(ind, DOMAIN ind \ {old.key})

Absent(k) == k \notin DOMAIN index

\* insert of a new key into a free or evicted slot; nothing when disabled.
InsertBlock(r) ==
    LET k == rd[r].key
        v == FreeOrEvict
        kept == Without(index, v.ring[v.at])
    IN  /\ rd[r].pc = "decoded"
        /\ Absent(k)
        /\ IF per_shard = 0 THEN UNCHANGED <<slots, index, hand>>
           ELSE /\ slots' = [v.ring EXCEPT ![v.at] =
                                [key |-> k, block |-> rd[r].block, referenced |-> TRUE]]
                /\ index' = [x \in DOMAIN kept \cup {k} |-> IF x = k THEN v.at ELSE kept[x]]
                /\ hand' = v.hand
        /\ rd' = [rd EXCEPT ![r].pc = "done"]

Return(r) ==
    /\ rd[r].pc = "done"
    /\ rd' = [rd EXCEPT ![r] = Idle]
    /\ UNCHANGED <<slots, index, hand>>

CacheNext ==
    \E r \in Readers :
        \/ \E k \in BlockKeys : Hit(r, k) \/ Miss(r, k)
        \/ InsertAgain(r) \/ InsertBlock(r) \/ Return(r)

CacheSpec == CacheInit /\ [][CacheNext]_cacheVars

-------------------------------------------------------------------------------
(* Properties.                                                             *)

TypeOK ==
    /\ slots \in [Ring -> Slot \cup {Empty}]
    /\ DOMAIN index \subseteq BlockKeys /\ index \in [DOMAIN index -> Ring]
    /\ per_shard > 0 => hand \in Ring
    /\ rd \in [Readers -> [pc: {"idle", "decoded", "done"},
                           key: BlockKeys \cup {Empty}, block: BlockKeys \cup {Empty}]]

\* Index and ring agree, also after two readers missed the same block and both
\* inserted it, and after evictions (cache.rs:78): every resident block is found
\* and none is resident twice.
IndexMatchesSlots ==
    /\ \A i \in Ring : slots[i] # Empty =>
          slots[i].key \in DOMAIN index /\ index[slots[i].key] = i
    /\ \A k \in DOMAIN index : slots[index[k]] # Empty /\ slots[index[k]].key = k

\* A lookup never gets another block than the one it asked for, whatever was
\* evicted and inserted in its slot before (sstable.rs:251).
ReadersSeeTheirBlock == \A r \in Readers : rd[r].pc = "done" => rd[r].block = rd[r].key

\* cache.rs:105-106: one full sweep, "then a guaranteed evict on the next pass":
\* the fall-through after the loop is unreachable, even when every block was
\* touched since the hand last passed.
SweepFindsSlot == per_shard > 0 => FreeOrEvict.found

\* Second chance (cache.rs:101-102): a block that was touched since the hand last
\* passed it is evicted only when all the others were touched, too.
TouchedBlocksLast ==
    [][\A k \in DOMAIN index \ DOMAIN index' :
          slots[index[k]].referenced =>
             \A i \in Ring : slots[i] # Empty /\ slots[i].referenced]_cacheVars
===============================================================================
