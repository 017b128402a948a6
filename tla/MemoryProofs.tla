------------------------------ MODULE MemoryProofs ----------------------------
(***************************************************************************)
(* The two structures the store keeps in memory, the write buffer and the  *)
(* block cache: their accounting is exact for every set of keys, length,   *)
(* capacity and number of slots.                                           *)
(***************************************************************************)
EXTENDS WriteBuffer, BlockCache, FiniteSetTheorems, TLAPS

\* A non-empty set of natural numbers has a least element.
LEMMA LeastNumber ==
    ASSUME NEW S, S \subseteq Nat, S # {}
    PROVE  \E i \in S : \A j \in S : i <= j
<1>1. PICK x \in S : \A y \in S : ~(<<y, x>> \in OpToRel(<, Nat))
  BY NatLessThanWellFounded, WFMin, Zenon
<1>2. \A y \in S : ~(y < x)
  BY <1>1, Zenon DEF OpToRel
<1>3. QED
  BY <1>2

\* Induction up to n: what holds of 0 and passes from each number to the next.
LEMMA UpTo ==
    ASSUME NEW n \in Nat, NEW G, 0 \in G, \A i \in 1 .. n : i - 1 \in G => i \in G
    PROVE  0 .. n \subseteq G
<1> DEFINE Bad == (0 .. n) \ G
<1> SUFFICES ASSUME Bad # {}
             PROVE  FALSE
  OBVIOUS
<1>1. Bad \subseteq Nat
  OBVIOUS
<1>2. PICK i \in Bad : \A j \in Bad : i <= j
  BY <1>1, LeastNumber, Zenon
<1>3. i \in 1 .. n /\ i - 1 \notin Bad
  BY <1>2
<1>4. QED
  BY <1>3

\* f runs through the states a, step[1][a], step[2][step[1][a]] and so on.
Iterates(f, a, step, n) ==
    /\ f[0] = a
    /\ \A i \in 1 .. n : f[i] = step[i][f[i - 1]]

\* A loop that keeps its state within S has a run of every length.
LEMMA LoopRuns ==
    ASSUME NEW S, NEW a \in S, NEW n \in Nat, NEW step \in [1 .. n -> [S -> S]]
    PROVE  \E f \in [0 .. n -> S] : Iterates(f, a, step, n)
<1> DEFINE Has(m) == \E f \in [0 .. m -> S] : Iterates(f, a, step, m)
           G == {m \in 0 .. n : Has(m)}
<1>1. Has(0)
  <2> DEFINE f == [i \in 0 .. 0 |-> a]
  <2>1. f \in [0 .. 0 -> S] /\ Iterates(f, a, step, 0)
    BY DEF Iterates
  <2>2. QED
    BY <2>1
<1>2. ASSUME NEW m \in 0 .. n, m < n, Has(m)
      PROVE  Has(m + 1)
  <2>1. PICK f \in [0 .. m -> S] : Iterates(f, a, step, m)
    BY <1>2
  <2> DEFINE g == [i \in 0 .. m + 1 |-> IF i <= m THEN f[i] ELSE step[m + 1][f[m]]]
  <2>2. m + 1 \in 1 .. n /\ m \in 0 .. m /\ f[m] \in S
    BY <1>2
  <2>3. step[m + 1] \in [S -> S]
    BY <2>2
  <2>4. step[m + 1][f[m]] \in S
    BY <2>2, <2>3
  <2>5. g \in [0 .. m + 1 -> S]
    BY <2>4
  <2>6. \A i \in 0 .. m : g[i] = f[i]
    OBVIOUS
  <2>7. g[m + 1] = step[m + 1][f[m]]
    OBVIOUS
  <2>8. g[0] = a
    BY <2>1, <2>6 DEF Iterates
  <2>9. ASSUME NEW i \in 1 .. m + 1
        PROVE  g[i] = step[i][g[i - 1]]
    <3>1. CASE i = m + 1
      BY <2>2, <2>6, <2>7, <3>1
    <3>2. CASE i # m + 1
      <4>1. i \in 1 .. m /\ i \in 0 .. m /\ i - 1 \in 0 .. m
        BY <3>2
      <4>2. QED
        BY <2>1, <2>6, <4>1 DEF Iterates
    <3>3. QED
      BY <3>1, <3>2
  <2>10. Iterates(g, a, step, m + 1)
    BY <2>8, <2>9, Zenon DEF Iterates
  <2>11. QED
    BY <2>5, <2>10
<1> HIDE DEF Has
<1>3. ASSUME NEW m \in 1 .. n, m - 1 \in G
      PROVE  m \in G
  <2>1. m - 1 \in 0 .. n /\ m - 1 < n /\ Has(m - 1) /\ m \in 0 .. n
    BY <1>3
  <2>2. Has(m - 1 + 1)
    BY <1>2, <2>1
  <2>3. QED
    BY <2>1, <2>2
<1>4. 0 .. n \subseteq G
  <2>1. 0 \in G
    BY <1>1
  <2>2. \A m \in 1 .. n : m - 1 \in G => m \in G
    BY <1>3
  <2>3. QED
    BY <2>1, <2>2, UpTo, Zenon
<1>5. QED
  BY <1>4 DEF Has

-------------------------------------------------------------------------------
(* The block cache: the sweep of the hand.                                 *)

\* What the proofs about the cache start from: it has slots, and is well typed.
Sound == TypeOK /\ per_shard > 0

Rings == [Ring -> Slot \cup {Empty}]

SweepState == [found: BOOLEAN, at: Ring, ring: Rings, hand: Ring]

\* The slots that the hand has passed after t turns, at most a full circle.
Passed(t) == {i \in Ring : (hand <= i /\ i < hand + t) \/ i < hand + t - per_shard}

Position(t) == IF hand + t < per_shard THEN hand + t ELSE hand + t - per_shard

\* Slot i holds a block that was touched since the hand last passed it.
Touched(i) == slots[i] # Empty /\ slots[i].referenced

Cleared(i) == [slots[i] EXCEPT !.referenced = FALSE]

\* The loop after t turns that found no slot: it took the bit of every slot it passed.
Searching(t, s) ==
    /\ ~s.found /\ t <= per_shard /\ s.hand = Position(t)
    /\ s.ring = [i \in Ring |-> IF i \in Passed(t) THEN Cleared(i) ELSE slots[i]]
    /\ \A i \in Passed(t) : Touched(i)

\* The loop has returned: with a slot that nobody touched, or after it took the bit
\* of every slot of the ring.
Victim(s) ==
    /\ s.found
    /\ \A i \in Ring : s.ring[i] = slots[i] \/ (Touched(i) /\ s.ring[i] = Cleared(i))
    /\ Touched(s.at) => \A i \in Ring : Touched(i)

LEMMA LenType == per_shard \in Nat
BY CacheAssumption DEF per_shard, ASSUMED_BLOCK_BYTES, SHARDS

\* The hand goes around the ring.
LEMMA HandAdvances ==
    ASSUME per_shard \in Nat, NEW h \in Ring
    PROVE  Advance(h) = IF h + 1 = per_shard THEN 0 ELSE h + 1
BY DEF Ring, Advance

LEMMA TurnType ==
    ASSUME Sound, NEW s \in SweepState
    PROVE  Turn(s) \in SweepState
<1>1. Advance(s.hand) \in Ring
  BY LenType, HandAdvances DEF Sound, SweepState, Ring
<1>2. s.ring \in Rings /\ s.hand \in Ring
  BY DEF SweepState
<1>3. CASE s.found
  BY <1>3 DEF Turn
<1>4. CASE ~s.found /\ Takes(s.ring[s.hand])
  BY <1>1, <1>2, <1>4 DEF Turn, SweepState
<1>5. CASE ~s.found /\ ~Takes(s.ring[s.hand])
  <2>1. s.ring[s.hand] \in Slot
    BY <1>2, <1>5 DEF Takes, Rings
  <2>2. [s.ring[s.hand] EXCEPT !.referenced = FALSE] \in Slot
    BY <2>1, Zenon DEF Slot
  <2>3. [s.ring EXCEPT ![s.hand].referenced = FALSE] \in Rings
    BY <1>2, <2>2 DEF Rings
  <2>0. Takes(s.ring[s.hand]) = FALSE
    BY <1>5, Zenon DEF Takes
  <2>4. Turn(s) = [found |-> FALSE, at |-> Advance(s.hand),
                         ring |-> [s.ring EXCEPT ![s.hand].referenced = FALSE],
                         hand |-> Advance(s.hand)]
    BY <1>5, <2>0, Zenon DEF Turn
  <2>5. QED
    BY <1>1, <2>3, <2>4 DEF SweepState
<1>6. QED
  BY <1>3, <1>4, <1>5

\* The loop of free_or_evict is well defined.
LEMMA SweepRuns ==
    ASSUME Sound
    PROVE  /\ MaxTurns \in Nat
           /\ \A t \in 0 .. MaxTurns : Sweep[t] \in SweepState
           /\ Sweep[0] = Start
           /\ \A t \in 1 .. MaxTurns : Sweep[t] = Turn(Sweep[t - 1])
<1> DEFINE n == MaxTurns
           step == [i \in 1 .. n |-> [s \in SweepState |-> Turn(s)]]
           Body(f) == [t \in 0 .. n |-> IF t = 0 THEN Start ELSE Turn(f[t - 1])]
<1>1. n \in Nat
  BY LenType DEF Sound, MaxTurns
<1>2. Start \in SweepState
  BY DEF Start, SweepState, Rings, Sound, TypeOK
<1>3. step \in [1 .. n -> [SweepState -> SweepState]]
  BY TurnType
<1>4. PICK f \in [0 .. n -> SweepState] : Iterates(f, Start, step, n)
  BY <1>1, <1>2, <1>3, LoopRuns, Zenon
<1>5. f = Body(f)
  <2>1. ASSUME NEW t \in 0 .. n
        PROVE  f[t] = IF t = 0 THEN Start ELSE Turn(f[t - 1])
    <3>1. CASE t = 0
      BY <1>4, <3>1 DEF Iterates
    <3>2. CASE t # 0
      <4>1. t \in 1 .. n /\ t - 1 \in 0 .. n
        BY <1>1, <3>2
      <4>2. f[t] = step[t][f[t - 1]] /\ f[t - 1] \in SweepState
        BY <1>4, <4>1 DEF Iterates
      <4>3. QED
        BY <3>2, <4>1, <4>2
    <3>3. QED
      BY <3>1, <3>2
  <2>2. QED
    BY <2>1
<1>6. Sweep = CHOOSE g : g = Body(g)
  BY DEF Sweep
<1>7. Sweep = Body(Sweep)
  BY <1>5, <1>6, Zenon
<1>8. /\ Sweep[0] = Start
      /\ \A t \in 1 .. n : Sweep[t] = Turn(Sweep[t - 1])
  <2>1. \A t \in 0 .. n : Sweep[t] = Body(Sweep)[t]
    BY <1>7, Zenon
  <2>2. QED
    BY <1>1, <2>1
<1> DEFINE G == {t \in 0 .. n : Sweep[t] \in SweepState}
<1>9. 0 .. n \subseteq G
  <2>1. 0 \in G
    BY <1>1, <1>2, <1>8
  <2>2. \A t \in 1 .. n : t - 1 \in G => t \in G
    BY <1>1, <1>8, TurnType
  <2>3. QED
    BY <1>1, <2>1, <2>2, UpTo, Zenon
<1>10. QED
  BY <1>1, <1>8, <1>9

\* Every turn of the loop goes on searching or returns a victim.
LEMMA TurnSearches ==
    ASSUME Sound, NEW t \in Nat, NEW s \in SweepState, Searching(t, s)
    PROVE  Searching(t + 1, Turn(s)) \/ Victim(Turn(s))
<1> DEFINE i == s.hand
           n == per_shard
<1>1. /\ n \in Nat /\ n > 0 /\ Ring = 0 .. n - 1 /\ hand \in 0 .. n - 1
      /\ slots \in Rings
  BY LenType DEF Sound, Ring, TypeOK, Rings
<1>2. /\ ~s.found /\ t <= n /\ i = Position(t) /\ i \in 0 .. n - 1
      /\ \A j \in 0 .. n - 1 : s.ring[j] = IF j \in Passed(t) THEN Cleared(j) ELSE slots[j]
      /\ \A j \in Passed(t) : Touched(j)
  BY <1>1 DEF Searching, SweepState
<1>3. i \in Passed(t) => t = n
  BY <1>1, <1>2 DEF Passed, Position
<1>4. t = n => \A j \in 0 .. n - 1 : j \in Passed(t)
  BY <1>1 DEF Passed
<1>5. \A j \in Passed(t) : slots[j] \in Slot /\ Cleared(j) # Empty /\ ~Cleared(j).referenced
  <2> SUFFICES ASSUME NEW j \in Passed(t)
               PROVE  slots[j] \in Slot /\ Cleared(j) # Empty /\ ~Cleared(j).referenced
    OBVIOUS
  <2>1. slots[j] \in Slot
    BY <1>1, <1>2 DEF Passed, Touched, Rings
  <2>2. Cleared(j) \in Slot /\ Cleared(j).referenced = FALSE
    BY <2>1, Zenon DEF Cleared, Slot
  <2>3. QED
    BY <2>1, <2>2, CacheAssumption DEF Sound
<1>6. CASE Takes(s.ring[i])
  <2>1. Turn(s).found /\ Turn(s).at = i /\ Turn(s).ring = s.ring
    BY <1>2, <1>6, Zenon DEF Turn
  <2>2. Touched(i) => i \in Passed(t)
    BY <1>2, <1>6 DEF Takes, Touched
  <2>3. Touched(i) => \A j \in Ring : Touched(j)
    BY <1>1, <1>2, <1>3, <1>4, <2>2
  <2>4. QED
    BY <1>1, <1>2, <2>1, <2>3 DEF Victim
<1>7. CASE ~Takes(s.ring[i])
  <2>0. Takes(s.ring[i]) = FALSE
    BY <1>7, Zenon DEF Takes
  <2>1. /\ ~Turn(s).found /\ Turn(s).hand = Advance(i)
        /\ Turn(s).ring = [s.ring EXCEPT ![i].referenced = FALSE]
    BY <1>2, <2>0, Zenon DEF Turn
  <2>2. i \notin Passed(t) /\ t < n
    <3>1. i \notin Passed(t)
      BY <1>2, <1>5, <1>7 DEF Takes
    <3>2. QED
      BY <1>1, <1>2, <1>4, <3>1
  <2>3. Touched(i) /\ s.ring[i] = slots[i]
    BY <1>2, <1>7, <2>2 DEF Takes, Touched
  <2>4. Passed(t + 1) = Passed(t) \cup {i}
    BY <1>1, <1>2, <2>2 DEF Passed, Position
  <2>5. Position(t + 1) = Advance(i)
    BY <1>1, <1>2, <2>2, HandAdvances, SMTT(30) DEF Position
  <2>6. Turn(s).ring
          = [j \in Ring |-> IF j \in Passed(t + 1) THEN Cleared(j) ELSE slots[j]]
    <3>1. s.ring \in Rings
      BY DEF SweepState
    <3>2. ASSUME NEW j \in 0 .. n - 1
          PROVE  Turn(s).ring[j] = IF j \in Passed(t + 1) THEN Cleared(j) ELSE slots[j]
      <4>1. CASE j = i
        BY <1>1, <2>1, <2>3, <2>4, <3>1, <4>1 DEF Rings, Cleared
      <4>2. CASE j # i
        BY <1>1, <1>2, <2>1, <2>4, <3>1, <4>2 DEF Rings
      <4>3. QED
        BY <4>1, <4>2
    <3>3. Turn(s).ring \in Rings
      BY TurnType DEF SweepState
    <3>4. QED
      BY <1>1, <3>2, <3>3, Zenon DEF Rings
  <2>7. QED
    BY <1>1, <1>2, <2>1, <2>2, <2>3, <2>4, <2>5, <2>6 DEF Searching
<1>8. QED
  BY <1>6, <1>7

\* free_or_evict returns from its loop.
LEMMA SweepReturns ==
    ASSUME Sound
    PROVE  FreeOrEvict \in SweepState /\ Victim(FreeOrEvict)
<1> DEFINE n == MaxTurns
           G == {t \in 0 .. n : Searching(t, Sweep[t]) \/ Victim(Sweep[t])}
<1>1. /\ n \in Nat /\ n = 2 * per_shard /\ per_shard \in Nat /\ per_shard > 0
      /\ hand \in 0 .. per_shard - 1 /\ Ring = 0 .. per_shard - 1 /\ slots \in Rings
  BY SweepRuns, LenType DEF Sound, MaxTurns, TypeOK, Ring, Rings
<1>2. Searching(0, Start)
  <2>1. Passed(0) = {}
    BY <1>1 DEF Passed
  <2>2. slots = [i \in Ring |-> slots[i]]
    BY <1>1 DEF Rings
  <2>3. QED
    BY <1>1, <2>1, <2>2 DEF Searching, Start, Position
<1>3. 0 \in G
  BY <1>1, <1>2, SweepRuns
<1>4. ASSUME NEW t \in 1 .. n, t - 1 \in G
      PROVE  t \in G
  <2>1. t - 1 \in Nat /\ t - 1 \in 0 .. n /\ t \in 0 .. n /\ t - 1 + 1 = t
    BY <1>1
  <2>2. Sweep[t] = Turn(Sweep[t - 1]) /\ Sweep[t - 1] \in SweepState
    BY <2>1, SweepRuns
  <2>3. CASE Searching(t - 1, Sweep[t - 1])
    BY <2>1, <2>2, <2>3, TurnSearches
  <2>4. CASE Victim(Sweep[t - 1])
    <3>1. Sweep[t] = Sweep[t - 1]
      BY <2>2, <2>4, Zenon DEF Victim, Turn
    <3>2. QED
      BY <2>1, <2>4, <3>1
  <2>5. QED
    BY <1>4, <2>3, <2>4
<1>5. 0 .. n \subseteq G
  BY <1>1, <1>3, <1>4, UpTo, Zenon
<1>6. n \in 0 .. n /\ ~(n <= per_shard)
  BY <1>1
<1>7. QED
  BY <1>5, <1>6, SweepRuns, Zenon DEF Searching, FreeOrEvict

-------------------------------------------------------------------------------
(* The block cache: the index and the ring.                                *)

\* A slot holds the block of its key, and so does a reader that has one.
BlocksSound ==
    /\ \A i \in Ring : slots[i] # Empty => slots[i].block = slots[i].key
    /\ \A r \in Readers : rd[r].pc # "idle" => rd[r].key \in BlockKeys /\ rd[r].block = rd[r].key

CacheInv == TypeOK /\ IndexMatchesSlots /\ BlocksSound

LEMMA CacheStart == CacheInit => CacheInv
<1> SUFFICES ASSUME CacheInit
             PROVE  CacheInv
  OBVIOUS
<1>1. per_shard \in Nat
  BY LenType
<1>2. TypeOK
  BY <1>1 DEF CacheInit, TypeOK, Ring, Idle
<1>3. IndexMatchesSlots
  BY DEF CacheInit, IndexMatchesSlots
<1>4. BlocksSound
  BY DEF CacheInit, BlocksSound, Idle
<1>5. QED
  BY <1>2, <1>3, <1>4 DEF CacheInv

\* Rewriting the block or the bit of a resident key.
LEMMA CacheTouch ==
    ASSUME CacheInv, NEW k \in DOMAIN index, NEW s \in Slot,
           s.key = k, s.block = k, slots' = [slots EXCEPT ![index[k]] = s],
           UNCHANGED <<index, hand>>
    PROVE  /\ slots' \in Rings
           /\ IndexMatchesSlots'
           /\ \A i \in Ring : slots'[i] # Empty => slots'[i].block = slots'[i].key
<1>1. slots \in Rings /\ index[k] \in Ring
  BY DEF CacheInv, TypeOK, Rings
<1>2. slots' \in Rings
  BY <1>1 DEF Rings
<1>3. \A i \in Ring : slots'[i] = IF i = index[k] THEN s ELSE slots[i]
  BY <1>1 DEF Rings
<1>4. s # Empty
  BY CacheAssumption
<1>5. IndexMatchesSlots'
  BY <1>1, <1>3, <1>4 DEF CacheInv, IndexMatchesSlots, TypeOK
<1>6. QED
  BY <1>2, <1>3, <1>5 DEF CacheInv, BlocksSound

\* What a step does to the readers: r alone moves, to a state that is idle or has the
\* block of its key.
ReaderMoves(r) ==
    \E s \in [pc: {"idle", "decoded", "done"},
              key: BlockKeys \cup {Empty}, block: BlockKeys \cup {Empty}] :
        /\ s.pc # "idle" => s.key \in BlockKeys /\ s.block = s.key
        /\ rd' = [rd EXCEPT ![r] = s]

LEMMA ReadersSound ==
    ASSUME CacheInv, NEW r \in Readers, ReaderMoves(r)
    PROVE  /\ rd' \in [Readers -> [pc: {"idle", "decoded", "done"},
                                  key: BlockKeys \cup {Empty}, block: BlockKeys \cup {Empty}]]
           /\ \A q \in Readers : rd'[q].pc # "idle"
                                   => rd'[q].key \in BlockKeys /\ rd'[q].block = rd'[q].key
BY DEF CacheInv, TypeOK, BlocksSound, ReaderMoves

LEMMA CacheHit ==
    ASSUME CacheInv, NEW r \in Readers, NEW k \in BlockKeys,
           Hit(r, k)
    PROVE  CacheInv'
<1> DEFINE s == [slots[index[k]] EXCEPT !.referenced = TRUE]
<1>1. /\ k \in DOMAIN index /\ index[k] \in Ring
      /\ slots[index[k]] \in Slot /\ slots[index[k]].key = k /\ slots[index[k]].block = k
  BY DEF CacheInv, TypeOK, IndexMatchesSlots, BlocksSound, Hit, Resident
<1>2. s \in Slot /\ s.key = k /\ s.block = k
  BY <1>1, Zenon DEF Slot
<1>3. slots' = [slots EXCEPT ![index[k]] = s] /\ UNCHANGED <<index, hand>>
  BY DEF Hit
<1>4. ReaderMoves(r)
  BY <1>1, Zenon DEF Hit, ReaderMoves
<1>5. QED
  BY <1>1, <1>2, <1>3, <1>4, CacheTouch, ReadersSound, Zenon
  DEF CacheInv, TypeOK, BlocksSound, Rings

LEMMA CacheInsertAgain ==
    ASSUME CacheInv, NEW r \in Readers, InsertAgain(r)
    PROVE  CacheInv'
<1> DEFINE k == rd[r].key
           u == [slots[index[k]] EXCEPT !.block = k]
           s == [u EXCEPT !.referenced = TRUE]
<1>1. /\ rd[r].pc = "decoded" /\ rd[r].block = k /\ k \in BlockKeys
      /\ rd[r] \in [pc: {"idle", "decoded", "done"},
                    key: BlockKeys \cup {Empty}, block: BlockKeys \cup {Empty}]
  BY DEF InsertAgain, CacheInv, BlocksSound, TypeOK
<1>2. /\ k \in DOMAIN index /\ index[k] \in Ring
      /\ slots[index[k]] \in Slot /\ slots[index[k]].key = k
  BY DEF InsertAgain, CacheInv, TypeOK, IndexMatchesSlots
<1>3. u \in Slot /\ u.key = k /\ u.block = k
  BY <1>1, <1>2, Zenon DEF Slot
<1>4. s \in Slot /\ s.key = k /\ s.block = k
  BY <1>3, Zenon DEF Slot
<1>5. slots' = [slots EXCEPT ![index[k]] = s] /\ UNCHANGED <<index, hand>>
  BY <1>1, <1>2, Zenon DEF InsertAgain, CacheInv, TypeOK
<1>6. ReaderMoves(r)
  BY <1>1, Zenon DEF InsertAgain, ReaderMoves
<1>7. QED
  BY <1>2, <1>4, <1>5, <1>6, CacheTouch, ReadersSound, Zenon
  DEF CacheInv, TypeOK, BlocksSound, Rings

\* Taking over the victim's slot: what was in it is gone from the index, every other
\* block stays where it was.
LEMMA CacheInsert ==
    ASSUME CacheInv, NEW r \in Readers, InsertBlock(r), per_shard > 0
    PROVE  CacheInv'
<1> DEFINE k == rd[r].key
           v == FreeOrEvict
           s == [key |-> k, block |-> k, referenced |-> TRUE]
           old == v.ring[v.at]
           kept == Without(index, old)
<1>1. /\ rd[r].pc = "decoded" /\ rd[r].block = k /\ k \in BlockKeys /\ k \notin DOMAIN index
      /\ rd[r] \in [pc: {"idle", "decoded", "done"},
                    key: BlockKeys \cup {Empty}, block: BlockKeys \cup {Empty}]
  BY DEF InsertBlock, Absent, CacheInv, BlocksSound, TypeOK
<1>2. Sound
  BY DEF Sound, CacheInv
<1>3. /\ v.at \in Ring /\ v.hand \in Ring /\ v.ring \in Rings
      /\ \A i \in Ring : v.ring[i] = slots[i] \/ (Touched(i) /\ v.ring[i] = Cleared(i))
  BY <1>2, SweepReturns DEF SweepState, Victim
<1> HIDE DEF v
<1>4. /\ slots' = [v.ring EXCEPT ![v.at] = s] /\ hand' = v.hand
      /\ index' = [x \in DOMAIN kept \cup {k} |-> IF x = k THEN v.at ELSE kept[x]]
  <2>1. per_shard # 0
    BY LenType
  <2>2. QED
    BY <1>1, <2>1, Zenon DEF InsertBlock, v
<1>5. s \in Slot /\ s # Empty
  <2>1. s \in Slot
    BY <1>1 DEF Slot
  <2>2. QED
    BY <2>1, CacheAssumption, Zenon
<1>6. /\ slots \in Rings /\ index \in [DOMAIN index -> Ring]
      /\ DOMAIN index \subseteq BlockKeys
  BY DEF CacheInv, TypeOK, Rings
<1>7. \A i \in Ring :
         /\ v.ring[i] = Empty <=> slots[i] = Empty
         /\ v.ring[i] # Empty => v.ring[i].key = slots[i].key /\ v.ring[i].block = slots[i].block
  <2> SUFFICES ASSUME NEW i \in Ring, Touched(i), v.ring[i] = Cleared(i)
               PROVE  Cleared(i) # Empty /\ Cleared(i).key = slots[i].key
                      /\ Cleared(i).block = slots[i].block
    BY <1>3 DEF Touched
  <2>1. slots[i] \in Slot
    BY <1>6 DEF Touched, Rings
  <2>2. /\ Cleared(i) \in Slot /\ Cleared(i).key = slots[i].key
        /\ Cleared(i).block = slots[i].block
    BY <2>1, Zenon DEF Cleared, Slot
  <2>3. QED
    BY <2>2, CacheAssumption
<1>8. slots' \in Rings /\ \A i \in Ring : slots'[i] = IF i = v.at THEN s ELSE v.ring[i]
  BY <1>3, <1>4, <1>5 DEF Rings
<1>9. /\ DOMAIN kept = {x \in DOMAIN index : index[x] # v.at}
      /\ \A x \in DOMAIN kept : kept[x] = index[x]
  <2>1. CASE old = Empty
    <3>1. kept = index /\ slots[v.at] = Empty
      BY <1>3, <1>7, <2>1 DEF Without
    <3>2. QED
      BY <3>1, Zenon DEF CacheInv, IndexMatchesSlots
  <2>2. CASE old # Empty
    <3>1. kept = [x \in DOMAIN index \ {old.key} |-> index[x]]
      BY <2>2 DEF Without, Restrict
    <3>2. /\ slots[v.at] # Empty /\ old.key = slots[v.at].key
          /\ old.key \in DOMAIN index /\ index[old.key] = v.at
      BY <1>3, <1>7, <2>2 DEF CacheInv, IndexMatchesSlots
    <3>3. \A x \in DOMAIN index : index[x] = v.at => x = old.key
      BY <3>2 DEF CacheInv, IndexMatchesSlots
    <3>4. QED
      BY <3>1, <3>2, <3>3
  <2>3. QED
    BY <2>1, <2>2
<1> HIDE DEF kept, old
<1>10. /\ DOMAIN index' = DOMAIN kept \cup {k} /\ index'[k] = v.at
       /\ \A x \in DOMAIN kept : index'[x] = index[x]
  BY <1>1, <1>4, <1>9
<1>11. DOMAIN index' \subseteq BlockKeys /\ index' \in [DOMAIN index' -> Ring]
  BY <1>1, <1>3, <1>4, <1>6, <1>9, <1>10
<1>12. IndexMatchesSlots'
  <2>1. ASSUME NEW i \in Ring, slots'[i] # Empty
        PROVE  slots'[i].key \in DOMAIN index' /\ index'[slots'[i].key] = i
    <3>1. CASE i = v.at
      BY <1>8, <1>10, <3>1
    <3>2. CASE i # v.at
      <4>1. slots[i] # Empty /\ slots'[i].key = slots[i].key
        BY <1>7, <1>8, <2>1, <3>2
      <4>2. slots[i].key \in DOMAIN index /\ index[slots[i].key] = i
        BY <4>1 DEF CacheInv, IndexMatchesSlots
      <4>3. QED
        BY <1>9, <1>10, <3>2, <4>1, <4>2
    <3>3. QED
      BY <3>1, <3>2
  <2>2. ASSUME NEW x \in DOMAIN index'
        PROVE  slots'[index'[x]] # Empty /\ slots'[index'[x]].key = x
    <3>1. CASE x = k
      BY <1>3, <1>5, <1>8, <1>10, <3>1
    <3>2. CASE x # k
      <4>1. x \in DOMAIN index /\ index'[x] = index[x] /\ index[x] # v.at
        BY <1>9, <1>10, <3>2
      <4>2. slots[index[x]] # Empty /\ slots[index[x]].key = x /\ index[x] \in Ring
        BY <1>6, <4>1 DEF CacheInv, IndexMatchesSlots
      <4>3. QED
        BY <1>7, <1>8, <4>1, <4>2
    <3>3. QED
      BY <3>1, <3>2
  <2>3. QED
    BY <2>1, <2>2 DEF IndexMatchesSlots
<1>13. \A i \in Ring : slots'[i] # Empty => slots'[i].block = slots'[i].key
  BY <1>7, <1>8 DEF CacheInv, BlocksSound
<1>14. ReaderMoves(r)
  BY <1>1, Zenon DEF InsertBlock, ReaderMoves
<1>15. QED
  BY <1>3, <1>4, <1>8, <1>11, <1>12, <1>13, <1>14, ReadersSound
  DEF CacheInv, TypeOK, BlocksSound, Rings

LEMMA CacheStep ==
    ASSUME CacheInv, [CacheNext]_cacheVars
    PROVE  CacheInv'
<1>1. ASSUME NEW r \in Readers, NEW k \in BlockKeys, Miss(r, k)
      PROVE  CacheInv'
  <2>1. UNCHANGED <<slots, index, hand>>
    BY <1>1 DEF Miss
  <2>2. ReaderMoves(r)
    BY <1>1, Zenon DEF Miss, ReaderMoves
  <2>3. QED
    BY <2>1, <2>2, ReadersSound, Zenon
    DEF CacheInv, TypeOK, IndexMatchesSlots, BlocksSound
<1>2. ASSUME NEW r \in Readers, Return(r)
      PROVE  CacheInv'
  <2>1. UNCHANGED <<slots, index, hand>>
    BY <1>2 DEF Return
  <2>2. ReaderMoves(r)
    BY <1>2, Zenon DEF Return, Idle, ReaderMoves
  <2>3. QED
    BY <2>1, <2>2, ReadersSound, Zenon
    DEF CacheInv, TypeOK, IndexMatchesSlots, BlocksSound
<1>3. ASSUME NEW r \in Readers, InsertBlock(r), ~(per_shard > 0)
      PROVE  CacheInv'
  <2>1. UNCHANGED <<slots, index, hand>>
    BY <1>3, LenType DEF InsertBlock
  <2>2. /\ rd[r].pc = "decoded" /\ rd[r].block = rd[r].key /\ rd[r].key \in BlockKeys
        /\ rd' = [rd EXCEPT ![r].pc = "done"]
        /\ rd[r] \in [pc: {"idle", "decoded", "done"},
                      key: BlockKeys \cup {Empty}, block: BlockKeys \cup {Empty}]
    BY <1>3 DEF InsertBlock, CacheInv, BlocksSound, TypeOK
  <2>3. ReaderMoves(r)
    BY <2>2, Zenon DEF ReaderMoves
  <2>4. QED
    BY <2>1, <2>3, ReadersSound, Zenon
    DEF CacheInv, TypeOK, IndexMatchesSlots, BlocksSound
<1>4. CASE UNCHANGED cacheVars
  BY <1>4, Zenon DEF cacheVars, CacheInv, TypeOK, IndexMatchesSlots, BlocksSound
<1>5. QED
  BY <1>1, <1>2, <1>3, <1>4, CacheHit, CacheInsertAgain, CacheInsert, Zenon DEF CacheNext

LEMMA CacheInvariance == CacheSpec => []CacheInv
<1>1. CacheInit => CacheInv
  BY CacheStart
<1>2. CacheInv /\ [CacheNext]_cacheVars => CacheInv'
  BY CacheStep
<1>3. QED
  BY <1>1, <1>2, PTL DEF CacheSpec

\* The hand, the index and the ring stay within their bounds (cache.rs:52-58).
THEOREM CacheTypes == CacheSpec => []TypeOK
<1>1. CacheInv => TypeOK
  BY DEF CacheInv
<1>2. QED
  BY <1>1, CacheInvariance, PTL

\* Index and ring agree for any number of slots, blocks and readers: insert takes the
\* key of the slot it takes over out of the index, and looks its own key up first
\* (cache.rs:78-99).
THEOREM CacheIndexExact == CacheSpec => []IndexMatchesSlots
<1>1. CacheInv => IndexMatchesSlots
  BY DEF CacheInv
<1>2. QED
  BY <1>1, CacheInvariance, PTL

\* Every reader gets the block it asked for, from the cache or decoded
\* (sstable.rs:249-260).
THEOREM CacheReadsExact == CacheSpec => []ReadersSeeTheirBlock
<1>1. CacheInv => ReadersSeeTheirBlock
  BY DEF CacheInv, BlocksSound, ReadersSeeTheirBlock
<1>2. QED
  BY <1>1, CacheInvariance, PTL

\* free_or_evict returns from its loop whatever was touched: the first circle of the hand
\* takes the bits and the second finds one taken (cache.rs:105-107).
THEOREM SweepNeverFallsThrough == CacheSpec => []SweepFindsSlot
<1>1. CacheInv => SweepFindsSlot
  BY SweepReturns DEF CacheInv, Sound, Victim, SweepFindsSlot
<1>2. QED
  BY <1>1, CacheInvariance, PTL

\* A block that was touched since the hand last passed it is evicted only when every
\* slot holds one that was, too (cache.rs:101-102).
THEOREM TouchedBlocksStay == CacheSpec => TouchedBlocksLast
<1> DEFINE Last == \A k \in DOMAIN index \ DOMAIN index' :
                      slots[index[k]].referenced =>
                         \A i \in Ring : slots[i] # Empty /\ slots[i].referenced
<1>1. CacheInv /\ [CacheNext]_cacheVars => [Last]_cacheVars
  <2> SUFFICES ASSUME CacheInv, CacheNext, NEW k \in DOMAIN index \ DOMAIN index',
                      slots[index[k]].referenced
               PROVE  \A i \in Ring : Touched(i)
    BY DEF Touched
  <2>1. PICK r \in Readers : InsertBlock(r) /\ per_shard # 0
    BY Zenon DEF CacheNext, Hit, Miss, InsertAgain, InsertBlock, Return
  <2>2. Sound
    BY <2>1, LenType DEF Sound, CacheInv
  <2> DEFINE v == FreeOrEvict
             old == v.ring[v.at]
  <2>3. v \in SweepState /\ Victim(v)
    BY <2>2, SweepReturns
  <2> HIDE DEF v
  <2>4. DOMAIN index' = DOMAIN Without(index, old) \cup {rd[r].key}
    BY <2>1, Zenon DEF InsertBlock, v
  <2>5. old # Empty /\ k = old.key
    BY <2>4 DEF Without, Restrict
  <2>6. v.at \in Ring
    BY <2>3 DEF SweepState
  <2>7. slots[v.at] # Empty /\ old.key = slots[v.at].key
    <3>1. old = slots[v.at] \/ (Touched(v.at) /\ old = Cleared(v.at))
      BY <2>3, <2>6 DEF Victim
    <3>2. CASE old = slots[v.at]
      BY <2>5, <3>2
    <3>3. CASE Touched(v.at) /\ old = Cleared(v.at)
      <4>1. slots[v.at] \in Slot
        BY <2>6, <3>3 DEF CacheInv, TypeOK, Touched
      <4>2. Cleared(v.at).key = slots[v.at].key
        BY <4>1, Zenon DEF Cleared, Slot
      <4>3. QED
        BY <3>3, <4>2 DEF Touched
    <3>4. QED
      BY <3>1, <3>2, <3>3
  <2>8. index[k] = v.at
    BY <2>5, <2>6, <2>7 DEF CacheInv, IndexMatchesSlots
  <2>9. QED
    BY <2>3, <2>7, <2>8 DEF Victim, Touched
<1>2. QED
  BY <1>1, CacheInvariance, PTL DEF CacheSpec, TouchedBlocksLast

-------------------------------------------------------------------------------
(* The write buffer: applying operations one after the other.              *)

MemTables == [entries: [Keys -> Record \cup {None}], size: Int]

\* m holds exactly the bytes it counts.
Exact(m) == IsFiniteSet(HeldBytes(m)) /\ m.size = Cardinality(HeldBytes(m))

LEMMA LengthTypes ==
    /\ \A k \in Keys : KeyLen[k] \in Nat
    /\ \A r \in Record : ValueLen(r) \in Nat /\ r # None
BY WriteBufferAssumption DEF ValueLen, Record

LEMMA NewType == NewMemTable \in MemTables /\ IsEmpty(NewMemTable)
BY DEF NewMemTable, MemTables, IsEmpty

LEMMA InsertType ==
    ASSUME NEW m \in MemTables, NEW op \in Op
    PROVE  /\ Insert(m, op) \in MemTables
           /\ \A k \in Keys : Insert(m, op).entries[k]
                                = IF k = op[1] THEN op[2] ELSE m.entries[k]
<1>1. op[1] \in Keys /\ op[2] \in Record
  BY DEF Op
<1>2. m.entries \in [Keys -> Record \cup {None}] /\ m.size \in Int
  BY DEF MemTables
<1>3. m.entries[op[1]] # None => m.entries[op[1]] \in Record
  BY <1>1, <1>2
<1>4. Insert(m, op).size \in Int
  BY <1>1, <1>2, <1>3, LengthTypes DEF Insert
<1>5. Insert(m, op).entries = [m.entries EXCEPT ![op[1]] = op[2]]
  BY DEF Insert
<1>6. Insert(m, op).entries \in [Keys -> Record \cup {None}]
  BY <1>1, <1>2, <1>5
<1>7. Insert(m, op) \in MemTables
  BY <1>4, <1>6 DEF Insert, MemTables
<1>8. QED
  BY <1>1, <1>2, <1>5, <1>7

\* The tables apply goes through.
Applies(f, m, ops) ==
    /\ f \in [0 .. Len(ops) -> MemTables]
    /\ f[0] = m
    /\ \A i \in 1 .. Len(ops) : f[i] = Insert(f[i - 1], ops[i])

LEMMA ApplyRuns ==
    ASSUME NEW m \in MemTables, NEW ops \in Seq(Op)
    PROVE  \E f : Applies(f, m, ops) /\ ApplyAll(m, ops) = f[Len(ops)]
<1> DEFINE n == Len(ops)
           step == [i \in 1 .. n |-> [s \in MemTables |-> Insert(s, ops[i])]]
           Body(f) == [i \in 0 .. n |-> IF i = 0 THEN m ELSE Insert(f[i - 1], ops[i])]
           it == CHOOSE f : f = Body(f)
<1>1. n \in Nat /\ \A i \in 1 .. n : ops[i] \in Op
  OBVIOUS
<1>2. step \in [1 .. n -> [MemTables -> MemTables]]
  BY <1>1, InsertType
<1>3. PICK f \in [0 .. n -> MemTables] : Iterates(f, m, step, n)
  BY <1>1, <1>2, LoopRuns, Zenon
<1>4. \A i \in 1 .. n : f[i] = Insert(f[i - 1], ops[i])
  <2> SUFFICES ASSUME NEW i \in 1 .. n
               PROVE  f[i] = Insert(f[i - 1], ops[i])
    OBVIOUS
  <2>1. f[i] = step[i][f[i - 1]]
    BY <1>3, Zenon DEF Iterates
  <2>2. f[i - 1] \in MemTables
    BY <1>1, <1>3
  <2>3. QED
    BY <2>1, <2>2
<1>5. f[0] = m
  BY <1>3, Zenon DEF Iterates
<1>6. f = Body(f)
  BY <1>1, <1>4, <1>5
<1>7. it = Body(it)
  BY <1>6, Zenon
<1>8. ApplyAll(m, ops) = it[n]
  BY Zenon DEF ApplyAll
<1> HIDE DEF it
<1>9. /\ it[0] = m
      /\ \A i \in 1 .. n : it[i] = Insert(it[i - 1], ops[i])
  <2>1. \A i \in 0 .. n : it[i] = Body(it)[i]
    BY <1>7, Zenon
  <2>2. QED
    BY <1>1, <2>1
<1> DEFINE G == {i \in 0 .. n : it[i] = f[i]}
<1>10. 0 .. n \subseteq G
  <2>1. 0 \in G
    BY <1>1, <1>5, <1>9
  <2>2. \A i \in 1 .. n : i - 1 \in G => i \in G
    BY <1>1, <1>4, <1>9
  <2>3. QED
    BY <1>1, <2>1, <2>2, UpTo, Zenon
<1>11. ApplyAll(m, ops) = f[n]
  BY <1>1, <1>8, <1>10
<1>12. QED
  BY <1>3, <1>4, <1>5, <1>11, Zenon DEF Applies

LEMMA ApplyType ==
    ASSUME NEW m \in MemTables, NEW ops \in Seq(Op)
    PROVE  ApplyAll(m, ops) \in MemTables
<1>1. PICK f : Applies(f, m, ops) /\ ApplyAll(m, ops) = f[Len(ops)]
  BY ApplyRuns, Zenon
<1>2. Len(ops) \in 0 .. Len(ops)
  OBVIOUS
<1>3. QED
  BY <1>1, <1>2 DEF Applies

\* Applying operations leaves each key with the record of the last of them on it, and
\* with the one it had if there is none.
LEMMA ApplyLast ==
    ASSUME NEW m \in MemTables, NEW ops \in Seq(Op), NEW k \in Keys
    PROVE  \/ /\ ApplyAll(m, ops).entries[k] = m.entries[k]
              /\ \A j \in 1 .. Len(ops) : ops[j][1] # k
           \/ \E j \in 1 .. Len(ops) :
                 /\ ops[j] = <<k, ApplyAll(m, ops).entries[k]>>
                 /\ \A l \in j + 1 .. Len(ops) : ops[l][1] # k
<1> DEFINE n == Len(ops)
<1>1. PICK f : Applies(f, m, ops) /\ ApplyAll(m, ops) = f[n]
  BY ApplyRuns, Zenon
<1> DEFINE Said(i) ==
              \/ f[i].entries[k] = m.entries[k] /\ \A j \in 1 .. i : ops[j][1] # k
              \/ \E j \in 1 .. i : /\ ops[j] = <<k, f[i].entries[k]>>
                                   /\ \A l \in j + 1 .. i : ops[l][1] # k
           G == {i \in 0 .. n : Said(i)}
<1>2. n \in Nat /\ n \in 0 .. n /\ \A i \in 1 .. n : ops[i] \in Op
  OBVIOUS
<1>3. 0 \in G
  <2>1. f[0] = m
    BY <1>1 DEF Applies
  <2>2. QED
    BY <1>2, <2>1
<1>4. ASSUME NEW i \in 1 .. n, i - 1 \in G
      PROVE  i \in G
  <2>1. f[i] = Insert(f[i - 1], ops[i]) /\ f[i - 1] \in MemTables /\ ops[i] \in Op
    BY <1>1, <1>2 DEF Applies
  <2>2. f[i].entries[k] = IF k = ops[i][1] THEN ops[i][2] ELSE f[i - 1].entries[k]
    BY <2>1, InsertType
  <2>3. Said(i - 1) /\ i \in 0 .. n
    BY <1>2, <1>4
  <2>4. CASE k = ops[i][1]
    <3>1. ops[i] = <<k, f[i].entries[k]>>
      BY <2>1, <2>2, <2>4 DEF Op
    <3>2. i \in 1 .. i /\ i + 1 .. i = {}
      OBVIOUS
    <3>3. QED
      BY <2>3, <3>1, <3>2
  <2>5. CASE k # ops[i][1]
    <3>1. f[i].entries[k] = f[i - 1].entries[k]
      BY <2>2, <2>5
    <3>2. CASE f[i - 1].entries[k] = m.entries[k] /\ \A j \in 1 .. i - 1 : ops[j][1] # k
      BY <2>3, <2>5, <3>1, <3>2, SMTT(30)
    <3>3. ASSUME NEW j \in 1 .. i - 1, ops[j] = <<k, f[i - 1].entries[k]>>,
                 \A l \in j + 1 .. i - 1 : ops[l][1] # k
          PROVE  Said(i)
      <4>1. j \in 1 .. i /\ \A l \in j + 1 .. i : ops[l][1] # k
        BY <2>5, <3>3
      <4>2. QED
        BY <3>1, <3>3, <4>1
    <3>4. QED
      BY <2>3, <3>2, <3>3
  <2>6. QED
    BY <2>4, <2>5
<1>5. 0 .. n \subseteq G
  BY <1>2, <1>3, <1>4, UpTo, Zenon
<1>6. Said(n)
  BY <1>2, <1>5, Zenon
<1>7. QED
  BY <1>1, <1>6

-------------------------------------------------------------------------------
(* The write buffer: its size.                                             *)

\* The bytes of the keys other than k.
OtherBytes(m, k) == UNION {{x} \X (1 .. LengthOf(m, x)) : x \in Keys \ {k}}

LEMMA BytesOfOne ==
    ASSUME NEW k, NEW n \in Nat
    PROVE  IsFiniteSet({k} \X (1 .. n)) /\ Cardinality({k} \X (1 .. n)) = n
<1>1. IsFiniteSet(1 .. n) /\ Cardinality(1 .. n) = n
  <2>1. IsFiniteSet(1 .. n) /\ Cardinality(1 .. n) = IF 1 > n THEN 0 ELSE n - 1 + 1
    BY FS_Interval
  <2>2. QED
    BY <2>1
<1>2. IsFiniteSet({k}) /\ Cardinality({k}) = 1
  BY FS_Singleton
<1>3. /\ IsFiniteSet({k} \X (1 .. n))
      /\ Cardinality({k} \X (1 .. n)) = Cardinality({k}) * Cardinality(1 .. n)
  BY <1>1, <1>2, FS_Product, Zenon
<1>4. QED
  BY <1>1, <1>2, <1>3

\* The bytes of one key are counted apart from those of the others.
LEMMA HeldSplit ==
    ASSUME NEW m, NEW k \in Keys, LengthOf(m, k) \in Nat
    PROVE  /\ IsFiniteSet(HeldBytes(m)) <=> IsFiniteSet(OtherBytes(m, k))
           /\ IsFiniteSet(HeldBytes(m)) =>
                 Cardinality(HeldBytes(m)) = Cardinality(OtherBytes(m, k)) + LengthOf(m, k)
<1> DEFINE R == OtherBytes(m, k)
           B == {k} \X (1 .. LengthOf(m, k))
<1>1. HeldBytes(m) = R \cup B
  BY DEF HeldBytes, OtherBytes
<1>2. R \cap B = {}
  BY DEF OtherBytes
<1>3. IsFiniteSet(B) /\ Cardinality(B) = LengthOf(m, k)
  BY BytesOfOne, Zenon
<1>4. IsFiniteSet(HeldBytes(m)) => IsFiniteSet(R)
  BY <1>1, FS_Subset
<1>5. IsFiniteSet(R) =>
         /\ IsFiniteSet(R \cup B) /\ Cardinality(R) \in Nat
         /\ Cardinality(R \cup B) = Cardinality(R) + Cardinality(B) - Cardinality(R \cap B)
  BY <1>3, FS_Union, FS_CardinalityType, Zenon
<1>6. Cardinality(R \cap B) = 0
  BY <1>2, FS_EmptySet, Zenon
<1>7. QED
  BY <1>1, <1>3, <1>4, <1>5, <1>6

LEMMA LengthType ==
    ASSUME NEW m \in MemTables, NEW k \in Keys
    PROVE  LengthOf(m, k) \in Nat
BY LengthTypes DEF LengthOf, MemTables

\* insert adjusts the size by what the key and its value really take.
LEMMA InsertExact ==
    ASSUME NEW m \in MemTables, NEW op \in Op, Exact(m)
    PROVE  Exact(Insert(m, op))
<1> DEFINE k == op[1]
           i == Insert(m, op)
<1>1. k \in Keys /\ op[2] \in Record
  BY DEF Op
<1>2. i \in MemTables /\ \A x \in Keys : i.entries[x] = IF x = k THEN op[2] ELSE m.entries[x]
  BY InsertType
<1>3. m.size \in Int /\ (m.entries[k] # None => m.entries[k] \in Record)
  BY <1>1 DEF MemTables
<1>4. i.size = m.size - LengthOf(m, k) + LengthOf(i, k)
  <2>1. LengthOf(i, k) = KeyLen[k] + ValueLen(op[2])
    BY <1>1, <1>2, LengthTypes DEF LengthOf
  <2>2. i.size = IF m.entries[k] = None
                 THEN m.size + KeyLen[k] + ValueLen(op[2])
                 ELSE m.size - ValueLen(m.entries[k]) + ValueLen(op[2])
    BY DEF Insert
  <2>3. QED
    BY <1>1, <1>3, <2>1, <2>2, LengthTypes, SMTT(30) DEF LengthOf
<1> HIDE DEF i
<1>5. OtherBytes(i, k) = OtherBytes(m, k)
  <2>1. \A x \in Keys \ {k} : LengthOf(i, x) = LengthOf(m, x)
    BY <1>2 DEF LengthOf
  <2>2. QED
    BY <2>1 DEF OtherBytes
<1>6. LengthOf(m, k) \in Nat /\ LengthOf(i, k) \in Nat
  BY <1>1, <1>2, LengthType
<1>7. /\ IsFiniteSet(OtherBytes(m, k))
      /\ m.size = Cardinality(OtherBytes(m, k)) + LengthOf(m, k)
  BY <1>1, <1>6, HeldSplit DEF Exact
<1>8. /\ IsFiniteSet(HeldBytes(i))
      /\ Cardinality(HeldBytes(i)) = Cardinality(OtherBytes(m, k)) + LengthOf(i, k)
  BY <1>1, <1>5, <1>6, <1>7, HeldSplit
<1>9. Cardinality(OtherBytes(m, k)) \in Nat
  BY <1>7, FS_CardinalityType
<1>10. i.size = Cardinality(HeldBytes(i))
  BY <1>4, <1>6, <1>7, <1>8, <1>9
<1>11. QED
  BY <1>8, <1>10 DEF Exact, i

LEMMA ApplyExact ==
    ASSUME NEW m \in MemTables, NEW ops \in Seq(Op), Exact(m)
    PROVE  Exact(ApplyAll(m, ops))
<1> DEFINE n == Len(ops)
<1>1. PICK f : Applies(f, m, ops) /\ ApplyAll(m, ops) = f[n]
  BY ApplyRuns, Zenon
<1> DEFINE G == {i \in 0 .. n : Exact(f[i])}
<1>2. n \in Nat /\ n \in 0 .. n /\ \A i \in 1 .. n : ops[i] \in Op
  OBVIOUS
<1>3. 0 \in G
  BY <1>1, <1>2 DEF Applies
<1>4. ASSUME NEW i \in 1 .. n, i - 1 \in G
      PROVE  i \in G
  <2>1. f[i] = Insert(f[i - 1], ops[i]) /\ f[i - 1] \in MemTables /\ ops[i] \in Op
    BY <1>1, <1>2 DEF Applies
  <2>2. QED
    BY <1>4, <2>1, InsertExact
<1>5. 0 .. n \subseteq G
  BY <1>2, <1>3, <1>4, UpTo, Zenon
<1>6. QED
  BY <1>1, <1>2, <1>5

LEMMA EmptyExact ==
    /\ Exact(NewMemTable)
    /\ \A m \in MemTables : Exact(m) /\ IsEmpty(m) => m = NewMemTable
<1>1. ASSUME NEW m, \A k \in Keys : m.entries[k] = None
      PROVE  HeldBytes(m) = {}
  <2>1. \A k \in Keys : LengthOf(m, k) = 0
    BY <1>1 DEF LengthOf
  <2>2. QED
    BY <2>1 DEF HeldBytes
<1>2. Exact(NewMemTable)
  BY <1>1, FS_EmptySet, Zenon DEF Exact, NewMemTable
<1>3. ASSUME NEW m \in MemTables, Exact(m), IsEmpty(m)
      PROVE  m = NewMemTable
  <2>1. m.size = 0
    BY <1>1, <1>3, FS_EmptySet DEF Exact, IsEmpty
  <2>2. m.entries = [k \in Keys |-> None]
    BY <1>3 DEF IsEmpty, MemTables
  <2>3. QED
    BY <2>1, <2>2 DEF MemTables, NewMemTable
<1>4. QED
  BY <1>2, <1>3

-------------------------------------------------------------------------------
(* The write buffer: the log.                                              *)

\* A number below 2^32 survives the cast.
LEMMA SmallMod ==
    ASSUME NEW a \in Nat, NEW b \in Nat, a < b
    PROVE  a % b = a
OBVIOUS

\* decode finds the fields of an operation where encode put them.
LEMMA EncodedFields ==
    ASSUME NEW ops \in Seq(Op)
    PROVE  /\ Encode(ops)[1] = Len(ops) % U32 /\ Len(Encode(ops)) = 1 + Fields * Len(ops)
           /\ \A i \in 1 .. Len(ops) : \A f \in 1 .. Fields :
                 FieldsAt(Encode(ops), i)[f] = FieldsOfOp(ops[i])[f]
<1> DEFINE n == Len(ops)
           bytes == Encode(ops)
<1>1. n \in Nat
  OBVIOUS
<1>2. bytes[1] = n % U32 /\ Len(bytes) = 1 + Fields * n
  BY <1>1 DEF Encode, Fields
<1>3. ASSUME NEW i \in 1 .. n, NEW f \in 1 .. Fields
      PROVE  FieldsAt(bytes, i)[f] = FieldsOfOp(ops[i])[f]
  <2> DEFINE p == 1 + Fields * (i - 1) + f
  <2>1. p \in 1 .. 1 + Fields * n /\ p # 1
    BY <1>1 DEF Fields
  <2>2. ((p - 2) \div Fields) + 1 = i /\ ((p - 2) % Fields) + 1 = f
    BY <1>1 DEF Fields
  <2>3. bytes[p] = FieldsOfOp(ops[((p - 2) \div Fields) + 1])[((p - 2) % Fields) + 1]
    BY <2>1 DEF Encode
  <2>4. FieldsAt(bytes, i)[f] = bytes[p]
    BY DEF FieldsAt
  <2>5. QED
    BY <2>2, <2>3, <2>4
<1>4. QED
  BY <1>2, <1>3

\* decode undoes encode, and accepts what it writes within the limits.
LEMMA DecodeEncode ==
    ASSUME NEW ops \in Seq(Op), WithinLimits(Encode(ops))
    PROVE  /\ Decodable(Encode(ops)) /\ ~Garbled(Encode(ops))
           /\ Decode(Encode(ops)) = ops
<1> DEFINE n == Len(ops)
           bytes == Encode(ops)
<1>0. MaxLen \in Nat /\ U32 \in Nat /\ MaxLen < U32
  BY WriteBufferAssumption
<1>1. n \in Nat /\ ops \in [1 .. n -> Op]
  OBVIOUS
<1>2. /\ bytes[1] = n % U32 /\ Len(bytes) = 1 + Fields * n
      /\ \A i \in 1 .. n : \A f \in 1 .. Fields : FieldsAt(bytes, i)[f] = FieldsOfOp(ops[i])[f]
  BY EncodedFields, Zenon
<1>3. (Len(bytes) - 1) \div Fields = n
  <2> HIDE DEF bytes, n
  <2>1. QED
    BY <1>1, <1>2 DEF Fields
<1>4. /\ n < U32
      /\ \A i \in 1 .. n : /\ KeyLen[FieldsAt(bytes, i)[2]] <= MaxLen
                           /\ FieldsAt(bytes, i)[5] <= MaxLen
  BY <1>3, Zenon DEF WithinLimits
<1> HIDE DEF bytes
<1>5. bytes[1] = n
  BY <1>0, <1>1, <1>2, <1>4, SmallMod
<1>6. ASSUME NEW i \in 1 .. n
      PROVE  /\ Acceptable(FieldsAt(bytes, i)) /\ ~Misread(FieldsAt(bytes, i))
             /\ <<FieldsAt(bytes, i)[2],
                  IF FieldsAt(bytes, i)[3] = 1 THEN Tombstone ELSE FieldsAt(bytes, i)[5]>> = ops[i]
  <2> DEFINE op == ops[i]
             f == FieldsAt(bytes, i)
             kl == KeyLen[op[1]]
             vl == ValueLen(op[2])
  <2>1. op \in Op /\ op[1] \in Keys /\ op[2] \in Record /\ op = <<op[1], op[2]>>
    BY <1>1 DEF Op
  <2>2. /\ f[1] = kl % U32 /\ f[2] = op[1]
        /\ f[3] = (IF op[2] = Tombstone THEN 1 ELSE 0)
        /\ f[4] = vl % U32 /\ f[5] = vl
    BY <1>2 DEF Fields, FieldsOfOp
  <2>3. KeyLen[f[2]] <= MaxLen /\ f[5] <= MaxLen
    BY <1>4, Zenon
  <2> HIDE DEF f
  <2>4. kl \in Nat /\ vl \in Nat
    BY <2>1, LengthTypes, Zenon
  <2>5. kl <= MaxLen /\ vl <= MaxLen
    BY <2>2, <2>3, Zenon
  <2>6. op[2] = Tombstone => vl = 0
    BY DEF ValueLen
  <2> HIDE DEF kl, vl
  <2>7. kl % U32 = kl /\ vl % U32 = vl
    <3>1. kl < U32 /\ vl < U32
      BY <1>0, <2>4, <2>5
    <3>2. QED
      BY <1>0, <2>4, <3>1, SmallMod, Zenon
  <2>8. f[1] = kl /\ f[4] = vl
    BY <2>2, <2>7, Zenon
  <2>9. Acceptable(f)
    BY <2>2, <2>5, <2>6, <2>8 DEF Acceptable
  <2>10. ~Misread(f)
    BY <2>2, <2>8, Zenon DEF Misread, kl
  <2>11. <<f[2], IF f[3] = 1 THEN Tombstone ELSE f[5]>> = op
    BY <2>1, <2>2 DEF vl, ValueLen
  <2>12. QED
    BY <2>9, <2>10, <2>11 DEF f
<1>7. ~Garbled(bytes)
  BY <1>5, <1>6, Zenon DEF Garbled
<1>8. Decodable(bytes)
  BY <1>2, <1>5, <1>6, <1>7 DEF Decodable
<1>9. Decode(bytes) = ops
  BY <1>1, <1>5, <1>6, Zenon DEF Decode
<1>10. QED
  BY <1>7, <1>8, <1>9 DEF bytes

\* The records write appends, and those of them within the limits.
LogRecords == {Encode(ops) : ops \in Seq(Op)}
Encodings == {b \in LogRecords : WithinLimits(b)}

LEMMA EncodingsDecode ==
    ASSUME NEW b \in Encodings
    PROVE  Decodable(b) /\ ~Garbled(b) /\ Decode(b) \in Seq(Op)
<1>1. PICK ops \in Seq(Op) : b = Encode(ops) /\ WithinLimits(b)
  BY Zenon DEF Encodings, LogRecords
<1>2. QED
  BY <1>1, DecodeEncode

\* The tables replay goes through.
Replays(f, records) ==
    /\ f \in [0 .. Len(records) -> MemTables]
    /\ f[0] = NewMemTable
    /\ \A i \in 1 .. Len(records) : f[i] = ApplyAll(f[i - 1], Decode(records[i]))

LEMMA ReplayRuns ==
    ASSUME NEW records \in Seq(Encodings)
    PROVE  \E f : Replays(f, records) /\ Replay(records) = f[Len(records)]
<1> DEFINE n == Len(records)
           step == [i \in 1 .. n |-> [s \in MemTables |-> ApplyAll(s, Decode(records[i]))]]
           Body(f) == [i \in 0 .. n |->
                         IF i = 0 THEN NewMemTable ELSE ApplyAll(f[i - 1], Decode(records[i]))]
           it == CHOOSE f : f = Body(f)
<1>0. n \in Nat /\ \A i \in 1 .. n : i - 1 \in 0 .. n
  OBVIOUS
<1>1. n \in Nat /\ \A i \in 1 .. n : Decode(records[i]) \in Seq(Op)
  BY EncodingsDecode
<1>2. step \in [1 .. n -> [MemTables -> MemTables]]
  BY <1>1, ApplyType
<1>3. PICK f \in [0 .. n -> MemTables] : Iterates(f, NewMemTable, step, n)
  BY <1>1, <1>2, LoopRuns, NewType, Zenon
<1>4. \A i \in 1 .. n : f[i] = ApplyAll(f[i - 1], Decode(records[i]))
  <2> SUFFICES ASSUME NEW i \in 1 .. n
               PROVE  f[i] = ApplyAll(f[i - 1], Decode(records[i]))
    OBVIOUS
  <2>1. f[i] = step[i][f[i - 1]]
    BY <1>3, Zenon DEF Iterates
  <2>2. f[i - 1] \in MemTables
    BY <1>0, <1>3, Zenon
  <2>3. QED
    BY <2>1, <2>2
<1>5. f[0] = NewMemTable
  BY <1>3, Zenon DEF Iterates
<1>6. f = Body(f)
  BY <1>1, <1>4, <1>5
<1>7. it = Body(it)
  BY <1>6, Zenon
<1>8. Replay(records) = it[n]
  BY Zenon DEF Replay
<1> HIDE DEF it
<1>9. /\ it[0] = NewMemTable
      /\ \A i \in 1 .. n : it[i] = ApplyAll(it[i - 1], Decode(records[i]))
  <2>1. \A i \in 0 .. n : it[i] = Body(it)[i]
    BY <1>7, Zenon
  <2>2. QED
    BY <1>1, <2>1
<1> DEFINE G == {i \in 0 .. n : it[i] = f[i]}
<1>10. 0 .. n \subseteq G
  <2>1. 0 \in G
    BY <1>1, <1>5, <1>9
  <2>2. \A i \in 1 .. n : i - 1 \in G => i \in G
    BY <1>1, <1>4, <1>9
  <2>3. QED
    BY <1>1, <2>1, <2>2, UpTo, Zenon
<1>11. Replay(records) = f[n]
  BY <1>1, <1>8, <1>10
<1>12. QED
  BY <1>3, <1>4, <1>5, <1>11, Zenon DEF Replays

LEMMA ReplayExact ==
    ASSUME NEW records \in Seq(Encodings)
    PROVE  Replay(records) \in MemTables /\ Exact(Replay(records))
<1> DEFINE n == Len(records)
<1>1. PICK f : Replays(f, records) /\ Replay(records) = f[n]
  BY ReplayRuns, Zenon
<1> DEFINE G == {i \in 0 .. n : Exact(f[i])}
<1>2. /\ n \in Nat /\ n \in 0 .. n
      /\ \A i \in 1 .. n : i - 1 \in 0 .. n /\ Decode(records[i]) \in Seq(Op)
  BY EncodingsDecode
<1>3. 0 \in G
  BY <1>1, <1>2, EmptyExact DEF Replays
<1>4. ASSUME NEW i \in 1 .. n, i - 1 \in G
      PROVE  i \in G
  <2>1. f[i] = ApplyAll(f[i - 1], Decode(records[i])) /\ f[i - 1] \in MemTables
    BY <1>1, <1>2, Zenon DEF Replays
  <2>2. QED
    BY <1>2, <1>4, <2>1, ApplyExact
<1>5. 0 .. n \subseteq G
  BY <1>2, <1>3, <1>4, UpTo, Zenon
<1>6. f[n] \in MemTables
  BY <1>1, <1>2 DEF Replays
<1>7. QED
  BY <1>1, <1>2, <1>5, <1>6

LEMMA ReplayEmpty == Replay(<<>>) = NewMemTable
<1>1. <<>> \in Seq(Encodings) /\ Len(<<>>) = 0
  OBVIOUS
<1>2. PICK f : Replays(f, <<>>) /\ Replay(<<>>) = f[Len(<<>>)]
  BY <1>1, ReplayRuns, Zenon
<1>3. QED
  BY <1>1, <1>2 DEF Replays

\* Replaying one record more is applying its operations.
LEMMA ReplayAppend ==
    ASSUME NEW records \in Seq(Encodings), NEW ops \in Seq(Op), WithinLimits(Encode(ops))
    PROVE  /\ Append(records, Encode(ops)) \in Seq(Encodings)
           /\ Replay(Append(records, Encode(ops))) = ApplyAll(Replay(records), ops)
<1> DEFINE n == Len(records)
           longer == Append(records, Encode(ops))
<1>1. Encode(ops) \in Encodings
  BY Zenon DEF Encodings, LogRecords
<1>2. /\ longer \in Seq(Encodings) /\ Len(longer) = n + 1 /\ n \in Nat
      /\ longer[n + 1] = Encode(ops) /\ \A i \in 1 .. n : longer[i] = records[i]
  BY <1>1
<1> HIDE DEF longer
<1>3. PICK f : Replays(f, records) /\ Replay(records) = f[n]
  BY ReplayRuns, Zenon
<1>4. PICK g : Replays(g, longer) /\ Replay(longer) = g[Len(longer)]
  BY <1>2, ReplayRuns, Zenon
<1> DEFINE G == {i \in 0 .. n : g[i] = f[i]}
<1>5. 0 \in G
  BY <1>2, <1>3, <1>4 DEF Replays
<1>6. ASSUME NEW i \in 1 .. n, i - 1 \in G
      PROVE  i \in G
  <2>1. f[i] = ApplyAll(f[i - 1], Decode(records[i]))
    BY <1>3 DEF Replays
  <2>2. i \in 1 .. Len(longer)
    BY <1>2
  <2>3. g[i] = ApplyAll(g[i - 1], Decode(longer[i]))
    BY <1>4, <2>2 DEF Replays
  <2>4. QED
    BY <1>2, <1>6, <2>1, <2>3
<1>7. 0 .. n \subseteq G
  BY <1>2, <1>5, <1>6, UpTo, Zenon
<1>8. g[n] = f[n]
  BY <1>2, <1>7
<1>9. n + 1 \in 1 .. Len(longer) /\ n + 1 - 1 = n
  BY <1>2
<1>10. g[n + 1] = ApplyAll(g[n], Decode(longer[n + 1]))
  BY <1>4, <1>9 DEF Replays
<1>11. QED
  BY <1>2, <1>3, <1>4, <1>8, <1>10, DecodeEncode DEF longer

\* What one record more says.
LEMMA LastWriteStep ==
    ASSUME NEW records, NEW n \in Nat, NEW P, P \subseteq 1 .. n - 1, NEW k \in Keys,
           Decode(records[n]) \in Seq(Op), NEW m \in MemTables,
           LastWrite(records, P, k, m.entries[k])
    PROVE  LastWrite(records, P \cup {n}, k, ApplyAll(m, Decode(records[n])).entries[k])
<1> DEFINE ops == Decode(records[n])
           Q == P \cup {n}
           r == ApplyAll(m, ops).entries[k]
<1>1. ops \in Seq(Op) /\ DOMAIN ops = 1 .. Len(ops) /\ Len(ops) \in Nat
  OBVIOUS
<1>2. n \notin P /\ \A i \in P : i \in Nat /\ i < n
  OBVIOUS
<1>3. ASSUME r = m.entries[k], \A j \in 1 .. Len(ops) : ops[j][1] # k
      PROVE  LastWrite(records, Q, k, r)
  <2>1. CASE /\ m.entries[k] = None
             /\ \A i \in P : \A j \in DOMAIN Decode(records[i]) : Decode(records[i])[j][1] # k
    <3>1. \A i \in Q : \A j \in DOMAIN Decode(records[i]) : Decode(records[i])[j][1] # k
      BY <1>1, <1>3, <2>1, Zenon
    <3>2. QED
      BY <1>3, <2>1, <3>1, Zenon DEF LastWrite
  <2>2. ASSUME NEW i \in P, NEW j \in DOMAIN Decode(records[i]),
               Decode(records[i])[j] = <<k, m.entries[k]>>,
               \A h \in P : \A l \in DOMAIN Decode(records[h]) :
                  h > i \/ (h = i /\ l > j) => Decode(records[h])[l][1] # k
        PROVE  LastWrite(records, Q, k, r)
    <3>1. i \in Q /\ \A h \in Q : \A l \in DOMAIN Decode(records[h]) :
             h > i \/ (h = i /\ l > j) => Decode(records[h])[l][1] # k
      BY <1>1, <1>3, <2>2, Zenon
    <3>2. QED
      BY <1>3, <2>2, <3>1, Zenon DEF LastWrite
  <2>3. QED
    BY <2>1, <2>2, Zenon DEF LastWrite
<1>4. ASSUME NEW j \in 1 .. Len(ops), ops[j] = <<k, r>>,
             \A l \in j + 1 .. Len(ops) : ops[l][1] # k
      PROVE  LastWrite(records, Q, k, r)
  <2>1. \A h \in P : ~(h > n) /\ h # n
    BY <1>2
  <2>2. ~(n > n) /\ \A l \in DOMAIN ops : l > j => ops[l][1] # k
    <3>1. \A l \in 1 .. Len(ops) : l > j => l \in j + 1 .. Len(ops)
      BY <1>1
    <3>2. ~(n > n)
      OBVIOUS
    <3>3. QED
      BY <1>1, <1>4, <3>1, <3>2, Zenon
  <2>3. \A h \in Q : \A l \in DOMAIN Decode(records[h]) :
           h > n \/ (h = n /\ l > j) => Decode(records[h])[l][1] # k
    BY <2>1, <2>2, Zenon
  <2>4. n \in Q /\ j \in DOMAIN Decode(records[n])
    BY <1>1, Zenon
  <2>5. QED
    BY <1>4, <2>3, <2>4, Zenon DEF LastWrite
<1>5. \/ r = m.entries[k] /\ \A j \in 1 .. Len(ops) : ops[j][1] # k
      \/ \E j \in 1 .. Len(ops) : ops[j] = <<k, r>> /\ \A l \in j + 1 .. Len(ops) : ops[l][1] # k
  BY <1>1, ApplyLast, Zenon
<1> HIDE DEF ops, r, Q
<1>6. LastWrite(records, Q, k, r)
  BY <1>3, <1>4, <1>5, Zenon
<1>7. QED
  BY <1>6 DEF ops, r, Q

\* Nothing is said by records that are not looked at, and nothing by no records.
LEMMA LastWriteSame ==
    ASSUME NEW records, NEW others, NEW P, \A i \in P : others[i] = records[i],
           NEW k, NEW r, LastWrite(records, P, k, r)
    PROVE  LastWrite(others, P, k, r)
<1>1. CASE r = None /\ \A i \in P : \A j \in DOMAIN Decode(records[i]) : Decode(records[i])[j][1] # k
  <2>1. \A i \in P : \A j \in DOMAIN Decode(others[i]) : Decode(others[i])[j][1] # k
    BY <1>1, Zenon
  <2>2. QED
    BY <1>1, <2>1, Zenon DEF LastWrite
<1>2. ASSUME NEW i \in P, NEW j \in DOMAIN Decode(records[i]),
             Decode(records[i])[j] = <<k, r>>,
             \A h \in P : \A l \in DOMAIN Decode(records[h]) :
                h > i \/ (h = i /\ l > j) => Decode(records[h])[l][1] # k
      PROVE  LastWrite(others, P, k, r)
  <2>1. j \in DOMAIN Decode(others[i]) /\ Decode(others[i])[j] = <<k, r>>
    BY <1>2, Zenon
  <2>2. \A h \in P : \A l \in DOMAIN Decode(others[h]) :
           h > i \/ (h = i /\ l > j) => Decode(others[h])[l][1] # k
    BY <1>2, Zenon
  <2>3. QED
    BY <2>1, <2>2, Zenon DEF LastWrite
<1>3. QED
  BY <1>1, <1>2, Zenon DEF LastWrite

LEMMA LastWriteNone ==
    ASSUME NEW records, NEW k
    PROVE  LastWrite(records, {}, k, None)
BY Zenon DEF LastWrite

\* Replay rebuilds, for every key, the record of the last operation on it.
LEMMA ReplayLast ==
    ASSUME NEW records \in Seq(Encodings), NEW k \in Keys
    PROVE  LastWrite(records, DOMAIN records, k, Replay(records).entries[k])
<1> DEFINE n == Len(records)
<1>1. PICK f : Replays(f, records) /\ Replay(records) = f[n]
  BY ReplayRuns, Zenon
<1> DEFINE G == {i \in 0 .. n : LastWrite(records, 1 .. i, k, f[i].entries[k])}
<1>2. /\ n \in Nat /\ n \in 0 .. n /\ 0 \in 0 .. n /\ 1 .. 0 = {} /\ DOMAIN records = 1 .. n
      /\ \A i \in 1 .. n : i - 1 \in 0 .. n /\ i \in 0 .. n
  OBVIOUS
<1>3. 0 \in G
  <2>1. f[0].entries[k] = None
    BY <1>1 DEF Replays, NewMemTable
  <2>2. QED
    BY <1>2, <2>1, LastWriteNone, Zenon
<1>4. ASSUME NEW i \in 1 .. n, i - 1 \in G
      PROVE  i \in G
  <2>1. f[i] = ApplyAll(f[i - 1], Decode(records[i])) /\ f[i - 1] \in MemTables
    BY <1>1, <1>2, Zenon DEF Replays
  <2>2. LastWrite(records, 1 .. i - 1, k, f[i - 1].entries[k])
    BY <1>4, Zenon
  <2>3. i \in Nat /\ (1 .. i - 1) \cup {i} = 1 .. i /\ Decode(records[i]) \in Seq(Op)
    <3>1. records[i] \in Encodings
      OBVIOUS
    <3>2. Decode(records[i]) \in Seq(Op)
      BY <3>1, EncodingsDecode
    <3>3. QED
      BY <1>2, <3>2
  <2>4. LastWrite(records, (1 .. i - 1) \cup {i}, k,
                  ApplyAll(f[i - 1], Decode(records[i])).entries[k])
    BY <2>1, <2>2, <2>3, LastWriteStep, Zenon
  <2>5. QED
    BY <1>2, <2>1, <2>3, <2>4, Zenon
<1>5. 0 .. n \subseteq G
  BY <1>2, <1>3, <1>4, UpTo, Zenon
<1>6. QED
  BY <1>1, <1>2, <1>5, Zenon

-------------------------------------------------------------------------------
(* The invariant of the write buffer: its size is exact, and for each key  *)
(* it has the last operation that was logged without an error.             *)

Limited(records) == \A i \in DOMAIN records : WithinLimits(records[i])

\* m is what the log says of the writes that succeeded, and what it replays to if
\* all did.
Shows(records, skip, m) ==
    Limited(records) =>
        /\ \A k \in Keys : LastWrite(records, DOMAIN records \ skip, k, m.entries[k])
        /\ skip = {} => Replay(records) = m

BufferInv ==
    /\ mem \in MemTables /\ Exact(mem)
    /\ batch \in Seq(Op)
    /\ log \in Seq(LogRecords)
    /\ refused \subseteq 1 .. Len(log)
    /\ ~up => ~wal /\ refused = {}
    /\ wal /\ ~failed => Shows(log, refused, mem)

LEMMA LimitedLog ==
    ASSUME NEW records \in Seq(LogRecords), Limited(records)
    PROVE  records \in Seq(Encodings)
<1>1. DOMAIN records = 1 .. Len(records)
  OBVIOUS
<1>2. \A i \in 1 .. Len(records) : records[i] \in Encodings
  BY <1>1 DEF Limited, Encodings
<1>3. QED
  BY <1>2

\* The log with one record more.
LEMMA LongerLog ==
    ASSUME NEW records \in Seq(LogRecords), NEW ops \in Seq(Op)
    PROVE  LET longer == Append(records, Encode(ops))
           IN  /\ longer \in Seq(LogRecords) /\ Len(longer) = Len(records) + 1
               /\ longer[Len(records) + 1] = Encode(ops)
               /\ \A i \in 1 .. Len(records) : longer[i] = records[i]
               /\ DOMAIN longer = (DOMAIN records) \cup {Len(records) + 1}
               /\ DOMAIN records = 1 .. Len(records)
               /\ Limited(longer) => Limited(records) /\ WithinLimits(Encode(ops))
<1> DEFINE longer == Append(records, Encode(ops))
           n == Len(records)
<1>1. Encode(ops) \in LogRecords /\ n \in Nat
  BY DEF LogRecords
<1>2. /\ longer \in Seq(LogRecords) /\ Len(longer) = n + 1
      /\ longer[n + 1] = Encode(ops) /\ \A i \in 1 .. n : longer[i] = records[i]
      /\ DOMAIN longer = 1 .. n + 1 /\ DOMAIN records = 1 .. n
  BY <1>1
<1>3. 1 .. n + 1 = (1 .. n) \cup {n + 1}
  BY <1>1
<1> HIDE DEF longer, n
<1>4. Limited(longer) => Limited(records) /\ WithinLimits(Encode(ops))
  BY <1>2, <1>3, Zenon DEF Limited
<1>5. QED
  BY <1>2, <1>3, <1>4 DEF longer, n

\* An empty buffer and an empty log.
LEMMA EmptyShows == Shows(<<>>, {}, NewMemTable)
<1>1. \A k \in Keys : NewMemTable.entries[k] = None
  BY DEF NewMemTable
<1>2. (DOMAIN <<>>) \ {} = {}
  OBVIOUS
<1>3. QED
  BY <1>1, <1>2, LastWriteNone, ReplayEmpty, Zenon DEF Shows

\* A write that is logged and applied.
LEMMA WrittenShows ==
    ASSUME NEW records \in Seq(LogRecords), NEW skip, skip \subseteq 1 .. Len(records),
           NEW m \in MemTables, NEW ops \in Seq(Op), Shows(records, skip, m)
    PROVE  Shows(Append(records, Encode(ops)), skip, ApplyAll(m, ops))
<1> DEFINE longer == Append(records, Encode(ops))
           n == Len(records)
           P == DOMAIN records \ skip
<1> SUFFICES ASSUME Limited(longer)
             PROVE  /\ \A k \in Keys : LastWrite(longer, DOMAIN longer \ skip, k,
                                                 ApplyAll(m, ops).entries[k])
                    /\ skip = {} => Replay(longer) = ApplyAll(m, ops)
  BY Zenon DEF Shows
<1>1. /\ longer \in Seq(LogRecords) /\ longer[n + 1] = Encode(ops)
      /\ \A i \in 1 .. n : longer[i] = records[i]
      /\ DOMAIN longer = (DOMAIN records) \cup {n + 1} /\ DOMAIN records = 1 .. n
      /\ Limited(records) /\ WithinLimits(Encode(ops))
  BY LongerLog, Zenon
<1>2. /\ records \in Seq(Encodings) /\ Decode(Encode(ops)) = ops
      /\ \A k \in Keys : LastWrite(records, P, k, m.entries[k])
      /\ skip = {} => Replay(records) = m
  BY <1>1, LimitedLog, DecodeEncode, Zenon DEF Shows
<1>3. skip = {} => Replay(longer) = ApplyAll(m, ops)
  BY <1>1, <1>2, ReplayAppend, Zenon
<1> HIDE DEF longer
<1>4. n \in Nat /\ n + 1 \in Nat /\ P \subseteq 1 .. (n + 1) - 1
      /\ DOMAIN longer \ skip = P \cup {n + 1}
  <2>1. n \in Nat /\ n + 1 \in Nat /\ (n + 1) - 1 = n /\ n + 1 \notin 1 .. n
    OBVIOUS
  <2>2. n + 1 \notin skip
    BY <2>1, Zenon
  <2>3. DOMAIN longer \ skip = P \cup {n + 1}
    BY <1>1, <2>2
  <2>4. P \subseteq 1 .. n
    BY <1>1
  <2>5. QED
    BY <2>1, <2>3, <2>4, Zenon
<1>5. ASSUME NEW k \in Keys
      PROVE  LastWrite(longer, DOMAIN longer \ skip, k, ApplyAll(m, ops).entries[k])
  <2>1. \A i \in P : longer[i] = records[i]
    BY <1>1, Zenon
  <2>2. LastWrite(longer, P, k, m.entries[k])
    BY <1>2, <2>1, LastWriteSame, Zenon
  <2>3. Decode(longer[n + 1]) = ops
    BY <1>1, <1>2, Zenon
  <2>4. LastWrite(longer, P \cup {n + 1}, k, ApplyAll(m, Decode(longer[n + 1])).entries[k])
    BY <1>4, <2>2, <2>3, LastWriteStep, Zenon
  <2>5. QED
    BY <1>4, <2>3, <2>4, Zenon
<1>6. QED
  BY <1>3, <1>5, Zenon

\* A write whose append fails and leaves its record.
LEMMA RefusedShows ==
    ASSUME NEW records \in Seq(LogRecords), NEW skip, skip \subseteq 1 .. Len(records),
           NEW m, NEW ops \in Seq(Op), Shows(records, skip, m)
    PROVE  Shows(Append(records, Encode(ops)), skip \cup {Len(records) + 1}, m)
<1> DEFINE longer == Append(records, Encode(ops))
           n == Len(records)
           P == DOMAIN records \ skip
<1>1. /\ \A i \in 1 .. n : longer[i] = records[i]
      /\ DOMAIN longer = (DOMAIN records) \cup {n + 1} /\ DOMAIN records = 1 .. n
      /\ Limited(longer) => Limited(records)
  BY LongerLog, Zenon
<1>2. DOMAIN longer \ (skip \cup {n + 1}) = P
  <2>1. n + 1 \notin 1 .. n
    OBVIOUS
  <2>2. QED
    BY <1>1, <2>1
<1> HIDE DEF longer
<1>3. ASSUME Limited(longer), NEW k \in Keys
      PROVE  LastWrite(longer, P, k, m.entries[k])
  <2>1. LastWrite(records, P, k, m.entries[k])
    BY <1>1, <1>3, Zenon DEF Shows
  <2>2. \A i \in P : longer[i] = records[i]
    BY <1>1, Zenon
  <2>3. QED
    BY <2>1, <2>2, LastWriteSame, Zenon
<1>4. Shows(longer, skip \cup {n + 1}, m)
  BY <1>2, <1>3 DEF Shows
<1>5. QED
  BY <1>4 DEF longer

LEMMA BufferStart == Init => BufferInv
<1> SUFFICES ASSUME Init PROVE BufferInv
  OBVIOUS
<1>1. mem \in MemTables /\ Exact(mem)
  BY NewType, EmptyExact DEF Init
<1>2. batch \in Seq(Op) /\ log \in Seq(LogRecords)
  BY DEF Init
<1>3. QED
  BY <1>1, <1>2 DEF Init, BufferInv

\* flush_locked leaves an empty buffer, and an empty log unless it fails or the
\* rotation does.
LEMMA FlushedStep ==
    ASSUME NEW m, NEW records \in Seq(LogRecords), refused \subseteq 1 .. Len(records),
           Flushed(m, records)
    PROVE  /\ mem' \in MemTables /\ Exact(mem')
           /\ log' \in Seq(LogRecords) /\ refused' \subseteq 1 .. Len(log')
           /\ wal' /\ ~failed' => Shows(log', refused', mem')
<1>1. mem' = NewMemTable /\ mem' \in MemTables /\ Exact(mem')
  BY NewType, EmptyExact DEF Flushed
<1>2. \/ log' = <<>> /\ refused' = {}
      \/ log' = records /\ refused' = refused /\ (~wal' \/ failed')
  BY Zenon DEF Flushed, Rotate
<1>3. CASE log' = <<>> /\ refused' = {}
  <2>1. <<>> \in Seq(LogRecords)
    OBVIOUS
  <2>2. QED
    BY <1>1, <1>3, <2>1, EmptyShows, Zenon
<1>4. QED
  BY <1>1, <1>2, <1>3, Zenon

LEMMA WriteStep ==
    ASSUME BufferInv, NEW ops \in Seq(Op), Write(ops), batch' \in Seq(Op)
    PROVE  BufferInv'
<1> DEFINE records == Append(log, Encode(ops))
           m == ApplyAll(mem, ops)
<1>1. /\ mem \in MemTables /\ Exact(mem) /\ log \in Seq(LogRecords) /\ up /\ up' = up /\ wal
      /\ refused \subseteq 1 .. Len(log)
  BY Zenon DEF BufferInv, Write
<1>2. records \in Seq(LogRecords) /\ Len(records) = Len(log) + 1
  BY <1>1, LongerLog, Zenon
<1>3. m \in MemTables /\ Exact(m)
  BY <1>1, ApplyType, ApplyExact, Zenon
<1>4. refused \subseteq 1 .. Len(records)
  <2>1. Len(log) \in Nat
    BY <1>1
  <2>2. 1 .. Len(log) \subseteq 1 .. Len(log) + 1
    BY <2>1
  <2>3. QED
    BY <1>1, <1>2, <2>2
<1>5. CASE Full(m)
  <2>1. Flushed(m, records)
    BY <1>5, Zenon DEF Write
  <2> HIDE DEF records, m
  <2>2. QED
    BY <1>1, <1>2, <1>4, <2>1, FlushedStep, Zenon DEF BufferInv
<1>6. CASE ~Full(m)
  <2>1. mem' = m /\ log' = records /\ UNCHANGED <<wal, failed, refused>>
    BY <1>6, Zenon DEF Write
  <2>2. ~failed => Shows(records, refused, m)
    BY <1>1, WrittenShows, Zenon DEF BufferInv
  <2> HIDE DEF m, records
  <2>3. QED
    BY <1>1, <1>2, <1>3, <1>4, <2>1, <2>2 DEF BufferInv
<1>7. QED
  BY <1>5, <1>6, Zenon

LEMMA LogFailsStep ==
    ASSUME BufferInv, NEW ops \in Seq(Op), LogFails(ops), batch' \in Seq(Op)
    PROVE  BufferInv'
<1>1. UNCHANGED <<up, mem, wal, failed>> /\ up
  BY DEF LogFails
<1>2. CASE UNCHANGED <<log, refused>>
  BY <1>1, <1>2, Zenon DEF BufferInv
<1>3. CASE log' = Append(log, Encode(ops)) /\ refused' = refused \cup {Len(log')}
  <2>1. log \in Seq(LogRecords) /\ refused \subseteq 1 .. Len(log) /\ mem \in MemTables
    BY DEF BufferInv
  <2>2. log' \in Seq(LogRecords) /\ Len(log') = Len(log) + 1
    BY <1>3, <2>1, LongerLog, Zenon
  <2>3. refused' \subseteq 1 .. Len(log')
    <3>1. Len(log) \in Nat
      BY <2>1
    <3>2. 1 .. Len(log) \subseteq 1 .. Len(log) + 1 /\ Len(log) + 1 \in 1 .. Len(log) + 1
      BY <3>1
    <3>3. QED
      BY <1>3, <2>1, <2>2, <3>2
  <2>4. wal' /\ ~failed' => Shows(log', refused', mem')
    BY <1>1, <1>3, <2>1, <2>2, RefusedShows, Zenon DEF BufferInv
  <2>5. QED
    BY <1>1, <2>2, <2>3, <2>4, Zenon DEF BufferInv
<1>4. QED
  BY <1>2, <1>3, Zenon DEF LogFails

LEMMA OpenStep ==
    ASSUME BufferInv, NEW c \in Capacities, Open(c)
    PROVE  BufferInv'
<1>1. log \in Seq(LogRecords) /\ batch' \in Seq(Op) /\ refused' = {} /\ up'
  BY Zenon DEF BufferInv, Open
<1>2. mem' = NewMemTable /\ mem' \in MemTables /\ Exact(mem')
  BY NewType, EmptyExact DEF Open
<1>3. log' = <<>> \/ (log' = log /\ IsEmpty(Replay(log)))
  BY Zenon DEF Open
<1>4. CASE log' = <<>>
  <2>1. <<>> \in Seq(LogRecords) /\ {} \subseteq 1 .. Len(<<>>)
    OBVIOUS
  <2>2. QED
    BY <1>1, <1>2, <1>4, <2>1, EmptyShows, Zenon DEF BufferInv
<1>5. CASE log' = log /\ IsEmpty(Replay(log))
  <2>1. ASSUME Limited(log)
        PROVE  /\ \A k \in Keys : LastWrite(log, DOMAIN log \ {}, k, NewMemTable.entries[k])
               /\ Replay(log) = NewMemTable
    <3>1. log \in Seq(Encodings)
      BY <1>1, <2>1, LimitedLog
    <3>2. Replay(log) = NewMemTable
      BY <1>5, <3>1, ReplayExact, EmptyExact, Zenon
    <3>3. (DOMAIN log) \ {} = DOMAIN log
      OBVIOUS
    <3>4. QED
      BY <3>1, <3>2, <3>3, ReplayLast, Zenon
  <2>2. Shows(log, {}, NewMemTable)
    BY <2>1, Zenon DEF Shows
  <2>3. {} \subseteq 1 .. Len(log)
    OBVIOUS
  <2>4. QED
    BY <1>1, <1>2, <1>5, <2>2, <2>3, Zenon DEF BufferInv
<1>6. QED
  BY <1>3, <1>4, <1>5, Zenon

LEMMA BufferStep == BufferInv /\ [Next]_vars => BufferInv'
<1> SUFFICES ASSUME BufferInv, [Next]_vars PROVE BufferInv'
  OBVIOUS
<1>1. ASSUME NEW k \in Keys, NEW r \in Record, WriteOne(k, r)
      PROVE  BufferInv'
  <2>1. << <<k, r>> >> \in Seq(Op)
    BY DEF Op
  <2>2. batch' \in Seq(Op)
    BY <1>1 DEF WriteOne, BufferInv
  <2>3. QED
    BY <1>1, <2>1, <2>2, WriteStep, LogFailsStep, Zenon DEF WriteOne
<1>2. ASSUME NEW k \in Keys, NEW r \in Record, Queue(k, r)
      PROVE  BufferInv'
  <2>1. batch' \in Seq(Op)
    BY <1>2 DEF Queue, BufferInv, Op
  <2>2. QED
    BY <1>2, <2>1, Zenon DEF Queue, BufferInv
<1>3. CASE WriteBatch
  <2>1. batch \in Seq(Op) /\ batch' \in Seq(Op)
    BY <1>3 DEF WriteBatch, BufferInv
  <2>2. QED
    BY <1>3, <2>1, WriteStep, LogFailsStep, Zenon DEF WriteBatch
<1>4. CASE FlushCall
  BY <1>4, FlushedStep, Zenon DEF FlushCall, BufferInv
<1>5. CASE Crash
  <2>1. /\ mem' \in MemTables /\ Exact(mem') /\ batch' \in Seq(Op) /\ log' = log
        /\ up' = FALSE /\ wal' = FALSE /\ refused' = {}
    BY <1>5, NewType, EmptyExact DEF Crash
  <2>2. QED
    BY <2>1 DEF BufferInv
<1>6. ASSUME NEW c \in Capacities, Open(c)
      PROVE  BufferInv'
  BY <1>6, OpenStep
<1>7. CASE OpenFails
  <2>1. log' = <<>> /\ ~up /\ UNCHANGED <<up, mem, wal, batch, refused>>
    BY <1>7 DEF OpenFails
  <2>2. log' \in Seq(LogRecords)
    BY <2>1
  <2>3. QED
    BY <2>1, <2>2 DEF BufferInv
<1>8. CASE UNCHANGED vars
  BY <1>8, Zenon DEF vars, BufferInv
<1>9. QED
  BY <1>1, <1>2, <1>3, <1>4, <1>5, <1>6, <1>7, <1>8, Zenon DEF Next

LEMMA BufferInvariance == Spec => []BufferInv
BY BufferStart, BufferStep, PTL DEF Spec

-------------------------------------------------------------------------------

\* approx_size is the number of key and value bytes the memtable holds after every
\* put, delete, batch, flush, crash and reopening, for every set of keys and lengths
\* (memtable.rs insert, whose difference for an overwritten value must not lose any).
THEOREM BufferSizeExact == Spec => []SizeExact
<1>1. BufferInv => SizeExact
  BY DEF BufferInv, Exact, SizeExact
<1>2. QED
  BY <1>1, BufferInvariance, PTL

\* While no flush and no rotation has failed and no key or value is longer than
\* MAX_LEN, every record of the log decodes, the memtable shows for each key the last
\* operation on it that was logged without an error, and replaying the log rebuilds
\* the last operation on each key that reached the log: the same memtable if no append
\* failed after its record was written (durability.rs append, encode, decode and
\* replay; db.rs write and flush_locked).
THEOREM BufferRecovers == Spec => []RecoveryExact
<1>1. BufferInv => RecoveryExact
  <2> SUFFICES ASSUME BufferInv, wal, ~failed, \A i \in DOMAIN log : WithinLimits(log[i])
               PROVE  /\ Replayable(log)
                      /\ \A k \in Keys :
                            /\ LastWrite(log, DOMAIN log \ refused, k, mem.entries[k])
                            /\ LastWrite(log, DOMAIN log, k, Replay(log).entries[k])
                      /\ refused = {} => Replay(log) = mem
    BY DEF RecoveryExact
  <2>1. log \in Seq(LogRecords) /\ Limited(log) /\ Shows(log, refused, mem)
    BY DEF BufferInv, Limited
  <2>2. log \in Seq(Encodings)
    BY <2>1, LimitedLog
  <2>3. Replayable(log)
    BY <2>2, EncodingsDecode DEF Replayable
  <2>4. \A k \in Keys : LastWrite(log, DOMAIN log, k, Replay(log).entries[k])
    BY <2>2, ReplayLast, Zenon
  <2>5. QED
    BY <2>1, <2>3, <2>4, Zenon DEF Shows
<1>2. QED
  BY <1>1, BufferInvariance, PTL
===============================================================================
