----------------------------- MODULE SsTableProofs ----------------------------
(***************************************************************************)
(* For every stream of entries, block size and length limit, and whatever  *)
(* is damaged: a lookup answers with what was written, or with an error.   *)
(***************************************************************************)
EXTENDS SsTable, FiniteSets, WellFoundedInduction, FiniteSetTheorems, TLAPS

\* A non-empty set of natural numbers has a least element.
LEMMA LeastIndex ==
    ASSUME NEW S, S \subseteq Nat, S # {}
    PROVE  \E i \in S : \A j \in S : i <= j
<1>1. PICK x \in S : \A y \in S : ~(<<y, x>> \in OpToRel(<, Nat))
  BY NatLessThanWellFounded, WFMin, Zenon
<1>2. \A y \in S : ~(y < x)
  BY <1>1, Zenon DEF OpToRel
<1>3. QED
  BY <1>2

-------------------------------------------------------------------------------
(* Sums.                                                                   *)

\* The element SumFunctionOnSet takes first.
Pick(s) == CHOOSE x \in s : TRUE

\* g adds up f over the sets of D, the way SumFunctionOnSet does.
Adds(g, f, D) ==
    \A s \in D : g[s] = IF s = {} THEN 0 ELSE f[Pick(s)] + g[s \ {Pick(s)}]

\* g has the sum of f over every subset of S, and any element can be taken first.
Splits(g, f, S) ==
    /\ \A s \in SUBSET S : SumFunctionOnSet(f, s) = g[s]
    /\ g[{}] = 0
    /\ \A s \in SUBSET S : \A x \in s : g[s] = f[x] + g[s \ {x}]

Numbers(f, S) == \A x \in S : f[x] \in Nat

Agree(f1, f2, S) == \A x \in S : f1[x] = f2[x]

Small(S, n) == {s \in SUBSET S : Cardinality(s) <= n}

LEMMA SmallLess ==
    ASSUME NEW S, IsFiniteSet(S), NEW n \in Nat, NEW s \in Small(S, n), s # {}
    PROVE  /\ Pick(s) \in s /\ Pick(s) \in S
           /\ Cardinality(s) \in Nat /\ Cardinality(s) # 0
           /\ s \ {Pick(s)} \in SUBSET S
           /\ Cardinality(s \ {Pick(s)}) = Cardinality(s) - 1
           /\ Cardinality(s) <= n
<1>1. Pick(s) \in s /\ s \in SUBSET S /\ Cardinality(s) <= n
  BY DEF Pick, Small
<1>2. IsFiniteSet(s)
  BY <1>1, FS_Subset
<1>3. Cardinality(s) \in Nat /\ Cardinality(s) # 0
  BY <1>2, FS_CardinalityType, FS_EmptySet
<1>4. Cardinality(s \ {Pick(s)}) = Cardinality(s) - 1
  BY <1>1, <1>2, FS_RemoveElement, Zenon
<1>5. QED
  BY <1>1, <1>3, <1>4

\* The recursion of SumFunctionOnSet has a solution.
LEMMA SumExists ==
    ASSUME NEW S, IsFiniteSet(S), NEW f, \A x \in S : f[x] \in Nat
    PROVE  \E g \in [SUBSET S -> Nat] : Adds(g, f, SUBSET S)
<1> DEFINE Has(n) == \E g \in [Small(S, n) -> Nat] : Adds(g, f, Small(S, n))
           Bad == {n \in Nat : ~Has(n)}
<1>1. Has(0)
  <2> DEFINE g == [s \in Small(S, 0) |-> 0]
  <2>1. ASSUME NEW s \in Small(S, 0)
        PROVE  s = {}
    <3>1. s # {} => Cardinality(s) \in Nat /\ Cardinality(s) # 0 /\ Cardinality(s) <= 0
      BY SmallLess, Zenon
    <3>2. QED
      BY <3>1
  <2>2. g \in [Small(S, 0) -> Nat] /\ Adds(g, f, Small(S, 0))
    BY <2>1 DEF Adds
  <2>3. QED
    BY <2>2
<1>2. ASSUME NEW n \in Nat, Has(n)
      PROVE  Has(n + 1)
  <2>1. PICK g \in [Small(S, n) -> Nat] : Adds(g, f, Small(S, n))
    BY <1>2
  <2> DEFINE h == [s \in Small(S, n + 1) |->
                      IF s = {} THEN 0 ELSE f[Pick(s)] + g[s \ {Pick(s)}]]
  <2>2. ASSUME NEW s \in Small(S, n + 1), s # {}
        PROVE  s \ {Pick(s)} \in Small(S, n) /\ Pick(s) \in S
    <3>1. /\ Pick(s) \in S /\ s \ {Pick(s)} \in SUBSET S
          /\ Cardinality(s \ {Pick(s)}) = Cardinality(s) - 1
          /\ Cardinality(s) <= n + 1 /\ Cardinality(s) \in Nat
      BY <2>2, SmallLess
    <3>2. Cardinality(s \ {Pick(s)}) <= n
      BY <3>1
    <3>3. QED
      BY <3>1, <3>2 DEF Small
  <2>3. ASSUME NEW s \in Small(S, n)
        PROVE  s \in Small(S, n + 1) /\ h[s] = g[s]
    <3>1. s \in Small(S, n + 1)
      <4>1. s \in SUBSET S /\ Cardinality(s) <= n
        BY DEF Small
      <4>2. Cardinality(s) \in Nat
        BY <4>1, FS_Subset, FS_CardinalityType
      <4>3. Cardinality(s) <= n + 1
        BY <4>1, <4>2
      <4>4. QED
        BY <4>1, <4>3 DEF Small
    <3>2. QED
      BY <2>1, <3>1, Zenon DEF Adds
  <2>4. h \in [Small(S, n + 1) -> Nat]
    <3>1. ASSUME NEW s \in Small(S, n + 1)
          PROVE  (IF s = {} THEN 0 ELSE f[Pick(s)] + g[s \ {Pick(s)}]) \in Nat
      <4>1. s # {} => f[Pick(s)] \in Nat /\ g[s \ {Pick(s)}] \in Nat
        BY <2>1, <2>2
      <4>2. QED
        BY <4>1
    <3>2. QED
      BY <3>1
  <2>5. ASSUME NEW s \in Small(S, n + 1)
        PROVE  h[s] = IF s = {} THEN 0 ELSE f[Pick(s)] + h[s \ {Pick(s)}]
    BY <2>2, <2>3, Zenon
  <2>6. Adds(h, f, Small(S, n + 1))
    BY <2>5, Zenon DEF Adds
  <2>7. QED
    BY <2>4, <2>6, Zenon
<1> HIDE DEF Has
<1>3. Bad = {}
  <2> SUFFICES ASSUME Bad # {}
               PROVE  FALSE
    OBVIOUS
  <2>1. PICK n \in Bad : \A m \in Bad : n <= m
    BY LeastIndex, Zenon
  <2>2. n # 0 /\ n \in Nat
    BY <1>1
  <2>3. n - 1 \in Nat /\ n - 1 \notin Bad
    BY <2>1, <2>2
  <2>4. Has(n - 1 + 1)
    BY <1>2, <2>3
  <2>5. n - 1 + 1 = n
    BY <2>2
  <2>6. QED
    BY <2>4, <2>5
<1>4. Cardinality(S) \in Nat
  BY FS_CardinalityType
<1>5. Small(S, Cardinality(S)) = SUBSET S
  BY FS_Subset DEF Small
<1>6. Has(Cardinality(S))
  BY <1>3, <1>4
<1>7. QED
  BY <1>5, <1>6 DEF Has

\* It has only one, which depends on f on S alone.
LEMMA SumUnique ==
    ASSUME NEW S, IsFiniteSet(S), NEW f1, NEW f2, Agree(f1, f2, S),
           NEW g1, Adds(g1, f1, SUBSET S), NEW g2, Adds(g2, f2, SUBSET S)
    PROVE  \A s \in SUBSET S : g1[s] = g2[s]
<1> DEFINE Bad == {s \in SUBSET S : g1[s] # g2[s]}
           Sizes == {Cardinality(s) : s \in Bad}
<1> SUFFICES ASSUME Bad # {}
             PROVE  FALSE
  OBVIOUS
<1>1. Sizes \subseteq Nat /\ Sizes # {}
  BY FS_Subset, FS_CardinalityType
<1>2. PICK n \in Sizes : \A m \in Sizes : n <= m
  BY <1>1, LeastIndex, Zenon
<1>3. PICK s \in Bad : n = Cardinality(s)
  OBVIOUS
<1>4. s # {}
  BY Zenon DEF Adds
<1>5. n \in Nat /\ s \in Small(S, n)
  BY <1>1, <1>3 DEF Small
<1>6. /\ Pick(s) \in S /\ s \ {Pick(s)} \in SUBSET S
      /\ Cardinality(s \ {Pick(s)}) = n - 1
  BY <1>3, <1>4, <1>5, SmallLess
<1>7. s \ {Pick(s)} \notin Bad
  <2>1. n - 1 \notin Sizes
    BY <1>1, <1>2, <1>5
  <2>2. QED
    BY <1>6, <2>1
<1>8. g1[s \ {Pick(s)}] = g2[s \ {Pick(s)}] /\ f1[Pick(s)] = f2[Pick(s)]
  BY <1>6, <1>7 DEF Agree
<1>9. g1[s] = g2[s]
  BY <1>4, <1>8, Zenon DEF Adds
<1>10. QED
  BY <1>9

LEMMA SumOnSet ==
    ASSUME NEW S, IsFiniteSet(S), NEW f, \A x \in S : f[x] \in Nat
    PROVE  \E g \in [SUBSET S -> Nat] : Adds(g, f, SUBSET S) /\ SumFunctionOnSet(f, S) = g[S]
<1> DEFINE Body(g) == [s \in SUBSET S |->
                         IF s = {} THEN 0 ELSE f[CHOOSE x \in s : TRUE] + g[s \ {CHOOSE x \in s : TRUE}]]
           it == CHOOSE g : g = Body(g)
<1>1. SumFunctionOnSet(f, S) = it[S]
  BY Zenon DEF SumFunctionOnSet, FoldFunctionOnSet, MapThenFoldSet
<1>2. \E g : g = Body(g)
  <2>1. PICK g \in [SUBSET S -> Nat] : Adds(g, f, SUBSET S)
    BY SumExists, Zenon
  <2>2. \A s \in SUBSET S : g[s] = Body(g)[s]
    BY <2>1 DEF Adds, Pick
  <2>3. g = Body(g)
    BY <2>1, <2>2, Zenon
  <2>4. QED
    BY <2>3, Zenon
<1>3. it = Body(it)
  BY <1>2, Zenon
<1>4. Adds(it, f, SUBSET S)
  BY <1>3, Zenon DEF Adds, Pick
<1> HIDE DEF it
<1>5. PICK g \in [SUBSET S -> Nat] : Adds(g, f, SUBSET S)
  BY SumExists, Zenon
<1>6. Agree(f, f, S)
  BY DEF Agree
<1>7. it[S] = g[S]
  BY <1>4, <1>5, <1>6, SumUnique
<1>8. QED
  BY <1>1, <1>5, <1>7

\* The sum over a set is the value at one of its elements and the sum over the
\* others, whichever element it is.
LEMMA SumSplit ==
    ASSUME NEW S, IsFiniteSet(S), NEW f, Numbers(f, S)
    PROVE  \E g \in [SUBSET S -> Nat] : Splits(g, f, S)
<1>0. \A x \in S : f[x] \in Nat
  BY DEF Numbers
<1>1. PICK g \in [SUBSET S -> Nat] : Adds(g, f, SUBSET S)
  BY <1>0, SumExists, Zenon
<1>2. ASSUME NEW s \in SUBSET S
      PROVE  SumFunctionOnSet(f, s) = g[s]
  <2>1. IsFiniteSet(s) /\ \A x \in s : f[x] \in Nat
    BY <1>0, FS_Subset
  <2>2. PICK h \in [SUBSET s -> Nat] : Adds(h, f, SUBSET s) /\ SumFunctionOnSet(f, s) = h[s]
    BY <2>1, SumOnSet, Zenon
  <2>3. Adds(g, f, SUBSET s)
    BY <1>1 DEF Adds
  <2>4. Agree(f, f, s)
    BY DEF Agree
  <2>5. g[s] = h[s]
    BY <2>1, <2>2, <2>3, <2>4, SumUnique
  <2>6. QED
    BY <2>2, <2>5
<1>3. g[{}] = 0
  BY <1>1, Zenon DEF Adds
<1>4. ASSUME NEW s \in SUBSET S, NEW x \in s
      PROVE  g[s] = f[x] + g[s \ {x}]
  <2> DEFINE Bad == {t \in SUBSET S : \E y \in t : g[t] # f[y] + g[t \ {y}]}
             Sizes == {Cardinality(t) : t \in Bad}
  <2>1. ASSUME Bad # {}
        PROVE  FALSE
    <3>1. Sizes \subseteq Nat /\ Sizes # {}
      <4>1. \A t \in SUBSET S : Cardinality(t) \in Nat
        BY FS_Subset, FS_CardinalityType
      <4>2. Bad \subseteq SUBSET S
        OBVIOUS
      <4> HIDE DEF Bad
      <4>3. QED
        BY <2>1, <4>1, <4>2
    <3>2. PICK n \in Sizes : \A m \in Sizes : n <= m
      BY <3>1, LeastIndex, Zenon
    <3>3. PICK t \in Bad : n = Cardinality(t)
      OBVIOUS
    <3>4. PICK y \in t : g[t] # f[y] + g[t \ {y}]
      OBVIOUS
    <3> DEFINE z == Pick(t)
    <3>5. z \in t /\ g[t] = f[z] + g[t \ {z}]
      <4>1. t # {}
        BY <3>4
      <4>2. z \in t
        BY <4>1 DEF Pick
      <4>3. QED
        BY <1>1, <4>1, <4>2 DEF Adds
    <3> HIDE DEF z
    <3>6. y # z
      BY <3>4, <3>5, Zenon
    <3>7. ASSUME NEW u \in t
          PROVE  t \ {u} \in SUBSET S /\ t \ {u} \notin Bad
      <4>1. IsFiniteSet(t) /\ t \ {u} \in SUBSET S
        BY FS_Subset
      <4>2. Cardinality(t \ {u}) = n - 1
        BY <3>3, <4>1, FS_RemoveElement, Zenon
      <4>3. n \in Nat /\ n - 1 \notin Sizes
        <5> HIDE DEF Sizes
        <5>1. QED
          BY <3>1, <3>2
      <4>4. QED
        BY <4>1, <4>2, <4>3
    <3>8. g[t \ {z}] = f[y] + g[(t \ {z}) \ {y}]
      BY <3>4, <3>5, <3>6, <3>7, Zenon
    <3>9. g[t \ {y}] = f[z] + g[(t \ {y}) \ {z}]
      BY <3>4, <3>5, <3>6, <3>7, Zenon
    <3>10. (t \ {y}) \ {z} = (t \ {z}) \ {y}
      OBVIOUS
    <3>11. /\ f[y] \in Nat /\ f[z] \in Nat
           /\ g[(t \ {z}) \ {y}] \in Nat
      BY <1>0, <3>5
    <3>12. g[t] = f[y] + g[t \ {y}]
      <4>1. ASSUME NEW A \in Nat, NEW B \in Nat, NEW C \in Nat
            PROVE  A + (B + C) = B + (A + C)
        OBVIOUS
      <4>2. f[z] + (f[y] + g[(t \ {z}) \ {y}]) = f[y] + (f[z] + g[(t \ {z}) \ {y}])
        BY <3>11, <4>1
      <4>3. QED
        BY <3>5, <3>8, <3>9, <3>10, <4>2, Zenon
    <3>13. QED
      BY <3>4, <3>12
  <2>2. QED
    BY <2>1, Zenon
<1>5. QED
  BY <1>2, <1>3, <1>4, Zenon DEF Splits

\* A sum depends on the values in its range alone.
LEMMA SumSame ==
    ASSUME NEW T, IsFiniteSet(T), NEW f, Numbers(f, T), NEW h, Numbers(h, T),
           Agree(f, h, T)
    PROVE  SumFunctionOnSet(f, T) = SumFunctionOnSet(h, T)
<1>1. (\A x \in T : f[x] \in Nat) /\ (\A x \in T : h[x] \in Nat)
  BY DEF Numbers
<1>2. PICK u \in [SUBSET T -> Nat] : Adds(u, f, SUBSET T) /\ SumFunctionOnSet(f, T) = u[T]
  BY <1>1, SumOnSet, Zenon
<1>3. PICK v \in [SUBSET T -> Nat] : Adds(v, h, SUBSET T) /\ SumFunctionOnSet(h, T) = v[T]
  BY <1>1, SumOnSet, Zenon
<1>4. u[T] = v[T]
  BY <1>2, <1>3, SumUnique
<1>5. QED
  BY <1>2, <1>3, <1>4

\* A sum of natural numbers is one.
LEMMA SumIsNat ==
    ASSUME NEW f, IsFiniteSet(DOMAIN f), Numbers(f, DOMAIN f)
    PROVE  SumFunction(f) \in Nat
<1> DEFINE S == DOMAIN f
<1>1. PICK g \in [SUBSET S -> Nat] : Splits(g, f, S)
  BY SumSplit, Zenon
<1>2. S \in SUBSET S /\ SumFunction(f) = SumFunctionOnSet(f, S)
  BY DEF SumFunction
<1> HIDE DEF S
<1>3. QED
  BY <1>1, <1>2 DEF Splits

\* The sum over a..b grows by the value at b + 1.
LEMMA SumExtends ==
    ASSUME NEW a \in Nat, NEW b \in Nat, a <= b + 1,
           NEW f \in [a .. b + 1 -> Nat], NEW h \in [a .. b -> Nat],
           \A p \in a .. b : h[p] = f[p]
    PROVE  SumFunction(f) = SumFunction(h) + f[b + 1]
<1> DEFINE S == a .. b + 1
           T == a .. b
<1>1. /\ IsFiniteSet(S) /\ IsFiniteSet(T) /\ T \in SUBSET S /\ b + 1 \in S
      /\ T = S \ {b + 1}
  <2>1. b \in Int /\ a \in Int /\ b + 1 \in Int
    OBVIOUS
  <2>2. IsFiniteSet(S) /\ IsFiniteSet(T)
    BY <2>1, FS_Interval
  <2>3. T = S \ {b + 1} /\ b + 1 \in S
    OBVIOUS
  <2>4. QED
    BY <2>2, <2>3
<1>2. /\ SumFunction(f) = SumFunctionOnSet(f, S)
      /\ SumFunction(h) = SumFunctionOnSet(h, T)
  BY DEF SumFunction
<1>3. Numbers(f, S) /\ Agree(f, h, T) /\ f[b + 1] \in Nat
  BY <1>1 DEF Numbers, Agree
<1>4. Numbers(f, T) /\ Numbers(h, T)
  BY <1>1 DEF Numbers
<1> HIDE DEF S, T
<1>5. PICK g \in [SUBSET S -> Nat] : Splits(g, f, S)
  BY <1>1, <1>3, SumSplit, Zenon
<1>6. SumFunctionOnSet(f, T) = SumFunctionOnSet(h, T)
  BY <1>1, <1>3, <1>4, SumSame
<1>7. SumFunctionOnSet(f, S) = f[b + 1] + g[T]
  BY <1>1, <1>5 DEF Splits
<1>8. g[T] = SumFunctionOnSet(h, T) /\ g[T] \in Nat
  BY <1>1, <1>5, <1>6 DEF Splits
<1>9. QED
  BY <1>2, <1>3, <1>7, <1>8

-------------------------------------------------------------------------------
(* The inductive invariant.                                                *)

\* The writer's counters.  The buffer is empty exactly when every entry pushed is
\* in a block, so that finish leaves none behind.
Counters ==
    /\ stream \in Streams
    /\ written \in Nat /\ pushed \in Nat /\ buf_len \in Nat
    /\ written <= pushed /\ pushed <= Len(stream)
    /\ buf_len = 0 <=> written = pushed
    /\ wpc \in {"push", "finished", "failed"}
    /\ wpc = "finished" => written = Len(stream)

\* The blocks of hs partition the first n entries of s, in order, and each handle
\* has the key of its block's last entry.
Partition(hs, s, n) ==
    /\ hs \in Seq(BlockHandle)
    /\ \A i \in 1 .. Len(hs) :
          /\ hs[i].crc[1] = IF i = 1 THEN 1 ELSE hs[i - 1].crc[2] + 1
          /\ hs[i].crc[1] <= hs[i].crc[2]
          /\ hs[i].crc[2] <= n
          /\ hs[i].last_key = s[hs[i].crc[2]].key
    /\ IF hs = <<>> THEN n = 0 ELSE hs[Len(hs)].crc[2] = n

\* An open reader has the index that was written.
ReaderIndex ==
    /\ wpc = "finished" => file.index \in {handles, Garbled}
    /\ index \notin {None, Err} => wpc = "finished" /\ index = handles

SsInv ==
    /\ Counters
    /\ offset \in Nat
    /\ Partition(handles, stream, written)
    /\ ReaderIndex
    /\ AnswersExact

-------------------------------------------------------------------------------
(* Partitions.                                                             *)

\* flush_block extends the partition by the entries of the buffer.
LEMMA PartitionGrows ==
    ASSUME NEW hs, NEW s, NEW n \in Nat, NEW hi \in Nat, n < hi,
           Partition(hs, s, n),
           NEW h \in BlockHandle, h.crc = <<n + 1, hi>>, h.last_key = s[hi].key
    PROVE  Partition(Append(hs, h), s, hi)
<1> DEFINE gs == Append(hs, h)
<1>1. hs \in Seq(BlockHandle) /\ gs \in Seq(BlockHandle)
  BY DEF Partition
<1>2. Len(gs) = Len(hs) + 1 /\ Len(hs) \in Nat /\ gs # <<>>
  BY <1>1
<1>3. gs[Len(gs)] = h /\ \A i \in 1 .. Len(hs) : gs[i] = hs[i]
  BY <1>1
<1>4. h.crc[1] = n + 1 /\ h.crc[2] = hi
  OBVIOUS
<1> HIDE DEF gs
<1>5. ASSUME NEW i \in 1 .. Len(gs)
      PROVE  /\ gs[i].crc[1] = IF i = 1 THEN 1 ELSE gs[i - 1].crc[2] + 1
             /\ gs[i].crc[1] <= gs[i].crc[2]
             /\ gs[i].crc[2] <= hi
             /\ gs[i].last_key = s[gs[i].crc[2]].key
  <2>1. CASE i <= Len(hs)
    <3>1. i \in 1 .. Len(hs) /\ gs[i] = hs[i] /\ hs[i] \in BlockHandle
      BY <1>1, <1>3, <2>1
    <3>2. i # 1 => gs[i - 1] = hs[i - 1]
      BY <1>2, <1>3, <2>1
    <3>3. hs[i].crc[2] \in Nat
      BY <3>1, Zenon DEF BlockHandle
    <3>4. /\ hs[i].crc[1] = IF i = 1 THEN 1 ELSE hs[i - 1].crc[2] + 1
          /\ hs[i].crc[1] <= hs[i].crc[2]
          /\ hs[i].crc[2] <= n
          /\ hs[i].last_key = s[hs[i].crc[2]].key
      BY <3>1 DEF Partition
    <3>5. hs[i].crc[2] <= hi
      BY <3>3, <3>4
    <3>6. QED
      BY <3>1, <3>2, <3>4, <3>5
  <2>2. CASE i = Len(gs) /\ hs = <<>>
    BY <1>1, <1>2, <1>3, <1>4, <2>2 DEF Partition
  <2>3. CASE i = Len(gs) /\ hs # <<>>
    <3>1. Len(hs) \in 1 .. Len(hs) /\ i # 1 /\ i - 1 = Len(hs)
      BY <1>1, <1>2, <2>3
    <3>2. gs[i - 1].crc[2] = n
      BY <1>3, <3>1, <2>3 DEF Partition
    <3>3. QED
      BY <1>3, <1>4, <2>3, <3>1, <3>2
  <2>4. QED
    BY <1>2, <2>1, <2>2, <2>3
<1>6. QED
  BY <1>1, <1>2, <1>3, <1>4, <1>5 DEF Partition, gs

\* The first block whose last key is not below k is the one that holds k.
LEMMA SearchFinds ==
    ASSUME NEW s \in Seq(Entry), Ascending(s),
           NEW hs, Partition(hs, s, Len(s)),
           NEW p \in 1 .. Len(s)
    PROVE  LET S == {i \in DOMAIN hs : ~(hs[i].last_key < s[p].key)}
           IN  /\ S # {}
               /\ \A i \in S : (\A j \in S : i <= j) => p \in hs[i].crc[1] .. hs[i].crc[2]
<1> DEFINE S == {i \in DOMAIN hs : ~(hs[i].last_key < s[p].key)}
<1>1. hs \in Seq(BlockHandle) /\ DOMAIN hs = 1 .. Len(hs) /\ Len(hs) \in Nat
  BY DEF Partition
<1>2. ASSUME NEW i \in 1 .. Len(s)
      PROVE  s[i].key \in Int
  <2>1. s[i] \in Entry
    OBVIOUS
  <2>2. QED
    BY <2>1 DEF Entry
<1>3. \A i, j \in 1 .. Len(s) : s[i].key < s[j].key => i < j
  <2>1. ASSUME NEW i \in 1 .. Len(s), NEW j \in 1 .. Len(s), s[i].key < s[j].key, ~(i < j)
        PROVE  FALSE
    <3>1. i = j \/ j < i
      BY <2>1
    <3>2. j < i => s[j].key < s[i].key
      BY DEF Ascending
    <3>3. QED
      BY <1>2, <2>1, <3>1, <3>2
  <2>2. QED
    BY <2>1
<1>4. \A i \in 1 .. Len(hs) : /\ hs[i].crc[1] \in Nat /\ hs[i].crc[2] \in Nat
                              /\ hs[i].crc[2] \in 1 .. Len(s)
                              /\ hs[i].last_key = s[hs[i].crc[2]].key
  <2>1. ASSUME NEW i \in 1 .. Len(hs)
        PROVE  hs[i].crc[1] \in Nat /\ hs[i].crc[2] \in Nat
    <3>1. hs[i] \in BlockHandle
      BY <1>1
    <3>2. QED
      BY <3>1 DEF BlockHandle
  <2>2. ASSUME NEW i \in 1 .. Len(hs), i # 1
        PROVE  hs[i - 1].crc[2] \in Nat
    <3>1. i - 1 \in 1 .. Len(hs)
      BY <1>1, <2>2
    <3>2. QED
      BY <2>1, <3>1
  <2>3. ASSUME NEW i \in 1 .. Len(hs)
        PROVE  /\ hs[i].crc[2] \in 1 .. Len(s)
               /\ hs[i].last_key = s[hs[i].crc[2]].key
    <3>1. /\ hs[i].crc[1] = IF i = 1 THEN 1 ELSE hs[i - 1].crc[2] + 1
          /\ hs[i].crc[1] <= hs[i].crc[2]
          /\ hs[i].crc[2] <= Len(s)
          /\ hs[i].last_key = s[hs[i].crc[2]].key
      BY DEF Partition
    <3>2. 1 <= hs[i].crc[1]
      <4>1. CASE i = 1
        BY <3>1, <4>1
      <4>2. CASE i # 1
        <5>1. hs[i - 1].crc[2] \in Nat /\ hs[i].crc[1] = hs[i - 1].crc[2] + 1
          BY <2>2, <3>1, <4>2, Zenon
        <5>2. QED
          BY <5>1
      <4>3. QED
        BY <4>1, <4>2, Zenon
    <3>3. QED
      BY <2>1, <3>1, <3>2
  <2>4. QED
    BY <2>1, <2>3
<1>5. hs # <<>> /\ Len(hs) \in 1 .. Len(hs)
  BY <1>1 DEF Partition
<1>6. S # {}
  <2>1. hs[Len(hs)].last_key = s[Len(s)].key
    BY <1>4, <1>5 DEF Partition
  <2>2. ~(s[Len(s)].key < s[p].key)
    BY <1>3
  <2>3. QED
    BY <1>1, <1>5, <2>1, <2>2
<1>7. ASSUME NEW i \in S, \A j \in S : i <= j
      PROVE  p \in hs[i].crc[1] .. hs[i].crc[2]
  <2>1. i \in 1 .. Len(hs) /\ ~(s[hs[i].crc[2]].key < s[p].key)
    BY <1>1, <1>4
  <2>2. p <= hs[i].crc[2]
    <3>1. hs[i].crc[2] < p => s[hs[i].crc[2]].key < s[p].key
      BY <1>4, <2>1 DEF Ascending
    <3>2. QED
      BY <1>4, <2>1, <3>1
  <2>3. hs[i].crc[1] <= p
    <3>1. CASE i = 1
      BY <2>1, <3>1 DEF Partition
    <3>2. CASE i # 1
      <4>1. i - 1 \in 1 .. Len(hs) /\ i - 1 \notin S
        BY <1>1, <1>7, <2>1, <3>2
      <4>2. s[hs[i - 1].crc[2]].key < s[p].key
        BY <1>1, <1>4, <4>1
      <4>3. hs[i - 1].crc[2] < p
        BY <1>3, <1>4, <4>1, <4>2
      <4>4. hs[i].crc[1] = hs[i - 1].crc[2] + 1
        BY <2>1, <3>2 DEF Partition
      <4>5. QED
        BY <1>4, <4>1, <4>3, <4>4
    <3>3. QED
      BY <3>1, <3>2
  <2>4. QED
    BY <1>4, <2>1, <2>2, <2>3
<1>8. QED
  BY <1>6, <1>7
-------------------------------------------------------------------------------
(* The invariant is inductive.                                             *)

\* The fields of an entry, and the bytes that push adds for it.
LEMMA EntryTypes ==
    ASSUME NEW e \in Entry
    PROVE  e.key \in Int /\ e.key_len \in Nat /\ EntrySize(e) \in Nat \ {0}
<1>1. e.key \in Int /\ e.key_len \in Nat /\ e.val_len \in Nat
  BY DEF Entry
<1>2. EntrySize(e) \in Nat \ {0}
  BY <1>1 DEF EntrySize
<1>3. QED
  BY <1>1, <1>2, Zenon

\* The facts about the stream that the steps use.
LEMMA StreamFacts ==
    ASSUME Counters
    PROVE  /\ stream \in Seq(Entry) /\ Ascending(stream)
           /\ Len(stream) \in Nat
           /\ \A i \in 1 .. Len(stream) : /\ stream[i].key \in Int
                                         /\ stream[i].key_len \in Nat
                                         /\ EntrySize(stream[i]) \in Nat \ {0}
<1>1. stream \in Seq(Entry) /\ Ascending(stream)
  BY SsTableAssumption DEF Counters
<1>2. ASSUME NEW i \in 1 .. Len(stream)
      PROVE  /\ stream[i].key \in Int
             /\ stream[i].key_len \in Nat
             /\ EntrySize(stream[i]) \in Nat \ {0}
  <2>1. stream[i] \in Entry
    BY <1>1
  <2>2. QED
    BY <2>1, EntryTypes, Zenon
<1>3. QED
  BY <1>1, <1>2

\* Writing the entries after `written` up to hi as one block.
LEMMA FlushStep ==
    ASSUME Counters, offset \in Nat, Partition(handles, stream, written),
           NEW hi \in Nat, written < hi, hi <= Len(stream),
           NEW len \in Nat, FlushBlock(hi, len)
    PROVE  /\ Partition(handles', stream, hi)
           /\ offset' \in Nat /\ written' = hi /\ buf_len' = 0
<1> DEFINE h == Handle(hi, len)
<1>1. hi \in 1 .. Len(stream) /\ written \in Nat
  BY StreamFacts DEF Counters
<1>2. stream[hi].key \in Int /\ stream[hi].key_len \in Nat
  BY <1>1, StreamFacts
<1>3. <<written + 1, hi>> \in Nat \X Nat
  BY <1>1
<1>4. h \in BlockHandle /\ h.crc = <<written + 1, hi>> /\ h.last_key = stream[hi].key
  BY <1>2, <1>3 DEF Handle, BlockHandle
<1>5. handles' = Append(handles, h) /\ offset' = offset + len /\ written' = hi /\ buf_len' = 0
  BY DEF FlushBlock
<1> HIDE DEF h
<1>6. Partition(Append(handles, h), stream, hi)
  BY <1>1, <1>4, PartitionGrows
<1>7. QED
  BY <1>5, <1>6

\* Nothing about the reader changes while the writer pushes.
LEMMA PushStep == SsInv /\ Push => SsInv'
<1> SUFFICES ASSUME SsInv, Push
             PROVE  SsInv'
  OBVIOUS
<1> DEFINE e == stream[pushed + 1]
           len == buf_len + EntrySize(e)
<1>1. Counters /\ offset \in Nat /\ Partition(handles, stream, written)
  BY DEF SsInv
<1>2. /\ pushed < Len(stream) /\ pushed' = pushed + 1
      /\ wpc = "push" /\ wpc' = wpc /\ stream' = stream
      /\ file' = file /\ index' = index /\ answer' = answer
  BY DEF Push
<1>3. /\ pushed + 1 \in 1 .. Len(stream) /\ pushed + 1 \in Nat
      /\ written \in Nat /\ pushed \in Nat /\ buf_len \in Nat
      /\ written <= pushed
  BY <1>1, <1>2, StreamFacts DEF Counters
<1>4. len \in Nat /\ len # 0
  BY <1>1, <1>3, StreamFacts
<1>5. /\ Partition(handles', stream, written') /\ offset' \in Nat
      /\ \/ written' = pushed + 1 /\ buf_len' = 0
         \/ written' = written /\ buf_len' = len
  <2>1. CASE len >= Target
    <3>1. FlushBlock(pushed + 1, len)
      BY <2>1 DEF Push
    <3>2. written < pushed + 1 /\ pushed + 1 <= Len(stream)
      BY <1>2, <1>3
    <3>3. QED
      BY <1>1, <1>3, <1>4, <3>1, <3>2, FlushStep
  <2>2. CASE ~(len >= Target)
    <3>1. buf_len' = len /\ UNCHANGED <<written, offset, handles>>
      BY <2>2 DEF Push
    <3>2. QED
      BY <1>1, <3>1
  <2>3. QED
    BY <2>1, <2>2
<1> HIDE DEF len, e
<1>6. Counters'
  <2>1. stream \in Streams
    BY <1>1 DEF Counters
  <2>2. written' <= pushed' /\ (buf_len' = 0 <=> written' = pushed')
    BY <1>2, <1>3, <1>4, <1>5
  <2>3. written' \in Nat /\ buf_len' \in Nat /\ pushed' \in Nat /\ pushed' <= Len(stream)
    BY <1>2, <1>3, <1>4, <1>5
  <2>4. QED
    BY <1>2, <2>1, <2>2, <2>3 DEF Counters
<1>7. ReaderIndex'
  BY <1>2 DEF SsInv, ReaderIndex
<1>8. AnswersExact'
  BY <1>2 DEF SsInv, AnswersExact, Held
<1>9. QED
  BY <1>2, <1>5, <1>6, <1>7, <1>8 DEF SsInv

\* finish writes what is left in the buffer, so the blocks hold the whole stream.
LEMMA FinishStep == SsInv /\ Finish => SsInv'
<1> SUFFICES ASSUME SsInv, Finish
             PROVE  SsInv'
  OBVIOUS
<1>1. Counters /\ offset \in Nat /\ Partition(handles, stream, written)
  BY DEF SsInv
<1>2. /\ pushed = Len(stream) /\ pushed' = pushed /\ stream' = stream
      /\ wpc = "push" /\ wpc' = "finished"
      /\ file' = FileOf(handles', offset') /\ index' = index /\ answer' = answer
  BY DEF Finish
<1>3. written \in Nat /\ pushed \in Nat /\ buf_len \in Nat /\ written <= pushed
  BY <1>1 DEF Counters
<1>4. /\ Partition(handles', stream, written') /\ offset' \in Nat
      /\ written' = pushed /\ buf_len' = 0
  <2>1. CASE buf_len = 0
    <3>1. UNCHANGED <<handles, offset, written, buf_len>>
      BY <2>1 DEF Finish, FinishFlush
    <3>2. QED
      BY <1>1, <2>1, <3>1 DEF Counters
  <2>2. CASE buf_len # 0
    <3>1. FlushBlock(pushed, buf_len)
      BY <2>2 DEF Finish, FinishFlush
    <3>2. written < pushed /\ pushed <= Len(stream)
      BY <1>1, <1>3, <2>2 DEF Counters
    <3>3. QED
      BY <1>1, <1>3, <3>1, <3>2, FlushStep
  <2>3. QED
    BY <2>1, <2>2
<1>5. Counters'
  <2>1. stream \in Streams
    BY <1>1 DEF Counters
  <2>2. /\ written' \in Nat /\ buf_len' \in Nat /\ pushed' \in Nat
        /\ written' <= pushed' /\ pushed' <= Len(stream)
        /\ buf_len' = 0 /\ written' = pushed' /\ written' = Len(stream)
    BY <1>2, <1>3, <1>4
  <2>3. QED
    BY <1>2, <2>1, <2>2 DEF Counters
<1>6. ReaderIndex'
  <2>1. file'.index = handles'
    BY <1>2 DEF FileOf
  <2>2. index \in {None, Err}
    BY <1>2 DEF SsInv, ReaderIndex
  <2>3. QED
    BY <1>2, <2>1, <2>2 DEF ReaderIndex
<1>7. AnswersExact'
  BY <1>2 DEF SsInv, AnswersExact, Held
<1>8. QED
  BY <1>2, <1>4, <1>5, <1>6, <1>7 DEF SsInv

\* An error, and damage, change neither the writer's blocks nor an open reader.
LEMMA FaultStep == SsInv /\ (PushFails \/ Damage) => SsInv'
<1> SUFFICES ASSUME SsInv, PushFails \/ Damage
             PROVE  SsInv'
  OBVIOUS
<1>1. /\ UNCHANGED <<stream, pushed, written, buf_len, offset, handles, index, answer>>
      /\ \/ wpc = "push" /\ wpc' = "failed" /\ file' = file
         \/ wpc = "finished" /\ wpc' = wpc /\ Damage
  BY DEF PushFails, Damage, writer
<1>2. Counters'
  BY <1>1 DEF SsInv, Counters
<1>3. ReaderIndex'
  <2>1. ASSUME Damage
        PROVE  file'.index \in {handles, Garbled}
    <3>1. wpc = "finished" /\ Intact
      BY <2>1 DEF Damage
    <3>2. file = FileOf(handles, offset)
      BY <3>1 DEF Intact
    <3>3. file'.index \in {file.index, Garbled}
      BY <2>1, <3>2, Zenon DEF Damage, Truncated, FileOf
    <3>4. QED
      BY <3>2, <3>3 DEF FileOf
  <2>2. QED
    BY <1>1, <2>1 DEF SsInv, ReaderIndex
<1>4. AnswersExact'
  BY <1>1 DEF SsInv, AnswersExact, Held
<1>5. (Partition(handles, stream, written))' /\ (offset \in Nat)'
  BY <1>1 DEF SsInv
<1>6. QED
  BY <1>2, <1>3, <1>4, <1>5 DEF SsInv

\* An index that passes the checks of open is the one that was written.
LEMMA OpenStep == SsInv /\ Open => SsInv'
<1> SUFFICES ASSUME SsInv, Open
             PROVE  SsInv'
  OBVIOUS
<1>1. /\ UNCHANGED <<wpc, stream, pushed, written, buf_len, offset, handles, file, answer>>
      /\ wpc = "finished" /\ index' = IF Opens THEN IndexBytes ELSE Err
  BY DEF Open, writer
<1>2. Opens => IndexBytes = handles
  BY <1>1 DEF SsInv, ReaderIndex, Opens, IndexBytes
<1>3. ReaderIndex'
  BY <1>1, <1>2 DEF SsInv, ReaderIndex
<1>4. Counters' /\ AnswersExact'
  BY <1>1 DEF SsInv, Counters, AnswersExact, Held
<1>5. (Partition(handles, stream, written))' /\ (offset \in Nat)'
  BY <1>1 DEF SsInv
<1>6. QED
  BY <1>3, <1>4, <1>5 DEF SsInv

\* A lookup that decodes its block finds the key there or nowhere.
LEMMA LookupStep ==
    ASSUME SsInv, NEW k \in Lookups, Lookup(k)
    PROVE  SsInv'
<1> DEFINE least == CHOOSE i \in BlocksFrom(k) : \A j \in BlocksFrom(k) : i <= j
           found == CHOOSE e \in Decoded(least) : e.key = k
           r == IF BlocksFrom(k) = {} THEN None
                ELSE IF ~Decodes(least) THEN Err
                ELSE IF \E e \in Decoded(least) : e.key = k THEN found ELSE None
<1>1. /\ UNCHANGED <<wpc, stream, pushed, written, buf_len, offset, handles, file, index>>
      /\ index \notin {None, Err} /\ answer' = [key |-> k, result |-> r]
  BY DEF Lookup, writer
<1>2. /\ Counters /\ wpc = "finished" /\ index = handles
      /\ Partition(handles, stream, Len(stream))
  BY <1>1 DEF SsInv, ReaderIndex, Counters
<1>3. /\ stream \in Seq(Entry) /\ Ascending(stream)
      /\ DOMAIN stream = 1 .. Len(stream)
      /\ handles \in Seq(BlockHandle) /\ DOMAIN handles = 1 .. Len(handles)
  <2>1. stream \in Seq(Entry) /\ Ascending(stream)
    BY <1>2, StreamFacts, Zenon
  <2>2. handles \in Seq(BlockHandle)
    BY <1>2, Zenon DEF Partition
  <2>3. DOMAIN stream = 1 .. Len(stream) /\ DOMAIN handles = 1 .. Len(handles)
    BY <2>1, <2>2
  <2>4. QED
    BY <2>1, <2>2, <2>3, Zenon
<1>4. BlocksFrom(k) # {} => /\ least \in BlocksFrom(k)
                            /\ \A j \in BlocksFrom(k) : least <= j
  <2>1. BlocksFrom(k) \subseteq Nat
    BY <1>2, <1>3 DEF BlocksFrom
  <2>2. BlocksFrom(k) # {} => \E i \in BlocksFrom(k) : \A j \in BlocksFrom(k) : i <= j
    BY <2>1, LeastIndex
  <2>3. QED
    BY <2>2
<1>5. ASSUME NEW p \in 1 .. Len(stream), stream[p].key = k
      PROVE  BlocksFrom(k) # {} /\ p \in index[least].crc[1] .. index[least].crc[2]
  <2>1. BlocksFrom(k) = {i \in DOMAIN handles : ~(handles[i].last_key < stream[p].key)}
    BY <1>2, <1>5 DEF BlocksFrom
  <2>2. BlocksFrom(k) # {}
    BY <1>2, <1>3, <2>1, SearchFinds
  <2>3. p \in handles[least].crc[1] .. handles[least].crc[2]
    BY <1>2, <1>3, <1>4, <2>1, <2>2, SearchFinds, Zenon
  <2>4. QED
    BY <1>2, <2>2, <2>3
<1>6. ASSUME BlocksFrom(k) # {}
      PROVE  /\ index[least].crc[1] \in Nat /\ index[least].crc[2] \in Nat
             /\ 1 <= index[least].crc[1] /\ index[least].crc[2] <= Len(stream)
  <2>1. least \in 1 .. Len(handles)
    BY <1>2, <1>3, <1>4, <1>6 DEF BlocksFrom
  <2>2. ASSUME NEW i \in 1 .. Len(handles)
        PROVE  handles[i].crc[1] \in Nat /\ handles[i].crc[2] \in Nat
    <3>1. handles[i] \in BlockHandle
      BY <1>3
    <3>2. QED
      BY <3>1 DEF BlockHandle
  <2>3. /\ handles[least].crc[1] = IF least = 1 THEN 1 ELSE handles[least - 1].crc[2] + 1
        /\ handles[least].crc[2] <= Len(stream)
    BY <1>2, <2>1, Zenon DEF Partition
  <2>4. least # 1 => handles[least - 1].crc[2] \in Nat
    <3>1. least # 1 => least - 1 \in 1 .. Len(handles)
      BY <2>1, <1>3
    <3>2. QED
      BY <3>1, <2>2
  <2> HIDE DEF least
  <2>5. 1 <= handles[least].crc[1]
    BY <2>3, <2>4
  <2>6. QED
    BY <1>2, <2>1, <2>2, <2>3, <2>5
<1>7. ASSUME BlocksFrom(k) # {}, Decodes(least)
      PROVE  /\ Decoded(least) = {stream[p] : p \in index[least].crc[1] .. index[least].crc[2]}
             /\ \A e \in Decoded(least) : e.key = k => e \in Held(k)
             /\ \A e \in Held(k) : e \in Decoded(least)
  <2>1. Decoded(least) = {stream[p] : p \in index[least].crc[1] .. index[least].crc[2]}
    BY <1>7 DEF Decodes, Decoded
  <2> HIDE DEF least
  <2>2. index[least].crc[1] .. index[least].crc[2] \subseteq 1 .. Len(stream)
    <3>1. Len(stream) \in Nat
      BY <1>3
    <3>2. QED
      BY <1>6, <1>7, <3>1
  <2>3. \A e \in Decoded(least) : e.key = k => e \in Held(k)
    BY <1>3, <2>1, <2>2 DEF Held
  <2>4. \A e \in Held(k) : e \in Decoded(least)
    BY <1>3, <1>5, <2>1 DEF Held
  <2>5. QED
    BY <2>1, <2>3, <2>4
<1>8. ASSUME r # Err
      PROVE  IF Held(k) = {} THEN r = None ELSE r \in Held(k)
  <2>1. CASE BlocksFrom(k) = {}
    <3>1. Held(k) = {}
      BY <1>3, <1>5, <2>1 DEF Held
    <3>2. QED
      BY <2>1, <3>1
  <2>2. CASE BlocksFrom(k) # {} /\ Decodes(least)
    <3> HIDE DEF least
    <3>1. ASSUME \E e \in Decoded(least) : e.key = k
          PROVE  r \in Held(k)
      <4>1. found \in Decoded(least) /\ found.key = k /\ r = found
        BY <2>2, <3>1
      <4>2. QED
        BY <1>7, <2>2, <4>1
    <3>2. ASSUME ~\E e \in Decoded(least) : e.key = k
          PROVE  r = None /\ Held(k) = {}
      <4>1. \A e \in Held(k) : e.key = k
        BY DEF Held
      <4>2. QED
        BY <1>7, <2>2, <3>2, <4>1
    <3>3. QED
      BY <3>1, <3>2
  <2>3. QED
    BY <1>8, <2>1, <2>2
<1> HIDE DEF r
<1>9. AnswersExact'
  <2>1. answer'.key = k /\ answer'.result = r /\ stream' = stream
    BY <1>1
  <2>2. Held(k)' = Held(k)
    BY <2>1 DEF Held
  <2>3. (answer.key # None /\ answer.result # Err =>
            IF Held(answer.key) = {} THEN answer.result = None
            ELSE answer.result \in Held(answer.key))'
    BY <1>8, <2>1 DEF Held
  <2>4. QED
    BY <2>3 DEF AnswersExact
<1>10. Counters' /\ ReaderIndex'
  BY <1>1 DEF SsInv, Counters, ReaderIndex
<1>11. (Partition(handles, stream, written))' /\ (offset \in Nat)'
  BY <1>1 DEF SsInv
<1>12. QED
  BY <1>9, <1>10, <1>11 DEF SsInv

LEMMA SsInit == Init => SsInv
<1> SUFFICES ASSUME Init
             PROVE  SsInv
  OBVIOUS
<1>1. handles = <<>> /\ handles \in Seq(BlockHandle)
  BY DEF Init
<1>2. Partition(handles, stream, written)
  BY <1>1 DEF Init, Partition
<1>3. Len(stream) \in Nat
  BY SsTableAssumption DEF Init
<1>4. Counters
  BY <1>3 DEF Init, Counters
<1>5. ReaderIndex /\ AnswersExact
  BY DEF Init, ReaderIndex, AnswersExact, NoAnswer
<1>6. QED
  BY <1>2, <1>4, <1>5 DEF Init, SsInv, MagicLen

LEMMA SsStep == SsInv /\ [Next]_vars => SsInv'
<1> SUFFICES ASSUME SsInv, [Next]_vars
             PROVE  SsInv'
  OBVIOUS
<1>1. ASSUME NEW k \in Lookups, Lookup(k)
      PROVE  SsInv'
  BY <1>1, LookupStep
<1>2. CASE UNCHANGED vars
  <2>1. Counters' /\ ReaderIndex' /\ AnswersExact' /\ (offset \in Nat)'
    BY <1>2 DEF vars, writer, SsInv, Counters, ReaderIndex, AnswersExact, Held
  <2>2. (Partition(handles, stream, written))'
    BY <1>2 DEF vars, writer, SsInv
  <2>3. QED
    BY <2>1, <2>2 DEF SsInv
<1>3. QED
  BY <1>1, <1>2, PushStep, FinishStep, FaultStep, OpenStep DEF Next

\* A lookup in a sorted run answers with exactly what the writer was given for
\* the key, or with an error: for every ascending stream, block size and limits,
\* wherever the blocks were cut and whatever was damaged (sstable.rs:232-247).
THEOREM LookupsExact == Spec => []AnswersExact
<1>1. SsInv => AnswersExact
  BY DEF SsInv
<1>2. QED
  BY <1>1, SsInit, SsStep, PTL DEF Spec

-------------------------------------------------------------------------------
(* Where the blocks are.                                                   *)

\* The length of the entries lo..hi of s.
Bytes(s, lo, hi) == SumFunction([p \in lo .. hi |-> EntrySize(s[p])])

\* The blocks of hs lie one behind the other, the last one up to off, and each
\* is as long as its entries.
Contiguous(hs, s, off) ==
    /\ \A i \in 1 .. Len(hs) :
          /\ hs[i].len = Bytes(s, hs[i].crc[1], hs[i].crc[2])
          /\ hs[i].offset = IF i = 1 THEN MagicLen ELSE hs[i - 1].offset + hs[i - 1].len
          /\ hs[i].key_len = s[hs[i].crc[2]].key_len
    /\ off = IF hs = <<>> THEN MagicLen ELSE hs[Len(hs)].offset + hs[Len(hs)].len

\* The buffer has the entries pushed and not yet written.
ExtInv ==
    /\ Contiguous(handles, stream, offset)
    /\ buf_len = Bytes(stream, written + 1, pushed)
    /\ offset >= MagicLen

\* The sum over no entries, and over one more.
LEMMA BytesGrow ==
    ASSUME NEW s \in Seq(Entry), NEW lo \in Nat, NEW hi \in Nat, 1 <= lo, lo <= hi + 1,
           hi <= Len(s)
    PROVE  /\ Bytes(s, lo, hi) \in Nat
           /\ hi < lo => Bytes(s, lo, hi) = 0
           /\ hi < Len(s) => Bytes(s, lo, hi + 1) = Bytes(s, lo, hi) + EntrySize(s[hi + 1])
<1> DEFINE h == [p \in lo .. hi |-> EntrySize(s[p])]
           f == [p \in lo .. hi + 1 |-> EntrySize(s[p])]
<1>1. ASSUME NEW p \in 1 .. Len(s)
      PROVE  EntrySize(s[p]) \in Nat
  <2>1. s[p] \in Entry
    OBVIOUS
  <2>2. QED
    BY <2>1, EntryTypes, Zenon
<1>2. Len(s) \in Nat /\ lo \in Int /\ hi \in Int
  OBVIOUS
<1>3. lo .. hi \subseteq 1 .. Len(s) /\ IsFiniteSet(lo .. hi)
  <2>1. IsFiniteSet(lo .. hi)
    BY <1>2, FS_Interval
  <2>2. lo .. hi \subseteq 1 .. Len(s)
    BY <1>2
  <2>3. QED
    BY <2>1, <2>2
<1>4. h \in [lo .. hi -> Nat]
  BY <1>1, <1>3
<1>5. Bytes(s, lo, hi) = SumFunction(h) /\ Bytes(s, lo, hi + 1) = SumFunction(f)
  BY DEF Bytes
<1>6. DOMAIN h = lo .. hi /\ Numbers(h, lo .. hi)
  BY <1>4 DEF Numbers
<1>7. SumFunction(h) \in Nat
  BY <1>3, <1>6, SumIsNat
<1>8. ASSUME hi < lo
      PROVE  SumFunction(h) = 0
  <2>1. DOMAIN h = {} /\ IsFiniteSet({}) /\ Numbers(h, {})
    BY <1>2, <1>6, <1>8, FS_EmptySet DEF Numbers
  <2>2. SumFunction(h) = SumFunctionOnSet(h, {})
    BY <2>1, Zenon DEF SumFunction
  <2> HIDE DEF h
  <2>3. PICK g \in [SUBSET {} -> Nat] : Splits(g, h, {})
    BY <2>1, SumSplit, Zenon
  <2>4. QED
    BY <2>2, <2>3 DEF Splits
<1>9. ASSUME hi < Len(s)
      PROVE  SumFunction(f) = SumFunction(h) + EntrySize(s[hi + 1])
  <2>1. lo .. hi + 1 \subseteq 1 .. Len(s) /\ hi + 1 \in lo .. hi + 1
    BY <1>2, <1>9
  <2>2. f \in [lo .. hi + 1 -> Nat] /\ f[hi + 1] = EntrySize(s[hi + 1])
    BY <1>1, <2>1
  <2>3. \A p \in lo .. hi : h[p] = f[p]
    BY <1>2
  <2> HIDE DEF f, h
  <2>4. SumFunction(f) = SumFunction(h) + f[hi + 1]
    BY <1>4, <2>2, <2>3, SumExtends, Zenon
  <2>5. QED
    BY <2>2, <2>4
<1>10. QED
  BY <1>5, <1>7, <1>8, <1>9

\* flush_block puts its block where the last one ends.
LEMMA ContiguousGrows ==
    ASSUME NEW hs \in Seq(BlockHandle), NEW s, NEW off, Contiguous(hs, s, off),
           NEW h \in BlockHandle, h.offset = off, h.len = Bytes(s, h.crc[1], h.crc[2]),
           h.key_len = s[h.crc[2]].key_len
    PROVE  Contiguous(Append(hs, h), s, off + h.len)
<1> DEFINE gs == Append(hs, h)
<1>1. /\ gs \in Seq(BlockHandle) /\ Len(gs) = Len(hs) + 1 /\ Len(hs) \in Nat /\ gs # <<>>
      /\ gs[Len(gs)] = h /\ \A i \in 1 .. Len(hs) : gs[i] = hs[i]
  OBVIOUS
<1>2. hs = <<>> <=> Len(hs) = 0
  OBVIOUS
<1> HIDE DEF gs
<1>3. ASSUME NEW i \in 1 .. Len(gs)
      PROVE  /\ gs[i].len = Bytes(s, gs[i].crc[1], gs[i].crc[2])
             /\ gs[i].offset = IF i = 1 THEN MagicLen ELSE gs[i - 1].offset + gs[i - 1].len
             /\ gs[i].key_len = s[gs[i].crc[2]].key_len
  <2>1. CASE i <= Len(hs)
    <3>1. i \in 1 .. Len(hs) /\ gs[i] = hs[i]
      BY <1>1, <2>1
    <3>2. i # 1 => gs[i - 1] = hs[i - 1]
      BY <1>1, <2>1
    <3>3. /\ hs[i].len = Bytes(s, hs[i].crc[1], hs[i].crc[2])
          /\ hs[i].offset = IF i = 1 THEN MagicLen ELSE hs[i - 1].offset + hs[i - 1].len
          /\ hs[i].key_len = s[hs[i].crc[2]].key_len
      BY <3>1, Zenon DEF Contiguous
    <3>4. QED
      BY <3>1, <3>2, <3>3, Zenon
  <2>2. CASE i = Len(gs)
    <3>1. gs[i] = h /\ i - 1 = Len(hs)
      BY <1>1, <2>2
    <3>2. i # 1 => gs[i - 1] = hs[Len(hs)] /\ hs # <<>>
      BY <1>1, <1>2, <3>1
    <3>3. i = 1 => hs = <<>>
      BY <1>1, <1>2, <3>1
    <3>4. h.offset = IF i = 1 THEN MagicLen ELSE gs[i - 1].offset + gs[i - 1].len
      BY <3>2, <3>3 DEF Contiguous
    <3>5. QED
      BY <3>1, <3>4
  <2>3. i <= Len(hs) \/ i = Len(gs)
    <3>1. Len(gs) = Len(hs) + 1 /\ Len(hs) \in Nat
      BY <1>1, Zenon
    <3>2. QED
      BY <3>1
  <2>4. QED
    BY <2>1, <2>2, <2>3, Zenon
<1>4. off + h.len = gs[Len(gs)].offset + gs[Len(gs)].len
  BY <1>1
<1>5. Contiguous(gs, s, off + h.len)
  BY <1>1, <1>3, <1>4 DEF Contiguous
<1>6. QED
  BY <1>5 DEF gs

\* Writing the whole buffer as one block.
LEMMA FlushExtent ==
    ASSUME Counters, offset \in Nat, ExtInv, handles \in Seq(BlockHandle),
           NEW hi \in Nat, written < hi, hi <= Len(stream),
           NEW len \in Nat, len = Bytes(stream, written + 1, hi), FlushBlock(hi, len)
    PROVE  Contiguous(handles', stream, offset') /\ offset' >= MagicLen
<1> DEFINE h == Handle(hi, len)
<1>1. hi \in 1 .. Len(stream) /\ written \in Nat
  BY StreamFacts DEF Counters
<1>2. stream[hi].key \in Int /\ stream[hi].key_len \in Nat
  BY <1>1, StreamFacts
<1>3. <<written + 1, hi>> \in Nat \X Nat
  BY <1>1
<1>4. /\ h \in BlockHandle /\ h.crc = <<written + 1, hi>> /\ h.offset = offset
      /\ h.len = len /\ h.key_len = stream[hi].key_len
  BY <1>2, <1>3 DEF Handle, BlockHandle
<1>5. handles' = Append(handles, h) /\ offset' = offset + len
  BY DEF FlushBlock
<1> HIDE DEF h
<1>6. h.crc[1] = written + 1 /\ h.crc[2] = hi
  <2>1. h.crc = <<written + 1, hi>>
    BY <1>4, Zenon
  <2>2. QED
    BY <2>1
<1>7. Contiguous(handles, stream, offset)
  BY DEF ExtInv
<1>8. Contiguous(Append(handles, h), stream, offset + h.len)
  BY <1>4, <1>6, <1>7, ContiguousGrows
<1>9. offset + len >= MagicLen
  BY DEF ExtInv, MagicLen
<1>10. QED
  BY <1>4, <1>5, <1>8, <1>9

LEMMA ExtStep == SsInv /\ ExtInv /\ [Next]_vars => ExtInv'
<1> SUFFICES ASSUME SsInv, ExtInv, [Next]_vars
             PROVE  ExtInv'
  OBVIOUS
<1>1. /\ Counters /\ offset \in Nat /\ handles \in Seq(BlockHandle)
      /\ stream \in Seq(Entry) /\ Len(stream) \in Nat
      /\ written \in Nat /\ pushed \in Nat /\ buf_len \in Nat
      /\ written <= pushed /\ pushed <= Len(stream)
      /\ buf_len = 0 <=> written = pushed
  BY StreamFacts DEF SsInv, Partition, Counters
<1>2. /\ buf_len = Bytes(stream, written + 1, pushed)
      /\ Contiguous(handles, stream, offset) /\ offset >= MagicLen
  BY DEF ExtInv
<1>3. CASE Push
  <2> DEFINE len == buf_len + EntrySize(stream[pushed + 1])
  <2>1. pushed < Len(stream) /\ pushed' = pushed + 1 /\ stream' = stream
    BY <1>3 DEF Push
  <2>2. len = Bytes(stream, written + 1, pushed + 1) /\ len \in Nat
    <3>1. written + 1 \in Nat /\ 1 <= written + 1 /\ written + 1 <= pushed + 1
      BY <1>1
    <3>2. len = Bytes(stream, written + 1, pushed + 1)
      BY <1>1, <1>2, <2>1, <3>1, BytesGrow
    <3>3. pushed + 1 \in Nat /\ pushed + 1 <= Len(stream) /\ written + 1 <= pushed + 1 + 1
      BY <1>1, <2>1
    <3>4. Bytes(stream, written + 1, pushed + 1) \in Nat
      BY <1>1, <3>1, <3>3, BytesGrow
    <3>5. QED
      BY <3>2, <3>4
  <2>3. CASE len >= Target
    <3>1. FlushBlock(pushed + 1, len)
      BY <1>3, <2>3 DEF Push
    <3>2. pushed + 1 \in Nat /\ written < pushed + 1 /\ pushed + 1 <= Len(stream)
      BY <1>1, <2>1
    <3>3. Contiguous(handles', stream, offset') /\ offset' >= MagicLen
      BY <1>1, <2>2, <3>1, <3>2, FlushExtent
    <3>4. written' = pushed + 1 /\ buf_len' = 0
      BY <3>1 DEF FlushBlock
    <3>5. Bytes(stream, pushed + 1 + 1, pushed + 1) = 0
      <4>1. pushed + 1 + 1 \in Nat /\ 1 <= pushed + 1 + 1 /\ pushed + 1 < pushed + 1 + 1
        BY <1>1
      <4>2. QED
        BY <1>1, <3>2, <4>1, BytesGrow
    <3>6. QED
      BY <2>1, <3>3, <3>4, <3>5 DEF ExtInv
  <2>4. CASE ~(len >= Target)
    <3>1. buf_len' = len /\ UNCHANGED <<written, offset, handles>>
      BY <1>3, <2>4 DEF Push
    <3>2. QED
      BY <1>2, <2>1, <2>2, <3>1 DEF ExtInv
  <2>5. QED
    BY <2>3, <2>4
<1>4. CASE Finish
  <2>1. pushed = Len(stream) /\ pushed' = pushed /\ stream' = stream
    BY <1>4 DEF Finish
  <2>2. CASE buf_len = 0
    <3>1. UNCHANGED <<handles, offset, written, buf_len>>
      BY <1>4, <2>2 DEF Finish, FinishFlush
    <3>2. QED
      BY <1>2, <2>1, <3>1 DEF ExtInv
  <2>3. CASE buf_len # 0
    <3>1. FlushBlock(pushed, buf_len)
      BY <1>4, <2>3 DEF Finish, FinishFlush
    <3>2. written < pushed
      BY <1>1, <2>3
    <3>3. Contiguous(handles', stream, offset') /\ offset' >= MagicLen
      BY <1>1, <1>2, <3>1, <3>2, FlushExtent
    <3>4. written' = pushed /\ buf_len' = 0
      BY <3>1 DEF FlushBlock
    <3>5. Bytes(stream, pushed + 1, pushed) = 0
      <4>1. pushed + 1 \in Nat /\ 1 <= pushed + 1 /\ pushed < pushed + 1
        BY <1>1
      <4>2. QED
        BY <1>1, <4>1, BytesGrow
    <3>6. QED
      BY <2>1, <3>3, <3>4, <3>5 DEF ExtInv
  <2>4. QED
    BY <2>2, <2>3
<1>5. CASE UNCHANGED <<stream, pushed, written, buf_len, offset, handles>>
  BY <1>2, <1>5 DEF ExtInv
<1>6. QED
  BY <1>3, <1>4, <1>5 DEF Next, PushFails, Damage, Open, Lookup, vars, writer

LEMMA ExtInvariance == Spec => [](SsInv /\ ExtInv)
<1>1. ASSUME Init
      PROVE  ExtInv
  <2>1. handles = <<>> /\ offset = MagicLen /\ Len(<<>>) = 0
    BY <1>1 DEF Init
  <2>2. Contiguous(handles, stream, offset)
    BY <2>1 DEF Contiguous
  <2>3. stream \in Seq(Entry) /\ Len(stream) \in Nat
    BY <1>1, SsTableAssumption DEF Init
  <2>4. Bytes(stream, 0 + 1, 0) = 0
    BY <2>3, BytesGrow
  <2>5. QED
    BY <1>1, <2>1, <2>2, <2>4 DEF Init, ExtInv, MagicLen
<1>2. QED
  BY <1>1, SsInit, SsStep, ExtStep, PTL DEF Spec

\* Every handle of the index points at the bytes of its block's entries, and at
\* nothing else: blocks neither overlap nor leave gaps, for every stream and block
\* size (sstable.rs:450-456).
THEOREM BlocksContiguous == Spec => []ExtentsExact
<1>1. SsInv /\ ExtInv => ExtentsExact
  <2> SUFFICES ASSUME SsInv, ExtInv
               PROVE  ExtentsExact
    OBVIOUS
  <2>1. DOMAIN handles = 1 .. Len(handles)
    BY DEF SsInv, Partition
  <2>2. QED
    BY <2>1, Zenon DEF ExtInv, Contiguous, Bytes, ExtentsExact
<1>2. QED
  BY <1>1, ExtInvariance, PTL

-------------------------------------------------------------------------------
(* What was written opens and is read.                                     *)

\* The blocks' last entries are the entries of ascending positions.
LEMMA LastAscending ==
    ASSUME NEW hs, NEW s, NEW n, Partition(hs, s, n)
    PROVE  /\ \A i \in 1 .. Len(hs) : hs[i].crc[1] \in Nat /\ hs[i].crc[2] \in Nat
           /\ \A i \in 1 .. Len(hs) : 1 <= hs[i].crc[1]
           /\ \A i, j \in 1 .. Len(hs) : i < j => hs[i].crc[2] < hs[j].crc[2]
<1>1. hs \in Seq(BlockHandle) /\ Len(hs) \in Nat
  BY DEF Partition
<1>2. ASSUME NEW i \in 1 .. Len(hs)
      PROVE  hs[i].crc[1] \in Nat /\ hs[i].crc[2] \in Nat
  <2>1. hs[i] \in BlockHandle
    BY <1>1
  <2>2. QED
    BY <2>1 DEF BlockHandle
<1>3. ASSUME NEW i \in 1 .. Len(hs), i # 1
      PROVE  /\ i - 1 \in 1 .. Len(hs) /\ hs[i].crc[1] = hs[i - 1].crc[2] + 1
             /\ hs[i - 1].crc[2] < hs[i].crc[2]
  <2>1. i - 1 \in 1 .. Len(hs)
    BY <1>1, <1>3
  <2>2. hs[i].crc[1] = hs[i - 1].crc[2] + 1 /\ hs[i].crc[1] <= hs[i].crc[2]
    BY <1>3 DEF Partition
  <2>3. hs[i].crc[2] \in Nat /\ hs[i - 1].crc[2] \in Nat
    BY <1>2, <2>1, Zenon
  <2>4. hs[i - 1].crc[2] < hs[i].crc[2]
    BY <2>2, <2>3
  <2>5. QED
    BY <2>1, <2>2, <2>4, Zenon
<1>4. ASSUME NEW i \in 1 .. Len(hs)
      PROVE  1 <= hs[i].crc[1]
  <2>1. CASE i = 1
    BY <2>1 DEF Partition
  <2>2. CASE i # 1
    <3>1. i - 1 \in 1 .. Len(hs) /\ hs[i].crc[1] = hs[i - 1].crc[2] + 1
      BY <1>3, <2>2
    <3>2. hs[i - 1].crc[2] \in Nat
      BY <1>2, <3>1
    <3>3. QED
      BY <3>1, <3>2
  <2>3. QED
    BY <2>1, <2>2
<1>5. ASSUME NEW i \in 1 .. Len(hs)
      PROVE  \A j \in 1 .. Len(hs) : i < j => hs[i].crc[2] < hs[j].crc[2]
  <2> DEFINE Bad == {j \in 1 .. Len(hs) : i < j /\ ~(hs[i].crc[2] < hs[j].crc[2])}
  <2>1. ASSUME Bad # {}
        PROVE  FALSE
    <3>1. PICK j \in Bad : \A m \in Bad : j <= m
      <4>1. Bad \subseteq Nat
        BY <1>1
      <4> HIDE DEF Bad
      <4>2. QED
        BY <2>1, <4>1, LeastIndex, Zenon
    <3>2. j \in 1 .. Len(hs) /\ i < j /\ ~(hs[i].crc[2] < hs[j].crc[2])
      OBVIOUS
    <3>3. j # 1 /\ j - 1 \notin Bad
      <4>1. j - 1 \in Bad => j <= j - 1
        BY <3>1, Zenon
      <4> HIDE DEF Bad
      <4>2. QED
        BY <1>1, <3>2, <4>1
    <3>4. j - 1 \in 1 .. Len(hs) /\ hs[j - 1].crc[2] < hs[j].crc[2]
      BY <1>3, <3>2, <3>3
    <3>5. j - 1 = i \/ i < j - 1
      BY <3>2
    <3>6. j - 1 = i \/ hs[i].crc[2] < hs[j - 1].crc[2]
      BY <3>3, <3>4, <3>5
    <3>7. hs[i].crc[2] \in Nat /\ hs[j].crc[2] \in Nat /\ hs[j - 1].crc[2] \in Nat
      BY <1>2, <3>2, <3>4
    <3>8. hs[i].crc[2] < hs[j].crc[2]
      <4>1. CASE j - 1 = i
        BY <3>4, <4>1, Zenon
      <4>2. CASE hs[i].crc[2] < hs[j - 1].crc[2]
        <5>1. hs[j - 1].crc[2] < hs[j].crc[2]
          BY <3>4, Zenon
        <5>2. QED
          BY <3>7, <4>2, <5>1
      <4>3. QED
        BY <3>6, <4>1, <4>2, Zenon
    <3>9. QED
      BY <3>2, <3>8, Zenon
  <2>2. QED
    BY <2>1
<1>6. QED
  BY <1>2, <1>4, <1>5

\* The lengths of all entries are within the reader's limit.
WithinLimit ==
    \A i \in DOMAIN stream :
        stream[i].key_len <= MaxRecordLen /\ stream[i].val_len <= MaxRecordLen

\* Nobody reads a run before it is finished.
NotRead == wpc # "finished" => index = None /\ answer = NoAnswer

\* What the invariant says of the stream and of the blocks written so far.
LEMMA WrittenFacts ==
    ASSUME SsInv
    PROVE  /\ Partition(handles, stream, written) /\ Counters
           /\ stream \in Seq(Entry) /\ Ascending(stream) /\ Len(stream) \in Nat
           /\ written \in Nat /\ written <= Len(stream)
           /\ DOMAIN stream = 1 .. Len(stream) /\ DOMAIN handles = 1 .. Len(handles)
<1>1. Partition(handles, stream, written) /\ Counters
  BY Zenon DEF SsInv
<1>2. stream \in Seq(Entry) /\ Ascending(stream) /\ Len(stream) \in Nat
  BY <1>1, StreamFacts, Zenon
<1>3. written \in Nat /\ written <= Len(stream)
  BY <1>1, <1>2 DEF Counters
<1>4. DOMAIN stream = 1 .. Len(stream)
  BY <1>2
<1>5. DOMAIN handles = 1 .. Len(handles)
  <2>1. handles \in Seq(BlockHandle)
    BY <1>1, Zenon DEF Partition
  <2>2. QED
    BY <2>1
<1>6. QED
  BY <1>1, <1>2, <1>3, <1>4, <1>5, Zenon

\* parse_index accepts the index the writer built.
LEMMA WrittenParses ==
    ASSUME SsInv, ExtInv, WithinLimit
    PROVE  IndexParses(handles)
<1>1. /\ Partition(handles, stream, written) /\ Counters
      /\ stream \in Seq(Entry) /\ Ascending(stream) /\ Len(stream) \in Nat
      /\ written \in Nat /\ written <= Len(stream)
      /\ DOMAIN stream = 1 .. Len(stream) /\ DOMAIN handles = 1 .. Len(handles)
  BY WrittenFacts, Zenon
<1>2. ASSUME NEW i \in 1 .. Len(handles)
      PROVE  /\ handles[i].crc[2] \in 1 .. Len(stream)
             /\ handles[i].last_key = stream[handles[i].crc[2]].key
             /\ handles[i].key_len = stream[handles[i].crc[2]].key_len
  <2>1. /\ handles[i].crc[1] \in Nat /\ handles[i].crc[2] \in Nat
        /\ 1 <= handles[i].crc[1]
    BY <1>1, LastAscending
  <2>2. /\ handles[i].crc[1] <= handles[i].crc[2] /\ handles[i].crc[2] <= written
        /\ handles[i].last_key = stream[handles[i].crc[2]].key
    BY <1>1 DEF Partition
  <2>3. handles[i].key_len = stream[handles[i].crc[2]].key_len
    BY DEF ExtInv, Contiguous
  <2>4. handles[i].crc[2] \in 1 .. Len(stream)
    <3>1. written \in Nat /\ written <= Len(stream) /\ Len(stream) \in Nat
      BY <1>1, Zenon
    <3>2. QED
      BY <2>1, <2>2, <3>1
  <2>5. QED
    BY <2>2, <2>3, <2>4
<1>3. \A i \in DOMAIN handles : handles[i].key_len <= MaxRecordLen
  BY <1>1, <1>2 DEF WithinLimit
<1>4. \A i, j \in DOMAIN handles : i < j => handles[i].last_key < handles[j].last_key
  <2>1. \A i, j \in 1 .. Len(handles) : i < j => handles[i].crc[2] < handles[j].crc[2]
    BY <1>1, LastAscending
  <2>2. ASSUME NEW i \in 1 .. Len(handles), NEW j \in 1 .. Len(handles), i < j
        PROVE  handles[i].last_key < handles[j].last_key
    <3>1. /\ handles[i].crc[2] \in DOMAIN stream /\ handles[j].crc[2] \in DOMAIN stream
          /\ handles[i].crc[2] < handles[j].crc[2]
      BY <1>1, <1>2, <2>1, <2>2
    <3>2. stream[handles[i].crc[2]].key < stream[handles[j].crc[2]].key
      BY <1>1, <3>1 DEF Ascending
    <3>3. QED
      BY <1>2, <3>2
  <2>3. QED
    BY <1>1, <2>2
<1>5. QED
  BY <1>3, <1>4 DEF IndexParses

\* The length of a handle in the index is a natural number.
LEMMA HandleSizeType ==
    ASSUME NEW h \in BlockHandle
    PROVE  HandleSize(h) \in Nat
<1>1. h.key_len \in Nat
  BY DEF BlockHandle
<1>2. QED
  BY <1>1 DEF HandleSize

\* The length of an index is a natural number.
LEMMA IndexLenNat ==
    ASSUME NEW hs \in Seq(BlockHandle)
    PROVE  IndexLen(hs) \in Nat
<1> DEFINE f == [i \in DOMAIN hs |-> HandleSize(hs[i])]
<1>1. DOMAIN f = 1 .. Len(hs) /\ Len(hs) \in Nat
  OBVIOUS
<1>2. IsFiniteSet(1 .. Len(hs))
  BY <1>1, FS_Interval
<1>3. ASSUME NEW i \in 1 .. Len(hs)
      PROVE  f[i] \in Nat
  <2>1. hs[i] \in BlockHandle
    OBVIOUS
  <2>2. HandleSize(hs[i]) \in Nat
    BY <2>1, HandleSizeType, Zenon
  <2>3. QED
    BY <1>1, <2>2
<1>4. Numbers(f, DOMAIN f)
  BY <1>1, <1>3 DEF Numbers
<1>5. IndexLen(hs) = SumFunction(f)
  BY DEF IndexLen
<1> HIDE DEF f
<1>6. QED
  BY <1>1, <1>2, <1>4, <1>5, SumIsNat

\* open accepts a file as finish left it.
LEMMA IntactOpens ==
    ASSUME SsInv, ExtInv, WithinLimit, Intact
    PROVE  Opens /\ IndexBytes = handles /\ handles # Err
<1>1. /\ handles \in Seq(BlockHandle) /\ offset \in Nat /\ offset >= MagicLen
      /\ handles # Garbled /\ handles # Err
  BY SsTableAssumption DEF SsInv, ExtInv, Partition
<1>2. IndexLen(handles) \in Nat
  BY <1>1, IndexLenNat
<1>3. /\ file.len = offset + IndexLen(handles) + FooterSize
      /\ file.index_offset = offset /\ file.index_len = IndexLen(handles)
      /\ file.index_crc = handles /\ file.magic /\ file.index = handles
  BY DEF Intact, FileOf
<1>4. IndexBytes = handles
  BY <1>3 DEF IndexBytes
<1>5. /\ file.len >= MagicLen + FooterSize
      /\ file.index_offset + file.index_len = file.len - FooterSize
  BY <1>1, <1>2, <1>3 DEF MagicLen, FooterSize
<1>6. IndexParses(handles)
  BY WrittenParses
<1>7. QED
  BY <1>1, <1>3, <1>4, <1>5, <1>6 DEF Opens

\* lookup decodes the block it picks, in a file as finish left it.
LEMMA IntactLookup ==
    ASSUME SsInv, ExtInv, WithinLimit, Intact, NEW k \in Lookups, Lookup(k)
    PROVE  answer'.result # Err
<1> DEFINE least == CHOOSE i \in BlocksFrom(k) : \A j \in BlocksFrom(k) : i <= j
           found == CHOOSE e \in Decoded(least) : e.key = k
<1>1. /\ index = handles
      /\ answer'.result = IF BlocksFrom(k) = {} THEN None
                          ELSE IF ~Decodes(least) THEN Err
                          ELSE IF \E e \in Decoded(least) : e.key = k THEN found ELSE None
  BY DEF Lookup, SsInv, ReaderIndex
<1>2. /\ Partition(handles, stream, written) /\ Counters
      /\ stream \in Seq(Entry) /\ Len(stream) \in Nat
      /\ written \in Nat /\ written <= Len(stream)
      /\ DOMAIN stream = 1 .. Len(stream) /\ DOMAIN handles = 1 .. Len(handles)
  BY WrittenFacts, Zenon
<1>3. ASSUME BlocksFrom(k) # {}
      PROVE  Decodes(least) /\ \A e \in Decoded(least) : e \in Entry
  <2>1. least \in 1 .. Len(handles)
    <3>1. BlocksFrom(k) \subseteq 1 .. Len(handles)
      BY <1>1, <1>2 DEF BlocksFrom
    <3>2. \E i \in BlocksFrom(k) : \A j \in BlocksFrom(k) : i <= j
      <4>1. BlocksFrom(k) \subseteq Nat
        BY <3>1
      <4>2. QED
        BY <1>3, <4>1, LeastIndex
    <3>3. least \in BlocksFrom(k)
      BY <3>2
    <3>4. QED
      BY <3>1, <3>3
  <2> HIDE DEF least
  <2>2. file.blocks[least] = index[least].crc
    BY <1>1, <1>2, <2>1 DEF Intact, FileOf
  <2>3. index[least].crc[1] .. index[least].crc[2] \subseteq 1 .. Len(stream)
    <3>1. /\ handles[least].crc[1] \in Nat /\ handles[least].crc[2] \in Nat
          /\ 1 <= handles[least].crc[1]
      BY <1>2, <2>1, LastAscending
    <3>2. handles[least].crc[2] <= written
      BY <1>2, <2>1 DEF Partition
    <3>3. written \in Nat /\ written <= Len(stream) /\ Len(stream) \in Nat
      BY <1>2, Zenon
    <3>4. handles[least].crc[1] .. handles[least].crc[2] \subseteq 1 .. Len(stream)
      BY <3>1, <3>2, <3>3
    <3>5. QED
      BY <1>1, <3>4, Zenon
  <2>4. \A p \in index[least].crc[1] .. index[least].crc[2] :
           Readable(stream[p]) /\ stream[p] \in Entry
    BY <1>2, <2>3 DEF WithinLimit, Readable
  <2>5. QED
    BY <2>2, <2>4 DEF Decodes, Decoded
<1>4. (\E e \in Decoded(least) : e.key = k) => found \in Decoded(least)
  BY Zenon
<1> HIDE DEF found, least
<1>5. QED
  BY <1>1, <1>3, <1>4, SsTableAssumption

LEMMA ReadableStep ==
    SsInv /\ ExtInv /\ NotRead /\ IntactReadable /\ [Next]_vars => NotRead' /\ IntactReadable'
<1> SUFFICES ASSUME SsInv, ExtInv, NotRead, IntactReadable, [Next]_vars
             PROVE  NotRead' /\ IntactReadable'
  OBVIOUS
<1>1. wpc = "finished" /\ Intact /\ WithinLimit => index # Err /\ answer.result # Err
  BY DEF IntactReadable, WithinLimit
<1>2. ASSUME wpc' = "finished" /\ Intact' /\ WithinLimit' => index' # Err /\ answer'.result # Err
      PROVE  IntactReadable'
  BY <1>2 DEF IntactReadable, WithinLimit
<1>3. CASE Push \/ PushFails
  <2>1. wpc = "push" /\ wpc' # "finished" /\ index' = index /\ answer' = answer
    BY <1>3 DEF Push, PushFails
  <2>2. QED
    BY <1>2, <2>1 DEF NotRead
<1>4. CASE Finish
  <2>1. wpc = "push" /\ wpc' = "finished" /\ index' = index /\ answer' = answer
    BY <1>4 DEF Finish
  <2>2. index' = None /\ answer'.result = None
    BY <2>1 DEF NotRead, NoAnswer
  <2>3. QED
    BY <1>2, <2>1, <2>2, SsTableAssumption DEF NotRead
<1>5. CASE Damage
  <2>1. /\ wpc = "finished" /\ Intact /\ wpc' = wpc
        /\ index' = index /\ answer' = answer /\ stream' = stream
    BY <1>5 DEF Damage, writer
  <2>2. WithinLimit' => WithinLimit
    BY <2>1 DEF WithinLimit
  <2>3. QED
    BY <1>1, <1>2, <2>1, <2>2 DEF NotRead
<1>6. CASE Open
  <2>1. /\ wpc = "finished" /\ UNCHANGED <<wpc, stream, offset, handles, file, answer>>
        /\ index' = IF Opens THEN IndexBytes ELSE Err
    BY <1>6 DEF Open, writer
  <2>2. (WithinLimit' => WithinLimit) /\ (Intact' => Intact)
    BY <2>1 DEF WithinLimit, Intact, FileOf
  <2>3. QED
    BY <1>1, <1>2, <2>1, <2>2, IntactOpens DEF NotRead
<1>7. ASSUME NEW k \in Lookups, Lookup(k)
      PROVE  NotRead' /\ IntactReadable'
  <2>1. UNCHANGED <<wpc, stream, offset, handles, file, index>> /\ index \notin {None, Err}
    BY <1>7 DEF Lookup, writer
  <2>2. (WithinLimit' => WithinLimit) /\ (Intact' => Intact)
    BY <2>1 DEF WithinLimit, Intact, FileOf
  <2>3. wpc = "finished"
    BY <2>1 DEF SsInv, ReaderIndex
  <2>4. WithinLimit /\ Intact => answer'.result # Err
    BY <1>7, IntactLookup
  <2>5. QED
    BY <1>2, <2>1, <2>2, <2>3, <2>4 DEF NotRead
<1>8. CASE UNCHANGED vars
  <2>1. UNCHANGED <<wpc, stream, offset, handles, file, index, answer>>
    BY <1>8 DEF vars, writer
  <2>2. (WithinLimit' => WithinLimit) /\ (Intact' => Intact)
    BY <2>1 DEF WithinLimit, Intact, FileOf
  <2>3. QED
    BY <1>1, <1>2, <2>1, <2>2 DEF NotRead
<1>9. QED
  BY <1>3, <1>4, <1>5, <1>6, <1>7, <1>8 DEF Next

\* A run that finish completed and nothing has damaged opens, and no lookup in it
\* reports corruption, wherever its blocks were cut, as long as its lengths are
\* within MAX_RECORD_LEN: the writer's index passes every check of open and
\* parse_index (sstable.rs:136-188, 541-575).
THEOREM WhatIsWrittenIsRead == Spec => []IntactReadable
<1>1. Init => NotRead /\ IntactReadable
  BY DEF Init, NotRead, IntactReadable
<1>2. QED
  BY <1>1, ExtInvariance, ReadableStep, PTL DEF Spec
====
