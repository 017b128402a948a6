----------------------------- MODULE MergeProofs ------------------------------
(***************************************************************************)
(* For every set of keys, number of runs, division into blocks and range:  *)
(* a merge that finishes has collected, in ascending order, exactly the    *)
(* current values in the range.                                            *)
(***************************************************************************)
EXTENDS Merge, WellFoundedInduction, TLAPS

\* A non-empty set of natural numbers has a least element.
LEMMA LeastExists ==
    ASSUME NEW S, S \subseteq Nat, S # {}
    PROVE  \E i \in S : \A j \in S : i <= j
<1>1. PICK x \in S : \A y \in S : ~(<<y, x>> \in OpToRel(<, Nat))
  BY NatLessThanWellFounded, WFMin, Zenon
<1>2. \A y \in S : ~(y < x)
  BY <1>1, Zenon DEF OpToRel
<1>3. QED
  BY <1>2

\* The tables that have a record of a key.
LEMMA HitsBounds ==
    ASSUME NEW ts \in Seq(Table), NEW k
    PROVE  Hits(ts, k) \subseteq 1 .. Len(ts)
BY DEF Hits

LEMMA OnlyType ==
    ASSUME NEW a \in Table, NEW K
    PROVE  Only(a, K) \in Table
BY DEF Only, Table

-------------------------------------------------------------------------------
(* The inductive invariant.                                                *)

Rest(s) == block[s] \cup left[s]

\* Some source had k and has moved past it.
Taken(k) == \E s \in DOMAIN src : k \in Entries(src[s]) /\ k \notin Rest(s)

MergeTypes ==
    /\ pc \in {"next", "done", "failed"}
    /\ job \in Jobs /\ src = Snapshot
    /\ block \in [DOMAIN src -> SUBSET Keys] /\ left \in [DOMAIN src -> SUBSET Keys]
    /\ out \in Seq(Keys \X Values)

\* Every source is read in order, and no source is behind another.
InStep ==
    /\ \A s \in DOMAIN src : Rest(s) \subseteq Entries(src[s])
    /\ \A s \in DOMAIN src : \A a \in block[s], b \in left[s] : a < b
    /\ \A k \in Keys : Taken(k) => \A s \in DOMAIN src : \A j \in Rest(s) : k < j

\* The keys of K that a scan returns, with their values.
Wanted(K) == {<<k, Newest(src)[k]>> :
                 k \in {k \in K : In(k) /\ Newest(src)[k] \in Values}}

Collected ==
    /\ pc = "next" => Range(out) = Wanted({k \in Keys : Taken(k)})
    /\ pc = "done" => Range(out) = Wanted(Keys)
    /\ \A i \in DOMAIN out : Taken(out[i][1])

MergeInv == MergeTypes /\ InStep /\ Collected /\ KeysAscend

-------------------------------------------------------------------------------
(* The snapshot.                                                           *)

LEMMA SnapshotType ==
    ASSUME job \in Jobs
    PROVE  Snapshot \in Seq(Table) /\ <<job.mem>> \o job.runs \in Seq(Table)
<1>1. job.mem \in Table /\ job.runs \in Seq(Table)
  BY MergeAssumption DEF Job
<1>2. Only(job.mem, {k \in Keys : In(k)}) \in Table
  BY <1>1, OnlyType
<1>3. QED
  BY <1>1, <1>2 DEF Snapshot

\* Leaving the memtable's entries outside the range out of the snapshot does not
\* change what is newest inside it.
LEMMA SnapshotExact ==
    ASSUME job \in Jobs, NEW k \in Keys, In(k)
    PROVE  Newest(Snapshot)[k] = Current[k]
<1> DEFINE m == Only(job.mem, {j \in Keys : In(j)})
           ts == <<job.mem>> \o job.runs
           us == <<m>> \o job.runs
<1>1. job.mem \in Table /\ job.runs \in Seq(Table) /\ m \in Table
  BY MergeAssumption, OnlyType DEF Job
<1>2. m[k] = job.mem[k]
  BY DEF Only
<1>3. us = Snapshot
  BY DEF Snapshot
<1> HIDE DEF m
<1>4. /\ DOMAIN us = 1 .. 1 + Len(job.runs) /\ DOMAIN ts = DOMAIN us
      /\ us[1] = m /\ ts[1] = job.mem
      /\ \A i \in 2 .. 1 + Len(job.runs) : us[i] = job.runs[i - 1] /\ ts[i] = job.runs[i - 1]
  BY <1>1
<1> HIDE DEF ts, us
<1>5. \A i \in DOMAIN ts : us[i][k] = ts[i][k]
  BY <1>1, <1>2, <1>4
<1>6. Hits(us, k) = Hits(ts, k)
  BY <1>4, <1>5 DEF Hits
<1>7. CASE Hits(ts, k) = {}
  BY <1>3, <1>6, <1>7 DEF Newest, Current, ts
<1>8. CASE Hits(ts, k) # {}
  <2> DEFINE i == CHOOSE i \in Hits(ts, k) : \A j \in Hits(ts, k) : i <= j
  <2>1. Hits(ts, k) \subseteq Nat
    BY <1>1, <1>4 DEF Hits
  <2>2. \E x \in Hits(ts, k) : \A j \in Hits(ts, k) : x <= j
    BY <1>8, <2>1, LeastExists
  <2>3. i \in Hits(ts, k)
    BY <2>2
  <2>4. i \in DOMAIN ts
    BY <2>3 DEF Hits
  <2>5. Newest(us)[k] = us[i][k] /\ Newest(ts)[k] = ts[i][k]
    BY <1>6, <1>8 DEF Newest
  <2> HIDE DEF i
  <2>6. QED
    BY <1>3, <1>5, <2>4, <2>5 DEF Current, ts
<1>9. QED
  BY <1>7, <1>8

\* A key with a current record is in some source.
LEMMA NewestHeld ==
    ASSUME NEW k \in Keys, Newest(src)[k] \in Values
    PROVE  \E s \in DOMAIN src : k \in Entries(src[s])
<1>1. Newest(src)[k] # None
  BY RecordAssumption
<1>2. Hits(src, k) # {}
  BY <1>1 DEF Newest
<1>3. QED
  BY <1>2 DEF Hits, Entries
-------------------------------------------------------------------------------
(* Steps.                                                                  *)

LEMMA InitStep == Init => MergeInv
<1> SUFFICES ASSUME Init
             PROVE  MergeInv
  OBVIOUS
<1>1. \A s \in DOMAIN src : Entries(src[s]) \subseteq Keys
  BY DEF Entries
<1>2. MergeTypes
  <2>1. out \in Seq(Keys \X Values)
    BY DEF Init
  <2>2. QED
    BY <1>1, <2>1 DEF Init, MergeTypes
<1>3. ASSUME NEW s \in DOMAIN src
      PROVE  Rest(s) = Entries(src[s]) /\ (block[s] = {} \/ left[s] = {})
  BY DEF Init, Rest
<1>4. \A k : ~Taken(k)
  BY <1>3 DEF Taken
<1>5. InStep
  BY <1>3, <1>4 DEF InStep
<1>6. DOMAIN out = {} /\ pc = "next"
  BY DEF Init
<1>7. Collected
  BY <1>4, <1>6 DEF Collected, Range, Wanted
<1>8. KeysAscend
  BY <1>6 DEF KeysAscend
<1>9. QED
  BY <1>2, <1>5, <1>7, <1>8 DEF MergeInv

\* Reading a block moves keys from left to block.
LEMMA FillStep ==
    ASSUME MergeInv, NEW s \in DOMAIN src, Fill(s)
    PROVE  MergeInv'
<1>1. MergeTypes /\ InStep /\ Collected /\ KeysAscend
  BY DEF MergeInv
<1>2. /\ block' = [block EXCEPT ![s] = NextBlock(s)]
      /\ left' = [left EXCEPT ![s] = @ \ NextBlock(s)]
      /\ UNCHANGED <<pc, job, src, out>>
      /\ block[s] = {}
  BY DEF Fill, Unfilled
<1>3. NextBlock(s) \subseteq left[s]
  BY DEF NextBlock
<1>4. /\ block \in [DOMAIN src -> SUBSET Keys] /\ left \in [DOMAIN src -> SUBSET Keys]
      /\ Keys \subseteq Int
  BY <1>1, MergeAssumption DEF MergeTypes
<1>5. /\ block'[s] = NextBlock(s) /\ left'[s] = left[s] \ NextBlock(s)
      /\ \A t \in DOMAIN src : t # s => block'[t] = block[t] /\ left'[t] = left[t]
  BY <1>2, <1>4
<1>6. \A t \in DOMAIN src : Rest(t)' = Rest(t)
  BY <1>2, <1>3, <1>5 DEF Rest
<1>7. \A k : Taken(k)' <=> Taken(k)
  BY <1>2, <1>6 DEF Taken
<1>8. MergeTypes'
  <2>1. NextBlock(s) \in SUBSET Keys /\ left[s] \ NextBlock(s) \in SUBSET Keys
    BY <1>3, <1>4
  <2>2. block' \in [DOMAIN src -> SUBSET Keys] /\ left' \in [DOMAIN src -> SUBSET Keys]
    BY <1>2, <1>4, <2>1
  <2>3. Snapshot' = Snapshot
    BY <1>2 DEF Snapshot, In, Below, Above
  <2>4. QED
    BY <1>1, <1>2, <2>2, <2>3 DEF MergeTypes
<1>9. InStep'
  <2>1. \A a \in block'[s], b \in left'[s] : a < b
    <3>1. SUFFICES ASSUME NEW a \in NextBlock(s), NEW b \in left[s], b \notin NextBlock(s)
                   PROVE  a < b
      BY <1>5
    <3>2. PICK e \in job.ends[s - 1] : e \in left[s] /\ ~(b <= e)
      BY <3>1 DEF NextBlock
    <3>3. a <= e
      BY <3>2 DEF NextBlock
    <3>4. a \in Int /\ b \in Int /\ e \in Int
      BY <1>3, <1>4, <3>2, Zenon
    <3>5. QED
      BY <3>2, <3>3, <3>4
  <2>2. \A t \in DOMAIN src : \A a \in block'[t], b \in left'[t] : a < b
    BY <1>1, <1>5, <2>1 DEF InStep
  <2>3. QED
    BY <1>1, <1>2, <1>6, <1>7, <2>2 DEF InStep
<1>10. Collected'
  <2>1. {k \in Keys : Taken(k)}' = {k \in Keys : Taken(k)}
    BY <1>7
  <2>2. \A K : Wanted(K)' = Wanted(K)
    BY <1>2 DEF Wanted, In, Below, Above
  <2>3. QED
    BY <1>1, <1>2, <1>7, <2>1, <2>2, Zenon DEF Collected
<1>11. KeysAscend'
  BY <1>1, <1>2 DEF KeysAscend
<1>12. QED
  BY <1>8, <1>9, <1>10, <1>11 DEF MergeInv

\* What holds of the smallest key at hand once every source has been filled.
LEMMA SmallestHead ==
    ASSUME MergeInv, NEW k \in Keys, Unfilled = {}, k \in Heads, \A h \in Heads : k <= h
    PROVE  /\ \A s \in DOMAIN src : k \notin left[s]
           /\ \A s \in DOMAIN src : \A j \in Rest(s) : j # k => k < j
           /\ Holders(k) = Hits(src, k) /\ Holders(k) # {}
           /\ Chosen(k) = Newest(src)[k]
           /\ Chosen(k) \in Record
<1>1. MergeTypes /\ InStep
  BY DEF MergeInv
<1>2. /\ block \in [DOMAIN src -> SUBSET Keys] /\ left \in [DOMAIN src -> SUBSET Keys]
      /\ Keys \subseteq Int
  BY <1>1, MergeAssumption DEF MergeTypes
<1>3. \A s \in DOMAIN src : \A j \in left[s] : k < j
  <2>1. SUFFICES ASSUME NEW s \in DOMAIN src, NEW j \in left[s]
                 PROVE  k < j
    OBVIOUS
  <2>2. PICK b \in block[s] : TRUE
    BY DEF Unfilled
  <2>3. k <= b /\ b < j
    BY <1>1, <2>2 DEF Heads, InStep
  <2>4. b \in Int /\ j \in Int /\ k \in Int
    BY <1>2
  <2>5. QED
    BY <2>3, <2>4
<1>4. \A s \in DOMAIN src : \A j \in block[s] : j # k => k < j
  <2>1. SUFFICES ASSUME NEW s \in DOMAIN src, NEW j \in block[s], j # k
                 PROVE  k < j
    OBVIOUS
  <2>2. k <= j
    BY DEF Heads
  <2>3. j \in Int /\ k \in Int
    BY <1>2
  <2>4. QED
    BY <2>1, <2>2, <2>3
<1>5. PICK h \in DOMAIN src : k \in block[h]
  BY DEF Heads
<1>6. k \in Int /\ ~(k < k)
  BY <1>2
<1>7. ~Taken(k)
  BY <1>1, <1>5, <1>6 DEF InStep, Rest
<1>8. Holders(k) = Hits(src, k)
  <2>1. \A s \in DOMAIN src : k \in block[s] => k \in Entries(src[s])
    BY <1>1 DEF InStep, Rest
  <2>2. \A s \in DOMAIN src : k \in Entries(src[s]) => k \in block[s]
    BY <1>3, <1>6, <1>7 DEF Taken, Rest
  <2>3. QED
    BY <2>1, <2>2 DEF Holders, Hits, Entries
<1>9. Holders(k) # {}
  BY <1>5 DEF Holders
<1>10. Chosen(k) = Newest(src)[k]
  BY <1>8, <1>9 DEF Chosen, Newest
<1>11. Chosen(k) \in Record
  <2>1. src \in Seq(Table)
    BY <1>1, SnapshotType DEF MergeTypes
  <2>2. Hits(src, k) \subseteq Nat /\ Hits(src, k) \subseteq 1 .. Len(src)
    BY <2>1, HitsBounds
  <2>3. \E i \in Holders(k) : \A j \in Holders(k) : i <= j
    BY <1>8, <1>9, <2>2, LeastExists
  <2> DEFINE i == CHOOSE i \in Holders(k) : \A j \in Holders(k) : i <= j
  <2>4. i \in Holders(k) /\ Chosen(k) = src[i][k]
    BY <2>3 DEF Chosen
  <2>5. src[i] \in Table /\ src[i][k] # None
    <3> HIDE DEF i
    <3>1. i \in 1 .. Len(src) /\ i \in Hits(src, k)
      BY <1>8, <2>2, <2>4
    <3>2. QED
      BY <2>1, <3>1 DEF Hits
  <2>6. src[i][k] \in Record \cup {None}
    BY <2>5 DEF Table
  <2>7. QED
    BY <2>4, <2>5, <2>6
<1>12. QED
  BY <1>3, <1>4, <1>6, <1>8, <1>9, <1>10, <1>11 DEF Rest

\* Taking the smallest key takes that key and no other.
LEMMA TakeAdvances ==
    ASSUME MergeInv, NEW k \in Keys, Take(k)
    PROVE  /\ MergeTypes' /\ InStep'
           /\ ~Taken(k)
           /\ \A j : Taken(j)' <=> Taken(j) \/ j = k
<1>1. MergeTypes /\ InStep
  BY DEF MergeInv
<1>2. /\ Unfilled = {} /\ k \in Heads /\ \A h \in Heads : k <= h
      /\ block' = [s \in DOMAIN src |-> block[s] \ {k}]
      /\ UNCHANGED <<job, src, left>>
  BY DEF Take, Advance
<1>3. /\ \A s \in DOMAIN src : k \notin left[s]
      /\ \A s \in DOMAIN src : \A j \in Rest(s) : j # k => k < j
      /\ Holders(k) = Hits(src, k) /\ Holders(k) # {}
      /\ Chosen(k) \in Record
  BY <1>2, SmallestHead
<1>4. /\ block \in [DOMAIN src -> SUBSET Keys] /\ left \in [DOMAIN src -> SUBSET Keys]
      /\ Keys \subseteq Int
  BY <1>1, MergeAssumption DEF MergeTypes
<1>5. \A s \in DOMAIN src : Rest(s)' = Rest(s) \ {k}
  BY <1>2, <1>3 DEF Rest
<1>6. PICK h \in DOMAIN src : k \in block[h] /\ k \in Entries(src[h])
  BY <1>1, <1>3 DEF Holders, InStep, Rest
<1>7. \A j : Taken(j)' <=> Taken(j) \/ j = k
  BY <1>2, <1>5, <1>6 DEF Taken
<1>8. k \in Int /\ ~(k < k)
  BY <1>4
<1>9. ~Taken(k)
  BY <1>1, <1>6, <1>8 DEF InStep, Rest
<1>10. InStep'
  <2>1. \A s \in DOMAIN src : Rest(s)' \subseteq Entries(src[s])
    BY <1>1, <1>5 DEF InStep
  <2>2. \A s \in DOMAIN src : \A a \in block'[s], b \in left'[s] : a < b
    BY <1>1, <1>2 DEF InStep
  <2>3. ASSUME NEW j \in Keys, Taken(j)', NEW s \in DOMAIN src, NEW i \in Rest(s)'
        PROVE  j < i
    <3>1. i \in Rest(s) /\ i # k
      BY <1>5
    <3>2. CASE j = k
      BY <1>3, <3>1, <3>2
    <3>3. CASE Taken(j)
      BY <1>1, <3>1, <3>3 DEF InStep
    <3>4. QED
      BY <1>7, <2>3, <3>2, <3>3
  <2>4. QED
    BY <1>2, <2>1, <2>2, <2>3 DEF InStep
<1>11. MergeTypes'
  <2>1. block' \in [DOMAIN src -> SUBSET Keys]
    BY <1>2, <1>4
  <2>2. Snapshot' = Snapshot
    BY <1>2 DEF Snapshot, In, Below, Above
  <2>3. out' \in Seq(Keys \X Values) /\ pc' \in {"next", "done", "failed"}
    <3>1. CASE UNCHANGED <<pc, out>>
      BY <1>1, <3>1 DEF MergeTypes
    <3>2. CASE pc' = "done" /\ UNCHANGED out
      BY <1>1, <3>2 DEF MergeTypes
    <3>3. CASE Chosen(k) # Tombstone /\ out' = Append(out, <<k, Chosen(k)>>) /\ UNCHANGED pc
      <4>1. <<k, Chosen(k)>> \in Keys \X Values
        BY <1>3, <3>3 DEF Record
      <4>2. QED
        BY <1>1, <3>3, <4>1 DEF MergeTypes
    <3>4. QED
      BY <3>1, <3>2, <3>3 DEF Take, Collect
  <2>4. QED
    BY <1>1, <1>2, <2>1, <2>2, <2>3 DEF MergeTypes
<1>12. QED
  BY <1>7, <1>9, <1>10, <1>11

LEMMA TakeStep ==
    ASSUME MergeInv, NEW k \in Keys, Take(k)
    PROVE  MergeInv'
<1> DEFINE T == {j \in Keys : Taken(j)}
           W == Newest(src)
<1>1. MergeTypes /\ InStep /\ Collected /\ KeysAscend
  BY DEF MergeInv
<1>2. /\ pc = "next" /\ UNCHANGED <<job, src>>
      /\ Unfilled = {} /\ k \in Heads /\ \A h \in Heads : k <= h
      /\ Collect(k)
  BY DEF Take
<1>3. /\ \A s \in DOMAIN src : \A j \in Rest(s) : j # k => k < j
      /\ Chosen(k) = W[k] /\ Chosen(k) \in Record
  BY <1>2, SmallestHead
<1>4. MergeTypes' /\ InStep' /\ ~Taken(k) /\ \A j : Taken(j)' <=> Taken(j) \/ j = k
  BY TakeAdvances
<1>5. {j \in Keys : Taken(j)}' = T \cup {k}
  BY <1>4
<1>6. /\ \A K : Wanted(K)' = Wanted(K)
      /\ Range(out) = Wanted(T)
      /\ \A i \in DOMAIN out : Taken(out[i][1])
  BY <1>1, <1>2 DEF Wanted, In, Below, Above, Collected
<1>7. Keys \subseteq Int
  BY MergeAssumption
<1>8. CASE (Chosen(k) = Tombstone \/ Below(k)) /\ UNCHANGED <<pc, out>>
  <2>1. ~(In(k) /\ W[k] \in Values)
    BY <1>3, <1>8, RecordAssumption DEF In
  <2>2. Wanted(T \cup {k}) = Wanted(T)
    BY <2>1 DEF Wanted
  <2> HIDE DEF T
  <2>3. Collected'
    BY <1>2, <1>4, <1>5, <1>6, <1>8, <2>2, Zenon DEF Collected, Range
  <2>4. KeysAscend'
    BY <1>1, <1>8 DEF KeysAscend
  <2>5. QED
    BY <1>4, <2>3, <2>4 DEF MergeInv
<1>9. CASE Above(k) /\ pc' = "done" /\ UNCHANGED out
  <2>1. \A j \in Keys : In(j) /\ W[j] \in Values => j \in T
    <3>1. SUFFICES ASSUME NEW j \in Keys, In(j), W[j] \in Values
                   PROVE  Taken(j)
      OBVIOUS
    <3>2. PICK s \in DOMAIN src : j \in Entries(src[s])
      BY <3>1, NewestHeld
    <3>3. j \notin Rest(s)
      <4>1. j \in Int /\ k \in Int /\ job.to.key \in Int
        BY <1>1, <1>7, MergeAssumption DEF MergeTypes, Job, Bound
      <4>2. ~(k <= j)
        BY <1>9, <3>1, <4>1 DEF In, Above
      <4>3. QED
        BY <1>3, <4>1, <4>2
    <3>4. QED
      BY <3>2, <3>3 DEF Taken
  <2>2. Wanted(T) = Wanted(Keys)
    BY <2>1 DEF Wanted
  <2>3. Collected'
    BY <1>4, <1>6, <1>9, <2>2 DEF Collected, Range
  <2>4. KeysAscend'
    BY <1>1, <1>9 DEF KeysAscend
  <2>5. QED
    BY <1>4, <2>3, <2>4 DEF MergeInv
<1>10. CASE /\ Chosen(k) # Tombstone /\ ~Below(k) /\ ~Above(k)
            /\ out' = Append(out, <<k, Chosen(k)>>) /\ UNCHANGED pc
  <2>1. In(k) /\ W[k] \in Values
    BY <1>3, <1>10 DEF In, Record
  <2>2. Wanted(T \cup {k}) = Wanted(T) \cup {<<k, W[k]>>}
    BY <2>1 DEF Wanted
  <2>3. out \in Seq(Keys \X Values)
    BY <1>1 DEF MergeTypes
  <2>4. /\ Len(out) \in Nat /\ DOMAIN out = 1 .. Len(out)
        /\ DOMAIN out' = 1 .. Len(out) + 1
        /\ out'[Len(out) + 1] = <<k, W[k]>>
        /\ \A i \in 1 .. Len(out) : out'[i] = out[i]
    BY <1>3, <1>10, <2>3
  <2> HIDE DEF T, W
  <2>5. Range(out') = Range(out) \cup {<<k, W[k]>>}
    <3>1. ASSUME NEW i \in DOMAIN out'
          PROVE  out'[i] \in Range(out) \cup {<<k, W[k]>>}
      <4>1. i = Len(out) + 1 \/ i \in DOMAIN out
        BY <2>4
      <4>2. i \in DOMAIN out => out'[i] = out[i]
        BY <2>4
      <4>3. QED
        BY <2>4, <4>1, <4>2, Zenon DEF Range
    <3>2. \A i \in DOMAIN out : i \in DOMAIN out' /\ out'[i] = out[i]
      BY <2>4
    <3>3. Len(out) + 1 \in DOMAIN out' /\ out'[Len(out) + 1] = <<k, W[k]>>
      BY <2>4
    <3>4. QED
      BY <3>1, <3>2, <3>3 DEF Range
  <2>6. \A i \in 1 .. Len(out) : Taken(out[i][1]) /\ out[i][1] \in Int /\ out[i][1] < k
    <3>1. SUFFICES ASSUME NEW i \in 1 .. Len(out)
                   PROVE  Taken(out[i][1]) /\ out[i][1] \in Int /\ out[i][1] < k
      OBVIOUS
    <3>2. out[i] \in Keys \X Values
      BY <2>3
    <3>3. out[i][1] \in Keys
      BY <3>2
    <3>4. \E s \in DOMAIN src : k \in Rest(s)
      BY <1>2 DEF Heads, Rest
    <3>5. QED
      BY <1>1, <1>6, <1>7, <2>4, <3>3, <3>4, Zenon DEF InStep
  <2>7. Collected'
    <3>1. Range(out)' = Wanted({j \in Keys : Taken(j)})'
      <4>1. Range(out)' = Range(out')
        BY DEF Range
      <4>2. QED
        BY <1>5, <1>6, <2>2, <2>5, <4>1
    <3>2. \A i \in DOMAIN out' : out'[i][1] = k \/ \E j \in DOMAIN out : out'[i] = out[j]
      BY <2>4
    <3>3. (\A i \in DOMAIN out : Taken(out[i][1]))'
      BY <1>4, <1>6, <3>2 DEF Taken
    <3>4. QED
      BY <1>2, <1>10, <3>1, <3>3 DEF Collected
  <2>8. KeysAscend'
    <3>1. SUFFICES ASSUME NEW i \in 1 .. Len(out) + 1, NEW j \in 1 .. Len(out) + 1, i < j
                   PROVE  out'[i][1] < out'[j][1]
      BY <2>4 DEF KeysAscend
    <3>2. CASE j = Len(out) + 1
      <4>1. i \in 1 .. Len(out)
        BY <2>4, <3>1, <3>2
      <4>2. QED
        BY <2>4, <2>6, <3>2, <4>1
    <3>3. CASE j # Len(out) + 1
      <4>1. i \in 1 .. Len(out) /\ j \in 1 .. Len(out)
        BY <2>4, <3>1, <3>3
      <4>2. QED
        BY <1>1, <2>4, <3>1, <4>1 DEF KeysAscend
    <3>4. QED
      BY <3>2, <3>3
  <2>9. QED
    BY <1>4, <2>7, <2>8 DEF MergeInv
<1>11. QED
  BY <1>2, <1>8, <1>9, <1>10 DEF Collect

\* At the end of all sources every key has been taken.
LEMMA EndStep == MergeInv /\ (Exhausted \/ ReadFails) => MergeInv'
<1> SUFFICES ASSUME MergeInv, Exhausted \/ ReadFails
             PROVE  MergeInv'
  OBVIOUS
<1>1. MergeTypes /\ InStep /\ Collected /\ KeysAscend
  BY DEF MergeInv
<1>2. /\ UNCHANGED <<job, src, left, block, out>> /\ pc = "next"
      /\ \/ pc' = "done" /\ Unfilled = {} /\ Heads = {}
         \/ pc' = "failed"
  BY DEF Exhausted, ReadFails
<1>3. Snapshot' = Snapshot /\ \A K : Wanted(K)' = Wanted(K)
  BY <1>2 DEF Snapshot, Wanted, In, Below, Above
<1>4. \A k : Taken(k)' <=> Taken(k)
  BY <1>2 DEF Taken, Rest
<1>5. MergeTypes' /\ InStep' /\ KeysAscend'
  BY <1>1, <1>2, <1>3, <1>4, Zenon DEF MergeTypes, InStep, KeysAscend, Rest
<1>6. ASSUME Unfilled = {}, Heads = {}
      PROVE  Wanted({k \in Keys : Taken(k)}) = Wanted(Keys)
  <2>1. \A s \in DOMAIN src : Rest(s) = {}
    BY <1>6 DEF Unfilled, Heads, Rest
  <2>2. \A k \in Keys : Newest(src)[k] \in Values => Taken(k)
    BY <2>1, NewestHeld DEF Taken
  <2>3. QED
    BY <2>2 DEF Wanted
<1>7. Collected'
  BY <1>1, <1>2, <1>3, <1>4, <1>6 DEF Collected, Range
<1>8. QED
  BY <1>5, <1>7 DEF MergeInv

-------------------------------------------------------------------------------

LEMMA MergeInvariant == Spec => []MergeInv
<1>1. MergeInv /\ [Next]_vars => MergeInv'
  <2> SUFFICES ASSUME MergeInv, [Next]_vars
               PROVE  MergeInv'
    OBVIOUS
  <2>1. ASSUME NEW s \in DOMAIN src, Fill(s)
        PROVE  MergeInv'
    BY <2>1, FillStep
  <2>2. ASSUME NEW k \in Keys, Take(k)
        PROVE  MergeInv'
    BY <2>2, TakeStep
  <2>3. CASE UNCHANGED vars
    <3>1. UNCHANGED <<pc, job, src, left, block, out>>
      BY <2>3 DEF vars
    <3>2. Snapshot' = Snapshot /\ \A K : Wanted(K)' = Wanted(K)
      BY <3>1 DEF Snapshot, Wanted, In, Below, Above
    <3>3. \A k : Taken(k)' <=> Taken(k)
      BY <3>1 DEF Taken, Rest
    <3>4. MergeTypes' /\ InStep' /\ KeysAscend'
      BY <3>1, <3>2, <3>3 DEF MergeInv, MergeTypes, InStep, KeysAscend, Rest
    <3>5. Collected'
      BY <3>1, <3>2, <3>3, Zenon DEF MergeInv, Collected, Range
    <3>6. QED
      BY <3>4, <3>5 DEF MergeInv
  <2>4. QED
    BY <2>1, <2>2, <2>3, EndStep DEF Next
<1>2. QED
  BY <1>1, InitStep, PTL DEF Spec

\* A scan, or the merge of a compaction, that finishes has collected exactly the
\* current values in its range: for every number of runs, whatever tombstones
\* they hold and however they are cut into blocks (merge.rs:74-112, db.rs:507-533).
THEOREM ScansExact == Spec => []ScanExact
<1>1. MergeInv => ScanExact
  <2> SUFFICES ASSUME MergeInv, pc = "done"
               PROVE  {out[i] : i \in DOMAIN out} = Expected
    BY DEF ScanExact
  <2>1. job \in Jobs /\ src = Snapshot /\ Range(out) = Wanted(Keys)
    BY DEF MergeInv, MergeTypes, Collected
  <2>2. \A k \in Keys : In(k) => Newest(src)[k] = Current[k]
    BY <2>1, SnapshotExact
  <2>3. Wanted(Keys) = Expected
    BY <2>2 DEF Wanted, Expected
  <2>4. QED
    BY <2>1, <2>3 DEF Range
<1>2. QED
  BY <1>1, MergeInvariant, PTL

\* Its result is in strictly ascending order of keys (scan.rs:16): the order the
\* run writer requires of a compaction's output (sstable.rs push).
THEOREM ScansAscend == Spec => []KeysAscend
<1>1. MergeInv => KeysAscend
  BY DEF MergeInv
<1>2. QED
  BY <1>1, MergeInvariant, PTL

\* The entries a merge has not decoded, and those it has not passed.
Unread == {e \in (DOMAIN src) \X Keys : e[2] \in left[e[1]]}
Pending == {e \in (DOMAIN src) \X Keys : e[2] \in Rest(e[1])}

\* S is a proper subset of T.
Within(S, T) == S \subseteq T /\ S # T

\* A step ends the merge, passes an entry, or decodes one and passes none.
MovesOn ==
    \/ pc' # "next"
    \/ Within(Pending', Pending)
    \/ Pending' = Pending /\ Within(Unread', Unread)

\* No turn of the merge loop is idle (merge.rs:74-112): every block that is read has an
\* entry, every entry that is chosen is passed in some source, and no source ever goes
\* back.  So a merge takes at most two steps for each entry and one more, and that it
\* ends (Terminates) asks nothing but that its thread runs.  Keys are numbered from the
\* least: the code's are byte strings, of which the empty one is least.
THEOREM MergeMovesOn == Keys \subseteq Nat => (Spec => [][MovesOn]_vars)
<1> SUFFICES ASSUME Keys \subseteq Nat PROVE Spec => [][MovesOn]_vars
  OBVIOUS
<1>1. MergeInv /\ [Next]_vars => [MovesOn]_vars
  <2> SUFFICES ASSUME MergeInv, Next
               PROVE  MovesOn
    OBVIOUS
  <2>0. block \in [DOMAIN src -> SUBSET Keys] /\ left \in [DOMAIN src -> SUBSET Keys]
    BY DEF MergeInv, MergeTypes
  <2>1. ASSUME NEW s \in DOMAIN src, Fill(s)
        PROVE  MovesOn
    <3> DEFINE B == NextBlock(s)
    <3>1. PICK k \in left[s] : \A j \in left[s] : k <= j
      <4>1. left[s] # {} /\ left[s] \subseteq Nat
        BY <2>0, <2>1, Zenon DEF Fill, Unfilled
      <4>2. QED
        BY <4>1, LeastExists
    <3>2. B \subseteq left[s] /\ k \in B
      BY <3>1 DEF NextBlock
    <3>3. block[s] = {} /\ src' = src
      BY <2>1 DEF Fill, Unfilled
    <3>4. left' = [left EXCEPT ![s] = left[s] \ B] /\ block' = [block EXCEPT ![s] = B]
      BY <2>1 DEF Fill
    <3> HIDE DEF B
    <3>5. \A t \in DOMAIN src : Rest(t)' = Rest(t)
      BY <2>0, <3>2, <3>3, <3>4, Zenon DEF Rest
    <3>6. Pending' = Pending
      BY <3>3, <3>5 DEF Pending
    <3>7. Unread' \subseteq Unread /\ <<s, k>> \in Unread /\ <<s, k>> \notin Unread'
      BY <2>0, <3>1, <3>2, <3>3, <3>4 DEF Unread
    <3>8. QED
      BY <3>6, <3>7 DEF MovesOn, Within
  <2>2. ASSUME NEW k \in Keys, Take(k)
        PROVE  MovesOn
    <3>1. PICK s \in DOMAIN src : k \in block[s]
      BY <2>2 DEF Take, Heads
    <3>2. src' = src /\ left' = left /\ block' = [t \in DOMAIN src |-> block[t] \ {k}]
      BY <2>2 DEF Take, Advance
    <3>3. k \notin left[s]
      BY <2>0, <3>1, MergeAssumption DEF MergeInv, InStep
    <3>4. \A t \in DOMAIN src : Rest(t)' \subseteq Rest(t)
      BY <3>2 DEF Rest
    <3>5. k \in Rest(s) /\ k \notin Rest(s)'
      BY <3>1, <3>2, <3>3 DEF Rest
    <3>6. Pending' \subseteq Pending /\ <<s, k>> \in Pending /\ <<s, k>> \notin Pending'
      BY <3>2, <3>4, <3>5 DEF Pending
    <3>7. QED
      BY <3>6 DEF MovesOn, Within
  <2>3. CASE ReadFails \/ Exhausted
    BY <2>3 DEF ReadFails, Exhausted, MovesOn
  <2>4. QED
    BY <2>1, <2>2, <2>3 DEF Next
<1>2. QED
  BY <1>1, MergeInvariant, PTL DEF Spec
===============================================================================
