----------------------------- MODULE EngineTypes ------------------------------
(***************************************************************************)
(* The inductive invariant of Engine, for every set of keys, values,       *)
(* batches, readers and faults; that it holds initially; that every step   *)
(* keeps its type part, and every step of a writer or a reader the rest.   *)
(* EngineProofs has the other steps and the theorems.                      *)
(***************************************************************************)
EXTENDS Engine, FiniteSetTheorems, WellFoundedInduction, TLAPS

-------------------------------------------------------------------------------
(* The operators of Records, for every set of keys and values.             *)

\* A non-empty set of natural numbers has a least element.
LEMMA LeastExists ==
    ASSUME NEW S, S \subseteq Nat, S # {}
    PROVE  \E i \in S : \A j \in S : i <= j
<1>1. PICK x \in S : \A y \in S : ~(<<y, x>> \in OpToRel(<, Nat))
  BY NatLessThanWellFounded, WFMin, Zenon
<1>2. \A y \in S : ~(y < x)
  BY <1>1, Zenon DEF OpToRel
<1>3. QED
  BY <1>2

\* A non-empty set of natural numbers with an upper bound has a greatest one.
LEMMA GreatestExists ==
    ASSUME NEW n \in Nat, NEW S, S \subseteq 0 .. n, S # {}
    PROVE  \E i \in S : \A j \in S : j <= i
<1> DEFINE D == {n - i : i \in S}
<1>1. D \subseteq Nat /\ D # {}
  <2>1. \A i \in S : i \in Nat /\ i <= n
    OBVIOUS
  <2>2. D \subseteq Nat
    BY <2>1
  <2>3. D # {}
    BY Zenon
  <2>4. QED
    BY <2>2, <2>3
<1>2. PICK d \in D : \A e \in D : d <= e
  BY <1>1, LeastExists, Zenon
<1>3. PICK i \in S : d = n - i
  OBVIOUS
<1>4. \A j \in S : n - j \in D
  OBVIOUS
<1>5. \A j \in S : n - i <= n - j
  BY <1>2, <1>3, <1>4
<1>6. \A j \in S : j <= i
  BY <1>5
<1>7. QED
  BY <1>6

\* Newest and Latest pick a table that has a record.
LEMMA HitsBounds ==
    ASSUME NEW ts \in Seq(Table), NEW k
    PROVE  Hits(ts, k) \subseteq 1 .. Len(ts)
BY DEF Hits

LEMMA EmptyType == EmptyTable \in Table
BY DEF EmptyTable, Table

LEMMA OverlayType ==
    ASSUME NEW a \in Table, NEW b \in Table
    PROVE  Overlay(a, b) \in Table
BY DEF Overlay, Table

LEMMA OnlyType ==
    ASSUME NEW a \in Table, NEW K
    PROVE  Only(a, K) \in Table
BY DEF Only, Table

LEMMA LiveType ==
    ASSUME NEW a \in Table
    PROVE  Live(a) \in Table
BY DEF Live, Table

LEMMA NewestType ==
    ASSUME NEW ts \in Seq(Table)
    PROVE  Newest(ts) \in Table
<1> SUFFICES ASSUME NEW k \in Keys
             PROVE  Newest(ts)[k] \in Record \cup {None}
  BY DEF Newest, Table
<1>1. CASE Hits(ts, k) = {}
  BY <1>1 DEF Newest
<1>2. CASE Hits(ts, k) # {}
  <2>1. Hits(ts, k) \subseteq Nat
    BY HitsBounds
  <2>2. \E i \in Hits(ts, k) : \A j \in Hits(ts, k) : i <= j
    BY <1>2, <2>1, LeastExists
  <2> DEFINE i == CHOOSE i \in Hits(ts, k) : \A j \in Hits(ts, k) : i <= j
  <2>3. i \in Hits(ts, k)
    BY <2>2
  <2>4. ts[i] \in Table
    BY <2>3, HitsBounds
  <2>5. Newest(ts)[k] = ts[i][k]
    BY <1>2 DEF Newest
  <2>6. QED
    BY <2>4, <2>5 DEF Table
<1>3. QED
  BY <1>1, <1>2

LEMMA LatestType ==
    ASSUME NEW ts \in Seq(Table)
    PROVE  Latest(ts) \in Table
<1> SUFFICES ASSUME NEW k \in Keys
             PROVE  Latest(ts)[k] \in Record \cup {None}
  BY DEF Latest, Table
<1>1. CASE Hits(ts, k) = {}
  BY <1>1 DEF Latest
<1>2. CASE Hits(ts, k) # {}
  <2>1. Hits(ts, k) \subseteq 0 .. Len(ts) /\ Len(ts) \in Nat
    BY HitsBounds
  <2>2. \E i \in Hits(ts, k) : \A j \in Hits(ts, k) : j <= i
    BY <1>2, <2>1, GreatestExists
  <2> DEFINE i == CHOOSE i \in Hits(ts, k) : \A j \in Hits(ts, k) : j <= i
  <2>3. i \in Hits(ts, k)
    BY <2>2
  <2>4. ts[i] \in Table
    BY <2>3, HitsBounds
  <2>5. Latest(ts)[k] = ts[i][k]
    BY <1>2 DEF Latest
  <2>6. QED
    BY <2>4, <2>5 DEF Table
<1>3. QED
  BY <1>1, <1>2

-------------------------------------------------------------------------------
(* The algebra of tables: Overlay is a monoid with EmptyTable, and what is *)
(* readable of a stack of tables does not change when its oldest part is   *)
(* resolved first.                                                         *)

LEMMA OverlayEmptyLeft ==
    ASSUME NEW a \in Table
    PROVE  Overlay(EmptyTable, a) = a
BY DEF Overlay, EmptyTable, Table

LEMMA OverlayEmptyRight ==
    ASSUME NEW a \in Table
    PROVE  Overlay(a, EmptyTable) = a
<1>1. \A k \in Keys : Overlay(a, EmptyTable)[k] = a[k]
  BY DEF Overlay, EmptyTable
<1>2. QED
  BY <1>1 DEF Overlay, Table

LEMMA OverlayAssoc ==
    ASSUME NEW a \in Table, NEW b \in Table, NEW c \in Table
    PROVE  Overlay(a, Overlay(b, c)) = Overlay(Overlay(a, b), c)
BY DEF Overlay, Table

\* Dropping the tombstones of the oldest table changes nothing a read can see.
LEMMA LiveOverlay ==
    ASSUME NEW a \in Table, NEW b \in Table
    PROVE  Live(Overlay(a, Live(b))) = Live(Overlay(a, b))
BY RecordAssumption DEF Live, Overlay, Table

LEMMA LiveEmpty == Live(EmptyTable) = EmptyTable
BY RecordAssumption DEF Live, EmptyTable

LEMMA LiveOnly ==
    ASSUME NEW a \in Table, NEW K
    PROVE  Live(Only(a, K)) = Only(Live(a), K)
BY RecordAssumption DEF Live, Only, Table

LEMMA OnlyOnly ==
    ASSUME NEW a \in Table, NEW K
    PROVE  Only(Only(a, K), K) = Only(a, K)
BY DEF Only, Table

LEMMA OnlyNone ==
    ASSUME NEW a \in Table
    PROVE  Only(a, {}) = EmptyTable
BY DEF Only, EmptyTable

LEMMA OnlyEmpty ==
    ASSUME NEW K
    PROVE  Only(EmptyTable, K) = EmptyTable
BY DEF Only, EmptyTable

\* Restricting the newer table first makes no difference to the restriction.
LEMMA OnlyOverlay ==
    ASSUME NEW a \in Table, NEW b \in Table, NEW K
    PROVE  Only(Overlay(Only(a, K), b), K) = Only(Overlay(a, b), K)
BY DEF Only, Overlay, Table

\* A table whose keys are all masked by a newer one does not matter.
LEMMA OverlayMasked ==
    ASSUME NEW a \in Table, NEW b \in Table, NEW c \in Table,
           \A k \in Keys : b[k] # None => a[k] # None
    PROVE  Overlay(a, Overlay(b, c)) = Overlay(a, c)
BY DEF Overlay, Table

-------------------------------------------------------------------------------
(* Newest and Latest, one list at a time.                                  *)

\* For a key, Newest takes the record of the first table that has one.
LEMMA NewestCases ==
    ASSUME NEW ts \in Seq(Table), NEW k \in Keys
    PROVE  \/ /\ \A i \in 1 .. Len(ts) : ts[i][k] = None
              /\ Newest(ts)[k] = None
           \/ \E i \in 1 .. Len(ts) :
                 /\ ts[i][k] # None
                 /\ \A j \in 1 .. Len(ts) : j < i => ts[j][k] = None
                 /\ Newest(ts)[k] = ts[i][k]
<1>0. DOMAIN ts = 1 .. Len(ts) /\ Len(ts) \in Nat
  OBVIOUS
<1>1. CASE Hits(ts, k) = {}
  <2>1. \A i \in 1 .. Len(ts) : ts[i][k] = None
    BY <1>0, <1>1 DEF Hits
  <2>2. QED
    BY <1>1, <2>1 DEF Newest
<1>2. CASE Hits(ts, k) # {}
  <2>1. Hits(ts, k) \subseteq Nat
    BY HitsBounds
  <2>2. \E i \in Hits(ts, k) : \A j \in Hits(ts, k) : i <= j
    BY <1>2, <2>1, LeastExists
  <2> DEFINE i == CHOOSE i \in Hits(ts, k) : \A j \in Hits(ts, k) : i <= j
  <2>3. i \in Hits(ts, k) /\ \A j \in Hits(ts, k) : i <= j
    BY <2>2
  <2>4. Newest(ts)[k] = ts[i][k]
    BY <1>2 DEF Newest
  <2> HIDE DEF i
  <2>5. i \in 1 .. Len(ts) /\ ts[i][k] # None
    BY <1>0, <2>3 DEF Hits
  <2>6. \A j \in 1 .. Len(ts) : j < i => ts[j][k] = None
    BY <1>0, <2>3, <2>5 DEF Hits
  <2>7. QED
    BY <2>4, <2>5, <2>6
<1>3. QED
  BY <1>1, <1>2

\* For a key, Latest takes the record of the last table that has one.
LEMMA LatestCases ==
    ASSUME NEW ts \in Seq(Table), NEW k \in Keys
    PROVE  \/ /\ \A i \in 1 .. Len(ts) : ts[i][k] = None
              /\ Latest(ts)[k] = None
           \/ \E i \in 1 .. Len(ts) :
                 /\ ts[i][k] # None
                 /\ \A j \in 1 .. Len(ts) : j > i => ts[j][k] = None
                 /\ Latest(ts)[k] = ts[i][k]
<1>0. DOMAIN ts = 1 .. Len(ts) /\ Len(ts) \in Nat
  OBVIOUS
<1>1. CASE Hits(ts, k) = {}
  <2>1. \A i \in 1 .. Len(ts) : ts[i][k] = None
    BY <1>0, <1>1 DEF Hits
  <2>2. QED
    BY <1>1, <2>1 DEF Latest
<1>2. CASE Hits(ts, k) # {}
  <2>1. Hits(ts, k) \subseteq 0 .. Len(ts)
    BY <1>0, HitsBounds
  <2>2. \E i \in Hits(ts, k) : \A j \in Hits(ts, k) : j <= i
    BY <1>0, <1>2, <2>1, GreatestExists
  <2> DEFINE i == CHOOSE i \in Hits(ts, k) : \A j \in Hits(ts, k) : j <= i
  <2>3. i \in Hits(ts, k) /\ \A j \in Hits(ts, k) : j <= i
    BY <2>2
  <2>4. Latest(ts)[k] = ts[i][k]
    BY <1>2 DEF Latest
  <2> HIDE DEF i
  <2>5. i \in 1 .. Len(ts) /\ ts[i][k] # None
    BY <1>0, <2>3 DEF Hits
  <2>6. \A j \in 1 .. Len(ts) : j > i => ts[j][k] = None
    BY <1>0, <2>3, <2>5 DEF Hits
  <2>7. QED
    BY <2>4, <2>5, <2>6
<1>3. QED
  BY <1>1, <1>2

LEMMA LatestHit ==
    ASSUME NEW ts \in Seq(Table), NEW k \in Keys, NEW i \in 1 .. Len(ts), ts[i][k] # None
    PROVE  \E m \in 1 .. Len(ts) :
              /\ ts[m][k] # None
              /\ \A j \in 1 .. Len(ts) : j > m => ts[j][k] = None
              /\ Latest(ts)[k] = ts[m][k]
BY LatestCases

LEMMA NewestNone == Newest(<<>>) = EmptyTable
<1>1. \A k \in Keys : Hits(<<>>, k) = {}
  BY DEF Hits
<1>2. QED
  BY <1>1 DEF Newest, EmptyTable

LEMMA LatestNone == Latest(<<>>) = EmptyTable
<1>1. \A k \in Keys : Hits(<<>>, k) = {}
  BY DEF Hits
<1>2. QED
  BY <1>1 DEF Latest, EmptyTable

\* The tables of a newer list a followed by those of an older list b: what a has
\* wins.
LEMMA NewestSplit ==
    ASSUME NEW a \in Seq(Table), NEW b \in Seq(Table), NEW ts \in Seq(Table),
           Len(ts) = Len(a) + Len(b),
           \A i \in 1 .. Len(a) : ts[i] = a[i],
           \A i \in 1 .. Len(b) : ts[Len(a) + i] = b[i]
    PROVE  Newest(ts) = Overlay(Newest(a), Newest(b))
<1>0. Newest(ts) \in Table /\ Newest(a) \in Table /\ Newest(b) \in Table
  BY NewestType
<1> SUFFICES ASSUME NEW k \in Keys
             PROVE  Newest(ts)[k] = IF Newest(a)[k] # None THEN Newest(a)[k] ELSE Newest(b)[k]
  BY <1>0 DEF Overlay, Table
<1>1. Len(a) \in Nat /\ Len(b) \in Nat /\ Len(ts) \in Nat
  OBVIOUS
<1> DEFINE Front == \A i \in 1 .. Len(a) : a[i][k] = None
           Back == \A i \in 1 .. Len(b) : b[i][k] = None
<1>2. \A i \in 1 .. Len(ts) : i > Len(a) => i - Len(a) \in 1 .. Len(b) /\ ts[i] = b[i - Len(a)]
  <2> SUFFICES ASSUME NEW i \in 1 .. Len(ts), i > Len(a)
               PROVE  i - Len(a) \in 1 .. Len(b) /\ ts[i] = b[i - Len(a)]
    OBVIOUS
  <2>1. i - Len(a) \in 1 .. Len(b) /\ Len(a) + (i - Len(a)) = i
    BY <1>1
  <2>2. ts[Len(a) + (i - Len(a))] = b[i - Len(a)]
    BY <2>1
  <2>3. QED
    BY <2>1, <2>2
<1>3. CASE ~Front
  <2>1. PICK i \in 1 .. Len(a) : /\ a[i][k] # None
                                 /\ \A j \in 1 .. Len(a) : j < i => a[j][k] = None
                                 /\ Newest(a)[k] = a[i][k]
    BY <1>3, NewestCases, Zenon
  <2>2. i \in 1 .. Len(ts) /\ ts[i][k] # None
    BY <1>1, <2>1
  <2>3. PICK m \in 1 .. Len(ts) : /\ ts[m][k] # None
                                  /\ \A j \in 1 .. Len(ts) : j < m => ts[j][k] = None
                                  /\ Newest(ts)[k] = ts[m][k]
    BY <2>2, NewestCases, Zenon
  <2>4. m <= i
    BY <1>1, <2>2, <2>3
  <2>5. m \in 1 .. Len(a)
    BY <1>1, <2>4
  <2>6. ts[m] = a[m]
    BY <2>5
  <2>7. ~(m < i)
    BY <2>1, <2>3, <2>5, <2>6
  <2>8. m = i
    BY <1>1, <2>4, <2>7
  <2>9. QED
    BY <2>1, <2>3, <2>6, <2>8
<1>4. CASE Front /\ ~Back
  <2>0. Newest(a)[k] = None
    BY <1>4, NewestCases, Zenon
  <2>1. PICK i \in 1 .. Len(b) : /\ b[i][k] # None
                                 /\ \A j \in 1 .. Len(b) : j < i => b[j][k] = None
                                 /\ Newest(b)[k] = b[i][k]
    BY <1>4, NewestCases, Zenon
  <2>2. Len(a) + i \in 1 .. Len(ts) /\ ts[Len(a) + i][k] # None
    BY <1>1, <2>1
  <2>3. PICK m \in 1 .. Len(ts) : /\ ts[m][k] # None
                                  /\ \A j \in 1 .. Len(ts) : j < m => ts[j][k] = None
                                  /\ Newest(ts)[k] = ts[m][k]
    BY <2>2, NewestCases, Zenon
  <2>4. m <= Len(a) + i
    <3>1. ~(Len(a) + i < m)
      BY <2>2, <2>3, Zenon
    <3>2. Len(a) + i \in Int
      BY <2>2
    <3>3. QED
      BY <3>1, <3>2
  <2>5. m > Len(a)
    <3> SUFFICES ASSUME m <= Len(a) PROVE FALSE
      BY <1>1
    <3>1. m \in 1 .. Len(a)
      BY <1>1
    <3>2. ts[m] = a[m] /\ a[m][k] = None
      BY <1>4, <3>1
    <3>3. QED
      BY <2>3, <3>2
  <2>6. m - Len(a) \in 1 .. Len(b) /\ ts[m] = b[m - Len(a)]
    BY <1>2, <2>5
  <2>7. ~(m - Len(a) < i)
    BY <2>1, <2>3, <2>6
  <2>8. m - Len(a) = i
    <3>1. m \in Nat /\ i \in Nat
      BY <1>1
    <3>2. \A x, y, z \in Nat : x <= y + z /\ ~(x - y < z) => x - y = z
      OBVIOUS
    <3>3. QED
      BY <1>1, <2>4, <2>7, <3>1, <3>2, Zenon
  <2>9. QED
    BY <2>0, <2>1, <2>3, <2>6, <2>8
<1>5. CASE Front /\ Back
  <2>1. \A i \in 1 .. Len(ts) : ts[i][k] = None
    <3> TAKE i \in 1 .. Len(ts)
    <3>1. CASE i > Len(a)
      BY <1>2, <1>5, <3>1
    <3>2. CASE i <= Len(a)
      <4>1. i \in 1 .. Len(a)
        BY <1>1, <3>2
      <4>2. ts[i] = a[i] /\ a[i][k] = None
        BY <1>5, <4>1
      <4>3. QED
        BY <4>2
    <3>3. QED
      BY <1>1, <3>1, <3>2
  <2>2. Newest(a)[k] = None /\ Newest(b)[k] = None /\ Newest(ts)[k] = None
    BY <1>5, <2>1, NewestCases, Zenon
  <2>3. QED
    BY <2>2
<1>6. QED
  BY <1>3, <1>4, <1>5

\* A list of one table is that table.
LEMMA NewestOne ==
    ASSUME NEW a \in Table
    PROVE  Newest(<<a>>) = a
<1> DEFINE ts == <<a>>
<1>1. ts \in Seq(Table) /\ Len(ts) = 1 /\ ts[1] = a
  OBVIOUS
<1> HIDE DEF ts
<1>2. Newest(ts) \in Table
  BY <1>1, NewestType
<1>3. ASSUME NEW k \in Keys PROVE Newest(ts)[k] = a[k]
  <2>1. 1 .. Len(ts) = {1}
    BY <1>1
  <2>2. \/ (\A i \in 1 .. Len(ts) : ts[i][k] = None) /\ Newest(ts)[k] = None
        \/ \E i \in 1 .. Len(ts) : Newest(ts)[k] = ts[i][k]
    BY <1>1, NewestCases, Zenon
  <2>3. QED
    BY <1>1, <2>1, <2>2, Zenon
<1>4. Newest(ts) = a
  BY <1>2, <1>3 DEF Table
<1>5. QED
  BY <1>4 DEF ts

\* Replaying one more record of the log applies it on top of the others.
LEMMA LatestAppend ==
    ASSUME NEW ts \in Seq(Table), NEW a \in Table
    PROVE  Latest(Append(ts, a)) = Overlay(a, Latest(ts))
<1> DEFINE us == Append(ts, a)
           n == Len(ts)
<1>1. /\ us \in Seq(Table) /\ Len(us) = n + 1 /\ us[n + 1] = a /\ n \in Nat
      /\ \A i \in 1 .. n : us[i] = ts[i]
  OBVIOUS
<1>2. Latest(us) \in Table /\ Latest(ts) \in Table
  BY <1>1, LatestType, Zenon
<1> HIDE DEF us
<1> SUFFICES ASSUME NEW k \in Keys
             PROVE  Latest(us)[k] = IF a[k] # None THEN a[k] ELSE Latest(ts)[k]
  BY <1>2 DEF Overlay, Table, us
<1>3. CASE a[k] # None
  <2>1. n + 1 \in 1 .. Len(us) /\ us[n + 1][k] # None
    BY <1>1, <1>3
  <2>2. PICK m \in 1 .. Len(us) : /\ us[m][k] # None
                                  /\ \A j \in 1 .. Len(us) : j > m => us[j][k] = None
                                  /\ Latest(us)[k] = us[m][k]
    BY <1>1, <2>1, LatestHit
  <2>3. m = n + 1
    BY <1>1, <2>1, <2>2
  <2>4. QED
    BY <1>1, <1>3, <2>2, <2>3
<1>4. CASE a[k] = None /\ \A i \in 1 .. n : ts[i][k] = None
  <2>1. \A i \in 1 .. Len(us) : us[i][k] = None
    BY <1>1, <1>4
  <2>2. Latest(us)[k] = None /\ Latest(ts)[k] = None
    BY <1>1, <1>4, <2>1, LatestCases
  <2>3. QED
    BY <1>4, <2>2
<1>5. CASE a[k] = None /\ \E i \in 1 .. n : ts[i][k] # None
  <2>1. PICK i \in 1 .. n : /\ ts[i][k] # None
                            /\ \A j \in 1 .. n : j > i => ts[j][k] = None
                            /\ Latest(ts)[k] = ts[i][k]
    BY <1>5, LatestHit
  <2>2. i \in 1 .. Len(us) /\ us[i] = ts[i] /\ us[i][k] # None
    BY <1>1, <2>1
  <2>3. PICK m \in 1 .. Len(us) : /\ us[m][k] # None
                                  /\ \A j \in 1 .. Len(us) : j > m => us[j][k] = None
                                  /\ Latest(us)[k] = us[m][k]
    BY <1>1, <2>2, LatestHit, Zenon
  <2>4. m # n + 1
    BY <1>1, <1>5, <2>3
  <2>5. m \in 1 .. n /\ us[m] = ts[m]
    BY <1>1, <2>4
  <2>6. m <= i
    BY <1>1, <2>1, <2>3, <2>5
  <2>7. i <= m
    BY <1>1, <2>1, <2>2, <2>3
  <2>8. m = i
    BY <1>1, <2>6, <2>7
  <2>9. QED
    BY <1>5, <2>1, <2>3, <2>5, <2>8
<1>6. QED
  BY <1>3, <1>4, <1>5

-------------------------------------------------------------------------------
(* Lists of runs.                                                          *)

LEMMA TablesType ==
    ASSUME table \in [Seqs -> Table], NEW s \in Seq(Seqs)
    PROVE  Tables(s) \in Seq(Table)
<1>1. DOMAIN s = 1 .. Len(s) /\ Len(s) \in Nat
  OBVIOUS
<1>2. \A i \in 1 .. Len(s) : table[s[i]] \in Table
  OBVIOUS
<1>3. Tables(s) = [i \in 1 .. Len(s) |-> table[s[i]]]
  BY <1>1 DEF Tables
<1>4. QED
  BY <1>1, <1>2, <1>3

LEMMA SameSeq ==
    ASSUME NEW s \in Seq(Seqs), NEW t \in Seq(Seqs), Len(t) = Len(s),
           \A i \in 1 .. Len(s) : t[i] = s[i]
    PROVE  t = s
OBVIOUS

LEMMA SubSeqIs ==
    ASSUME NEW s \in Seq(Seqs), NEW m \in 1 .. Len(s) + 1
    PROVE  /\ SubSeq(s, m, Len(s)) \in Seq(Seqs)
           /\ Len(SubSeq(s, m, Len(s))) = Len(s) - m + 1
           /\ \A i \in 1 .. Len(s) - m + 1 : SubSeq(s, m, Len(s))[i] = s[m + i - 1]
OBVIOUS

LEMMA RangeType ==
    ASSUME NEW S, NEW s \in Seq(S)
    PROVE  Range(s) \subseteq S /\ Range(s) = {s[i] : i \in 1 .. Len(s)}
BY DEF Range

LEMMA PrependRange ==
    ASSUME NEW x \in Seqs, NEW s \in Seq(Seqs)
    PROVE  /\ <<x>> \o s \in Seq(Seqs)
           /\ Range(<<x>> \o s) = {x} \cup Range(s)
           /\ Len(<<x>> \o s) = Len(s) + 1
           /\ (<<x>> \o s)[1] = x
           /\ \A i \in 1 .. Len(s) : (<<x>> \o s)[i + 1] = s[i]
<1> DEFINE t == <<x>> \o s
<1>1. t \in Seq(Seqs) /\ Len(t) = Len(s) + 1 /\ Len(s) \in Nat
  OBVIOUS
<1>2. t[1] = x /\ \A i \in 1 .. Len(s) : t[i + 1] = s[i]
  BY <1>1
<1> HIDE DEF t
<1>3. Range(t) \subseteq {x} \cup Range(s)
  <2> SUFFICES ASSUME NEW i \in 1 .. Len(t)
               PROVE  t[i] \in {x} \cup Range(s)
    BY <1>1, RangeType
  <2>1. CASE i = 1
    BY <2>1, <1>2
  <2>2. CASE i # 1
    <3>1. i - 1 \in 1 .. Len(s) /\ t[(i - 1) + 1] = s[i - 1]
      BY <2>2, <1>1, <1>2
    <3>2. (i - 1) + 1 = i
      BY <1>1
    <3>3. QED
      BY <3>1, <3>2, RangeType
  <2>3. QED
    BY <2>1, <2>2
<1>4. x \in Range(t)
  <2>1. 1 \in 1 .. Len(t)
    BY <1>1
  <2>2. Range(t) = {t[i] : i \in 1 .. Len(t)}
    BY <1>1, RangeType
  <2>3. QED
    BY <1>2, <2>1, <2>2, Zenon
<1>5. Range(s) \subseteq Range(t)
  <2> SUFFICES ASSUME NEW i \in 1 .. Len(s)
               PROVE  s[i] \in Range(t)
    BY RangeType
  <2>1. i + 1 \in 1 .. Len(t) /\ t[i + 1] = s[i]
    BY <1>1, <1>2
  <2>2. QED
    BY <2>1, <1>1, RangeType
<1>6. QED
  BY <1>1, <1>2, <1>3, <1>4, <1>5 DEF t

LEMMA AppendRange ==
    ASSUME NEW x \in Seqs, NEW s \in Seq(Seqs)
    PROVE  /\ Append(s, x) \in Seq(Seqs)
           /\ Range(Append(s, x)) = {x} \cup Range(s)
<1> DEFINE t == Append(s, x)
<1>1. /\ t \in Seq(Seqs) /\ Len(t) = Len(s) + 1
      /\ Len(s) \in Nat
      /\ \A i \in 1 .. Len(s) : t[i] = s[i]
      /\ t[Len(s) + 1] = x
  OBVIOUS
<1> HIDE DEF t
<1>2. 1 .. Len(t) = 1 .. Len(s) \cup {Len(s) + 1}
  BY <1>1
<1>3. Range(t) = {t[i] : i \in 1 .. Len(t)}
  BY <1>1, RangeType
<1>4. Range(s) = {s[i] : i \in 1 .. Len(s)}
  BY RangeType
<1>5. Range(t) = {x} \cup Range(s)
  BY <1>1, <1>2, <1>3, <1>4
<1>6. QED
  BY <1>1, <1>5 DEF t

-------------------------------------------------------------------------------
(* What the filter of the swap leaves of the runs.                         *)

\* The inputs ins are the oldest part of the duplicate-free list rs.
Suffix(ins, rs) ==
    /\ Len(ins) <= Len(rs)
    /\ \A i \in 1 .. Len(ins) : ins[i] = rs[Len(rs) - Len(ins) + i]

\* When the inputs are the oldest runs of a list without duplicates, filtering
\* them out (db.rs:665-670) leaves the newer runs, in their order.
LEMMA SurvivorsArePrefix ==
    ASSUME NEW rs \in Seq(Seqs), NEW ins \in Seq(Seqs),
           IsInjective(rs), Suffix(ins, rs)
    PROVE  /\ Survivors(rs, ins) \in Seq(Seqs)
           /\ Len(Survivors(rs, ins)) = Len(rs) - Len(ins)
           /\ \A i \in 1 .. Len(rs) - Len(ins) : Survivors(rs, ins)[i] = rs[i]
<1> DEFINE n == Len(rs) - Len(ins)
           kept == {i \in DOMAIN rs : rs[i] \notin Range(ins)}
           pick(j) == CHOOSE i \in kept : Cardinality({x \in kept : x <= i}) = j
<1>1. n \in Nat /\ Len(rs) \in Nat /\ Len(ins) \in Nat /\ n <= Len(rs)
  BY DEF Suffix
<1>2. \A i \in 1 .. n : i \in kept
  <2> SUFFICES ASSUME NEW i \in 1 .. n, NEW j \in 1 .. Len(ins), rs[i] = ins[j]
               PROVE  FALSE
    BY <1>1, RangeType
  <2>1. n + j \in DOMAIN rs /\ i \in DOMAIN rs /\ rs[n + j] = ins[j]
    BY <1>1 DEF Suffix
  <2>2. i = n + j
    BY <2>1 DEF IsInjective
  <2>3. QED
    BY <2>2, <1>1
<1>3. \A i \in kept : i \in 1 .. n
  <2> SUFFICES ASSUME NEW i \in 1 .. Len(rs), i > n
               PROVE  rs[i] \in Range(ins)
    BY <1>1
  <2>1. i - n \in 1 .. Len(ins) /\ n + (i - n) = i
    BY <1>1
  <2>2. ins[i - n] = rs[i]
    BY <2>1 DEF Suffix
  <2>3. QED
    BY <2>1, <2>2, RangeType
<1>4. kept = 1 .. n
  BY <1>2, <1>3
<1>5. \A m \in Nat : Cardinality(1 .. m) = m
  <2> TAKE m \in Nat
  <2>1. Cardinality(1 .. m) = IF 1 > m THEN 0 ELSE m - 1 + 1
    BY FS_Interval
  <2>2. QED
    BY <2>1
<1>6. \A i \in 1 .. n : Cardinality({x \in kept : x <= i}) = i
  <2> TAKE i \in 1 .. n
  <2>1. {x \in kept : x <= i} = 1 .. i
    BY <1>1, <1>4
  <2>2. Cardinality(1 .. i) = i
    BY <1>1, <1>5
  <2> HIDE DEF kept
  <2>3. QED
    BY <2>1, <2>2, Zenon
<1>7. \A j \in 1 .. n : pick(j) = j
  <2> SUFFICES ASSUME NEW j \in 1 .. n PROVE pick(j) = j
    BY Zenon
  <2>1. j \in kept /\ Cardinality({x \in kept : x <= j}) = j
    BY <1>4, <1>6, Zenon
  <2>2. \A i \in kept : Cardinality({x \in kept : x <= i}) = j => i = j
    BY <1>4, <1>6, Zenon
  <2>3. QED
    BY <2>1, <2>2
<1>8. Survivors(rs, ins) = [j \in 1 .. n |-> rs[pick(j)]]
  BY <1>1, <1>4, <1>5, Zenon DEF Survivors
<1> HIDE DEF pick, kept
<1>9. Survivors(rs, ins) = [j \in 1 .. n |-> rs[j]]
  BY <1>7, <1>8
<1>10. \A j \in 1 .. n : rs[j] \in Seqs
  BY <1>1
<1>11. QED
  BY <1>1, <1>9, <1>10

-------------------------------------------------------------------------------
(* What a list of runs holds when the run files hold t.                    *)

Contents(t, s) == Newest([i \in DOMAIN s |-> t[s[i]]])

LEMMA ContentsSeq ==
    ASSUME NEW t \in [Seqs -> Table], NEW s \in Seq(Seqs)
    PROVE  LET ts == [i \in DOMAIN s |-> t[s[i]]]
           IN  /\ ts \in Seq(Table) /\ Len(ts) = Len(s) /\ Len(s) \in Nat
               /\ \A i \in 1 .. Len(s) : ts[i] = t[s[i]]
<1>1. DOMAIN s = 1 .. Len(s) /\ Len(s) \in Nat /\ \A i \in 1 .. Len(s) : t[s[i]] \in Table
  OBVIOUS
<1>2. QED
  BY <1>1

LEMMA ContentsType ==
    ASSUME NEW t \in [Seqs -> Table], NEW s \in Seq(Seqs)
    PROVE  Contents(t, s) \in Table
BY ContentsSeq, NewestType DEF Contents

\* Only the runs on the list matter.
LEMMA ContentsSame ==
    ASSUME NEW t, NEW u, NEW s \in Seq(Seqs), \A x \in Range(s) : t[x] = u[x]
    PROVE  Contents(t, s) = Contents(u, s)
<1>1. \A i \in DOMAIN s : t[s[i]] = u[s[i]]
  BY DEF Range
<1>2. [i \in DOMAIN s |-> t[s[i]]] = [i \in DOMAIN s |-> u[s[i]]]
  BY <1>1
<1>3. QED
  BY <1>2 DEF Contents

LEMMA ContentsNone ==
    ASSUME NEW t
    PROVE  Contents(t, <<>>) = EmptyTable
<1>1. [i \in DOMAIN <<>> |-> t[<<>>[i]]] = <<>>
  OBVIOUS
<1>2. QED
  BY <1>1, NewestNone DEF Contents

\* The list s is the list a followed by the list b.
Joins(s, a, b) ==
    /\ Len(s) = Len(a) + Len(b)
    /\ \A i \in 1 .. Len(a) : s[i] = a[i]
    /\ \A i \in 1 .. Len(b) : s[Len(a) + i] = b[i]

\* A list of runs is a newer part a over an older part b.
LEMMA ContentsSplit ==
    ASSUME NEW t \in [Seqs -> Table],
           NEW a \in Seq(Seqs), NEW b \in Seq(Seqs), NEW s \in Seq(Seqs),
           Joins(s, a, b)
    PROVE  Contents(t, s) = Overlay(Contents(t, a), Contents(t, b))
<1>0. /\ Len(s) = Len(a) + Len(b)
      /\ \A i \in 1 .. Len(a) : s[i] = a[i]
      /\ \A i \in 1 .. Len(b) : s[Len(a) + i] = b[i]
  BY DEF Joins
<1> DEFINE ta == [i \in DOMAIN a |-> t[a[i]]]
           tb == [i \in DOMAIN b |-> t[b[i]]]
           ts == [i \in DOMAIN s |-> t[s[i]]]
<1>1. /\ ta \in Seq(Table) /\ Len(ta) = Len(a) /\ Len(a) \in Nat
      /\ \A i \in 1 .. Len(a) : ta[i] = t[a[i]]
  BY ContentsSeq
<1>2. /\ tb \in Seq(Table) /\ Len(tb) = Len(b) /\ Len(b) \in Nat
      /\ \A i \in 1 .. Len(b) : tb[i] = t[b[i]]
  BY ContentsSeq
<1>3. /\ ts \in Seq(Table) /\ Len(ts) = Len(s) /\ Len(s) \in Nat
      /\ \A i \in 1 .. Len(s) : ts[i] = t[s[i]]
  BY ContentsSeq
<1>4. Contents(t, a) = Newest(ta) /\ Contents(t, b) = Newest(tb) /\ Contents(t, s) = Newest(ts)
  BY Zenon DEF Contents
<1> HIDE DEF ta, tb, ts
<1>5. \A i \in 1 .. Len(ta) : ts[i] = ta[i]
  <2> TAKE i \in 1 .. Len(ta)
  <2>1. i \in 1 .. Len(a) /\ i \in 1 .. Len(s)
    BY <1>0, <1>1, <1>2
  <2>2. QED
    BY <1>0, <1>1, <1>3, <2>1
<1>6. \A i \in 1 .. Len(tb) : ts[Len(ta) + i] = tb[i]
  <2> TAKE i \in 1 .. Len(tb)
  <2>1. i \in 1 .. Len(b) /\ Len(a) + i \in 1 .. Len(s)
    BY <1>0, <1>1, <1>2
  <2>2. QED
    BY <1>0, <1>1, <1>2, <1>3, <2>1
<1>7. Len(ts) = Len(ta) + Len(tb)
  BY <1>0, <1>1, <1>2, <1>3
<1>8. ta \in Seq(Table) /\ tb \in Seq(Table) /\ ts \in Seq(Table)
  BY <1>1, <1>2, <1>3
<1>9. Newest(ts) = Overlay(Newest(ta), Newest(tb))
  BY <1>5, <1>6, <1>7, <1>8, NewestSplit, Zenon
<1>10. QED
  BY <1>4, <1>9

LEMMA ContentsOne ==
    ASSUME NEW t \in [Seqs -> Table], NEW x \in Seqs
    PROVE  Contents(t, <<x>>) = t[x]
<1>1. [i \in DOMAIN <<x>> |-> t[<<x>>[i]]] = <<t[x]>>
  OBVIOUS
<1>2. QED
  BY <1>1, NewestOne DEF Contents

\* A flushed run goes in front of the others (db.rs:574-577) ...
LEMMA ContentsPrepend ==
    ASSUME NEW t \in [Seqs -> Table], NEW x \in Seqs, NEW s \in Seq(Seqs)
    PROVE  Contents(t, <<x>> \o s) = Overlay(t[x], Contents(t, s))
<1> DEFINE a == <<x>>
           u == <<x>> \o s
<1>1. a \in Seq(Seqs) /\ Len(a) = 1 /\ a[1] = x /\ u \in Seq(Seqs) /\ Len(s) \in Nat
  OBVIOUS
<1>2. Len(u) = Len(s) + 1 /\ u[1] = x /\ \A i \in 1 .. Len(s) : u[i + 1] = s[i]
  BY PrependRange
<1>3. Contents(t, a) = t[x]
  BY ContentsOne
<1> HIDE DEF a, u
<1>4. Len(u) = Len(a) + Len(s) /\ \A i \in 1 .. Len(a) : u[i] = a[i]
  BY <1>1, <1>2
<1>5. \A i \in 1 .. Len(s) : u[Len(a) + i] = s[i]
  <2> TAKE i \in 1 .. Len(s)
  <2>1. Len(a) + i = i + 1
    BY <1>1
  <2>2. QED
    BY <1>2, <2>1
<1>6. Contents(t, u) = Overlay(Contents(t, a), Contents(t, s))
  <2>1. Joins(u, a, s)
    BY <1>4, <1>5 DEF Joins
  <2>2. QED
    BY <1>1, <2>1, ContentsSplit
<1>7. QED
  BY <1>3, <1>6 DEF u

\* ... and the output of a compaction behind them (db.rs:671).
LEMMA ContentsAppend ==
    ASSUME NEW t \in [Seqs -> Table], NEW x \in Seqs, NEW s \in Seq(Seqs)
    PROVE  Contents(t, Append(s, x)) = Overlay(Contents(t, s), t[x])
<1> DEFINE b == <<x>>
           u == Append(s, x)
<1>1. /\ b \in Seq(Seqs) /\ Len(b) = 1 /\ b[1] = x
      /\ u \in Seq(Seqs) /\ Len(u) = Len(s) + 1 /\ Len(s) \in Nat
      /\ u[Len(s) + 1] = x /\ \A i \in 1 .. Len(s) : u[i] = s[i]
  OBVIOUS
<1>2. Contents(t, b) = t[x]
  BY ContentsOne
<1> HIDE DEF b, u
<1>3. Len(u) = Len(s) + Len(b) /\ \A i \in 1 .. Len(b) : u[Len(s) + i] = b[i]
  BY <1>1
<1>4. Contents(t, u) = Overlay(Contents(t, s), Contents(t, b))
  <2>1. Joins(u, s, b)
    BY <1>1, <1>3 DEF Joins
  <2>2. QED
    BY <1>1, <2>1, ContentsSplit
<1>5. QED
  BY <1>2, <1>4 DEF u

\* The runs a search has still to visit: the one it is at, then the others.
LEMMA ContentsRest ==
    ASSUME NEW t \in [Seqs -> Table], NEW s \in Seq(Seqs), NEW p \in 1 .. Len(s)
    PROVE  /\ SubSeq(s, p, Len(s)) \in Seq(Seqs)
           /\ SubSeq(s, p + 1, Len(s)) \in Seq(Seqs)
           /\ Contents(t, SubSeq(s, p, Len(s)))
                = Overlay(t[s[p]], Contents(t, SubSeq(s, p + 1, Len(s))))
<1> DEFINE n == Len(s)
           a == <<s[p]>>
           b == SubSeq(s, p + 1, n)
           u == SubSeq(s, p, n)
<1>1. n \in Nat /\ p \in Nat /\ p <= n /\ s[p] \in Seqs
  OBVIOUS
<1>2. a \in Seq(Seqs) /\ Len(a) = 1 /\ a[1] = s[p]
  BY <1>1
<1>3. /\ u \in Seq(Seqs) /\ Len(u) = n - p + 1
      /\ \A i \in 1 .. n - p + 1 : u[i] = s[p + i - 1]
  BY <1>1, SubSeqIs
<1>4. /\ b \in Seq(Seqs) /\ Len(b) = n - p
      /\ \A i \in 1 .. n - p : b[i] = s[p + i]
  <2>1. /\ b \in Seq(Seqs) /\ Len(b) = (IF p + 1 <= n THEN n - (p + 1) + 1 ELSE 0)
        /\ \A i \in 1 .. n - (p + 1) + 1 : b[i] = s[(p + 1) + i - 1]
    BY <1>1, SubSeqIs
  <2>2. QED
    BY <1>1, <2>1
<1> DEFINE w == a \o b
<1>5. /\ w \in Seq(Seqs) /\ Len(w) = n - p + 1 /\ w[1] = s[p]
      /\ \A i \in 1 .. n - p : w[i + 1] = s[p + i]
  <2>1. /\ w \in Seq(Seqs) /\ Len(w) = Len(b) + 1 /\ w[1] = s[p]
        /\ \A i \in 1 .. Len(b) : w[i + 1] = b[i]
    BY <1>1, <1>4, PrependRange
  <2> HIDE DEF w, b, n
  <2>2. QED
    BY <1>4, <2>1
<1>6. Contents(t, w) = Overlay(t[s[p]], Contents(t, b))
  BY <1>1, <1>4, ContentsPrepend, Zenon
<1> HIDE DEF n, a, b, u, w
<1>7. \A i \in 1 .. n - p + 1 : u[i] = w[i]
  <2> TAKE i \in 1 .. n - p + 1
  <2>1. CASE i = 1
    BY <1>1, <1>3, <1>5, <2>1
  <2>2. CASE i # 1
    <3>1. i - 1 \in 1 .. n - p /\ (i - 1) + 1 = i /\ p + (i - 1) = p + i - 1
      BY <1>1, <2>2
    <3>2. w[(i - 1) + 1] = s[p + (i - 1)]
      BY <1>5, <3>1
    <3>3. QED
      BY <1>3, <3>1, <3>2
  <2>3. QED
    BY <2>1, <2>2
<1>8. u = w
  BY <1>3, <1>5, <1>7, SameSeq
<1>9. QED
  BY <1>3, <1>4, <1>6, <1>8 DEF b, u, n

\* Before the first run is searched, all of them are left; after the last, none.
LEMMA RestBounds ==
    ASSUME NEW s \in Seq(Seqs)
    PROVE  /\ SubSeq(s, 1, Len(s)) = s
           /\ SubSeq(s, Len(s) + 1, Len(s)) = <<>>
BY SubSeqIs

LEMMA RestRange ==
    ASSUME NEW s \in Seq(Seqs), NEW p \in 1 .. Len(s)
    PROVE  /\ SubSeq(s, p, Len(s)) \in Seq(Seqs)
           /\ Range(SubSeq(s, p, Len(s))) \subseteq Range(s)
<1> DEFINE u == SubSeq(s, p, Len(s))
<1>1. /\ u \in Seq(Seqs) /\ Len(u) = Len(s) - p + 1 /\ Len(s) \in Nat
      /\ \A i \in 1 .. Len(s) - p + 1 : u[i] = s[p + i - 1]
  BY SubSeqIs
<1> HIDE DEF u
<1>2. \A i \in 1 .. Len(u) : p + i - 1 \in 1 .. Len(s) /\ u[i] = s[p + i - 1]
  BY <1>1
<1>3. Range(u) = {u[i] : i \in 1 .. Len(u)} /\ Range(s) = {s[i] : i \in 1 .. Len(s)}
  BY <1>1, RangeType
<1>4. QED
  BY <1>1, <1>2, <1>3 DEF u

-------------------------------------------------------------------------------
(* The inductive invariant.                                                *)

\* A flush, or a compaction, has allocated a number and not yet committed it.
Flushing == wpc \in {"create", "install", "commit"}
Compaction == cpc \in {"create", "merge", "swap"}

\* The directory has been reclaimed and next_seq is past every run in it.
Recovered == phase \in {"checkpoint", "up", "closing"}

\* Which thread can be where: before recovery ends nobody refers to a run but
\* the engine, the engine's list is the manifest's while the process lives, and
\* a search is always at a run of its snapshot.
Control ==
    /\ phase \in {"down", "reclaim"} =>
          wpc = "idle" /\ cpc = "off" /\ cin = <<>> /\ rd = [r \in Readers |-> IdleReader]
    /\ phase = "down" => runs = <<>>
    /\ phase # "down" => mruns = runs /\ mseq <= nextSeq
    /\ \A r \in Readers : rd[r].pc = "get" => rd[r].pos \in 1 .. Len(rd[r].snap)

\* Numbers are fresh: next_seq is past every run in the directory, and a run
\* being written has no file until it is installed, nobody refers to it until it
\* is committed, and the two writers never share it.
Fresh ==
    /\ \A s \in Range(mruns) : s < mseq
    /\ Recovered => \A s \in files : s < nextSeq
    /\ Flushing => wseq < nextSeq /\ wseq \notin Referenced
    /\ Compaction => cseq < nextSeq /\ cseq \notin Referenced
    /\ Flushing /\ Compaction => wseq # cseq
    /\ wpc \in {"create", "install"} => wseq \notin files
    /\ cpc \in {"create", "merge"} => cseq \notin files
    /\ wpc = "commit" => wseq \in files
    /\ cpc = "swap" => cseq \in files

\* Somebody will drop every obsolete run: the compactor between the swap and the
\* drop of its inputs, or a reader that began before the swap; the engine's list
\* never has one.
Dropping ==
    /\ cpc \in {"off", "wait", "snapshot"} => cin = <<>>
    /\ phase = "checkpoint" => cpc = "off"
    /\ phase = "closing" => \A r \in Readers : rd[r].pc = "idle"
    /\ \A r \in Readers : rd[r].pc = "idle" => rd[r].snap = <<>>
    /\ obsolete \subseteq Referenced
    /\ obsolete \cap Range(runs) = {}

IInv ==
    /\ TypeOK
    /\ Control
    /\ Fresh
    /\ Dropping
    /\ ManifestComplete
    /\ ReferencedRunsExist
    /\ IsInjective(mruns)
    /\ InputsAreOldest

-------------------------------------------------------------------------------
(* Initially.                                                              *)

LEMMA ReaderInit == IdleReader \in Reader
BY EmptyType DEF IdleReader, Reader, ReaderSteps

LEMMA InitInv == Init => IInv
<1> SUFFICES ASSUME Init PROVE IInv
  OBVIOUS
<1> USE DEF Init
<1>1. TypeOK
  <2>1. <<>> \in Seq(Seqs) /\ <<>> \in Seq(Table)
    OBVIOUS
  <2>2. 0 \in Seqs /\ 0 \in 0 .. MaxSeq + 1
    BY EngineAssumption DEF Seqs
  <2>3. table \in [Seqs -> Table] /\ mem \in Table /\ held \in Table
    BY EmptyType
  <2>4. rd \in [Readers -> Reader]
    BY ReaderInit
  <2>5. QED
    BY <2>1, <2>2, <2>3, <2>4 DEF TypeOK, Phases, WriterSteps, CompactorSteps
<1>2. Range(mruns) = {} /\ Range(runs) = {} /\ Range(cin) = {}
  BY DEF Range
<1>3. HeldByReaders({}) = {}
  BY DEF HeldByReaders, IdleReader, Range
<1>4. Control
  BY DEF Control, IdleReader
<1>5. Fresh
  BY <1>2 DEF Fresh, Recovered, Flushing, Compaction
<1>6. ManifestComplete /\ ReferencedRunsExist
  BY <1>2, <1>3 DEF ManifestComplete, ReferencedRunsExist, Referenced
<1>7. IsInjective(mruns) /\ InputsAreOldest
  BY DEF IsInjective, InputsAreOldest
<1>8. Dropping
  BY DEF Dropping, IdleReader
<1>9. QED
  BY <1>1, <1>4, <1>5, <1>6, <1>7, <1>8 DEF IInv

-------------------------------------------------------------------------------
(* Every step keeps the types.                                             *)

\* When the engine is dropped no run is obsolete, so no file goes with it.
LEMMA ClosedKeeps ==
    ASSUME IInv, Closed
    PROVE  ProcessGone /\ UNCHANGED disk
<1>1. /\ ProcessGone /\ UNCHANGED <<tmp, mseq, mruns, log>> /\ Unlink(obsolete)
      /\ phase = "closing" /\ cpc = "wait"
  BY Zenon DEF Closed
<1>2. cin = <<>> /\ \A r \in Readers : rd[r].snap = <<>>
  BY <1>1, Zenon DEF IInv, Dropping
<1>3. Referenced = Range(runs)
  <2>1. Range(<<>>) = {}
    BY DEF Range
  <2>2. HeldByReaders({}) = {}
    BY <1>2, <2>1 DEF HeldByReaders
  <2>3. QED
    BY <1>2, <2>1, <2>2 DEF Referenced
<1>4. obsolete = {}
  BY <1>3 DEF IInv, Dropping
<1>5. UNCHANGED <<files, table>>
  <2>1. table \in [Seqs -> Table]
    BY DEF IInv, TypeOK
  <2>2. PICK kept : /\ files' = files \ ({} \ kept)
                    /\ table' = [s \in Seqs |-> IF s \in {} \ kept THEN EmptyTable ELSE table[s]]
    BY <1>1, <1>4, Zenon DEF Unlink
  <2>3. QED
    BY <2>1, <2>2
<1>6. QED
  BY <1>1, <1>5 DEF disk

\* A thread in get or scan keeps its own variables in their types.
LEMMA ReaderTypes ==
    ASSUME IInv, Reading
    PROVE  rd' \in [Readers -> Reader]
<1>0. /\ rd \in [Readers -> Reader] /\ table \in [Seqs -> Table]
      /\ mem \in Table /\ runs \in Seq(Seqs)
  BY DEF IInv, TypeOK
<1>p. PICK r \in Readers :
        \/ \E k \in Keys : GetBegin(r, k)
        \/ GetStep(r)
        \/ \E K \in Ranges : ScanBegin(r, K)
        \/ ScanMerge(r)
        \/ ReadEnd(r)
  BY DEF Reading
<1>r. rd[r] \in Reader
  BY <1>0
<1>1. ASSUME NEW k \in Keys, GetBegin(r, k) PROVE rd' \in [Readers -> Reader]
  <2> DEFINE hit == [pc |-> "done", keys |-> {k}, got |-> Only(mem, {k}),
                     snap |-> <<>>, pos |-> 1]
             miss == [pc |-> IF runs = <<>> THEN "done" ELSE "get", keys |-> {k},
                      got |-> EmptyTable, snap |-> runs, pos |-> 1]
  <2>1. rd' = [rd EXCEPT ![r] = IF mem[k] # None THEN hit ELSE miss]
    BY <1>1 DEF GetBegin
  <2>2. Only(mem, {k}) \in Table /\ EmptyTable \in Table /\ <<>> \in Seq(Seqs)
    BY <1>0, OnlyType, EmptyType
  <2>3. hit \in Reader /\ miss \in Reader
    BY <1>0, <2>2 DEF Reader, ReaderSteps
  <2> HIDE DEF hit, miss
  <2>4. QED
    BY <1>0, <2>1, <2>3
<1>2. CASE GetStep(r)
  <2> DEFINE hit == Only(table[rd[r].snap[rd[r].pos]], rd[r].keys)
  <2>1. rd[r].pos \in 1 .. Len(rd[r].snap) /\ rd[r].snap \in Seq(Seqs)
    BY <1>r, <1>2, Zenon DEF IInv, Control, GetStep, Reader
  <2>2. hit \in Table
    BY <1>0, <2>1, OnlyType
  <2>3. rd' = [rd EXCEPT ![r].got = hit,
                         ![r].pos = @ + 1,
                         ![r].pc = IF hit # EmptyTable \/ rd[r].pos = Len(rd[r].snap)
                                   THEN "done" ELSE "get"]
    BY <1>2 DEF GetStep
  <2> HIDE DEF hit
  <2>4. rd'[r] \in Reader
    BY <1>0, <1>r, <2>2, <2>3 DEF Reader, ReaderSteps
  <2>5. QED
    BY <1>0, <2>3, <2>4
<1>3. ASSUME NEW K \in Ranges, ScanBegin(r, K) PROVE rd' \in [Readers -> Reader]
  <2> DEFINE begun == [pc |-> "scan", keys |-> K, got |-> Only(mem, K), snap |-> runs, pos |-> 1]
  <2>1. rd' = [rd EXCEPT ![r] = begun]
    BY <1>3 DEF ScanBegin
  <2>2. K \in SUBSET Keys /\ Only(mem, K) \in Table
    BY <1>0, EngineAssumption, OnlyType
  <2>3. begun \in Reader
    BY <1>0, <2>2, Zenon DEF Reader, ReaderSteps
  <2> HIDE DEF begun
  <2>4. QED
    BY <1>0, <2>1, <2>3
<1>4. CASE ScanMerge(r)
  <2> DEFINE got == Only(Overlay(rd[r].got, Newest(Tables(rd[r].snap))), rd[r].keys)
  <2>1. got \in Table
    BY <1>0, <1>r, OnlyType, OverlayType, NewestType, TablesType DEF Reader
  <2>2. rd' = [rd EXCEPT ![r].got = got, ![r].pc = "done"]
    BY <1>4 DEF ScanMerge
  <2> HIDE DEF got
  <2>3. rd'[r] \in Reader
    BY <1>0, <1>r, <2>1, <2>2, Zenon DEF Reader, ReaderSteps
  <2>4. QED
    BY <1>0, <2>2, <2>3
<1>5. CASE ReadEnd(r)
  BY <1>0, <1>5, ReaderInit DEF ReadEnd
<1>6. QED
  BY <1>p, <1>1, <1>2, <1>3, <1>4, <1>5, Zenon

LEMMA TypeStep ==
    ASSUME IInv, Next
    PROVE  TypeOK'
<1> USE EngineAssumption
<1>0. TypeOK /\ Control
  BY DEF IInv
<1> USE <1>0 DEF TypeOK, disk, process, writer, compactor
<1>1. ASSUME NEW b \in Batches, Write(b) \/ LogFails(b) PROVE TypeOK'
  <2>1. b \in Table /\ Append(log, b) \in Seq(Table)
    OBVIOUS
  <2>2. CASE Write(b)
    BY <2>1, <2>2 DEF Write, WriterSteps
  <2>3. CASE LogFails(b)
    BY <2>1, <2>3 DEF LogFails
  <2>4. QED
    BY <1>1, <2>2, <2>3
<1>2. CASE Apply
  BY <1>2, EmptyType, OverlayType DEF Apply, WriterSteps
<1>3. CASE Flush
  BY <1>3 DEF Flush, WriterSteps
<1>4. CASE FlushTake
  BY <1>4, EmptyType DEF FlushTake, WriterSteps, Seqs
<1>5. CASE FlushCreate
  BY <1>5 DEF FlushCreate, WriterSteps
<1>6. CASE FlushInstall
  BY <1>6 DEF FlushInstall, WriterSteps
<1>7. CASE FlushCommit
  BY <1>7, EmptyType, PrependRange DEF FlushCommit, NewRuns, WriterSteps
<1>8. CASE FlushRotate
  <2>1. <<>> \in Seq(Table)
    OBVIOUS
  <2>2. QED
    BY <1>8, <2>1, Zenon DEF FlushRotate, WriterSteps
<1>9. CASE FlushReopen
  BY <1>9 DEF FlushReopen, WriterSteps, Phases, CompactorSteps
<1>10. CASE FlushFail \/ RotateFail
  BY <1>10, EmptyType, Zenon DEF FlushFail, RotateFail, WriterSteps
<1>11. CASE Reading
  <2>1. rd' \in [Readers -> Reader]
    BY <1>11, ReaderTypes
  <2>2. CASE UNCHANGED <<disk, process, writer, compactor>>
    BY <2>1, <2>2
  <2>3. ASSUME NEW r \in Readers, ReadEnd(r) PROVE TypeOK'
    <3>1. files' \subseteq Seqs /\ obsolete' \subseteq Seqs /\ table' \in [Seqs -> Table]
      BY <2>3, EmptyType DEF ReadEnd, Release, Unlink
    <3>2. QED
      BY <2>3, <2>1, <3>1 DEF ReadEnd
  <2>4. QED
    BY <1>11, <2>2, <2>3, Zenon DEF Reading, GetBegin, GetStep, ScanBegin, ScanMerge
<1>12. CASE CompactWake
  BY <1>12, Zenon DEF CompactWake, CompactorSteps
<1>13. CASE CompactSnapshot
  BY <1>13 DEF CompactSnapshot, CompactorSteps
<1>14. CASE CompactAlloc
  BY <1>14 DEF CompactAlloc, CompactorSteps, Seqs
<1>15. CASE CompactCreate
  BY <1>15 DEF CompactCreate, CompactorSteps
<1>16. CASE CompactInstall
  <2>1. Live(Newest(Tables(cin))) \in Table
    BY LiveType, NewestType, TablesType
  <2>2. QED
    BY <1>16, <2>1 DEF CompactInstall, CompactorSteps
<1>17. CASE CompactSwap
  <2>1. Survivors(runs, cin) \in Seq(Seqs)
    BY <1>17, SurvivorsArePrefix, Zenon
       DEF IInv, CompactSwap, InputsAreOldest, Suffix, Control
  <2>2. runs' \in Seq(Seqs)
    BY <1>17, <2>1, AppendRange DEF CompactSwap
  <2>3. QED
    BY <1>17, <2>2, RangeType DEF CompactSwap, CompactorSteps
<1>18. CASE CompactDrop
  <2>1. files' \subseteq Seqs /\ obsolete' \subseteq Seqs /\ table' \in [Seqs -> Table]
    BY <1>18, EmptyType DEF CompactDrop, Release, Unlink
  <2>2. QED
    BY <1>18, <2>1 DEF CompactDrop, CompactorSteps
<1>19. CASE CompactFail
  BY <1>19 DEF CompactFail, CompactorSteps
<1>20. CASE OpenLoad
  BY <1>20 DEF OpenLoad, Phases
<1>21. ASSUME NEW s \in Seqs, OpenReclaimTmp(s) PROVE TypeOK'
  BY <1>21 DEF OpenReclaimTmp
<1>22. ASSUME NEW s \in Seqs, OpenReclaimRun(s) PROVE TypeOK'
  BY <1>22, EmptyType, SMTT(30) DEF OpenReclaimRun, MaxOf, Seqs
<1>23. CASE OpenReplay
  <2>1. mem' \in Table
    BY <1>23, LatestType DEF OpenReplay
  <2>2. nextSeq' \in 0 .. MaxSeq + 1
    BY <1>23, RangeType, SMTT(30) DEF OpenReplay, Seqs
  <2>3. QED
    BY <1>23, <2>1, <2>2 DEF OpenReplay, Phases, CompactorSteps, WriterSteps
<1>24. CASE Close
  BY <1>24 DEF Close, Phases
<1>25. CASE Closed \/ Crash
  <2>0. ProcessGone
    BY <1>25 DEF Closed, Crash
  <2>1. /\ phase' \in Phases /\ mem' \in Table
        /\ nextSeq' \in 0 .. MaxSeq + 1 /\ obsolete' \subseteq Seqs
    BY <2>0, EmptyType DEF ProcessGone, Phases
  <2>2. /\ wpc' \in WriterSteps /\ held' \in Table /\ wseq' \in Seqs
        /\ cpc' \in CompactorSteps /\ cseq' \in Seqs
    BY <2>0, EmptyType DEF ProcessGone, WriterSteps, CompactorSteps, Seqs
  <2>3. runs' \in Seq(Seqs) /\ cin' \in Seq(Seqs)
    <3>1. <<>> \in Seq(Seqs)
      OBVIOUS
    <3>2. QED
      BY <2>0, <3>1 DEF ProcessGone
  <2>7. wal' \in BOOLEAN /\ pending' \in BOOLEAN
    BY <2>0, Zenon DEF ProcessGone
  <2>4. rd' \in [Readers -> Reader]
    BY <2>0, ReaderInit DEF ProcessGone
  <2>5. UNCHANGED disk
    BY <1>25, ClosedKeeps DEF Crash
  <2>6. QED
    BY <2>1, <2>2, <2>3, <2>4, <2>5, <2>7
<1>26. QED
  BY <1>1, <1>2, <1>3, <1>4, <1>5, <1>6, <1>7, <1>8, <1>9, <1>10, <1>11, <1>12,
     <1>13, <1>14, <1>15, <1>16, <1>17, <1>18, <1>19, <1>20, <1>21, <1>22, <1>23,
     <1>24, <1>25, Zenon
     DEF Next, Writing, Compacting, Lifecycle

-------------------------------------------------------------------------------
(* The steps of writers and readers keep the invariant.                    *)

\* What the steps have to keep besides the types.
Rest == Control /\ Fresh /\ ManifestComplete /\ ReferencedRunsExist
        /\ IsInjective(mruns) /\ InputsAreOldest

LEMMA NotLast ==
    ASSUME NEW s \in Seq(Seqs), NEW i \in 1 .. Len(s), i # Len(s)
    PROVE  i + 1 \in 1 .. Len(s)
OBVIOUS

LEMMA SameReaders ==
    ASSUME UNCHANGED rd
    PROVE  HeldByReaders({})' = HeldByReaders({})
BY DEF HeldByReaders

\* When only reader r moves, it holds the runs of its new snapshot instead of
\* those of its old one.
LEMMA ReaderMoves ==
    ASSUME NEW r \in Readers, \A q \in Readers \ {r} : rd'[q] = rd[q]
    PROVE  HeldByReaders({})' = HeldByReaders({r}) \cup Range(rd'[r].snap)
BY DEF HeldByReaders

LEMMA HeldSplit ==
    ASSUME NEW r \in Readers
    PROVE  HeldByReaders({}) = HeldByReaders({r}) \cup Range(rd[r].snap)
BY DEF HeldByReaders

LEMMA IdleHoldNothing ==
    ASSUME NEW f, f = [r \in Readers |-> IdleReader]
    PROVE  UNION {Range(f[r].snap) : r \in Readers \ {}} = {}
<1>1. \A r \in Readers : f[r].snap = <<>>
  BY DEF IdleReader
<1>2. Range(<<>>) = {}
  BY DEF Range
<1>3. QED
  BY <1>1, <1>2

\* A read in progress keeps the store from being down or in recovery.
LEMMA BusyReader ==
    ASSUME Control, NEW r \in Readers, rd[r].pc # "idle"
    PROVE  phase \notin {"down", "reclaim"}
<1>1. rd = [q \in Readers |-> IdleReader] => rd[r].pc = "idle"
  BY DEF IdleReader
<1>2. QED
  BY <1>1 DEF Control

\* An injective list stays one when a new run is put in front of it ...
LEMMA PrependInjective ==
    ASSUME NEW x \in Seqs, NEW s \in Seq(Seqs), IsInjective(s), x \notin Range(s)
    PROVE  IsInjective(<<x>> \o s)
<1> DEFINE t == <<x>> \o s
<1>1. /\ t \in Seq(Seqs) /\ Len(t) = Len(s) + 1 /\ Len(s) \in Nat /\ t[1] = x
      /\ \A i \in 1 .. Len(s) : t[i + 1] = s[i]
  BY PrependRange
<1>2. \A i \in 2 .. Len(t) : i - 1 \in 1 .. Len(s) /\ t[i] = s[i - 1]
  <2> TAKE i \in 2 .. Len(t)
  <2>1. i - 1 \in 1 .. Len(s) /\ (i - 1) + 1 = i
    BY <1>1
  <2>2. t[(i - 1) + 1] = s[i - 1]
    BY <1>1, <2>1
  <2>3. QED
    BY <2>1, <2>2
<1>3. \A i \in 1 .. Len(s) : s[i] # x
  BY RangeType
<1> HIDE DEF t
<1>4. SUFFICES ASSUME NEW i \in 1 .. Len(t), NEW j \in 1 .. Len(t), t[i] = t[j]
               PROVE  i = j
  BY <1>1 DEF IsInjective, t
<1>5. CASE i = 1 \/ j = 1
  <2>1. \A m \in 2 .. Len(t) : t[m] # x
    BY <1>2, <1>3
  <2>2. i = 1 \/ i \in 2 .. Len(t)
    BY <1>1
  <2>3. j = 1 \/ j \in 2 .. Len(t)
    BY <1>1
  <2>4. QED
    BY <1>1, <1>4, <1>5, <2>1, <2>2, <2>3
<1>6. CASE i # 1 /\ j # 1
  <2>1. i \in 2 .. Len(t) /\ j \in 2 .. Len(t)
    BY <1>1, <1>6
  <2>2. s[i - 1] = s[j - 1] /\ i - 1 \in DOMAIN s /\ j - 1 \in DOMAIN s
    BY <1>2, <1>4, <2>1
  <2>3. i - 1 = j - 1
    BY <2>2 DEF IsInjective
  <2>4. QED
    BY <2>3, <1>1
<1>7. QED
  BY <1>5, <1>6

\* ... and when the older part of it is replaced by one new run.
LEMMA SwapFacts ==
    ASSUME NEW x \in Seqs, NEW rs \in Seq(Seqs), NEW ins \in Seq(Seqs),
           IsInjective(rs), Suffix(ins, rs), x \notin Range(rs)
    PROVE  LET t == Append(Survivors(rs, ins), x)
           IN  /\ t \in Seq(Seqs)
               /\ IsInjective(t)
               /\ Range(t) \subseteq {x} \cup Range(rs)
<1> DEFINE v == Survivors(rs, ins)
           n == Len(rs) - Len(ins)
           t == Append(v, x)
<1>1. v \in Seq(Seqs) /\ Len(v) = n /\ \A i \in 1 .. n : v[i] = rs[i]
  BY SurvivorsArePrefix
<1>2. Len(rs) \in Nat /\ n \in Nat /\ n <= Len(rs)
  BY DEF Suffix
<1> HIDE DEF v, n
<1>3. /\ t \in Seq(Seqs) /\ Len(t) = n + 1 /\ t[n + 1] = x
      /\ \A i \in 1 .. n : t[i] = rs[i]
      /\ Range(t) = {x} \cup Range(v)
  <2>1. t \in Seq(Seqs) /\ Range(t) = {x} \cup Range(v)
    BY <1>1, AppendRange, Zenon
  <2>2. Len(t) = n + 1 /\ t[n + 1] = x /\ \A i \in 1 .. n : t[i] = v[i]
    BY <1>1, <1>2
  <2>3. QED
    BY <1>1, <2>1, <2>2, Zenon
<1>4. \A i \in 1 .. n : i \in DOMAIN rs /\ rs[i] \in Range(rs) /\ rs[i] # x
  BY <1>2, RangeType
<1>5. Range(v) \subseteq Range(rs)
  BY <1>1, <1>4, RangeType
<1> HIDE DEF t
<1>6. IsInjective(t)
  <2>1. DOMAIN t = 1 .. n + 1
    BY <1>2, <1>3
  <2>2. SUFFICES ASSUME NEW i \in 1 .. n + 1, NEW j \in 1 .. n + 1, t[i] = t[j]
                 PROVE  i = j
    BY <2>1 DEF IsInjective
  <2>3. CASE i = n + 1 \/ j = n + 1
    <3>1. ASSUME NEW p \in 1 .. n + 1, NEW q \in 1 .. n + 1, t[p] = t[q], p = n + 1
          PROVE  q = n + 1
      <4>1. q \notin 1 .. n
        BY <1>3, <1>4, <3>1, Zenon
      <4>2. QED
        BY <1>2, <3>1, <4>1
    <3>2. QED
      BY <2>2, <2>3, <3>1, Zenon
  <2>4. CASE i \in 1 .. n /\ j \in 1 .. n
    BY <1>3, <1>4, <2>2, <2>4 DEF IsInjective
  <2>5. QED
    BY <1>2, <2>3, <2>4
<1>7. QED
  BY <1>3, <1>5, <1>6 DEF t, v

-------------------------------------------------------------------------------
(* Every step keeps the rest of the invariant.                             *)

\* A step of the thread that holds the write lock that changes nothing of the
\* store's runs, and does not move a flush past the creation of its file.
LEMMA WriterMoves ==
    ASSUME Rest, phase = "up" \/ wpc # "idle",
           UNCHANGED <<files, mseq, mruns, phase, runs, nextSeq>>,
           UNCHANGED <<compactor, rd>>,
           wpc' \in {"create", "install", "commit"} =>
               wpc = "create" /\ wpc' = "install" /\ wseq' = wseq
    PROVE  Rest'
<1>1. Referenced' = Referenced
  BY SameReaders DEF Referenced, compactor
<1>2. Control'
  BY DEF Rest, Control, compactor
<1>3. Fresh'
  BY <1>1 DEF Rest, Fresh, Recovered, Flushing, Compaction, compactor
<1>4. ManifestComplete' /\ ReferencedRunsExist'
  BY <1>1 DEF Rest, ManifestComplete, ReferencedRunsExist
<1>5. IsInjective(mruns)' /\ InputsAreOldest'
  BY DEF Rest, IsInjective, InputsAreOldest, compactor
<1>6. QED
  BY <1>2, <1>3, <1>4, <1>5 DEF Rest

\* Steps of the thread that holds the write lock.
LEMMA WriterStep ==
    ASSUME IInv, Writing
    PROVE  Rest'
<1>t. TypeOK
  BY DEF IInv
<1>0. Rest
  BY DEF IInv, Rest
<1>1. ASSUME NEW b \in Batches, Write(b) PROVE Rest'
  BY <1>0, <1>1, WriterMoves DEF Write, disk, process
<1>2. ASSUME NEW b \in Batches, LogFails(b) PROVE Rest'
  BY <1>0, <1>2, WriterMoves DEF LogFails, disk, process, writer
<1>3. CASE Apply
  BY <1>0, <1>3, WriterMoves DEF Apply, disk
<1>4. CASE Flush
  BY <1>0, <1>4, WriterMoves DEF Flush, disk, process
<1>5. CASE FlushTake
  <2>1. Referenced' = Referenced
    BY <1>5, SameReaders DEF FlushTake, Referenced, compactor
  <2>2. /\ UNCHANGED <<files, mseq, mruns, phase, runs, rd>>
        /\ UNCHANGED <<cpc, cin, cseq>>
        /\ wpc = "take" /\ wpc' = "create" /\ wseq' = nextSeq /\ nextSeq' = nextSeq + 1
    BY <1>5 DEF FlushTake, disk, compactor
  <2>3. /\ nextSeq \in Int /\ mseq \in Int /\ cseq \in Int /\ files \subseteq Int
        /\ Recovered /\ mruns = runs /\ mseq <= nextSeq
    BY <1>0, <1>t, <2>2 DEF Rest, Control, TypeOK, Seqs, Phases, Recovered
  <2>4. Control'
    BY <1>0, <2>2, <2>3 DEF Rest, Control
  <2>5. /\ \A s \in files : s < nextSeq
        /\ Referenced \subseteq files
    BY <1>0, <2>3 DEF Rest, Fresh, ReferencedRunsExist
  <2>6. Fresh'
    BY <1>0, <2>1, <2>2, <2>3, <2>5 DEF Rest, Fresh, Recovered, Flushing, Compaction
  <2>7. ManifestComplete' /\ ReferencedRunsExist'
    BY <1>0, <2>1, <2>2 DEF Rest, ManifestComplete, ReferencedRunsExist
  <2>8. IsInjective(mruns)' /\ InputsAreOldest'
    BY <1>0, <2>2 DEF Rest, IsInjective, InputsAreOldest
  <2>9. QED
    BY <2>4, <2>6, <2>7, <2>8 DEF Rest
<1>6. CASE FlushCreate
  BY <1>0, <1>6, WriterMoves DEF FlushCreate, process
<1>7. CASE FlushInstall
  <2>1. Referenced' = Referenced
    BY <1>7, SameReaders DEF FlushInstall, Referenced, process, compactor
  <2>2. /\ UNCHANGED <<mseq, mruns, phase, runs, nextSeq, wseq, rd>>
        /\ UNCHANGED <<cpc, cin, cseq>>
        /\ wpc = "install" /\ wpc' = "commit" /\ files' = files \cup {wseq}
    BY <1>7 DEF FlushInstall, process, compactor
  <2>3. Control'
    BY <1>0, <2>2 DEF Rest, Control
  <2>4. Fresh'
    BY <1>0, <2>1, <2>2 DEF Rest, Fresh, Recovered, Flushing, Compaction
  <2>5. ManifestComplete' /\ ReferencedRunsExist'
    BY <1>0, <2>1, <2>2 DEF Rest, ManifestComplete, ReferencedRunsExist
  <2>6. IsInjective(mruns)' /\ InputsAreOldest'
    BY <1>0, <2>2 DEF Rest, IsInjective, InputsAreOldest
  <2>7. QED
    BY <2>3, <2>4, <2>5, <2>6 DEF Rest
<1>8. CASE FlushCommit
  <2>1. HeldByReaders({})' = HeldByReaders({})
    BY <1>8, SameReaders DEF FlushCommit
  <2>2. /\ runs' = <<wseq>> \o runs /\ mruns' = runs' /\ mseq' = nextSeq
        /\ UNCHANGED <<files, phase, nextSeq, wseq, rd>>
        /\ UNCHANGED <<cpc, cin, cseq>>
        /\ wpc = "commit" /\ wpc' = "rotate"
    BY <1>8 DEF FlushCommit, NewRuns, compactor
  <2>t. runs \in Seq(Seqs) /\ cin \in Seq(Seqs) /\ wseq \in Seqs /\ mseq \in Int /\ nextSeq \in Int
    BY <1>t DEF TypeOK, Seqs
  <2>3. /\ phase # "down" /\ mruns = runs /\ mseq <= nextSeq
        /\ wseq < nextSeq /\ wseq \notin Range(runs) /\ wseq \in files
    BY <1>0, <2>2 DEF Rest, Control, Fresh, Flushing, Referenced
  <2>4. /\ Range(runs') = {wseq} \cup Range(runs)
        /\ Len(runs') = Len(runs) + 1 /\ runs' \in Seq(Seqs)
        /\ \A i \in 1 .. Len(runs) : runs'[i + 1] = runs[i]
    <3>1. runs' = <<wseq>> \o runs
      BY <2>2, Zenon
    <3>2. /\ Range(<<wseq>> \o runs) = {wseq} \cup Range(runs)
          /\ Len(<<wseq>> \o runs) = Len(runs) + 1 /\ <<wseq>> \o runs \in Seq(Seqs)
          /\ \A i \in 1 .. Len(runs) : (<<wseq>> \o runs)[i + 1] = runs[i]
      BY <2>t, PrependRange, Zenon
    <3>3. QED
      BY <3>1, <3>2, Zenon
  <2>5. IsInjective(mruns')
    BY <1>0, <2>t, <2>2, <2>3, PrependInjective DEF Rest
  <2>6. Control'
    BY <1>0, <2>t, <2>2, <2>3, SMTT(30) DEF Rest, Control
  <2>r. Referenced' = Referenced \cup {wseq}
    BY <2>1, <2>2, <2>4 DEF Referenced
  <2>7. Fresh'
    <3>1. \A s \in Range(mruns') : s < mseq'
      <4>1. Range(runs) \subseteq Seqs
        BY <2>t, RangeType
      <4>2. \A s \in Range(runs) : s \in Int /\ s < mseq
        BY <1>0, <2>3, <4>1 DEF Rest, Fresh, Seqs
      <4>3. \A s \in Range(runs) : s < nextSeq
        BY <2>t, <2>3, <4>2
      <4>4. QED
        BY <2>2, <2>3, <2>4, <4>3
    <3>2. QED
      BY <1>0, <2>2, <2>r, <3>1 DEF Rest, Fresh, Recovered, Flushing, Compaction
  <2>8. ManifestComplete' /\ ReferencedRunsExist'
    BY <1>0, <2>2, <2>3, <2>4, <2>r DEF Rest, ManifestComplete, ReferencedRunsExist
  <2>9. InputsAreOldest'
    <3> SUFFICES ASSUME cpc \in {"alloc", "create", "merge", "swap"}
                 PROVE  /\ Len(cin) <= Len(runs')
                        /\ \A i \in 1 .. Len(cin) : cin[i] = runs'[Len(runs') - Len(cin) + i]
      BY <2>2 DEF InputsAreOldest
    <3>1. /\ Len(cin) \in Nat /\ Len(runs) \in Nat /\ Len(cin) <= Len(runs)
          /\ \A i \in 1 .. Len(cin) : cin[i] = runs[Len(runs) - Len(cin) + i]
      BY <1>0, <2>t DEF Rest, InputsAreOldest
    <3>2. ASSUME NEW i \in 1 .. Len(cin)
          PROVE  cin[i] = runs'[Len(runs') - Len(cin) + i]
      <4>1. Len(runs) - Len(cin) + i \in 1 .. Len(runs)
        BY <3>1
      <4>2. runs'[(Len(runs) - Len(cin) + i) + 1] = runs[Len(runs) - Len(cin) + i]
        BY <4>1, <2>4
      <4>3. Len(runs') - Len(cin) + i = (Len(runs) - Len(cin) + i) + 1
        BY <2>4, <3>1
      <4>4. QED
        BY <3>1, <4>2, <4>3, Zenon
    <3>3. QED
      BY <2>4, <3>1, <3>2
  <2>10. QED
    BY <2>5, <2>6, <2>7, <2>8, <2>9 DEF Rest
<1>9. CASE FlushRotate
  BY <1>0, <1>9, WriterMoves DEF FlushRotate
<1>10. CASE FlushReopen
  <2>1. Referenced' = Referenced
    BY <1>10, SameReaders DEF FlushReopen, Referenced
  <2>2. /\ UNCHANGED <<files, mseq, mruns, runs, nextSeq, wseq, rd>>
        /\ UNCHANGED <<cin, cseq>>
        /\ wpc = "reopen" /\ wpc' = "idle" /\ phase' = "up"
        /\ cpc' = IF phase = "checkpoint" THEN "wait" ELSE cpc
    BY <1>10 DEF FlushReopen, disk
  <2>3. Recovered
    BY <1>0, <1>t, <2>2 DEF Rest, Control, TypeOK, Phases, Recovered
  <2>4. Control'
    BY <1>0, <2>2, <2>3 DEF Rest, Control, Recovered
  <2>5. Fresh'
    BY <1>0, <2>1, <2>2, <2>3 DEF Rest, Fresh, Recovered, Flushing, Compaction
  <2>6. ManifestComplete' /\ ReferencedRunsExist'
    BY <1>0, <2>1, <2>2 DEF Rest, ManifestComplete, ReferencedRunsExist
  <2>7. IsInjective(mruns)' /\ InputsAreOldest'
    BY <1>0, <2>2 DEF Rest, IsInjective, InputsAreOldest
  <2>8. QED
    BY <2>4, <2>5, <2>6, <2>7 DEF Rest
<1>11. CASE FlushFail
  BY <1>0, <1>11, WriterMoves DEF FlushFail, disk, process
<1>12. CASE RotateFail
  BY <1>0, <1>12, WriterMoves DEF RotateFail, disk
<1>13. QED
  BY <1>1, <1>2, <1>3, <1>4, <1>5, <1>6, <1>7, <1>8, <1>9, <1>10, <1>11, <1>12, Zenon
     DEF Writing

\* Steps of a thread in get or scan: nobody refers to a run afterwards that
\* nobody referred to before.
LEMMA ReaderStep ==
    ASSUME IInv, Reading
    PROVE  Rest'
<1>t. TypeOK
  BY DEF IInv
<1>c. Control
  BY DEF IInv
<1>f. Fresh
  BY DEF IInv
<1>m. ManifestComplete /\ ReferencedRunsExist
  BY DEF IInv
<1>o. IsInjective(mruns) /\ InputsAreOldest
  BY DEF IInv
<1>p. PICK r \in Readers :
        \/ \E k \in Keys : GetBegin(r, k)
        \/ GetStep(r)
        \/ \E K \in Ranges : ScanBegin(r, K)
        \/ ScanMerge(r)
        \/ ReadEnd(r)
  BY DEF Reading
<1>1. rd \in [Readers -> Reader] /\ rd[r] \in Reader
  BY <1>t DEF TypeOK
<1>2. Range(<<>>) = {}
  BY DEF Range
<1>3. HeldByReaders({}) = HeldByReaders({r}) \cup Range(rd[r].snap)
  BY HeldSplit
\* A step that leaves everything but reader r alone.
<1>4. ASSUME UNCHANGED <<disk, process, writer, compactor>>,
             \A q \in Readers \ {r} : rd'[q] = rd[q],
             rd'[r].snap \in {<<>>, runs, rd[r].snap},
             rd'[r].pc = "get" => rd'[r].pos \in 1 .. Len(rd'[r].snap),
             phase = "up" \/ rd[r].pc # "idle"
      PROVE  Rest'
  <2>1. Range(rd'[r].snap) \subseteq Range(runs) \cup Range(rd[r].snap)
    BY <1>2, <1>4, Zenon
  <2>2. HeldByReaders({})' = HeldByReaders({r}) \cup Range(rd'[r].snap)
    BY <1>4, ReaderMoves, Zenon
  <2>3. UNCHANGED <<runs, cin>>
    BY <1>4 DEF process, compactor
  <2>4. Referenced' \subseteq Referenced
    BY <1>3, <2>1, <2>2, <2>3 DEF Referenced
  <2>5. phase \notin {"down", "reclaim"}
    BY <1>c, <1>4, BusyReader, Zenon
  <2>6. Control'
    BY <1>c, <1>4, <2>5 DEF Control, disk, process
  <2>7. Fresh'
    <3>1. UNCHANGED <<mruns, mseq, phase, files, nextSeq, wpc, wseq, cpc, cseq>>
      BY <1>4 DEF disk, process, writer, compactor
    <3>2. QED
      BY <1>f, <2>4, <3>1 DEF Fresh, Recovered, Flushing, Compaction
  <2>8. ManifestComplete' /\ ReferencedRunsExist'
    BY <1>m, <1>4, <2>4, Zenon DEF ManifestComplete, ReferencedRunsExist, disk
  <2>9. IsInjective(mruns)' /\ InputsAreOldest'
    BY <1>o, <1>4 DEF IsInjective, InputsAreOldest, disk, process, compactor
  <2>10. QED
    BY <2>6, <2>7, <2>8, <2>9 DEF Rest
<1>5. ASSUME NEW k \in Keys, GetBegin(r, k) PROVE Rest'
  <2>1. rd'[r].snap \in {<<>>, runs}
    BY <1>1, <1>5 DEF GetBegin
  <2>2. rd'[r].pc = "get" => rd'[r].snap = runs /\ runs # <<>> /\ rd'[r].pos = 1
    BY <1>1, <1>5 DEF GetBegin
  <2>3. runs \in Seq(Seqs) /\ (runs # <<>> => 1 \in 1 .. Len(runs))
    BY <1>t DEF TypeOK
  <2>4. \A q \in Readers \ {r} : rd'[q] = rd[q]
    BY <1>1, <1>5, Zenon DEF GetBegin
  <2>5. phase = "up" /\ UNCHANGED <<disk, process, writer, compactor>>
    BY <1>5 DEF GetBegin
  <2>6. QED
    BY <1>4, <2>1, <2>2, <2>3, <2>4, <2>5, Zenon
<1>6. CASE GetStep(r)
  <2>1. rd[r].pos \in 1 .. Len(rd[r].snap) /\ rd[r].snap \in Seq(Seqs) /\ rd[r].pos \in Nat
    BY <1>1, <1>6 DEF GetStep, Reader
  <2>2. rd'[r].snap = rd[r].snap /\ rd'[r].pos = rd[r].pos + 1
    BY <1>1, <1>6 DEF GetStep, Reader
  <2>3. rd'[r].pc = "get" => rd[r].pos # Len(rd[r].snap)
    BY <1>1, <1>6 DEF GetStep, Reader
  <2>4. \A q \in Readers \ {r} : rd'[q] = rd[q]
    BY <1>1, <1>6 DEF GetStep
  <2>5. rd'[r].pc = "get" => rd'[r].pos \in 1 .. Len(rd'[r].snap)
    <3>1. rd[r].pos # Len(rd[r].snap) => rd[r].pos + 1 \in 1 .. Len(rd[r].snap)
      BY <2>1, NotLast
    <3>2. QED
      BY <2>2, <2>3, <3>1
  <2>6. QED
    BY <1>4, <1>6, <2>2, <2>4, <2>5, Zenon DEF GetStep
<1>7. ASSUME NEW K \in Ranges, ScanBegin(r, K) PROVE Rest'
  <2>1. rd'[r].snap = runs /\ rd'[r].pc = "scan" /\ \A q \in Readers \ {r} : rd'[q] = rd[q]
    BY <1>1, <1>7 DEF ScanBegin
  <2>2. QED
    BY <1>4, <1>7, <2>1, Zenon DEF ScanBegin
<1>8. CASE ScanMerge(r)
  <2>1. /\ rd'[r].snap = rd[r].snap /\ rd'[r].pc = "done"
        /\ \A q \in Readers \ {r} : rd'[q] = rd[q]
    BY <1>1, <1>8 DEF ScanMerge, Reader
  <2>2. QED
    BY <1>4, <1>8, <2>1, Zenon DEF ScanMerge
<1>9. CASE ReadEnd(r)
  <2>1. /\ rd'[r] = IdleReader /\ rd'[r].snap = <<>> /\ rd'[r].pc = "idle"
        /\ \A q \in Readers \ {r} : rd'[q] = rd[q]
    BY <1>1, <1>9, Zenon DEF ReadEnd, IdleReader
  <2>2. HeldByReaders({})' = HeldByReaders({r})
    <3>1. HeldByReaders({})' = HeldByReaders({r}) \cup Range(rd'[r].snap)
      BY <2>1, ReaderMoves, Zenon
    <3>2. QED
      BY <1>2, <2>1, <3>1, Zenon
  <2>3. /\ UNCHANGED <<tmp, mseq, mruns, log, phase, mem, runs, wal, nextSeq>>
        /\ UNCHANGED <<wpc, held, wseq, cpc, cin, cseq, pending>>
        /\ rd[r].pc # "idle"
    BY <1>9, Zenon DEF ReadEnd, writer, compactor
  <2>4. Referenced' = Range(runs) \cup Range(cin) \cup HeldByReaders({r})
    BY <2>2, <2>3 DEF Referenced
  <2>5. files' \subseteq files /\ files \ files' \subseteq Range(rd[r].snap) \ Referenced'
    BY <1>9, <2>4, Zenon DEF ReadEnd, Release, Unlink
  <2>6. Referenced' \subseteq Referenced /\ files \ files' \subseteq Referenced
    BY <1>3, <2>4, <2>5 DEF Referenced
  <2>7. phase \notin {"down", "reclaim"}
    BY <1>c, <2>3, BusyReader, Zenon
  <2>8. Control' /\ mruns = runs
    BY <1>c, <2>1, <2>3, <2>7, Zenon DEF Control
  <2>9. ManifestComplete' /\ ReferencedRunsExist'
    BY <1>m, <2>3, <2>4, <2>5, <2>6, <2>8, Zenon DEF ManifestComplete, ReferencedRunsExist
  <2>10. Fresh'
    BY <1>f, <2>3, <2>5, <2>6, Zenon DEF Fresh, Recovered, Flushing, Compaction
  <2>11. IsInjective(mruns)' /\ InputsAreOldest'
    BY <1>o, <2>3, Zenon DEF IsInjective, InputsAreOldest
  <2>12. QED
    BY <2>8, <2>9, <2>10, <2>11, Zenon DEF Rest
<1>10. QED
  BY <1>p, <1>5, <1>6, <1>7, <1>8, <1>9, Zenon
===============================================================================
