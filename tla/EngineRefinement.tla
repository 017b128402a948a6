--------------------------- MODULE EngineRefinement ---------------------------
(***************************************************************************)
(* Engine implements KVStore, for every value of the constants: what the   *)
(* clients can observe of the engine, through the refinement mapping of    *)
(* EngineContract, changes only as a KVStore changes.  And what follows on *)
(* a disk that loses power (PowerLoss).                                    *)
(***************************************************************************)
EXTENDS EngineProofs, EngineContract, PowerLoss

-------------------------------------------------------------------------------
(* The refinement mapping, in terms of Contents.                           *)

LEMMA ViewsNow ==
    /\ DurableView = Live(Overlay(Latest(log), Contents(table, mruns)))
    /\ Recovered => CurrentView = Live(Overlay(held, Overlay(mem, Contents(table, runs))))
    /\ ~Recovered => CurrentView = DurableView
BY DEF DurableView, CurrentView, Recovered, Tables, Contents

LEMMA ViewsNext ==
    /\ DurableView' = Live(Overlay(Latest(log'), Contents(table', mruns')))
    /\ Recovered' => CurrentView' = Live(Overlay(held', Overlay(mem', Contents(table', runs'))))
    /\ ~Recovered' => CurrentView' = DurableView'
BY DEF DurableView, CurrentView, Recovered, Tables, Contents

\* The answer of a reader in state x when the run files hold t.
AnswerOf(x, t) ==
    LET found == CASE x.pc = "get"  -> Contents(t, SubSeq(x.snap, x.pos, Len(x.snap)))
                   [] x.pc = "scan" -> Overlay(x.got, Contents(t, x.snap))
                   [] OTHER         -> x.got
    IN  Live(Only(found, x.keys))

LEMMA AnswerNow ==
    ASSUME NEW r
    PROVE  /\ Answer(r) = AnswerOf(rd[r], table)
           /\ Answer(r)' = AnswerOf(rd'[r], table')
BY DEF Answer, AnswerOf, Tables, Contents

LEMMA ViewTypes ==
    ASSUME IInv
    PROVE  /\ held \in Table /\ mem \in Table /\ Latest(log) \in Table /\ log \in Seq(Table)
           /\ table \in [Seqs -> Table] /\ rd \in [Readers -> Reader]
           /\ runs \in Seq(Seqs) /\ mruns \in Seq(Seqs) /\ cin \in Seq(Seqs)
           /\ Contents(table, runs) \in Table /\ Contents(table, mruns) \in Table
           /\ Contents(table, cin) \in Table
BY ContentsType, LatestType DEF IInv, TypeOK

-------------------------------------------------------------------------------
(* What a step leaves alone.                                               *)

\* Runs that have their files before and after a step hold what they held.
LEMMA ContentsKept ==
    ASSUME IInv, Next, NEW s \in Seq(Seqs), Range(s) \subseteq files, Range(s) \subseteq files'
    PROVE  Contents(table', s) = Contents(table, s)
<1>1. Range(s) \subseteq Seqs
  BY RangeType
<1>2. \A x \in Range(s) : table'[x] = table[x]
  BY <1>1, SameTables
<1>3. QED
  BY <1>2, ContentsSame

\* The runs that a list of the engine names keep their contents.
LEMMA RunsKept ==
    ASSUME IInv, IInv', Next
    PROVE  /\ runs' = runs => Contents(table', runs) = Contents(table, runs)
           /\ mruns' = mruns => Contents(table', mruns) = Contents(table, mruns)
           /\ cin' = cin => Contents(table', cin) = Contents(table, cin)
<1>1. /\ Range(runs) \subseteq files /\ Range(mruns) \subseteq files
      /\ Range(cin) \subseteq files
  BY DEF IInv, ManifestComplete, ReferencedRunsExist, Referenced
<1>2. /\ Range(runs') \subseteq files' /\ Range(mruns') \subseteq files'
      /\ Range(cin') \subseteq files'
  BY DEF IInv, ManifestComplete, ReferencedRunsExist, Referenced
<1>3. runs \in Seq(Seqs) /\ mruns \in Seq(Seqs) /\ cin \in Seq(Seqs)
  BY DEF IInv, TypeOK
<1>4. QED
  BY <1>1, <1>2, <1>3, ContentsKept

LEMMA DurableKept ==
    ASSUME IInv, IInv', Next, mruns' = mruns, log' = log
    PROVE  DurableView' = DurableView
BY RunsKept, ViewsNow, ViewsNext

LEMMA CurrentKept ==
    ASSUME IInv, IInv', Next, runs' = runs, mem' = mem, held' = held,
           mruns' = mruns, log' = log, Recovered' <=> Recovered
    PROVE  CurrentView' = CurrentView
BY DurableKept, RunsKept, ViewsNow, ViewsNext

\* The answer of a reader that does not move stays the same: the runs of its
\* snapshot keep their files.
LEMMA AnswerKept ==
    ASSUME IInv, IInv', Next, NEW r \in Readers, rd'[r] = rd[r]
    PROVE  Answer(r)' = Answer(r)
<1> DEFINE s == rd[r].snap
           rest == SubSeq(s, rd[r].pos, Len(s))
<1>1. rd[r] \in Reader /\ s \in Seq(Seqs)
  BY DEF IInv, TypeOK, Reader
<1>2. Range(s) \subseteq files
  BY DEF IInv, ReferencedRunsExist, Referenced, HeldByReaders
<1>3. Range(s) \subseteq files'
  <2>1. Range(rd'[r].snap) \subseteq files'
    BY DEF IInv, ReferencedRunsExist, Referenced, HeldByReaders
  <2>2. QED
    BY <2>1
<1>4. Contents(table', s) = Contents(table, s)
  BY <1>1, <1>2, <1>3, ContentsKept
<1>5. rd[r].pc = "get" => Contents(table', rest) = Contents(table, rest)
  <2> SUFFICES ASSUME rd[r].pc = "get" PROVE Contents(table', rest) = Contents(table, rest)
    OBVIOUS
  <2>1. rd[r].pos \in 1 .. Len(s)
    BY DEF IInv, Control
  <2> HIDE DEF s
  <2>2. rest \in Seq(Seqs) /\ Range(rest) \subseteq Range(s)
    BY <1>1, <2>1, RestRange
  <2>3. QED
    BY <1>2, <1>3, <2>2, ContentsKept, Zenon
<1>6. QED
  BY <1>4, <1>5, AnswerNow DEF AnswerOf

LEMMA ReadsKept ==
    ASSUME IInv, IInv', Next, rd' = rd
    PROVE  ReadsInProgress' = ReadsInProgress
BY AnswerKept DEF ReadsInProgress

-------------------------------------------------------------------------------
(* The steps of KVStore, through the mapping.                              *)

NoRead == [keys |-> {}, answer |-> EmptyTable]

\* A step of KVStore that writes nothing, or no step.
Unwritten ==
    \/ UNCHANGED KV!vars
    \/ KV!Persist \/ KV!Restart
    \/ \E r \in Readers :
          KV!End(r) \/ \E K \in Ranges \cup {{k} : k \in Keys} : KV!Begin(r, K)

LEMMA IsStutter ==
    ASSUME CurrentView' = CurrentView, DurableView' = DurableView,
           ReadsInProgress' = ReadsInProgress
    PROVE  UNCHANGED KV!vars
BY DEF KV!vars

LEMMA IsPersist ==
    ASSUME ReadsInProgress' = ReadsInProgress,
           DurableView' = CurrentView, CurrentView' = CurrentView
    PROVE  Unwritten
BY DEF Unwritten, KV!Persist

LEMMA IsRestart ==
    ASSUME CurrentView' = DurableView, DurableView' = DurableView,
           ReadsInProgress' = [r \in Readers |-> NoRead]
    PROVE  Unwritten
BY DEF Unwritten, KV!Restart, KV!NoRead, KV!EmptyTable, NoRead, EmptyTable

LEMMA IsBegin ==
    ASSUME NEW r \in Readers, NEW K \in Ranges \cup {{k} : k \in Keys},
           CurrentView' = CurrentView, DurableView' = DurableView,
           ReadsInProgress[r] = NoRead,
           ReadsInProgress' = [ReadsInProgress EXCEPT
                                 ![r] = [keys |-> K, answer |-> Only(CurrentView, K)]]
    PROVE  Unwritten
<1>1. KV!Begin(r, K)
  BY DEF KV!Begin, KV!NoRead, KV!EmptyTable, KV!Only, NoRead, EmptyTable, Only
<1>2. QED
  BY <1>1 DEF Unwritten

LEMMA IsEnd ==
    ASSUME NEW r \in Readers, CurrentView' = CurrentView, DurableView' = DurableView,
           ReadsInProgress' = [ReadsInProgress EXCEPT ![r] = NoRead]
    PROVE  Unwritten
<1>1. CASE ReadsInProgress[r] # NoRead
  <2>1. KV!End(r)
    BY <1>1 DEF KV!End, KV!NoRead, KV!EmptyTable, NoRead, EmptyTable
  <2>2. QED
    BY <2>1 DEF Unwritten
<1>2. CASE ReadsInProgress[r] = NoRead
  <2>1. ReadsInProgress' = ReadsInProgress
    BY <1>2, Zenon DEF ReadsInProgress
  <2>2. QED
    BY <2>1, IsStutter DEF Unwritten
<1>3. QED
  BY <1>1, <1>2

-------------------------------------------------------------------------------
(* Every step of the engine is one of them, or changes nothing a client    *)
(* can see; only a failed flush is neither.                                *)

\* A write, acknowledged or refused, is one of KVStore.
AWrite ==
    \E b \in Batches :
        \/ Write(b) /\ KV!Write(b)
        \/ LogFails(b) /\ KV!WriteRefused(b)

\* A write is seen, and logged, as a whole.
LEMMA WriteRefines ==
    ASSUME IInv, IInv', Data, Next, NEW b \in Batches, Write(b) \/ LogFails(b)
    PROVE  (Write(b) /\ KV!Write(b)) \/ (LogFails(b) /\ KV!WriteRefused(b))
<1> DEFINE L == Latest(log)
           M == Contents(table, mruns)
           N == Contents(table, runs)
<1>1. /\ b \in Table /\ L \in Table /\ M \in Table /\ N \in Table /\ mem \in Table
      /\ log \in Seq(Table)
  BY ViewTypes, EngineAssumption
<1>2. /\ phase = "up" /\ Recovered /\ Recovered' /\ held = EmptyTable
      /\ table' = table /\ mruns' = mruns /\ runs' = runs /\ mem' = mem /\ rd' = rd
  BY DEF Write, LogFails, disk, process, writer, compactor, Recovered, Data, Buffers
<1>3. /\ CurrentView = Live(Overlay(EmptyTable, Overlay(mem, N)))
      /\ DurableView = Live(Overlay(L, M))
  BY <1>2, ViewsNow
<1>4. CurrentView = Live(Overlay(mem, N)) /\ Overlay(mem, N) \in Table /\ Overlay(L, M) \in Table
  BY <1>1, <1>3, OverlayType, OverlayEmptyLeft
<1>5. log' = Append(log, b) => DurableView' = Live(Overlay(b, DurableView))
  <2> SUFFICES ASSUME log' = Append(log, b)
               PROVE  DurableView' = Live(Overlay(b, DurableView))
    OBVIOUS
  <2>1. DurableView' = Live(Overlay(Overlay(b, L), M))
    BY <1>1, <1>2, ViewsNext, LatestAppend
  <2> HIDE DEF L, M, N
  <2>2. Overlay(Overlay(b, L), M) = Overlay(b, Overlay(L, M))
    BY <1>1, OverlayAssoc
  <2>3. Live(Overlay(b, Live(Overlay(L, M)))) = Live(Overlay(b, Overlay(L, M)))
    BY <1>1, <1>4, LiveOverlay
  <2>4. QED
    BY <1>3, <2>1, <2>2, <2>3
<1>6. ReadsInProgress' = ReadsInProgress
  BY <1>2, ReadsKept
<1>7. CASE Write(b)
  <2>1. held' = b /\ log' = (IF Durable THEN Append(log, b) ELSE log)
    BY <1>7 DEF Write
  <2>2. CurrentView' = Live(Overlay(b, Overlay(mem, N)))
    BY <1>2, <2>1, ViewsNext
  <2>3. CurrentView' = Live(Overlay(b, CurrentView))
    BY <1>1, <1>4, <2>2, LiveOverlay
  <2>4. ~Durable => DurableView' = DurableView
    BY <1>2, <2>1, DurableKept
  <2>5. DurableView' = IF Durable THEN Live(Overlay(b, DurableView)) ELSE DurableView
    BY <1>5, <2>1, <2>4
  <2>6. QED
    BY <1>6, <1>7, <2>3, <2>5 DEF KV!Write, KV!Live, KV!Overlay, Live, Overlay
<1>8. CASE LogFails(b)
  <2>1. Durable /\ log' = Append(log, b) /\ held' = held
    BY <1>8 DEF LogFails, writer
  <2>2. CurrentView' = CurrentView
    BY <1>2, <2>1, ViewsNow, ViewsNext
  <2>3. QED
    BY <1>5, <1>6, <1>8, <2>1, <2>2 DEF KV!WriteRefused, KV!Live, KV!Overlay, Live, Overlay
<1>9. QED
  BY <1>7, <1>8

\* The rename of the manifest: a flushed run takes the place of the memtable's
\* entries.  With the log they were durable already, without it they become so.
LEMMA CommitRefines ==
    ASSUME IInv, IInv', Data, Next, FlushCommit
    PROVE  Unwritten
<1> DEFINE L == Latest(log)
           N == Contents(table, runs)
<1>1. /\ held \in Table /\ L \in Table /\ N \in Table /\ runs \in Seq(Seqs) /\ wseq \in Seqs
      /\ table \in [Seqs -> Table]
  BY ViewTypes DEF IInv, TypeOK
<1>2. /\ wpc = "commit" /\ runs' = <<wseq>> \o runs /\ mruns' = runs' /\ held' = EmptyTable
      /\ table' = table /\ log' = log /\ mem' = mem /\ rd' = rd /\ phase' = phase
  BY DEF FlushCommit, NewRuns, compactor
<1>3. table[wseq] = held /\ mem = EmptyTable
  BY <1>2 DEF Data, Buffers
<1>4. phase \notin {"down", "reclaim"} /\ mruns = runs /\ Recovered /\ Recovered'
  <2>1. phase \in Phases /\ Control
    BY DEF IInv, TypeOK
  <2>2. QED
    BY <1>2, <2>1 DEF Control, Recovered, Phases
<1>5. Contents(table', runs') = Overlay(held, N)
  BY <1>1, <1>2, <1>3, ContentsPrepend
<1>6. Overlay(held, N) \in Table
  BY <1>1, OverlayType
<1>7. CurrentView = Live(Overlay(held, N))
  BY <1>1, <1>3, <1>4, ViewsNow, OverlayEmptyLeft
<1>8. CurrentView' = CurrentView
  BY <1>2, <1>3, <1>4, <1>5, <1>6, <1>7, ViewsNext, OverlayEmptyLeft
<1>9. DurableView' = Live(Overlay(L, Overlay(held, N))) /\ DurableView = Live(Overlay(L, N))
  BY <1>2, <1>4, <1>5, ViewsNow, ViewsNext
<1>10. ReadsInProgress' = ReadsInProgress
  BY <1>2, ReadsKept
<1>11. CASE Durable
  <2>1. \A k \in Keys : held[k] # None => L[k] # None
    BY <1>11 DEF Data, Logged
  <2>2. Overlay(L, Overlay(held, N)) = Overlay(L, N)
    BY <1>1, <2>1, OverlayMasked
  <2>3. QED
    BY <1>8, <1>9, <1>10, <2>2, IsStutter DEF Unwritten
<1>12. CASE ~Durable
  <2>1. L = EmptyTable
    BY <1>12, LatestNone DEF Data, Logged
  <2>2. DurableView' = CurrentView
    BY <1>6, <1>7, <1>9, <2>1, OverlayEmptyLeft
  <2>3. QED
    BY <1>8, <1>10, <2>2, IsPersist
<1>13. QED
  BY <1>11, <1>12 DEF Data

\* The removal of the log: by now everything readable is in the runs.
LEMMA RotateRefines ==
    ASSUME IInv, IInv', Data, Next, FlushRotate
    PROVE  Unwritten
<1> DEFINE N == Contents(table, runs)
<1>1. N \in Table
  BY ViewTypes
<1>2. /\ wpc = "rotate" /\ log' = <<>> /\ held' = held /\ mem' = mem /\ rd' = rd
      /\ table' = table /\ mruns' = mruns /\ runs' = runs /\ phase' = phase
  BY DEF FlushRotate, compactor
<1>3. held = EmptyTable /\ mem = EmptyTable
  BY <1>2 DEF Data, Buffers
<1>4. mruns = runs /\ Recovered /\ Recovered'
  <2>1. phase \in Phases /\ Control
    BY DEF IInv, TypeOK
  <2>2. QED
    BY <1>2, <2>1 DEF Control, Recovered, Phases
<1>5. CurrentView = Live(N) /\ CurrentView' = CurrentView
  BY <1>1, <1>2, <1>3, <1>4, ViewsNow, ViewsNext, OverlayEmptyLeft
<1>6. DurableView' = Live(N)
  BY <1>1, <1>2, <1>4, ViewsNext, LatestNone, OverlayEmptyLeft
<1>7. ReadsInProgress' = ReadsInProgress
  BY <1>2, ReadsKept
<1>8. QED
  BY <1>5, <1>6, <1>7, IsPersist

\* The other steps of a write and of a flush only move records from one place to
\* the next.
LEMMA WritingRefines ==
    ASSUME IInv, IInv', Data, Next, Writing
    PROVE  Unwritten \/ FlushFail \/ AWrite
<1> USE DEF disk, process, writer, compactor
<1>0. /\ held \in Table /\ mem \in Table /\ Contents(table, runs) \in Table
      /\ phase \in Phases /\ Control
  BY ViewTypes, Zenon DEF IInv, TypeOK
<1>1. ASSUME rd' = rd, mruns' = mruns, log' = log, runs' = runs, mem' = mem, held' = held,
             Recovered' <=> Recovered
      PROVE  Unwritten
  BY <1>1, CurrentKept, DurableKept, ReadsKept, IsStutter DEF Unwritten
<1>2. CASE Apply
  <2> DEFINE N == Contents(table, runs)
  <2>1. /\ wpc = "apply" /\ mem' = Overlay(held, mem) /\ held' = EmptyTable
        /\ rd' = rd /\ mruns' = mruns /\ log' = log /\ runs' = runs /\ phase' = phase
        /\ table' = table
    BY <1>2 DEF Apply
  <2>2. Recovered /\ Recovered'
    BY <1>0, <2>1 DEF Recovered, Control, Phases
  <2>3. Overlay(Overlay(held, mem), N) \in Table
    BY <1>0, OverlayType
  <2>4. CurrentView' = Live(Overlay(EmptyTable, Overlay(Overlay(held, mem), N)))
    BY <2>1, <2>2, ViewsNext
  <2>5. CurrentView = Live(Overlay(Overlay(held, mem), N))
    BY <1>0, <2>2, ViewsNow, OverlayAssoc
  <2>6. CurrentView' = CurrentView
    BY <2>3, <2>4, <2>5, OverlayEmptyLeft
  <2>7. QED
    BY <2>1, <2>6, DurableKept, ReadsKept, IsStutter DEF Unwritten
<1>3. CASE FlushTake
  <2> DEFINE N == Contents(table, runs)
  <2>1. /\ wpc = "take" /\ mem' = EmptyTable /\ held' = mem
        /\ rd' = rd /\ mruns' = mruns /\ log' = log /\ runs' = runs /\ phase' = phase
        /\ table' = table
    BY <1>3 DEF FlushTake
  <2>2. Recovered /\ Recovered' /\ held = EmptyTable
    BY <1>0, <2>1 DEF Recovered, Control, Phases, Data, Buffers
  <2>3. CurrentView' = Live(Overlay(mem, Overlay(EmptyTable, N)))
    BY <2>1, <2>2, ViewsNext
  <2>4. CurrentView = Live(Overlay(EmptyTable, Overlay(mem, N)))
    BY <2>2, ViewsNow
  <2>5. CurrentView' = CurrentView
    BY <1>0, <2>3, <2>4, OverlayEmptyLeft, OverlayType
  <2>6. QED
    BY <2>1, <2>5, DurableKept, ReadsKept, IsStutter DEF Unwritten
<1>4. CASE Flush \/ FlushCreate \/ FlushInstall \/ RotateFail
  <2>1. /\ rd' = rd /\ mruns' = mruns /\ log' = log /\ runs' = runs
        /\ mem' = mem /\ held' = held /\ phase' = phase
    BY <1>4 DEF Flush, FlushCreate, FlushInstall, RotateFail
  <2>2. QED
    BY <1>1, <2>1 DEF Recovered
<1>5. CASE FlushReopen
  <2>1. /\ rd' = rd /\ mruns' = mruns /\ log' = log /\ runs' = runs
        /\ mem' = mem /\ held' = held /\ phase' = "up" /\ wpc = "reopen"
    BY <1>5 DEF FlushReopen
  <2>2. Recovered /\ Recovered'
    BY <1>0, <2>1 DEF Recovered, Control, Phases
  <2>3. QED
    BY <1>1, <2>1, <2>2
<1>6. QED
  BY <1>2, <1>3, <1>4, <1>5, WriteRefines, CommitRefines, RotateRefines DEF Writing, AWrite

\* What a reader that is not reading is bound to answer.
LEMMA IdleAnswer ==
    ASSUME NEW t
    PROVE  IdleReader.keys = {} /\ AnswerOf(IdleReader, t) = EmptyTable
BY EmptyType, OnlyNone, LiveEmpty DEF AnswerOf, IdleReader

\* One turn of the search: the run at hand answers, or the rest does.
LEMMA SearchStep ==
    ASSUME NEW t \in [Seqs -> Table], NEW x \in Reader, NEW k \in Keys, NEW y \in Reader,
           x.pc = "get", x.keys = {k}, x.pos \in 1 .. Len(x.snap),
           y.keys = x.keys, y.snap = x.snap, y.pos = x.pos + 1,
           y.got = Only(t[x.snap[x.pos]], x.keys),
           y.pc = IF y.got # EmptyTable \/ x.pos = Len(x.snap) THEN "done" ELSE "get"
    PROVE  AnswerOf(y, t) = AnswerOf(x, t)
<1> DEFINE s == x.snap
           a == t[s[x.pos]]
           rest == Contents(t, SubSeq(s, x.pos + 1, Len(s)))
<1>1. s \in Seq(Seqs) /\ a \in Table
  BY DEF Reader
<1>2. SubSeq(s, x.pos + 1, Len(s)) \in Seq(Seqs)
      /\ Contents(t, SubSeq(s, x.pos, Len(s))) = Overlay(a, rest)
  BY <1>1, ContentsRest
<1>3. rest \in Table
  BY <1>2, ContentsType, Zenon
<1>4. AnswerOf(x, t) = Live(Only(Overlay(a, rest), {k}))
  BY <1>2 DEF AnswerOf
<1>5. CASE y.got # EmptyTable
  <2>1. a[k] # None
    BY <1>5 DEF Only, EmptyTable
  <2>2. AnswerOf(y, t) = Live(Only(Only(a, {k}), {k}))
    BY <1>5 DEF AnswerOf
  <2>3. Only(Only(a, {k}), {k}) = Only(Overlay(a, rest), {k})
    BY <2>1, Zenon DEF Only, Overlay
  <2>4. QED
    BY <1>4, <2>2, <2>3
<1>6. CASE y.got = EmptyTable
  <2>1. a[k] = None
    BY <1>6 DEF Only, EmptyTable
  <2>2. Only(Overlay(a, rest), {k}) = Only(rest, {k})
    BY <2>1, Zenon DEF Only, Overlay
  <2>3. CASE x.pos # Len(s)
    BY <1>4, <1>6, <2>2, <2>3, Zenon DEF AnswerOf
  <2>4. CASE x.pos = Len(s)
    <3>1. rest = EmptyTable
      BY <1>1, <2>4, RestBounds, ContentsNone, Zenon
    <3>2. AnswerOf(y, t) = Live(Only(EmptyTable, {k}))
      BY <1>6, <2>4 DEF AnswerOf
    <3>3. QED
      BY <1>4, <2>2, <3>1, <3>2
  <2>5. QED
    BY <2>3, <2>4, Zenon
<1>7. QED
  BY <1>5, <1>6

\* A get or a scan is bound to the answer it would give at once, from the moment
\* it has its snapshot, and gives it.
LEMMA ReadingRefines ==
    ASSUME IInv, IInv', Data, Next, Reading
    PROVE  Unwritten
<1>p. PICK r \in Readers :
        \/ \E k \in Keys : GetBegin(r, k)
        \/ GetStep(r)
        \/ \E K \in Ranges : ScanBegin(r, K)
        \/ ScanMerge(r)
        \/ ReadEnd(r)
  BY Zenon DEF Reading
<1> DEFINE N == Contents(table, runs)
           V == Live(Overlay(mem, N))
<1> USE DEF disk, process, writer, compactor
<1>1. /\ rd \in [Readers -> Reader] /\ rd[r] \in Reader /\ table \in [Seqs -> Table]
      /\ mem \in Table /\ N \in Table /\ Overlay(mem, N) \in Table /\ runs \in Seq(Seqs)
  BY ViewTypes, OverlayType
<1>2. /\ rd' \in [Readers -> Reader] /\ \A q \in Readers : q # r => rd'[q] = rd[q]
      /\ runs' = runs /\ mruns' = mruns /\ log' = log /\ mem' = mem /\ held' = held
      /\ phase' = phase
  <2>1. rd' \in [Readers -> Reader]
    BY DEF IInv, TypeOK
  <2>2. QED
    BY <1>p, <1>1, <2>1, Zenon DEF GetBegin, GetStep, ScanBegin, ScanMerge, ReadEnd
<1>3. CurrentView' = CurrentView /\ DurableView' = DurableView
  BY <1>2, CurrentKept, DurableKept DEF Recovered
<1>4. \A q \in Readers : q # r => ReadsInProgress'[q] = ReadsInProgress[q]
  BY <1>2, AnswerKept DEF ReadsInProgress
<1>5. /\ DOMAIN ReadsInProgress = Readers /\ DOMAIN ReadsInProgress' = Readers
      /\ ReadsInProgress[r] = [keys |-> rd[r].keys, answer |-> AnswerOf(rd[r], table)]
      /\ ReadsInProgress'[r] = [keys |-> rd'[r].keys, answer |-> AnswerOf(rd'[r], table')]
  BY AnswerNow, Zenon DEF ReadsInProgress
<1>6. ReadsInProgress' = [ReadsInProgress EXCEPT ![r] = ReadsInProgress'[r]]
  BY <1>4, <1>5, Zenon DEF ReadsInProgress
<1>7. ASSUME rd[r].pc = "idle", phase = "up", wpc = "idle"
      PROVE  ReadsInProgress[r] = NoRead /\ CurrentView = V
  <2>1. rd[r] = IdleReader /\ held = EmptyTable /\ Recovered
    BY <1>7, Zenon DEF Data, Reads, Buffers, Recovered
  <2>2. ReadsInProgress[r] = NoRead
    BY <1>5, <2>1, IdleAnswer, Zenon DEF NoRead
  <2>3. CurrentView = V
    BY <1>1, <2>1, ViewsNow, OverlayEmptyLeft
  <2>4. QED
    BY <2>2, <2>3
<1>8. ASSUME rd'[r].keys = rd[r].keys, AnswerOf(rd'[r], table') = AnswerOf(rd[r], table)
      PROVE  Unwritten
  <2>1. ReadsInProgress'[r] = ReadsInProgress[r]
    BY <1>5, <1>8, Zenon
  <2>2. ReadsInProgress' = ReadsInProgress
    BY <1>6, <2>1, Zenon DEF ReadsInProgress
  <2>3. QED
    BY <1>3, <2>2, IsStutter, Zenon DEF Unwritten
<1>9. ASSUME NEW k \in Keys, GetBegin(r, k) PROVE Unwritten
  <2>1. rd[r].pc = "idle" /\ phase = "up" /\ wpc = "idle" /\ table' = table /\ rd'[r].keys = {k}
    BY <1>1, <1>9, Zenon DEF GetBegin
  <2>2. AnswerOf(rd'[r], table) = Only(V, {k})
    <3>1. CASE mem[k] # None
      <4>1. rd'[r].pc = "done" /\ rd'[r].got = Only(mem, {k})
        BY <1>1, <1>9, <3>1, Zenon DEF GetBegin
      <4>2. AnswerOf(rd'[r], table) = Live(Only(Only(mem, {k}), {k}))
        BY <2>1, <4>1, Zenon DEF AnswerOf
      <4>3. Only(Only(mem, {k}), {k}) = Only(Overlay(mem, N), {k})
        BY <3>1 DEF Only, Overlay
      <4>4. QED
        BY <1>1, <4>2, <4>3, LiveOnly
    <3>2. CASE mem[k] = None
      <4>1. /\ rd'[r].got = EmptyTable /\ rd'[r].snap = runs /\ rd'[r].pos = 1
            /\ rd'[r].pc = IF runs = <<>> THEN "done" ELSE "get"
        BY <1>1, <1>9, <3>2 DEF GetBegin
      <4>2. Only(Overlay(mem, N), {k}) = Only(N, {k})
        BY <3>2, Zenon DEF Only, Overlay
      <4>3. AnswerOf(rd'[r], table) = Live(Only(N, {k}))
        <5>1. CASE runs = <<>>
          BY <2>1, <4>1, <5>1, ContentsNone DEF AnswerOf
        <5>2. CASE runs # <<>>
          BY <1>1, <2>1, <4>1, <5>2, RestBounds, Zenon DEF AnswerOf
        <5>3. QED
          BY <5>1, <5>2
      <4>4. QED
        BY <1>1, <4>2, <4>3, LiveOnly, Zenon
    <3>3. QED
      BY <3>1, <3>2
  <2>3. ReadsInProgress'[r] = [keys |-> {k}, answer |-> Only(CurrentView, {k})]
    BY <1>5, <1>7, <2>1, <2>2, Zenon
  <2>4. {k} \in Ranges \cup {{kk} : kk \in Keys}
    OBVIOUS
  <2> HIDE DEF N, V
  <2>5. QED
    BY <1>3, <1>6, <1>7, <2>1, <2>3, <2>4, IsBegin, Zenon
<1>10. CASE GetStep(r)
  <2>1. /\ rd[r].pc = "get" /\ table' = table /\ rd'[r] \in Reader
        /\ rd'[r].keys = rd[r].keys /\ rd'[r].snap = rd[r].snap /\ rd'[r].pos = rd[r].pos + 1
        /\ rd'[r].got = Only(table[rd[r].snap[rd[r].pos]], rd[r].keys)
        /\ rd'[r].pc = IF rd'[r].got # EmptyTable \/ rd[r].pos = Len(rd[r].snap)
                       THEN "done" ELSE "get"
    BY <1>1, <1>2, <1>10, Zenon DEF GetStep, Reader
  <2>2. rd[r].pos \in 1 .. Len(rd[r].snap) /\ \E k \in Keys : rd[r].keys = {k}
    BY <2>1, Zenon DEF IInv, Control, Data, Reads
  <2>3. AnswerOf(rd'[r], table) = AnswerOf(rd[r], table)
    BY <1>1, <2>1, <2>2, SearchStep, Zenon
  <2>4. QED
    BY <1>8, <2>1, <2>3, Zenon
<1>11. ASSUME NEW K \in Ranges, ScanBegin(r, K) PROVE Unwritten
  <2>1. /\ rd[r].pc = "idle" /\ phase = "up" /\ wpc = "idle" /\ table' = table
        /\ rd'[r].keys = K /\ rd'[r].pc = "scan" /\ rd'[r].snap = runs
        /\ rd'[r].got = Only(mem, K)
    BY <1>1, <1>11, Zenon DEF ScanBegin
  <2>2. AnswerOf(rd'[r], table) = Live(Only(Overlay(Only(mem, K), N), K))
    BY <2>1 DEF AnswerOf
  <2>3. AnswerOf(rd'[r], table) = Only(V, K)
    BY <1>1, <2>2, OnlyOverlay, LiveOnly
  <2>4. ReadsInProgress'[r] = [keys |-> K, answer |-> Only(CurrentView, K)]
    BY <1>5, <1>7, <2>1, <2>3, Zenon
  <2> HIDE DEF N, V
  <2>5. QED
    BY <1>3, <1>6, <1>7, <2>1, <2>4, IsBegin, Zenon
<1>12. CASE ScanMerge(r)
  <2> DEFINE found == Overlay(rd[r].got, Contents(table, rd[r].snap))
  <2>1. /\ rd[r].pc = "scan" /\ table' = table /\ rd'[r].keys = rd[r].keys
        /\ rd'[r].pc = "done" /\ rd'[r].got = Only(found, rd[r].keys)
    BY <1>1, <1>12, Zenon DEF ScanMerge, Reader, Contents, Tables
  <2>2. found \in Table
    BY <1>1, OverlayType, ContentsType, Zenon DEF Reader
  <2>3. AnswerOf(rd'[r], table) = Live(Only(Only(found, rd[r].keys), rd[r].keys))
    BY <2>1 DEF AnswerOf
  <2>4. AnswerOf(rd[r], table) = Live(Only(found, rd[r].keys))
    BY <2>1 DEF AnswerOf
  <2> HIDE DEF found
  <2>5. AnswerOf(rd'[r], table) = AnswerOf(rd[r], table)
    BY <2>2, <2>3, <2>4, OnlyOnly
  <2>6. QED
    BY <1>8, <2>1, <2>5, Zenon
<1>13. CASE ReadEnd(r)
  <2>1. rd'[r] = IdleReader
    BY <1>1, <1>13 DEF ReadEnd
  <2>2. ReadsInProgress'[r] = NoRead
    BY <1>5, <2>1, IdleAnswer, Zenon DEF NoRead
  <2>3. QED
    BY <1>3, <1>6, <2>2, IsEnd, Zenon
<1>14. QED
  BY <1>p, <1>9, <1>10, <1>11, <1>12, <1>13

\* Nothing a client can see depends on the compaction.
LEMMA CompactingRefines ==
    ASSUME IInv, IInv', Data, Next, Compacting
    PROVE  Unwritten
<1> USE DEF disk, process, writer, compactor
<1>1. rd' = rd /\ mem' = mem /\ held' = held /\ log' = log /\ phase' = phase
  BY Zenon DEF Compacting, CompactWake, CompactSnapshot, CompactAlloc, CompactCreate,
     CompactInstall, CompactSwap, CompactDrop, CompactFail
<1>2. CASE runs' = runs /\ mruns' = mruns
  BY <1>1, <1>2, CurrentKept, DurableKept, ReadsKept, IsStutter DEF Unwritten, Recovered
<1>3. CASE CompactSwap
  <2> DEFINE v == Survivors(runs, cin)
             F == Contents(table, v)
             C == Contents(table, cin)
             L == Latest(log)
  <2>1. /\ cpc = "swap" /\ runs' = Append(v, cseq) /\ mruns' = runs' /\ table' = table
    BY <1>3, Zenon DEF CompactSwap
  <2>2. /\ runs \in Seq(Seqs) /\ cin \in Seq(Seqs) /\ cseq \in Seqs /\ C \in Table
        /\ table \in [Seqs -> Table] /\ L \in Table /\ mem \in Table /\ held \in Table
    BY ViewTypes DEF IInv, TypeOK
  <2>3. mruns = runs /\ Recovered /\ Recovered'
    <3>1. phase \in Phases /\ Control
      BY DEF IInv, TypeOK
    <3>2. QED
      BY <1>1, <2>1, <3>1 DEF Control, Recovered, Phases
  <2>4. IsInjective(runs) /\ Suffix(cin, runs)
    BY <2>1, <2>3, Zenon DEF IInv, InputsAreOldest, Suffix
  <2>5. /\ v \in Seq(Seqs) /\ Len(v) = Len(runs) - Len(cin)
        /\ \A i \in 1 .. Len(runs) - Len(cin) : v[i] = runs[i]
    BY <2>2, <2>4, SurvivorsArePrefix, Zenon
  <2> HIDE DEF v
  <2>6. F \in Table /\ Live(C) \in Table
    BY <2>2, <2>5, ContentsType, LiveType
  <2>7. Contents(table, runs) = Overlay(F, C)
    <3>1. /\ Len(runs) \in Nat /\ Len(cin) \in Nat
          /\ \A i \in 1 .. Len(cin) : runs[Len(runs) - Len(cin) + i] = cin[i]
      BY <2>2, <2>4 DEF Suffix
    <3>2. Len(runs) = Len(v) + Len(cin)
      BY <2>5, <3>1
    <3>3. \A i \in 1 .. Len(v) : runs[i] = v[i]
      BY <2>5
    <3>4. \A i \in 1 .. Len(cin) : runs[Len(v) + i] = cin[i]
      BY <2>5, <3>1
    <3>5. Joins(runs, v, cin)
      BY <3>2, <3>3, <3>4 DEF Joins
    <3>6. QED
      BY <2>2, <2>5, <3>5, ContentsSplit, SMTT(30)
  <2>8. Contents(table', runs') = Overlay(F, Live(C))
    <3>1. table[cseq] = Live(C)
      BY <2>1 DEF Data, Merged
    <3>2. QED
      BY <2>1, <2>2, <2>5, <3>1, ContentsAppend
  <2> HIDE DEF F, C, L
  <2>9. ASSUME NEW a \in Table
        PROVE  Live(Overlay(a, Overlay(F, Live(C)))) = Live(Overlay(a, Overlay(F, C)))
    <3>1. Overlay(a, F) \in Table
      BY <2>6, OverlayType
    <3>2. /\ Overlay(a, Overlay(F, Live(C))) = Overlay(Overlay(a, F), Live(C))
          /\ Overlay(a, Overlay(F, C)) = Overlay(Overlay(a, F), C)
      BY <2>2, <2>6, OverlayAssoc
    <3>3. QED
      BY <2>2, <3>1, <3>2, LiveOverlay
  <2>10. DurableView' = DurableView
    BY <1>1, <2>1, <2>2, <2>3, <2>7, <2>8, <2>9, ViewsNow, ViewsNext, Zenon DEF L
  <2>11. CurrentView' = CurrentView
    <3> DEFINE a == Overlay(held, mem)
    <3>1. a \in Table /\ Overlay(F, C) \in Table /\ Overlay(F, Live(C)) \in Table
      BY <2>2, <2>6, OverlayType
    <3>2. CurrentView = Live(Overlay(a, Overlay(F, C)))
      BY <2>2, <2>3, <2>7, <3>1, ViewsNow, OverlayAssoc
    <3>3. CurrentView' = Live(Overlay(a, Overlay(F, Live(C))))
      BY <1>1, <2>2, <2>3, <2>8, <3>1, ViewsNext, OverlayAssoc, SMTT(30)
    <3>4. QED
      BY <2>9, <3>1, <3>2, <3>3
  <2>12. QED
    BY <1>1, <2>10, <2>11, ReadsKept, IsStutter DEF Unwritten
<1>4. CompactSwap \/ (runs' = runs /\ mruns' = mruns)
  BY Zenon DEF Compacting, CompactWake, CompactSnapshot, CompactAlloc, CompactCreate,
     CompactInstall, CompactDrop, CompactFail
<1>5. QED
  BY <1>2, <1>3, <1>4

\* Recovery restores what was durable; the end of the process forgets the rest.
LEMMA LifecycleRefines ==
    ASSUME IInv, IInv', Data, Next, Lifecycle
    PROVE  Unwritten
<1> USE DEF disk, process, writer, compactor
<1>1. CASE OpenLoad \/ Close \/ \E s \in Seqs : OpenReclaimTmp(s) \/ OpenReclaimRun(s)
  <2>1. rd' = rd /\ mruns' = mruns /\ log' = log /\ mem' = mem /\ held' = held
    BY <1>1, Zenon DEF OpenLoad, OpenReclaimTmp, OpenReclaimRun, Close
  <2>2. DurableView' = DurableView
    BY <2>1, DurableKept, Zenon
  <2>3. Recovered' <=> Recovered
    BY <1>1 DEF OpenLoad, OpenReclaimTmp, OpenReclaimRun, Close, Recovered
  <2>4. Recovered => runs' = runs
    BY <1>1 DEF OpenLoad, OpenReclaimTmp, OpenReclaimRun, Close, Recovered
  <2>5. CurrentView' = CurrentView
    <3>1. CASE Recovered
      BY <2>1, <2>3, <2>4, <3>1, CurrentKept
    <3>2. CASE ~Recovered
      BY <2>2, <2>3, <3>2, ViewsNow, ViewsNext
    <3>3. QED
      BY <3>1, <3>2
  <2>6. QED
    BY <2>1, <2>2, <2>5, ReadsKept, IsStutter DEF Unwritten
<1>2. CASE OpenReplay
  <2> DEFINE N == Contents(table, runs)
             L == Latest(log)
  <2>1. /\ phase = "reclaim" /\ phase' \in {"up", "checkpoint"} /\ mem' = L /\ held' = held
        /\ rd' = rd /\ mruns' = mruns /\ runs' = runs /\ log' = log /\ table' = table
    BY <1>2, Zenon DEF OpenReplay
  <2>2. wpc = "idle" /\ mruns = runs
    BY <2>1 DEF IInv, Control
  <2>3. held = EmptyTable
    BY <2>2 DEF Data, Buffers
  <2>4. ~Recovered /\ Recovered'
    BY <2>1 DEF Recovered
  <2>5. L \in Table /\ N \in Table /\ Overlay(L, N) \in Table
    BY ViewTypes, OverlayType
  <2>6. DurableView' = DurableView
    BY <2>1, DurableKept
  <2>7. CurrentView = Live(Overlay(L, N))
    BY <2>2, <2>4, ViewsNow
  <2>8. CurrentView' = Live(Overlay(EmptyTable, Overlay(L, N)))
    BY <2>1, <2>3, <2>4, ViewsNext
  <2>9. CurrentView' = CurrentView
    BY <2>5, <2>7, <2>8, OverlayEmptyLeft
  <2>10. QED
    BY <2>1, <2>6, <2>9, ReadsKept, IsStutter DEF Unwritten
<1>3. CASE Closed \/ Crash
  <2>1. ProcessGone /\ UNCHANGED disk
    BY <1>3, ClosedKeeps DEF Crash
  <2>2. ~Recovered' /\ mruns' = mruns /\ log' = log
    BY <2>1 DEF ProcessGone, Recovered
  <2>3. DurableView' = DurableView /\ CurrentView' = DurableView
    BY <2>2, DurableKept, ViewsNext
  <2>4. \A r \in Readers : rd'[r] = IdleReader
    BY <2>1, Zenon DEF ProcessGone
  <2>5. ReadsInProgress' = [r \in Readers |-> NoRead]
    BY <2>4, AnswerNow, IdleAnswer, Zenon DEF ReadsInProgress, NoRead
  <2>6. QED
    BY <2>3, <2>5, IsRestart
<1>4. QED
  BY <1>1, <1>2, <1>3 DEF Lifecycle

LEMMA InitRefines == Init => KV!Init
<1> SUFFICES ASSUME Init PROVE KV!Init
  OBVIOUS
<1>1. log = <<>> /\ mruns = <<>> /\ phase = "down" /\ \A r \in Readers : rd[r] = IdleReader
  BY DEF Init
<1>2. DurableView = EmptyTable
  BY <1>1, ViewsNow, LatestNone, ContentsNone, EmptyType, OverlayEmptyLeft, LiveEmpty
<1>3. CurrentView = EmptyTable
  BY <1>1, <1>2, ViewsNow, Zenon DEF Recovered
<1>4. ReadsInProgress = [r \in Readers |-> NoRead]
  BY <1>1, AnswerNow, IdleAnswer, Zenon DEF ReadsInProgress, NoRead
<1>5. QED
  BY <1>2, <1>3, <1>4 DEF KV!Init, KV!NoRead, KV!EmptyTable, NoRead, EmptyTable

LEMMA StepRefines ==
    ASSUME IInv, IInv', Data, [Next]_vars
    PROVE  Unwritten \/ FlushFail \/ AWrite
<1>1. CASE Next
  BY <1>1, WritingRefines, ReadingRefines, CompactingRefines, LifecycleRefines DEF Next
<1>2. CASE UNCHANGED vars
  <2>1. UNCHANGED <<log, mruns, runs, table, mem, held, phase, rd>>
    BY <1>2 DEF vars, disk, process, writer, compactor
  <2>2. DurableView' = DurableView /\ CurrentView' = CurrentView
    BY <2>1, ViewsNow, ViewsNext DEF Recovered
  <2>3. ReadsInProgress' = ReadsInProgress
    BY <2>1, AnswerNow, Zenon DEF ReadsInProgress
  <2>4. QED
    BY <2>2, <2>3, IsStutter DEF Unwritten
<1>3. QED
  BY <1>1, <1>2

LEMMA StepsOfKVStore ==
    ASSUME Unwritten \/ AWrite
    PROVE  KV!Next \/ UNCHANGED KV!vars
BY DEF Unwritten, AWrite, KV!Next

-------------------------------------------------------------------------------
(* The theorems.                                                           *)

\* Whatever fails and whenever the process dies, a flush that fails after it took
\* the memtable (db.rs:549-597) is the only step of the engine that is not a step
\* of KVStore: writes are atomic, reads return the state of the moment they began,
\* compaction is invisible and recovery restores what was durable.
THEOREM OnlyAFailedFlushLoses == Spec => OnlyFailedFlushesLose
<1>1. IInv /\ IInv' /\ Data /\ [Next]_vars => [KV!Next \/ FlushFail]_(KV!vars)
  BY StepRefines, StepsOfKVStore
<1>2. QED
  BY Invariance, DataInvariance, InitRefines, <1>1, PTL DEF Spec, OnlyFailedFlushesLose

\* As long as no flush fails, the engine implements KVStore, with any number of
\* keys, readers and batches, with and without the log, and with any of the other
\* faults.
THEOREM EngineImplementsKVStore ==
    ASSUME "flush" \notin Faults
    PROVE  Spec => ImplementsKVStore
<1>1. IInv /\ IInv' /\ Data /\ [Next]_vars => [KV!Next]_(KV!vars)
  BY StepRefines, StepsOfKVStore, Zenon DEF FlushFail
<1>2. QED
  BY Invariance, DataInvariance, InitRefines, <1>1, PTL DEF Spec, ImplementsKVStore, KV!Spec

-------------------------------------------------------------------------------
(* On a disk that loses power.                                             *)

\* A directory from which the store can be opened.
Sound(d) ==
    /\ d[1] \subseteq Seqs /\ d[2] \in [Seqs -> Table] /\ d[3] \subseteq Seqs
    /\ d[4] \in 0 .. MaxSeq + 1 /\ d[5] \in Seq(Seqs) /\ d[6] \in Seq(Table)
    /\ IsInjective(d[5]) /\ Range(d[5]) \subseteq d[1] /\ \A s \in Range(d[5]) : s < d[4]
    /\ ~Durable => d[6] = <<>>

LossInv == IInv /\ Data /\ \A d \in stable : Sound(d)

LEMMA DiskSound == IInv /\ Data => Sound(disk)
BY DEF Sound, disk, IInv, TypeOK, Fresh, ManifestComplete, Data, Logged

LEMMA DiskSoundNext == IInv' /\ Data' => Sound(disk')
BY Zenon DEF Sound, disk, IInv, TypeOK, Fresh, ManifestComplete, Data, Logged

\* The process is gone and a sound directory is left.
LEMMA LoseInv ==
    ASSUME LossInv, Lose
    PROVE  LossInv'
<1>1. PICK d \in stable :
          /\ files' = d[1] /\ table' = d[2] /\ tmp' = d[3]
          /\ mseq' = d[4] /\ mruns' = d[5] /\ log' = d[6]
          /\ stable' = {d}
          /\ ProcessGone
  BY DEF Lose
<1>2. Sound(d)
  BY DEF LossInv
<1>3. /\ phase' = "down" /\ wpc' = "idle" /\ cpc' = "off" /\ cin' = <<>> /\ runs' = <<>>
      /\ held' = EmptyTable /\ mem' = EmptyTable
      /\ \A r \in Readers : rd'[r] = IdleReader
  BY <1>1 DEF ProcessGone
<1>4. TypeOK'
  <2>1. 0 \in Seqs /\ 0 \in 0 .. MaxSeq + 1 /\ <<>> \in Seq(Seqs)
    BY EngineAssumption DEF Seqs
  <2>2. rd' \in [Readers -> Reader]
    BY <1>1, ReaderInit DEF ProcessGone
  <2>3. /\ files' \subseteq Seqs /\ table' \in [Seqs -> Table] /\ tmp' \subseteq Seqs
        /\ mseq' \in 0 .. MaxSeq + 1 /\ mruns' \in Seq(Seqs) /\ log' \in Seq(Table)
    BY <1>1, <1>2 DEF Sound
  <2>4. QED
    BY <1>1, <2>1, <2>2, <2>3, EmptyType, Zenon DEF ProcessGone, TypeOK, Phases, WriterSteps,
       CompactorSteps
<1>5. Control'
  <2>1. \A r \in Readers : rd'[r].pc # "get"
    BY <1>3 DEF IdleReader
  <2>2. QED
    BY <1>1, <2>1 DEF ProcessGone, Control
<1>6. Range(<<>>) = {} /\ \A r \in Readers : rd'[r].snap = <<>>
  <2>1. Range(<<>>) = {}
    BY DEF Range
  <2>2. IdleReader.snap = <<>>
    BY DEF IdleReader
  <2>3. QED
    BY <1>3, <2>1, <2>2, Zenon
<1>7. Fresh'
  BY <1>1, <1>2, <1>3, Zenon DEF Fresh, Recovered, Flushing, Compaction, Sound
<1>8. ManifestComplete' /\ ReferencedRunsExist' /\ IsInjective(mruns)' /\ InputsAreOldest'
  <2>1. HeldByReaders({})' = {}
    BY <1>6 DEF HeldByReaders
  <2>2. QED
    BY <1>1, <1>2, <1>3, <1>6, <2>1 DEF ManifestComplete, ReferencedRunsExist, Referenced,
       InputsAreOldest, Sound
<1>9. Data'
  <2>1. Buffers' /\ Merged'
    BY <1>3 DEF Buffers, Merged
  <2>2. Reads'
    <3>1. IdleReader.pc = "idle"
      BY DEF IdleReader
    <3>2. QED
      BY <1>3, <3>1 DEF Reads
  <2>3. Logged'
    BY <1>1, <1>2, <1>3 DEF Logged, Sound, EmptyTable
  <2>4. QED
    BY <2>1, <2>2, <2>3, Zenon DEF Data
<1>10. Dropping'
  <2>1. obsolete' = {}
    BY <1>1 DEF ProcessGone
  <2>2. QED
    BY <1>3, <1>6, <2>1 DEF Dropping
<1>11. QED
  BY <1>1, <1>2, <1>4, <1>5, <1>7, <1>8, <1>9, <1>10 DEF LossInv, IInv

LEMMA LossStep ==
    ASSUME LossInv, [LossNext]_lossVars
    PROVE  LossInv'
<1>1. CASE Next /\ Stable
  <2>1. IInv' /\ Data'
    BY <1>1, InvStep, DataStep DEF LossInv
  <2>2. stable' \subseteq stable \cup {disk, disk'}
    BY <1>1 DEF Stable
  <2>3. QED
    BY <2>1, <2>2, DiskSound, DiskSoundNext DEF LossInv
<1>2. CASE UNCHANGED lossVars
  <2>1. UNCHANGED vars /\ stable' = stable
    BY <1>2 DEF lossVars
  <2>2. IInv' /\ Data'
    BY <2>1, InvStep, DataStep DEF LossInv
  <2>3. QED
    BY <2>1, <2>2 DEF LossInv
<1>3. QED
  BY <1>1, <1>2, LoseInv DEF LossNext

LEMMA LossInvariance == LossSpec => []LossInv
<1>1. LossInit => LossInv
  BY InitInv, DataInit, DiskSound DEF LossInit, LossInv
<1>2. LossInv /\ [LossNext]_lossVars => LossInv'
  BY LossStep
<1>3. QED
  BY <1>1, <1>2, PTL DEF LossSpec

\* Without refused writes and failed flushes nobody can tell what is read from
\* what is durable, and so nothing but an append, which is synced, changes what a
\* power loss leaves.
Agreed == CurrentView = DurableView /\ EveryLossRecovers

LEMMA AgreedStep ==
    ASSUME Durable, {"log", "flush"} \cap Faults = {},
           LossInv, LossInv', Agreed, [LossNext]_lossVars
    PROVE  Agreed'
<1> DEFINE Left(d) == Range(d[5]) \subseteq d[1] /\ RecoveredFrom(d) = DurableView
           LeftNext(d) == Range(d[5]) \subseteq d[1] /\ RecoveredFrom(d) = DurableView'
<1>1. Left(disk) /\ LeftNext(disk')
  <2>1. Range(mruns) \subseteq files /\ Range(mruns') \subseteq files'
    BY DEF LossInv, IInv, ManifestComplete
  <2>2. QED
    BY <2>1, Zenon DEF RecoveredFrom, DurableView, Tables, disk
<1>2. \A d \in stable : Left(d)
  BY Zenon DEF Agreed, EveryLossRecovers
<1>3. ASSUME \A d \in stable' : LeftNext(d), CurrentView' = DurableView'
      PROVE  Agreed'
  BY <1>3, Zenon DEF Agreed, EveryLossRecovers, RecoveredFrom
<1>4. CASE Next /\ Stable
  <2>1. Unwritten \/ AWrite
    BY <1>4, StepRefines, Zenon DEF LossInv, FlushFail
  <2>2. CASE Unwritten
    <3>1. DurableView' = DurableView /\ CurrentView' = DurableView
      BY <2>2 DEF Unwritten, Agreed, KV!vars, KV!Persist, KV!Restart, KV!Begin, KV!End
    <3>2. stable' \subseteq stable \cup {disk, disk'}
      BY <1>4 DEF Stable
    <3>3. \A d \in stable' : LeftNext(d)
      BY <1>1, <1>2, <3>1, <3>2
    <3>4. QED
      BY <1>3, <3>1, <3>3, Zenon
  <2>3. CASE AWrite
    <3>1. PICK b \in Batches : Write(b) /\ KV!Write(b)
      BY <2>3 DEF AWrite, LogFails
    <3>2. CurrentView' = DurableView'
      BY <3>1 DEF KV!Write, Agreed
    <3>3. AppendSynced
      <4>1. log' = Append(log, b) /\ log \in Seq(Table) /\ b \in Table
        BY <3>1, EngineAssumption, Zenon DEF Write, LossInv, IInv, TypeOK
      <4>2. log' # log
        BY <4>1
      <4>3. QED
        BY <3>1, <4>2, Zenon DEF Write, AppendSynced
    <3>4. stable' = {disk'}
      BY <1>4, <3>3, Zenon DEF Stable
    <3>5. QED
      BY <1>1, <1>3, <3>2, <3>4
  <2>4. QED
    BY <2>1, <2>2, <2>3
<1>5. CASE Lose
  <2>1. PICK d \in stable :
            /\ files' = d[1] /\ table' = d[2] /\ mruns' = d[5] /\ log' = d[6]
            /\ stable' = {d} /\ phase' = "down"
    BY <1>5, Zenon DEF Lose, ProcessGone
  <2>2. DurableView' = RecoveredFrom(d)
    BY <2>1 DEF DurableView, Tables, RecoveredFrom
  <2>3. CurrentView' = DurableView'
    BY <2>1, Zenon DEF CurrentView, DurableView
  <2>4. QED
    BY <1>2, <1>3, <2>1, <2>2, <2>3
<1>6. CASE UNCHANGED lossVars
  <2>1. UNCHANGED <<log, mruns, runs, table, mem, held, phase, stable>>
    BY <1>6 DEF lossVars, vars, disk, process, writer, compactor
  <2>2. DurableView' = DurableView /\ CurrentView' = CurrentView
    BY <2>1, ViewsNow, ViewsNext DEF Recovered
  <2>3. QED
    BY <1>2, <1>3, <2>1, <2>2 DEF Agreed
<1>7. QED
  BY <1>4, <1>5, <1>6 DEF LossNext

\* With the log, and as long as no append and no flush fails, every directory a
\* power loss may leave recovers to exactly the acknowledged writes, and its
\* manifest names runs it has: the log is removed after the renames of the run and
\* of the manifest (db.rs:591), so what brings an old manifest back brings the log
\* back too.  Compactions, rotations and removals may fail.
THEOREM PowerLossRecovers ==
    ASSUME Durable, {"log", "flush"} \cap Faults = {}
    PROVE  LossSpec => []EveryLossRecovers
<1>1. LossInit => Agreed
  <2> SUFFICES ASSUME LossInit PROVE Agreed
    OBVIOUS
  <2>1. /\ stable = {disk} /\ Range(mruns) \subseteq files /\ phase = "down"
    BY InitInv DEF LossInit, Init, IInv, ManifestComplete
  <2>2. CurrentView = DurableView
    BY <2>1, ViewsNow DEF Recovered
  <2>3. disk[1] = files /\ disk[5] = mruns
    BY DEF disk
  <2>4. RecoveredFrom(disk) = DurableView
    BY Zenon DEF RecoveredFrom, DurableView, Tables, disk
  <2>5. QED
    BY <2>1, <2>2, <2>3, <2>4 DEF Agreed, EveryLossRecovers
<1>2. LossInv /\ LossInv' /\ Agreed /\ [LossNext]_lossVars => Agreed'
  BY AgreedStep
<1>3. Agreed => EveryLossRecovers
  BY DEF Agreed
<1>4. QED
  BY LossInvariance, <1>1, <1>2, <1>3, PTL DEF LossSpec

\* Type correctness, with power losses.
THEOREM PowerLossTypes == LossSpec => []TypeOK
<1>1. LossInv => TypeOK
  BY DEF LossInv, IInv
<1>2. QED
  BY LossInvariance, <1>1, PTL

\* Whatever fails, with or without the log, no power loss leaves a directory that
\* open_with refuses for a missing run (db.rs:185).
THEOREM PowerLossKeepsManifest == LossSpec => []ManifestComplete
<1>1. LossInv => ManifestComplete
  BY DEF LossInv, IInv
<1>2. QED
  BY LossInvariance, <1>1, PTL

\* What a power loss brings back, a run that was removed or a temporary file, is
\* reclaimed by the next open (db.rs:194-215): nothing is left behind.
THEOREM PowerLossLeaksNothing ==
    ASSUME {"flush", "compact", "unlink"} \cap Faults = {}
    PROVE  LossSpec => []NothingLeaked
<1>1. LossInit => Accounted
  BY LeaksInit DEF LossInit
<1>2. LossInv /\ Accounted /\ [LossNext]_lossVars => Accounted'
  <2> SUFFICES ASSUME LossInv, Accounted, [LossNext]_lossVars
               PROVE  Accounted'
    BY Zenon
  <2>1. CASE Lose
    BY <2>1 DEF Lose, ProcessGone, Accounted, Recovered
  <2>2. CASE [Next]_vars
    BY <2>2, LeaksStep DEF LossInv
  <2>3. QED
    BY <2>1, <2>2 DEF LossNext, lossVars
<1>3. LossInv /\ Accounted => NothingLeaked
  BY LeaksNothing DEF LossInv
<1>4. QED
  BY LossInvariance, <1>1, <1>2, <1>3, PTL DEF LossSpec
===============================================================================
