----------------------------- MODULE EngineProofs -----------------------------
(***************************************************************************)
(* Theorems about Engine for every set of keys, values, batches, readers   *)
(* and faults, every memtable capacity and trigger and every bound: the    *)
(* safety properties that follow from the invariant IInv of EngineTypes,   *)
(* and that nothing is left behind.                                        *)
(***************************************************************************)
EXTENDS EngineTypes

-------------------------------------------------------------------------------
(* The steps of the compactor and of the lifecycle keep the invariant.     *)

\* Steps of the compactor.
LEMMA CompactorStep ==
    ASSUME IInv, Compacting
    PROVE  Rest'
<1> USE EngineAssumption
<1>t. TypeOK
  BY DEF IInv
<1>0. Rest
  BY DEF IInv, Rest
<1> USE DEF disk, process, writer, compactor, Rest, Control, Fresh, ManifestComplete,
        ReferencedRunsExist, InputsAreOldest, Referenced, Recovered, Flushing, Compaction
<1>1. CASE CompactWake
  <2>1. HeldByReaders({})' = HeldByReaders({})
    BY <1>1, SameReaders DEF CompactWake
  <2>2. QED
    BY <1>0, <1>1, <2>1 DEF CompactWake
<1>2. CASE CompactSnapshot
  <2>1. HeldByReaders({})' = HeldByReaders({})
    BY <1>2, SameReaders DEF CompactSnapshot
  <2>2. Range(<<>>) = {} /\ cin' \in {<<>>, runs} /\ UNCHANGED <<disk, process, writer, rd>>
    BY <1>2 DEF CompactSnapshot, Range
  <2>3. Referenced' \subseteq Referenced
    BY <2>1, <2>2
  <2>4. cpc' # "wait" => cin' = runs
    BY <1>2 DEF CompactSnapshot
  <2>5. Control' /\ Fresh' /\ ManifestComplete' /\ ReferencedRunsExist'
    <3>1. cpc = "snapshot" /\ cpc' \in {"wait", "alloc"} /\ cseq' = cseq
      BY <1>2 DEF CompactSnapshot
    <3>2. Control'
      BY <1>0, <2>2, <3>1
    <3>3. Fresh'
      BY <1>0, <2>2, <2>3, <3>1
    <3>4. ManifestComplete' /\ ReferencedRunsExist'
      BY <1>0, <2>2, <2>3
    <3>5. QED
      BY <3>2, <3>3, <3>4
  <2>6. InputsAreOldest'
    <3>1. Len(runs) \in Nat
      BY DEF TypeOK
    <3>2. \A i \in 1 .. Len(runs) : Len(runs) - Len(runs) + i = i
      BY <3>1
    <3>3. QED
      BY <2>2, <2>4, <3>1, <3>2
  <2>7. QED
    BY <1>0, <2>2, <2>5, <2>6
<1>3. CASE CompactAlloc
  <2>1. HeldByReaders({})' = HeldByReaders({})
    BY <1>3, SameReaders DEF CompactAlloc
  <2>2. /\ cpc = "alloc" /\ cpc' = "create" /\ cseq' = nextSeq /\ nextSeq' = nextSeq + 1
        /\ UNCHANGED <<disk, phase, runs, wpc, wseq, cin, rd>>
    BY <1>3 DEF CompactAlloc
  <2>3. Recovered
    BY <1>0, <1>t, <2>2 DEF TypeOK, Phases
  <2>4. nextSeq \in Int /\ mseq \in Int /\ wseq \in Int /\ \A s \in files : s \in Int
    BY <1>t DEF TypeOK, Seqs
  <2>5. nextSeq \notin files
    BY <1>0, <2>3, <2>4
  <2>6. Referenced' = Referenced /\ nextSeq \notin Referenced
    BY <1>0, <2>1, <2>2, <2>5
  <2>7. /\ mseq <= nextSeq => mseq <= nextSeq'
        /\ wseq < nextSeq => wseq < nextSeq' /\ wseq # nextSeq
        /\ \A s \in files : s < nextSeq'
        /\ nextSeq < nextSeq'
    <3>1. \A s \in files : s < nextSeq
      BY <1>0, <2>3
    <3>2. QED
      BY <2>2, <2>4, <3>1
  <2>8. Control'
    BY <1>0, <2>2, <2>7
  <2>9. Fresh'
    BY <1>0, <2>2, <2>5, <2>6, <2>7
  <2>10. ManifestComplete' /\ ReferencedRunsExist' /\ IsInjective(mruns)' /\ InputsAreOldest'
    BY <1>0, <2>2, <2>6
  <2>11. QED
    BY <2>8, <2>9, <2>10
<1>4. CASE CompactCreate
  <2>1. HeldByReaders({})' = HeldByReaders({})
    BY <1>4, SameReaders DEF CompactCreate
  <2>2. QED
    BY <1>0, <1>4, <2>1, Zenon DEF CompactCreate
<1>5. CASE CompactInstall
  <2>1. HeldByReaders({})' = HeldByReaders({})
    BY <1>5, SameReaders DEF CompactInstall, TypeOK, Phases
  <2>2. QED
    BY <1>0, <1>t, <1>5, <2>1, Zenon DEF CompactInstall, TypeOK, Phases
<1>6. CASE CompactSwap
  <2>1. HeldByReaders({})' = HeldByReaders({})
    BY <1>6, SameReaders DEF CompactSwap
  <2>2. /\ runs' = Append(Survivors(runs, cin), cseq)
        /\ mruns' = runs' /\ mseq' = nextSeq
        /\ UNCHANGED <<files, phase, nextSeq, cin, cseq, wseq, rd>>
        /\ wpc' = "idle" /\ cpc' = "drop" /\ phase # "down" /\ mruns = runs
    BY <1>0, <1>6 DEF CompactSwap
  <2>3. runs \in Seq(Seqs) /\ cin \in Seq(Seqs) /\ cseq \in Seqs
    BY <1>t DEF TypeOK
  <2>4. IsInjective(runs) /\ Suffix(cin, runs) /\ cseq \notin Range(runs)
    BY <1>0, <1>6, <2>2 DEF CompactSwap, Suffix
  <2>5. IsInjective(runs') /\ Range(runs') \subseteq {cseq} \cup Range(runs)
    BY <2>2, <2>3, <2>4, SwapFacts
  <2>6. cseq < nextSeq /\ cseq \in files /\ mseq <= nextSeq
    BY <1>0, <1>6, <2>2 DEF CompactSwap
  <2>7. Control'
    <3>1. cpc = "swap" /\ nextSeq <= nextSeq
      BY <1>t, <1>6 DEF CompactSwap, TypeOK
    <3>2. QED
      BY <1>0, <2>2, <3>1
  <2>8. \A s \in Range(mruns') : s < mseq'
    <3>1. /\ mseq \in Int /\ nextSeq \in Int
          /\ \A s \in Range(runs) : s \in Int /\ s < mseq
      BY <1>0, <1>t, <2>2, <2>3, RangeType DEF TypeOK, Seqs
    <3>2. \A s \in Range(runs) : s < nextSeq
      BY <2>6, <3>1
    <3>3. QED
      BY <2>2, <2>5, <2>6, <3>2
  <2>9. Fresh'
    BY <1>0, <2>2, <2>8
  <2>10. ManifestComplete' /\ ReferencedRunsExist'
    BY <1>0, <2>1, <2>2, <2>5, <2>6
  <2>11. QED
    BY <2>2, <2>5, <2>7, <2>9, <2>10, Zenon
<1>7. CASE CompactDrop
  <2>1. HeldByReaders({})' = HeldByReaders({})
    BY <1>7, SameReaders DEF CompactDrop
  <2>2. /\ Range(<<>>) = {} /\ cin' = <<>> /\ cpc' = "wait"
        /\ UNCHANGED <<mseq, mruns, phase, runs, nextSeq, writer, cseq, rd>>
    BY <1>7 DEF CompactDrop, Range
  <2>3. Referenced' \subseteq Referenced
    BY <2>1, <2>2
  <2> DEFINE others == Range(runs) \cup HeldByReaders({})
             gone == files \ files'
  <2>4. files' \subseteq files /\ gone \subseteq Range(cin) \ others
    <3>1. PICK kept : files' = files \ (((obsolete \cap Range(cin)) \ others) \ kept)
      BY <1>7, Zenon DEF CompactDrop, Release, Unlink
    <3>2. QED
      BY <3>1
  <2>5. gone \subseteq Referenced
    BY <2>4
  <2>6. phase # "down" /\ phase # "reclaim" /\ mruns = runs
    BY <1>0, <1>7, Zenon DEF CompactDrop
  <2>7. Control'
    BY <1>0, <2>2, <2>6
  <2>8. ManifestComplete' /\ ReferencedRunsExist'
    BY <1>0, <2>1, <2>2, <2>4, <2>6
  <2>9. Fresh'
    BY <1>0, <2>2, <2>3, <2>4, <2>5
  <2>10. IsInjective(mruns)' /\ InputsAreOldest'
    BY <1>0, <2>2
  <2>11. QED
    BY <2>7, <2>8, <2>9, <2>10
<1>8. CASE CompactFail
  <2>1. HeldByReaders({})' = HeldByReaders({})
    BY <1>8, SameReaders DEF CompactFail
  <2>2. Range(<<>>) = {} /\ cin' = <<>> /\ UNCHANGED <<disk, process, writer, rd>>
    BY <1>8 DEF CompactFail, Range
  <2>3. Referenced' \subseteq Referenced
    BY <2>1, <2>2
  <2>4. QED
    BY <1>0, <1>8, <2>2, <2>3 DEF CompactFail
<1>9. QED
  BY <1>1, <1>2, <1>3, <1>4, <1>5, <1>6, <1>7, <1>8, Zenon DEF Compacting

\* Opening, closing and crashing.
LEMMA LifecycleStep ==
    ASSUME IInv, Lifecycle
    PROVE  Rest'
<1> USE EngineAssumption
<1>t. TypeOK
  BY DEF IInv
<1>0. Rest
  BY DEF IInv, Rest
<1> USE DEF disk, process, writer, compactor, Rest, Control, Fresh, ManifestComplete,
        ReferencedRunsExist, InputsAreOldest, Referenced, Recovered, Flushing, Compaction
<1>1. CASE OpenLoad
  <2>1. HeldByReaders({})' = HeldByReaders({})
    BY <1>1, SameReaders DEF OpenLoad
  <2>2. mseq <= mseq
    BY <1>t DEF TypeOK
  <2>3. QED
    BY <1>0, <1>1, <2>1, <2>2 DEF OpenLoad
<1>2. ASSUME NEW s \in Seqs, OpenReclaimTmp(s) PROVE Rest'
  <2>1. HeldByReaders({})' = HeldByReaders({})
    BY <1>2, SameReaders DEF OpenReclaimTmp
  <2>2. QED
    BY <1>0, <1>2, <2>1 DEF OpenReclaimTmp
<1>3. ASSUME NEW s \in Seqs, OpenReclaimRun(s) PROVE Rest'
  <2>0. cin = <<>> /\ rd = [r \in Readers |-> IdleReader] /\ mseq <= nextSeq
    BY <1>0, <1>3 DEF OpenReclaimRun
  <2>1. HeldByReaders({})' = HeldByReaders({}) /\ HeldByReaders({}) = {}
    <3>1. UNCHANGED rd
      BY <1>3 DEF OpenReclaimRun
    <3>2. QED
      BY <2>0, <3>1, SameReaders, IdleHoldNothing DEF HeldByReaders
  <2>2. Referenced = Range(runs)
    <3>1. Range(<<>>) = {}
      BY DEF Range
    <3>2. QED
      BY <2>0, <2>1, <3>1
  <2>3. nextSeq <= nextSeq' /\ mseq <= nextSeq'
    <3>1. nextSeq \in Int /\ mseq \in Int /\ s \in Int
      BY <1>t DEF TypeOK, Seqs
    <3>2. nextSeq' = IF nextSeq >= s + 1 THEN nextSeq ELSE s + 1
      BY <1>3 DEF OpenReclaimRun, MaxOf
    <3>3. QED
      BY <2>0, <3>1, <3>2
  <2>4. /\ files' = files \ {s} /\ s \notin Range(runs) /\ mruns = runs
        /\ phase' = phase /\ phase = "reclaim"
        /\ UNCHANGED <<runs, mruns, mseq, cin, cpc, wpc, wseq, cseq, rd>>
    BY <1>0, <1>3 DEF OpenReclaimRun, Orphans
  <2>5. Control' /\ Fresh'
    BY <1>0, <2>3, <2>4, Zenon
  <2>6. ManifestComplete' /\ ReferencedRunsExist'
    BY <1>0, <2>1, <2>2, <2>4
  <2>7. IsInjective(mruns)' /\ InputsAreOldest'
    BY <1>0, <2>4, Zenon
  <2>8. QED
    BY <2>5, <2>6, <2>7
<1>4. CASE OpenReplay
  <2>1. HeldByReaders({})' = HeldByReaders({})
    BY <1>4, SameReaders DEF OpenReplay
  <2>2. /\ phase = "reclaim" /\ files \subseteq Range(runs)
        /\ UNCHANGED <<files, runs, mruns, mseq, cin, wseq, cseq, rd>>
        /\ phase' \in {"up", "checkpoint"} /\ wpc' \in {"idle", "take"}
        /\ cpc' \in {"off", "wait"}
    BY <1>0, <1>4 DEF OpenReplay, Orphans
  <2>3. nextSeq <= nextSeq' /\ \A s \in Range(runs) : s < nextSeq'
    BY <1>4 DEF OpenReplay
  <2>4. nextSeq \in Int /\ nextSeq' \in Int /\ mseq \in Int
    <3>1. nextSeq \in Int /\ mseq \in Int /\ runs \in Seq(Seqs)
      BY <1>t DEF TypeOK, Seqs
    <3>2. Range(runs) \subseteq Seqs
      BY <3>1, RangeType
    <3>3. nextSeq' \in {nextSeq} \cup {s + 1 : s \in Range(runs)}
      BY <1>4 DEF OpenReplay
    <3>4. QED
      BY <3>1, <3>2, <3>3 DEF Seqs
  <2>5. mseq <= nextSeq'
    BY <1>0, <2>2, <2>3, <2>4
  <2>6. Control'
    BY <1>0, <2>2, <2>5
  <2>7. Fresh'
    BY <1>0, <2>2, <2>3
  <2>8. ManifestComplete' /\ ReferencedRunsExist'
    BY <1>0, <2>1, <2>2
  <2>9. QED
    BY <1>0, <2>2, <2>6, <2>7, <2>8
<1>5. CASE Close
  <2>1. HeldByReaders({})' = HeldByReaders({})
    BY <1>5, SameReaders DEF Close
  <2>2. QED
    BY <1>0, <1>5, <2>1 DEF Close
<1>6. CASE Closed \/ Crash
  <2>1. ProcessGone /\ UNCHANGED disk
    BY <1>6, ClosedKeeps DEF Crash
  <2>2. Range(runs') = {} /\ Range(cin') = {} /\ HeldByReaders({})' = {}
    <3>1. Range(<<>>) = {}
      BY DEF Range
    <3>2. runs' = <<>> /\ cin' = <<>> /\ rd' = [r \in Readers |-> IdleReader]
      BY <2>1 DEF ProcessGone
    <3>3. \A r \in Readers : rd'[r].snap = <<>>
      BY <3>2 DEF IdleReader
    <3>4. QED
      BY <3>1, <3>2, <3>3 DEF HeldByReaders
  <2>3. Control'
    BY <2>1 DEF ProcessGone, IdleReader
  <2>4. Fresh'
    BY <1>0, <2>1 DEF ProcessGone
  <2>5. ManifestComplete' /\ ReferencedRunsExist'
    BY <1>0, <2>1, <2>2
  <2>6. IsInjective(mruns)' /\ InputsAreOldest'
    BY <1>0, <2>1 DEF ProcessGone
  <2>7. QED
    BY <2>3, <2>4, <2>5, <2>6
<1>7. QED
  BY <1>1, <1>2, <1>3, <1>4, <1>5, <1>6, Zenon DEF Lifecycle

\* A run that has its file before and after a step holds the same records: the
\* two writers install under numbers that have no file, and removing a file is
\* the only other way a run changes.
LEMMA SameTables ==
    ASSUME IInv, Next
    PROVE  \A s \in Seqs : s \in files /\ s \in files' => table'[s] = table[s]
<1> DEFINE Same == \A s \in Seqs : s \in files /\ s \in files' => table'[s] = table[s]
<1> SUFFICES Same
  OBVIOUS
<1>0. TypeOK /\ Fresh
  BY DEF IInv
<1> USE <1>0 DEF TypeOK, disk, process, writer, compactor
<1>1. CASE UNCHANGED <<files, table>>
  BY <1>1
<1>2. CASE FlushInstall
  BY <1>2 DEF FlushInstall, Fresh
<1>3. CASE CompactInstall
  BY <1>3 DEF CompactInstall, Fresh
<1>4. CASE CompactDrop
  BY <1>4 DEF CompactDrop, Release, Unlink
<1>5. ASSUME NEW r \in Readers, ReadEnd(r) PROVE Same
  BY <1>5 DEF ReadEnd, Release, Unlink
<1>6. ASSUME NEW s \in Seqs, OpenReclaimRun(s) PROVE Same
  BY <1>6 DEF OpenReclaimRun
<1>7. \/ UNCHANGED <<files, table>> \/ FlushInstall \/ CompactInstall \/ CompactDrop
      \/ \E r \in Readers : ReadEnd(r)
      \/ \E s \in Seqs : OpenReclaimRun(s)
  <2>1. Writing => UNCHANGED <<files, table>> \/ FlushInstall
    BY Zenon DEF Writing, Write, LogFails, Apply, Flush, FlushTake, FlushCreate, FlushCommit,
       FlushRotate, FlushReopen, FlushFail, RotateFail
  <2>2. Reading => UNCHANGED <<files, table>> \/ \E r \in Readers : ReadEnd(r)
    BY Zenon DEF Reading, GetBegin, GetStep, ScanBegin, ScanMerge
  <2>3. Compacting => UNCHANGED <<files, table>> \/ CompactInstall \/ CompactDrop
    BY DEF Compacting, CompactWake, CompactSnapshot, CompactAlloc, CompactCreate,
       CompactSwap, CompactFail
  <2>4. Lifecycle => UNCHANGED <<files, table>> \/ \E s \in Seqs : OpenReclaimRun(s)
    BY ClosedKeeps, Zenon DEF Lifecycle, OpenLoad, OpenReclaimTmp, OpenReplay, Close, Crash
  <2>5. QED
    BY <2>1, <2>2, <2>3, <2>4 DEF Next
<1>8. QED
  BY <1>1, <1>2, <1>3, <1>4, <1>5, <1>6, <1>7

-------------------------------------------------------------------------------
(* Obsolete runs are dropped by whoever still refers to them.              *)

\* A list and the part of it that the swap filters out.
LEMMA SwapRange ==
    ASSUME NEW x \in Seqs, NEW rs \in Seq(Seqs), NEW ins \in Seq(Seqs),
           IsInjective(rs), Suffix(ins, rs)
    PROVE  /\ Range(ins) \subseteq Range(rs)
           /\ Range(rs) \cup {x} \subseteq Range(Append(Survivors(rs, ins), x)) \cup Range(ins)
           /\ Range(Append(Survivors(rs, ins), x)) \subseteq (Range(rs) \ Range(ins)) \cup {x}
<1> DEFINE v == Survivors(rs, ins)
           n == Len(rs) - Len(ins)
<1>1. v \in Seq(Seqs) /\ Len(v) = n /\ \A i \in 1 .. n : v[i] = rs[i]
  BY SurvivorsArePrefix
<1>2. /\ Len(rs) \in Nat /\ Len(ins) \in Nat /\ n \in Nat /\ Len(rs) = n + Len(ins)
      /\ \A i \in 1 .. Len(ins) : ins[i] = rs[n + i]
  BY DEF Suffix
<1>3. Range(Append(v, x)) = {x} \cup Range(v)
  BY <1>1, AppendRange
<1> HIDE DEF v, n
<1>4. /\ Range(rs) = {rs[i] : i \in 1 .. Len(rs)} /\ Range(ins) = {ins[i] : i \in 1 .. Len(ins)}
      /\ Range(v) = {v[i] : i \in 1 .. n}
  BY <1>1, RangeType, Zenon
<1>5. Range(ins) \subseteq Range(rs)
  <2>1. \A i \in 1 .. Len(ins) : n + i \in 1 .. Len(rs)
    BY <1>2
  <2>2. QED
    BY <1>2, <1>4, <2>1
<1>6. ASSUME NEW i \in 1 .. Len(rs) PROVE rs[i] \in Range(v) \cup Range(ins)
  <2>1. CASE i <= n
    <3>1. i \in 1 .. n
      BY <1>2, <2>1
    <3>2. QED
      BY <1>1, <1>4, <3>1
  <2>2. CASE i > n
    <3>1. i - n \in 1 .. Len(ins) /\ n + (i - n) = i
      BY <1>2, <2>2
    <3>2. ins[i - n] = rs[i]
      BY <1>2, <3>1
    <3>3. QED
      BY <1>4, <3>1, <3>2
  <2>3. i <= n \/ i > n
    <3>1. n \in Nat
      BY <1>2, Zenon
    <3>2. QED
      BY <3>1
  <2>4. QED
    BY <2>1, <2>2, <2>3, Zenon
<1>7. ASSUME NEW i \in 1 .. n PROVE v[i] \in Range(rs) \ Range(ins)
  <2>1. i \in 1 .. Len(rs) /\ v[i] = rs[i]
    BY <1>1, <1>2
  <2>2. ASSUME NEW j \in 1 .. Len(ins) PROVE rs[i] # ins[j]
    <3>1. n + j \in 1 .. Len(rs) /\ n + j # i /\ ins[j] = rs[n + j]
      BY <1>2
    <3>2. DOMAIN rs = 1 .. Len(rs)
      OBVIOUS
    <3>3. QED
      BY <2>1, <3>1, <3>2, Zenon DEF IsInjective
  <2>3. QED
    BY <1>4, <2>1, <2>2, Zenon
<1>8. Range(v) \subseteq Range(rs) \ Range(ins)
  BY <1>4, <1>7, Zenon
<1>9. QED
  BY <1>3, <1>4, <1>5, <1>6, <1>8, Zenon DEF v

\* Which steps touch the references to runs or the runs marked obsolete.
LEMMA ReferenceFrame ==
    ASSUME Next
    PROVE  \/ UNCHANGED <<cpc, cin, runs, rd, obsolete, phase>>
           \/ FlushCommit \/ FlushReopen \/ Reading \/ Compacting
           \/ OpenLoad \/ OpenReplay \/ Close \/ ProcessGone
<1> USE DEF disk, process, writer, compactor
<1>1. Writing => \/ UNCHANGED <<cpc, cin, runs, rd, obsolete, phase>>
                 \/ FlushCommit \/ FlushReopen
  BY Zenon DEF Writing, Write, LogFails, Apply, Flush, FlushTake, FlushCreate, FlushInstall,
     FlushRotate, FlushFail, RotateFail
<1>2. Lifecycle => \/ UNCHANGED <<cpc, cin, runs, rd, obsolete, phase>>
                   \/ OpenLoad \/ OpenReplay \/ Close \/ ProcessGone
  BY Zenon DEF Lifecycle, OpenReclaimTmp, OpenReclaimRun, Closed, Crash
<1>3. QED
  BY <1>1, <1>2 DEF Next

LEMMA DroppingStep ==
    ASSUME IInv, Next
    PROVE  Dropping'
<1>0. Control /\ Fresh /\ Dropping /\ rd \in [Readers -> Reader]
  BY DEF IInv, TypeOK
<1>e. Range(<<>>) = {}
  BY DEF Range
<1> USE DEF disk, process, writer, compactor
<1>1. CASE UNCHANGED <<cpc, cin, runs, rd, obsolete, phase>>
  BY <1>0, <1>1, SameReaders, Zenon DEF Dropping, Referenced
<1>2. CASE FlushCommit
  <2>1. /\ UNCHANGED <<cpc, cin, rd, obsolete, phase>> /\ runs' = <<wseq>> \o runs
        /\ runs \in Seq(Seqs) /\ wseq \in Seqs
    BY <1>2 DEF FlushCommit, NewRuns, IInv, TypeOK
  <2>2. Range(runs') = {wseq} \cup Range(runs)
    BY <2>1, PrependRange, Zenon
  <2>3. wseq \notin obsolete
    BY <1>0, <1>2, Zenon DEF FlushCommit, Fresh, Flushing, Dropping
  <2>4. QED
    BY <1>0, <2>1, <2>2, <2>3, SameReaders DEF Dropping, Referenced
<1>3. CASE FlushReopen
  <2>1. /\ UNCHANGED <<cin, rd, obsolete, runs>> /\ phase' = "up"
        /\ cpc' = IF phase = "checkpoint" THEN "wait" ELSE cpc
    BY <1>3 DEF FlushReopen
  <2>2. QED
    BY <1>0, <2>1, SameReaders DEF Dropping, Referenced
<1>4. CASE Reading
  <2>1. PICK r \in Readers :
            \/ \E k \in Keys : GetBegin(r, k)
            \/ GetStep(r)
            \/ \E K \in Ranges : ScanBegin(r, K)
            \/ ScanMerge(r)
            \/ ReadEnd(r)
    BY <1>4 DEF Reading
  <2>2. /\ rd[r] \in Reader /\ \A q \in Readers \ {r} : rd'[q] = rd[q]
        /\ UNCHANGED <<cpc, cin, runs, phase>>
    BY <1>0, <2>1, Zenon DEF GetBegin, GetStep, ScanBegin, ScanMerge, ReadEnd
  <2>3. /\ HeldByReaders({}) = HeldByReaders({r}) \cup Range(rd[r].snap)
        /\ HeldByReaders({})' = HeldByReaders({r}) \cup Range(rd'[r].snap)
    BY <2>2, HeldSplit, ReaderMoves, Zenon
  <2>4. ASSUME obsolete' = obsolete, Range(rd[r].snap) \subseteq Range(rd'[r].snap),
               rd'[r].pc # "idle", phase # "closing"
        PROVE  Dropping'
    <3>1. \A q \in Readers : rd'[q].pc = "idle" => rd'[q].snap = <<>>
      BY <1>0, <2>2, <2>4, Zenon DEF Dropping
    <3>2. obsolete' \subseteq Referenced' /\ obsolete' \cap Range(runs') = {}
      BY <1>0, <2>2, <2>3, <2>4, Zenon DEF Dropping, Referenced
    <3>3. QED
      BY <1>0, <2>2, <2>4, <3>1, <3>2, Zenon DEF Dropping
  <2>5. ASSUME NEW k \in Keys, GetBegin(r, k) PROVE Dropping'
    <3>1. /\ rd[r].snap = <<>> /\ rd'[r].pc # "idle" /\ obsolete' = obsolete
          /\ phase # "closing"
      BY <1>0, <2>5, Zenon DEF GetBegin, Dropping
    <3>2. QED
      BY <1>e, <2>4, <3>1
  <2>6. CASE GetStep(r)
    <3>1. rd'[r].snap = rd[r].snap /\ rd'[r].pc # "idle" /\ obsolete' = obsolete
      BY <1>0, <2>2, <2>6, Zenon DEF GetStep, Reader
    <3>2. phase # "closing"
      BY <1>0, <2>6, Zenon DEF GetStep, Dropping
    <3>3. QED
      BY <2>4, <3>1, <3>2
  <2>7. ASSUME NEW K \in Ranges, ScanBegin(r, K) PROVE Dropping'
    <3>1. /\ rd[r].snap = <<>> /\ rd'[r].pc # "idle" /\ obsolete' = obsolete
          /\ phase # "closing"
      BY <1>0, <2>7, Zenon DEF ScanBegin, Dropping
    <3>2. QED
      BY <1>e, <2>4, <3>1
  <2>8. CASE ScanMerge(r)
    <3>1. rd'[r].snap = rd[r].snap /\ rd'[r].pc # "idle" /\ obsolete' = obsolete
      BY <1>0, <2>2, <2>8 DEF ScanMerge, Reader
    <3>2. phase # "closing"
      BY <1>0, <2>8, Zenon DEF ScanMerge, Dropping
    <3>3. QED
      BY <2>4, <3>1, <3>2
  <2>9. CASE ReadEnd(r)
    <3>1. rd'[r].snap = <<>> /\ rd'[r].pc = "idle"
      BY <1>0, <2>9, Zenon DEF ReadEnd, IdleReader
    <3>2. obsolete' = obsolete \ ((obsolete \cap Range(rd[r].snap))
                                    \ (Range(runs) \cup Range(cin) \cup HeldByReaders({r})))
      BY <2>9, Zenon DEF ReadEnd, Release
    <3>3. obsolete' \subseteq Referenced' /\ obsolete' \cap Range(runs') = {}
      BY <1>0, <1>e, <2>2, <2>3, <3>1, <3>2, Zenon DEF Dropping, Referenced
    <3>4. \A q \in Readers : /\ phase' = "closing" => rd'[q].pc = "idle"
                             /\ rd'[q].pc = "idle" => rd'[q].snap = <<>>
      BY <1>0, <2>2, <3>1, Zenon DEF Dropping
    <3>5. QED
      BY <1>0, <2>2, <3>3, <3>4, Zenon DEF Dropping
  <2>10. QED
    BY <2>1, <2>5, <2>6, <2>7, <2>8, <2>9
<1>5. CASE Compacting
  <2>0. HeldByReaders({})' = HeldByReaders({}) /\ UNCHANGED <<rd, phase>>
    BY <1>5, SameReaders, Zenon DEF Compacting, CompactWake, CompactSnapshot, CompactAlloc,
       CompactCreate, CompactInstall, CompactSwap, CompactDrop, CompactFail
  <2>1. CASE CompactWake \/ CompactAlloc \/ CompactCreate \/ CompactInstall
    BY <1>0, <2>0, <2>1, Zenon DEF CompactWake, CompactAlloc, CompactCreate, CompactInstall,
       Dropping, Referenced
  <2>2. CASE CompactSnapshot
    BY <1>0, <1>e, <2>0, <2>2, Zenon DEF CompactSnapshot, Dropping, Referenced
  <2>3. ASSUME cpc \in {"create", "merge", "swap"}
        PROVE  /\ Suffix(cin, runs) /\ IsInjective(runs)
               /\ runs \in Seq(Seqs) /\ cin \in Seq(Seqs) /\ cseq \in Seqs
    <3>1. mruns = runs
      BY <1>0, <2>3 DEF Control
    <3>2. QED
      BY <2>3, <3>1, Zenon DEF IInv, TypeOK, InputsAreOldest, Suffix
  <2>4. CASE CompactSwap
    <3>1. /\ cpc = "swap" /\ cpc' = "drop" /\ cin' = cin /\ obsolete' = obsolete \cup Range(cin)
          /\ runs' = Append(Survivors(runs, cin), cseq)
      BY <2>4 DEF CompactSwap
    <3>2. /\ Range(runs) \subseteq Range(runs') \cup Range(cin)
          /\ Range(runs') \subseteq (Range(runs) \ Range(cin)) \cup {cseq}
      BY <2>3, <3>1, SwapRange, Zenon
    <3>3. cseq \notin obsolete /\ cseq \notin Range(cin)
      BY <1>0, <3>1, Zenon DEF Fresh, Compaction, Dropping, Referenced
    <3>4. obsolete' \cap Range(runs') = {}
      <4>1. obsolete \cap Range(runs) = {}
        BY <1>0, Zenon DEF Dropping
      <4>2. QED
        BY <3>1, <3>2, <3>3, <4>1
    <3>5. obsolete' \subseteq Referenced'
      BY <1>0, <2>0, <3>1, <3>2, Zenon DEF Dropping, Referenced
    <3>6. phase # "checkpoint"
      BY <1>0, <3>1, Zenon DEF Dropping
    <3>7. QED
      BY <1>0, <2>0, <3>1, <3>4, <3>5, <3>6, Zenon DEF Dropping
  <2>5. CASE CompactDrop
    <3>1. obsolete' = obsolete \ ((obsolete \cap Range(cin))
                                    \ (Range(runs) \cup HeldByReaders({})))
      BY <2>5, Zenon DEF CompactDrop, Release
    <3>2. cpc = "drop" /\ cpc' = "wait" /\ cin' = <<>> /\ runs' = runs
      BY <2>5 DEF CompactDrop
    <3>3. QED
      BY <1>0, <1>e, <2>0, <3>1, <3>2 DEF Dropping, Referenced
  <2>6. CASE CompactFail
    <3>1. /\ cpc \in {"create", "merge", "swap"} /\ cpc' = "wait" /\ cin' = <<>>
          /\ UNCHANGED <<runs, obsolete>>
      BY <2>6 DEF CompactFail
    <3>2. Range(cin) \subseteq Range(runs)
      BY <2>3, <3>1, SwapRange
    <3>3. QED
      BY <1>0, <1>e, <2>0, <3>1, <3>2 DEF Dropping, Referenced
  <2>7. QED
    BY <1>5, <2>1, <2>2, <2>4, <2>5, <2>6 DEF Compacting
<1>6. CASE OpenLoad
  <2>1. /\ phase = "down" /\ phase' = "reclaim" /\ UNCHANGED <<cpc, cin, rd, obsolete>>
    BY <1>6 DEF OpenLoad
  <2>2. runs = <<>> /\ cin = <<>> /\ rd = [r \in Readers |-> IdleReader]
    BY <1>0, <2>1 DEF Control
  <2>3. HeldByReaders({}) = {}
    BY <2>2, IdleHoldNothing, Zenon DEF HeldByReaders
  <2>4. obsolete = {}
    BY <1>0, <1>e, <2>2, <2>3 DEF Dropping, Referenced
  <2>5. QED
    BY <1>0, <2>1, <2>4 DEF Dropping
<1>7. CASE OpenReplay
  <2>1. /\ phase = "reclaim" /\ phase' \in {"up", "checkpoint"}
        /\ cpc' = (IF phase' = "up" THEN "wait" ELSE cpc)
        /\ UNCHANGED <<runs, obsolete, cin, rd>>
    BY <1>7 DEF OpenReplay
  <2>2. cpc = "off" /\ cin = <<>>
    BY <1>0, <2>1, Zenon DEF Control
  <2>3. QED
    BY <1>0, <2>1, <2>2, SameReaders, Zenon DEF Dropping, Referenced
<1>8. CASE Close
  BY <1>0, <1>8, SameReaders, Zenon DEF Close, Dropping, Referenced
<1>9. CASE ProcessGone
  <2>1. phase' = "down" /\ obsolete' = {} /\ cin' = <<>> /\ rd' = [r \in Readers |-> IdleReader]
    BY <1>9 DEF ProcessGone
  <2>2. QED
    BY <2>1 DEF Dropping, IdleReader
<1>10. QED
  BY <1>1, <1>2, <1>3, <1>4, <1>5, <1>6, <1>7, <1>8, <1>9, ReferenceFrame

-------------------------------------------------------------------------------
(* The theorems.                                                           *)

LEMMA InvStep ==
    ASSUME IInv, [Next]_vars
    PROVE  IInv'
<1>1. CASE Next
  <2>1. TypeOK'
    BY <1>1, TypeStep
  <2>2. Rest'
    BY <1>1, WriterStep, ReaderStep, CompactorStep, LifecycleStep DEF Next
  <2>3. Dropping'
    BY <1>1, DroppingStep
  <2>4. QED
    BY <2>1, <2>2, <2>3 DEF IInv, Rest
<1>2. CASE UNCHANGED vars
  <2> USE <1>2 DEF vars, disk, process, writer, compactor, IInv
  <2>1. TypeOK'
    BY DEF TypeOK
  <2>2. Control'
    BY DEF Control
  <2>3. Referenced' = Referenced
    BY SameReaders DEF Referenced
  <2>4. Fresh'
    <3>1. /\ Recovered' = Recovered /\ Flushing' = Flushing /\ Compaction' = Compaction
          /\ UNCHANGED <<mruns, mseq, files, nextSeq, wpc, wseq, cpc, cseq>>
      BY DEF Recovered, Flushing, Compaction
    <3>2. Fresh
      OBVIOUS
    <3> HIDE <1>2 DEF IInv, vars
    <3>3. QED
      BY <2>3, <3>1, <3>2 DEF Fresh
  <2>5. ManifestComplete' /\ ReferencedRunsExist'
    BY <2>3 DEF ManifestComplete, ReferencedRunsExist
  <2>6. IsInjective(mruns)' /\ InputsAreOldest'
    BY DEF InputsAreOldest
  <2>7. Dropping'
    BY <2>3 DEF Dropping
  <2>8. QED
    BY <2>1, <2>2, <2>4, <2>5, <2>6, <2>7
<1>3. QED
  BY <1>1, <1>2

\* The invariant IInv holds in every reachable state: in the initial state, and
\* after every step of a writer, a reader, the compactor, the opening and closing
\* of the handle and a crash.
THEOREM Invariance == Spec => []IInv
<1>1. IInv /\ [Next]_vars => IInv'
  BY InvStep
<1>2. QED
  BY InitInv, <1>1, PTL DEF Spec

\* Type correctness, for every value of the constants.
THEOREM TypeCorrect == Spec => []TypeOK
<1>1. IInv => TypeOK
  BY DEF IInv
<1>2. QED
  BY Invariance, <1>1, PTL

\* Whatever fails and whenever the process dies, every run the manifest names has
\* its file, so open_with never refuses a directory for a missing run (db.rs:185).
THEOREM ManifestAlwaysComplete == Spec => []ManifestComplete
<1>1. IInv => ManifestComplete
  BY DEF IInv
<1>2. QED
  BY Invariance, <1>1, PTL

\* No run file is removed while the engine, a get, a scan or the compaction still
\* refers to it (Drop for SsTable with mark_obsolete, sstable.rs:228-305).
THEOREM FilesOutliveReferences == Spec => []ReferencedRunsExist
<1>1. IInv => ReferencedRunsExist
  BY DEF IInv
<1>2. QED
  BY Invariance, <1>1, PTL

\* When the compaction swaps its output in, its inputs are exactly the oldest runs,
\* so nothing older than the output is left for a dropped tombstone to hide
\* (db.rs:638-671).
THEOREM CompactionTakesOldest == Spec => []InputsAreOldest
<1>1. IInv => InputsAreOldest
  BY DEF IInv
<1>2. QED
  BY Invariance, <1>1, PTL

\* An installed run is never overwritten, by the other writer or after recovery
\* (the allocation of numbers in db.rs:556, 633 and 194-215).
THEOREM InstalledRunsNeverChange == Spec => RunsImmutable
<1> DEFINE Same == \A s \in Seqs : s \in files /\ s \in files' => table'[s] = table[s]
<1>1. IInv /\ [Next]_vars => [Same]_vars
  BY SameTables
<1>2. QED
  BY Invariance, <1>1, PTL DEF Spec, RunsImmutable

-------------------------------------------------------------------------------
(* What the records that move between log, memtable and runs satisfy.      *)

\* Where the records of a write or a flush are: the writer holds some only
\* between the log and the memtable and between the memtable and the manifest,
\* an installed run holds what the memtable held, and the memtable is empty from
\* the moment it is taken to the end of the rotation.
Buffers ==
    /\ wpc \notin {"apply", "create", "install", "commit"} => held = EmptyTable
    /\ wpc = "commit" => table[wseq] = held
    /\ wpc \in {"create", "install", "commit", "rotate", "reopen"} => mem = EmptyTable

\* Whatever is not in a committed run yet is in the log; without the feature
\* there is no log.
Logged ==
    /\ ~Durable => log = <<>>
    /\ Durable => \A k \in Keys : held[k] # None \/ mem[k] # None => Latest(log)[k] # None

\* The output of the compaction holds what its inputs hold, resolved.
Merged == cpc = "swap" => table[cseq] = Live(Contents(table, cin))

\* A thread that is not reading holds nothing; a get asks for one key.
Reads ==
    \A r \in Readers :
        /\ rd[r].pc = "idle" => rd[r] = IdleReader
        /\ rd[r].pc = "get" => \E k \in Keys : rd[r].keys = {k}

Data == Buffers /\ Logged /\ Merged /\ Reads

LEMMA DataInit == Init => Data
<1> SUFFICES ASSUME Init PROVE Data
  OBVIOUS
<1> USE DEF Init
<1>1. Buffers /\ Merged
  BY DEF Buffers, Merged
<1>2. Logged
  BY DEF Logged, EmptyTable
<1>3. Reads
  BY DEF Reads, IdleReader
<1>4. QED
  BY <1>1, <1>2, <1>3 DEF Data

-------------------------------------------------------------------------------
(* Every step keeps it.                                                    *)

\* Only the thread with the write lock, the replay of the log and the end of the
\* process touch the memtable, the log and what that thread holds.
LEMMA WriterFrame ==
    ASSUME IInv, Next
    PROVE  \/ Writing \/ OpenReplay \/ (ProcessGone /\ UNCHANGED disk)
           \/ UNCHANGED <<wpc, held, wseq, mem, log>>
<1> USE DEF disk, process, writer, compactor
<1>1. Reading => UNCHANGED <<wpc, held, wseq, mem, log>>
  BY Zenon DEF Reading, GetBegin, GetStep, ScanBegin, ScanMerge, ReadEnd
<1>2. Compacting => UNCHANGED <<wpc, held, wseq, mem, log>>
  BY DEF Compacting, CompactWake, CompactSnapshot, CompactAlloc, CompactCreate,
     CompactInstall, CompactSwap, CompactDrop, CompactFail
<1>3. Lifecycle => \/ OpenReplay \/ (ProcessGone /\ UNCHANGED disk)
                   \/ UNCHANGED <<wpc, held, wseq, mem, log>>
  BY ClosedKeeps, Zenon DEF Lifecycle, OpenLoad, OpenReclaimTmp, OpenReclaimRun, Close, Crash
<1>4. QED
  BY <1>1, <1>2, <1>3 DEF Next

LEMMA BuffersStep ==
    ASSUME IInv, IInv', Data, Next
    PROVE  Buffers'
<1>0. /\ Buffers
      /\ table \in [Seqs -> Table] /\ wseq \in Seqs
      /\ wpc = "commit" => wseq \in files
      /\ wpc' = "commit" => wseq' \in files'
  BY Zenon DEF Data, IInv, TypeOK, Fresh
<1> USE DEF disk, process, writer, compactor
<1>1. CASE UNCHANGED <<wpc, held, wseq, mem, log>>
  <2>1. wpc = "commit" => table'[wseq] = table[wseq]
    BY <1>0, <1>1, SameTables
  <2>2. QED
    BY <1>0, <1>1, <2>1 DEF Buffers
<1>2. CASE OpenReplay
  <2>1. wpc = "idle" /\ wpc' \in {"idle", "take"} /\ held' = held
    BY <1>2, Zenon DEF OpenReplay, IInv, Control
  <2>2. QED
    BY <1>0, <2>1, Zenon DEF Buffers
<1>3. CASE ProcessGone
  BY <1>3 DEF ProcessGone, Buffers
<1>4. CASE Writing
  <2>1. ASSUME NEW b \in Batches, Write(b) \/ LogFails(b) PROVE Buffers'
    BY <1>0, <2>1, Zenon DEF Write, LogFails, Buffers
  <2>2. CASE Apply \/ Flush \/ FlushTake \/ FlushCreate
    BY <1>0, <2>2 DEF Apply, Flush, FlushTake, FlushCreate, Buffers
  <2>3. CASE FlushInstall
    BY <1>0, <2>3 DEF FlushInstall, Buffers
  <2>4. CASE FlushCommit \/ FlushRotate \/ FlushReopen
    BY <1>0, <2>4 DEF FlushCommit, FlushRotate, FlushReopen, Buffers
  <2>5. CASE FlushFail \/ RotateFail
    BY <1>0, <2>5 DEF FlushFail, RotateFail, Buffers
  <2>6. QED
    BY <1>4, <2>1, <2>2, <2>3, <2>4, <2>5 DEF Writing
<1>5. QED
  BY <1>1, <1>2, <1>3, <1>4, WriterFrame, Zenon

LEMMA LoggedStep ==
    ASSUME IInv, Data, Next
    PROVE  Logged'
<1>0. Buffers /\ Logged /\ log \in Seq(Table) /\ mem \in Table /\ held \in Table
  BY Zenon DEF Data, IInv, TypeOK
<1> USE DEF disk, process, writer, compactor
<1>1. CASE UNCHANGED <<wpc, held, wseq, mem, log>>
  BY <1>0, <1>1 DEF Logged
<1>2. CASE OpenReplay
  <2>1. wpc = "idle" /\ held' = held /\ log' = log /\ mem' = Latest(log)
    BY <1>2 DEF OpenReplay, IInv, Control
  <2>2. held = EmptyTable
    BY <1>0, <2>1 DEF Buffers
  <2>3. QED
    BY <1>0, <2>1, <2>2 DEF Logged, EmptyTable
<1>3. CASE ProcessGone /\ UNCHANGED disk
  BY <1>0, <1>3 DEF ProcessGone, Logged, EmptyTable
<1>4. CASE Writing
  <2>1. ASSUME NEW b \in Batches, log' = Append(log, b), Durable,
               \A k \in Keys : held'[k] # None => held[k] # None \/ b[k] # None,
               mem' = mem
        PROVE  Logged'
    <3>1. b \in Table
      BY EngineAssumption, Zenon
    <3>2. Latest(log') = Overlay(b, Latest(log))
      BY <1>0, <2>1, <3>1, LatestAppend
    <3>3. QED
      BY <1>0, <2>1, <3>2 DEF Logged, Overlay
  <2>2. ASSUME NEW b \in Batches, Write(b) PROVE Logged'
    <3>1. CASE Durable
      BY <2>1, <2>2, <3>1, Zenon DEF Write
    <3>2. CASE ~Durable
      BY <1>0, <2>2, <3>2 DEF Write, Logged
    <3>3. QED
      BY <3>1, <3>2
  <2>3. ASSUME NEW b \in Batches, LogFails(b) PROVE Logged'
    BY <2>1, <2>3, Zenon DEF LogFails
  <2>4. CASE Apply
    BY <1>0, <2>4, Zenon DEF Apply, Logged, Overlay, EmptyTable
  <2>5. CASE FlushTake
    BY <1>0, <2>5, Zenon DEF FlushTake, Logged, EmptyTable
  <2>6. CASE Flush \/ FlushCreate \/ FlushInstall \/ FlushReopen \/ RotateFail
    BY <1>0, <2>6, Zenon DEF Flush, FlushCreate, FlushInstall, FlushReopen, RotateFail, Logged
  <2>7. CASE FlushCommit \/ FlushFail
    BY <1>0, <2>7, Zenon DEF FlushCommit, FlushFail, Logged, EmptyTable
  <2>8. CASE FlushRotate
    <3>1. held = EmptyTable /\ mem = EmptyTable /\ held' = held /\ mem' = mem /\ log' = <<>>
      BY <1>0, <2>8 DEF FlushRotate, Buffers
    <3>2. QED
      BY <3>1 DEF Logged, EmptyTable
  <2>9. QED
    BY <1>4, <2>2, <2>3, <2>4, <2>5, <2>6, <2>7, <2>8 DEF Writing
<1>5. QED
  BY <1>1, <1>2, <1>3, <1>4, WriterFrame

LEMMA MergedStep ==
    ASSUME IInv, IInv', Data, Next
    PROVE  Merged'
<1>0. /\ Merged
      /\ table \in [Seqs -> Table] /\ cin \in Seq(Seqs) /\ cseq \in Seqs
      /\ table' \in [Seqs -> Table]
      /\ cpc = "swap" => cseq \in files
      /\ cpc' = "swap" => cseq' \in files'
      /\ Range(cin) \subseteq files /\ Range(cin') \subseteq files'
      /\ Range(cin) \subseteq Seqs
  BY RangeType, Zenon DEF Data, IInv, TypeOK, Fresh, ReferencedRunsExist, Referenced
<1> USE DEF disk, process, writer, compactor
<1>1. CASE cpc = "swap" /\ UNCHANGED <<cin, cseq>>
  <2>1. SUFFICES ASSUME cpc' = "swap" PROVE Merged'
    BY DEF Merged
  <2>2. \A x \in Range(cin) \cup {cseq} : table'[x] = table[x]
    BY <1>0, <1>1, <2>1, SameTables
  <2>3. Contents(table', cin) = Contents(table, cin)
    BY <1>0, <2>2, ContentsSame
  <2>4. QED
    BY <1>0, <1>1, <2>2, <2>3 DEF Merged
<1>2. CASE CompactInstall
  <2>1. /\ table' = [table EXCEPT ![cseq] = Live(Contents(table, cin))]
        /\ UNCHANGED <<cin, cseq>>
    BY <1>2, Zenon DEF CompactInstall, Contents, Tables
  <2>2. cseq \notin Range(cin)
    BY <1>2 DEF CompactInstall, IInv, Fresh, Compaction, Referenced
  <2>3. \A x \in Range(cin) : table'[x] = table[x]
    BY <1>0, <2>1, <2>2
  <2>4. Contents(table', cin) = Contents(table, cin)
    BY <1>0, <2>3, ContentsSame
  <2>5. QED
    BY <1>0, <2>1, <2>4 DEF Merged
<1>3. CASE cpc' # "swap"
  BY <1>3 DEF Merged
<1>4. cpc' = "swap" => CompactInstall \/ (cpc = "swap" /\ UNCHANGED <<cin, cseq>>)
  <2>1. Writing => (cpc' = "swap" => cpc = "swap" /\ UNCHANGED <<cin, cseq>>)
    BY Zenon DEF Writing, Write, LogFails, Apply, Flush, FlushTake, FlushCreate, FlushInstall,
       FlushCommit, FlushRotate, FlushReopen, FlushFail, RotateFail
  <2>2. Reading => UNCHANGED <<cpc, cin, cseq>>
    BY Zenon DEF Reading, GetBegin, GetStep, ScanBegin, ScanMerge, ReadEnd
  <2>3. Compacting => CompactInstall \/ cpc' # "swap"
    BY Zenon DEF Compacting, CompactWake, CompactSnapshot, CompactAlloc, CompactCreate,
       CompactSwap, CompactDrop, CompactFail
  <2>4. Lifecycle => \/ cpc' # "swap"
                     \/ UNCHANGED <<cpc, cin, cseq>>
    BY Zenon DEF Lifecycle, OpenLoad, OpenReclaimTmp, OpenReclaimRun, OpenReplay, Close, Closed,
       Crash, ProcessGone
  <2>5. QED
    BY <2>1, <2>2, <2>3, <2>4 DEF Next
<1>5. QED
  BY <1>1, <1>2, <1>3, <1>4

\* Only the reader itself and the end of the process touch a reader.
LEMMA ReaderFrame ==
    ASSUME IInv, Next
    PROVE  Reading \/ (ProcessGone /\ UNCHANGED disk) \/ UNCHANGED rd
<1> USE DEF disk, process, writer, compactor
<1>1. Writing => UNCHANGED rd
  BY Zenon DEF Writing, Write, LogFails, Apply, Flush, FlushTake, FlushCreate, FlushInstall,
     FlushCommit, FlushRotate, FlushReopen, FlushFail, RotateFail
<1>2. Compacting => UNCHANGED rd
  BY Zenon DEF Compacting, CompactWake, CompactSnapshot, CompactAlloc, CompactCreate,
     CompactInstall, CompactSwap, CompactDrop, CompactFail
<1>3. Lifecycle => (ProcessGone /\ UNCHANGED disk) \/ UNCHANGED rd
  BY ClosedKeeps, Zenon
     DEF Lifecycle, OpenLoad, OpenReclaimTmp, OpenReclaimRun, OpenReplay, Close, Crash
<1>4. QED
  BY <1>1, <1>2, <1>3 DEF Next

LEMMA ReadsStep ==
    ASSUME IInv, Data, Next
    PROVE  Reads'
<1>0. Reads /\ rd \in [Readers -> Reader]
  BY DEF Data, IInv, TypeOK
<1>1. CASE UNCHANGED rd
  BY <1>0, <1>1, Zenon DEF Reads
<1>2. CASE ProcessGone
  BY <1>2, Zenon DEF ProcessGone, Reads, IdleReader
<1>3. CASE Reading
  <2>1. PICK r \in Readers :
            \/ \E k \in Keys : GetBegin(r, k)
            \/ GetStep(r)
            \/ \E K \in Ranges : ScanBegin(r, K)
            \/ ScanMerge(r)
            \/ ReadEnd(r)
    BY <1>3 DEF Reading
  <2>2. rd[r] \in Reader
    BY <1>0, Zenon
  <2>3. \A q \in Readers : q # r => rd'[q] = rd[q]
    BY <1>0, <2>1, Zenon DEF GetBegin, GetStep, ScanBegin, ScanMerge, ReadEnd
  <2>4. SUFFICES /\ rd'[r].pc = "idle" => rd'[r] = IdleReader
                 /\ rd'[r].pc = "get" => \E k \in Keys : rd'[r].keys = {k}
    BY <1>0, <2>3, Zenon DEF Reads
  <2>5. ASSUME NEW k \in Keys, GetBegin(r, k)
        PROVE  rd'[r].pc \in {"get", "done"} /\ rd'[r].keys = {k}
    BY <1>0, <2>5, Zenon DEF GetBegin
  <2>6. CASE GetStep(r)
    <3>1. rd'[r].pc \in {"get", "done"} /\ rd'[r].keys = rd[r].keys /\ rd[r].pc = "get"
      BY <1>0, <2>2, <2>6 DEF GetStep, Reader
    <3>2. QED
      BY <1>0, <3>1 DEF Reads
  <2>7. ASSUME NEW K \in Ranges, ScanBegin(r, K) PROVE rd'[r].pc = "scan"
    BY <1>0, <2>7 DEF ScanBegin
  <2>8. CASE ScanMerge(r)
    <3>1. rd'[r].pc = "done"
      BY <1>0, <2>2, <2>8 DEF ScanMerge, Reader
    <3>2. QED
      BY <3>1
  <2>9. CASE ReadEnd(r)
    <3>1. rd'[r] = IdleReader
      BY <1>0, <2>9 DEF ReadEnd
    <3>2. IdleReader.pc = "idle"
      BY DEF IdleReader
    <3>3. QED
      BY <3>1, <3>2, Zenon
  <2>10. QED
    BY <2>1, <2>5, <2>6, <2>7, <2>8, <2>9, Zenon
<1>4. QED
  BY <1>1, <1>2, <1>3, ReaderFrame

\* The data invariant holds in every reachable state.
LEMMA DataStep ==
    ASSUME IInv, IInv', Data, [Next]_vars
    PROVE  Data'
<1>1. CASE Next
  BY <1>1, BuffersStep, LoggedStep, MergedStep, ReadsStep DEF Data
<1>2. CASE UNCHANGED vars
  BY <1>2, Zenon DEF vars, disk, process, writer, compactor, Data, Buffers, Logged, Merged, Reads,
     Contents
<1>3. QED
  BY <1>1, <1>2

LEMMA DataInvariance == Spec => []Data
<1>1. IInv /\ IInv' /\ Data /\ [Next]_vars => Data'
  BY DataStep
<1>2. QED
  BY Invariance, DataInit, <1>1, PTL DEF Spec

-------------------------------------------------------------------------------
(* Nothing is left behind.                                                 *)

\* The runs whose file has its name and that no list names yet, and the
\* temporary files being written.
Uncommitted == (IF wpc = "commit" THEN {wseq} ELSE {})
               \cup (IF cpc = "swap" THEN {cseq} ELSE {})
BeingWritten == (IF wpc = "install" THEN {wseq} ELSE {})
                \cup (IF cpc = "merge" THEN {cseq} ELSE {})

\* Once the directory is reclaimed, every file in it is in use, obsolete or being
\* written.
Accounted ==
    Recovered => /\ files \subseteq Range(runs) \cup obsolete \cup Uncommitted
                 /\ tmp \subseteq BeingWritten

LEMMA LeaksInit == Init => Accounted
BY DEF Init, Accounted, Recovered

LEMMA AccountedStep ==
    ASSUME IInv, Accounted, Next, {"flush", "compact", "unlink"} \cap Faults = {}
    PROVE  Accounted'
<1> USE DEF disk, process, writer, compactor
<1>0. Control /\ phase \in Phases
  BY DEF IInv, TypeOK
<1>1. CASE Writing
  <2>0. phase \notin {"down", "reclaim"}
    BY <1>0, <1>1, Zenon
       DEF Control, Writing, Write, LogFails, Apply, Flush, FlushTake, FlushCreate, FlushInstall,
       FlushCommit, FlushRotate, FlushReopen, FlushFail, RotateFail
  <2>1. Recovered
    BY <1>0, <2>0 DEF Recovered, Phases
  <2>2. ASSUME UNCHANGED <<files, tmp, runs, obsolete, cpc, cseq>>,
               wpc \notin {"commit", "install"}
        PROVE  Accounted'
    BY <2>1, <2>2, Zenon DEF Accounted, Uncommitted, BeingWritten
  <2>3. ASSUME NEW b \in Batches, Write(b) \/ LogFails(b) PROVE Accounted'
    BY <2>2, <2>3 DEF Write, LogFails
  <2>4. CASE Apply \/ Flush \/ FlushTake \/ FlushRotate \/ RotateFail
    BY <2>2, <2>4, Zenon DEF Apply, Flush, FlushTake, FlushRotate, RotateFail
  <2>5. CASE FlushReopen
    <3>1. /\ wpc = "reopen" /\ wpc' = "idle" /\ UNCHANGED <<files, tmp, runs, obsolete, cseq>>
          /\ cpc' \in {"wait", cpc}
          /\ cpc = "off" \/ cpc' = cpc
      BY <2>5, Zenon DEF FlushReopen, IInv, Dropping
    <3>2. QED
      BY <2>1, <3>1, Zenon DEF Accounted, Uncommitted, BeingWritten
  <2>6. CASE FlushCreate
    BY <2>1, <2>6, Zenon DEF FlushCreate, Accounted, Uncommitted, BeingWritten
  <2>7. CASE FlushInstall
    BY <2>1, <2>7 DEF FlushInstall, Accounted, Uncommitted, BeingWritten
  <2>8. CASE FlushCommit
    <3>1. /\ wpc = "commit" /\ wpc' = "rotate" /\ UNCHANGED <<files, tmp, obsolete, cpc, cseq>>
          /\ runs' = <<wseq>> \o runs /\ runs \in Seq(Seqs) /\ wseq \in Seqs
      BY <2>8, Zenon DEF FlushCommit, NewRuns, IInv, TypeOK
    <3>2. Range(runs') = {wseq} \cup Range(runs)
      BY <3>1, PrependRange
    <3>3. QED
      BY <2>1, <3>1, <3>2, Zenon DEF Accounted, Uncommitted, BeingWritten
  <2>9. ~FlushFail
    BY DEF FlushFail
  <2>10. QED
    BY <1>1, <2>3, <2>4, <2>5, <2>6, <2>7, <2>8, <2>9 DEF Writing
<1>2. CASE Reading
  <2>1. PICK r \in Readers :
            \/ \E k \in Keys : GetBegin(r, k)
            \/ GetStep(r)
            \/ \E K \in Ranges : ScanBegin(r, K)
            \/ ScanMerge(r)
            \/ ReadEnd(r)
    BY <1>2 DEF Reading
  <2>2. UNCHANGED <<phase, runs, tmp, wpc, wseq, cpc, cseq>>
    BY <2>1, Zenon DEF GetBegin, GetStep, ScanBegin, ScanMerge, ReadEnd
  <2>3. CASE UNCHANGED <<files, obsolete>>
    BY <2>2, <2>3 DEF Accounted, Recovered, Uncommitted, BeingWritten
  <2>4. CASE ReadEnd(r)
    <3>1. files' \subseteq files /\ files' \cap obsolete \subseteq obsolete'
      <4>1. PICK gone : files' = files \ (gone \ {}) /\ obsolete' = obsolete \ gone
                        /\ gone \subseteq obsolete
        BY <2>4, Zenon DEF ReadEnd, Release, Unlink
      <4>2. QED
        BY <4>1
    <3>2. QED
      BY <2>2, <3>1 DEF Accounted, Recovered, Uncommitted, BeingWritten
  <2>5. QED
    BY <2>1, <2>3, <2>4, Zenon DEF GetBegin, GetStep, ScanBegin, ScanMerge
<1>3. CASE Compacting
  <2>0. phase' = phase /\ UNCHANGED <<wpc, wseq>>
    BY <1>3, Zenon DEF Compacting, CompactWake, CompactSnapshot, CompactAlloc,
       CompactCreate, CompactInstall, CompactSwap, CompactDrop, CompactFail
  <2>1. CASE CompactWake \/ CompactSnapshot \/ CompactAlloc
    BY <2>0, <2>1, Zenon DEF CompactWake, CompactSnapshot, CompactAlloc, Accounted, Recovered,
       Uncommitted, BeingWritten
  <2>2. CASE CompactCreate
    <3>1. /\ cpc = "create" /\ cpc' = "merge" /\ tmp' = tmp \cup {cseq}
          /\ UNCHANGED <<files, runs, obsolete, cseq>>
      BY <2>2 DEF CompactCreate
    <3>2. Uncommitted' = Uncommitted /\ BeingWritten' = BeingWritten \cup {cseq}
      BY <2>0, <3>1 DEF Uncommitted, BeingWritten
    <3>3. QED
      BY <2>0, <3>1, <3>2 DEF Accounted, Recovered
  <2>3. CASE CompactInstall
    <3>1. /\ cpc = "merge" /\ cpc' = "swap" /\ tmp' = tmp \ {cseq}
          /\ files' = files \cup {cseq} /\ UNCHANGED <<runs, obsolete, cseq>>
      BY <2>3 DEF CompactInstall
    <3>2. Uncommitted' = Uncommitted \cup {cseq} /\ BeingWritten = BeingWritten' \cup {cseq}
      BY <2>0, <3>1 DEF Uncommitted, BeingWritten
    <3>3. QED
      BY <2>0, <3>1, <3>2 DEF Accounted, Recovered
  <2>4. CASE CompactSwap
    <3>1. /\ cpc = "swap" /\ cpc' = "drop" /\ obsolete' = obsolete \cup Range(cin)
          /\ runs' = Append(Survivors(runs, cin), cseq) /\ UNCHANGED <<files, tmp>>
      BY <2>4 DEF CompactSwap
    <3>2. mruns = runs
      BY <1>0, <3>1, Zenon DEF Control
    <3>3. /\ Suffix(cin, runs) /\ IsInjective(runs)
          /\ runs \in Seq(Seqs) /\ cin \in Seq(Seqs) /\ cseq \in Seqs
      BY <3>1, <3>2, Zenon DEF IInv, TypeOK, InputsAreOldest, Suffix
    <3>4. Range(runs) \cup {cseq} \subseteq Range(runs') \cup Range(cin)
      BY <3>1, <3>3, SwapRange, Zenon
    <3>5. QED
      BY <2>0, <3>1, <3>4 DEF Accounted, Recovered, Uncommitted, BeingWritten
  <2>5. CASE CompactDrop
    <3>1. files' \subseteq files /\ files' \cap obsolete \subseteq obsolete'
      <4>1. PICK gone : files' = files \ (gone \ {}) /\ obsolete' = obsolete \ gone
                        /\ gone \subseteq obsolete
        BY <2>5, Zenon DEF CompactDrop, Release, Unlink
      <4>2. QED
        BY <4>1, Zenon
    <3>2. cpc = "drop" /\ cpc' = "wait" /\ UNCHANGED <<runs, tmp, cseq>>
      BY <2>5 DEF CompactDrop
    <3>3. QED
      BY <2>0, <3>1, <3>2 DEF Accounted, Recovered, Uncommitted, BeingWritten
  <2>6. ~CompactFail
    BY DEF CompactFail
  <2>7. QED
    BY <1>3, <2>1, <2>2, <2>3, <2>4, <2>5, <2>6 DEF Compacting
<1>4. CASE Lifecycle
  <2>1. CASE OpenReplay
    <3>1. files \subseteq Range(runs) /\ tmp = {} /\ UNCHANGED <<files, tmp, runs, obsolete>>
      BY <2>1, Zenon DEF OpenReplay, Orphans
    <3>2. QED
      BY <3>1, Zenon DEF Accounted
  <2>2. CASE Close
    BY <2>2 DEF Close, Accounted, Recovered, Uncommitted, BeingWritten
  <2>3. Lifecycle => OpenReplay \/ Close \/ ~Recovered'
    BY Zenon DEF Lifecycle, OpenLoad, OpenReclaimTmp, OpenReclaimRun, Closed, Crash, ProcessGone,
       Recovered
  <2>4. QED
    BY <1>4, <2>1, <2>2, <2>3 DEF Accounted
<1>5. QED
  BY <1>1, <1>2, <1>3, <1>4 DEF Next

LEMMA LeaksStep ==
    ASSUME IInv, Accounted, [Next]_vars, {"flush", "compact", "unlink"} \cap Faults = {}
    PROVE  Accounted'
<1>1. CASE Next
  BY <1>1, AccountedStep
<1>2. CASE UNCHANGED vars
  <2>1. UNCHANGED <<files, tmp, phase, runs, obsolete, wpc, wseq, cpc, cseq>>
    BY <1>2 DEF vars, disk, process, writer, compactor
  <2>2. QED
    BY <2>1 DEF Accounted, Recovered, Uncommitted, BeingWritten
<1>3. QED
  BY <1>1, <1>2

LEMMA LeaksNothing ==
    ASSUME IInv, Accounted
    PROVE  NothingLeaked
<1> SUFFICES ASSUME Quiet PROVE files = Range(runs) /\ tmp = {}
  BY DEF NothingLeaked
<1>1. Range(<<>>) = {}
  BY DEF Range
<1>2. cin = <<>> /\ \A r \in Readers : rd[r].snap = <<>>
  BY DEF Quiet, IInv, Dropping
<1>3. Referenced = Range(runs)
  BY <1>1, <1>2 DEF Referenced, HeldByReaders
<1>4. Range(runs) \subseteq files /\ obsolete \subseteq Range(runs)
  BY <1>3, Zenon DEF IInv, ReferencedRunsExist, Dropping
<1>5. /\ files \subseteq Range(runs) \cup obsolete \cup Uncommitted
      /\ tmp \subseteq BeingWritten /\ Uncommitted = {} /\ BeingWritten = {}
  BY DEF Accounted, Recovered, Quiet, Uncommitted, BeingWritten
<1>6. QED
  BY <1>4, <1>5

\* As long as no flush, no compaction and no removal of a file fails, nothing is
\* left behind, by crashes at any step included: when the store is quiet, the
\* directory holds the runs in use and no temporary file (the scan of the
\* directory in db.rs:194-215, Drop for SsTable in sstable.rs:294-305).  A log that
\* fails and a read that fails make no difference.
THEOREM NothingIsLeaked ==
    ASSUME {"flush", "compact", "unlink"} \cap Faults = {}
    PROVE  Spec => []NothingLeaked
<1>1. IInv /\ Accounted /\ [Next]_vars => Accounted'
  BY LeaksStep
<1>2. IInv /\ Accounted => NothingLeaked
  BY LeaksNothing
<1>3. QED
  BY Invariance, LeaksInit, <1>1, <1>2, PTL DEF Spec
===============================================================================
