---------------------------- MODULE SidecarProofs -----------------------------
(***************************************************************************)
(* For every set of keys and any number of runs: a filter never hides a    *)
(* key of its run.  A sidecar is found by the number of its run, so this   *)
(* rests on no number being used again while a sidecar of an earlier use   *)
(* is still there.                                                         *)
(***************************************************************************)
EXTENDS Sidecars, TLAPS

Filters == (SUBSET Keys) \cup {None}
Contents == (SUBSET Keys) \cup {None, Damaged}

JobSet == [pc: {"idle", "install", "sidecar", "rename", "commit"}, seq: Nat,
           keys: SUBSET Keys, inputs: SUBSET Seqs, filter: Filters]

Types ==
    /\ run \in [Seqs -> Filters]
    /\ side \in [Seqs -> Contents]
    /\ manifest \in [runs: SUBSET Seqs, next_seq: Nat]
    /\ proc \in {"down", "reclaim", "up"}
    /\ live \subseteq Seqs
    /\ filter \in [Seqs -> Filters]
    /\ next_seq \in Nat
    /\ job \in [Writers -> JobSet]
    /\ obsolete \in [Seqs -> {"no", "run", "sidecar"}]

\* On disk: the runs of the manifest exist and their numbers are not handed out
\* again; a sidecar that passes its envelope covers its run.
DiskSound ==
    /\ \A n \in manifest.runs : n < manifest.next_seq /\ run[n] # None
    /\ \A n \in Seqs : run[n] # None /\ side[n] \notin {None, Damaged} => run[n] \subseteq side[n]

\* In memory.
LiveSound ==
    /\ proc = "down" => live = {}
    /\ proc # "down" => live = manifest.runs /\ manifest.next_seq <= next_seq
    /\ proc # "up" => /\ \A w \in Writers : job[w].pc = "idle"
                      /\ \A n \in Seqs : obsolete[n] = "no"
    /\ NoFalseNegative

\* Sidecars with a number that is free, or that recovery still has to make free.
Fresh ==
    /\ proc = "reclaim" =>
          \A n \in Seqs : n \notin live /\ side[n] # None => <<"bloom", n>> \in todo
    /\ proc = "up" => \A n \in Seqs : n >= next_seq => side[n] = None

\* A job has a number of its own, whose sidecar is the one it writes.
JobsSound ==
    \A w \in Writers : job[w].pc # "idle" =>
        /\ job[w].seq \in Seqs /\ job[w].seq < next_seq
        /\ job[w].seq \notin live /\ obsolete[job[w].seq] = "no"
        /\ job[w].inputs \subseteq live /\ (w = "flush" => job[w].inputs = {})
        /\ \A v \in Writers \ {w} : job[v].pc # "idle" => job[v].seq # job[w].seq
        /\ job[w].filter # None => job[w].keys \subseteq job[w].filter
        /\ job[w].pc = "install" => side[job[w].seq] = None
        /\ job[w].pc # "install" => run[job[w].seq] = job[w].keys

\* Superseded runs are not live.
ObsoleteSound == \A n \in Seqs : obsolete[n] # "no" => n \notin live /\ n < next_seq

SideInv == Types /\ DiskSound /\ LiveSound /\ Fresh /\ JobsSound /\ ObsoleteSound
-------------------------------------------------------------------------------
(* Opening and ending.                                                     *)

LEMMA SeqsNat == Seqs \subseteq Nat
<1>1. MaxSeq \in Nat
  BY SidecarAssumption
<1>2. QED
  BY <1>1 DEF Seqs

LEMMA NoneType == None \in Filters /\ None \in Contents
BY DEF Filters, Contents

LEMMA IdleType == Idle \in JobSet
<1>1. {} \in SUBSET Keys /\ {} \in SUBSET Seqs
  OBVIOUS
<1>2. QED
  BY <1>1, NoneType DEF Idle, JobSet

LEMMA SideInit == Init => SideInv
<1> SUFFICES ASSUME Init
             PROVE  SideInv
  OBVIOUS
<1>1. Types
  BY IdleType, NoneType DEF Init, Types
<1>2. DiskSound /\ Fresh /\ ObsoleteSound
  BY DEF Init, DiskSound, Fresh, ObsoleteSound
<1>3. LiveSound /\ JobsSound
  BY DEF Init, LiveSound, JobsSound, NoFalseNegative, Idle
<1>4. QED
  BY <1>1, <1>2, <1>3 DEF SideInv

LEMMA CrashStep == SideInv /\ Crash => SideInv'
<1> SUFFICES ASSUME SideInv, Crash
             PROVE  SideInv'
  OBVIOUS
<1>1. Types'
  BY IdleType, NoneType DEF SideInv, Types, Crash, NoProcess, disk
<1>2. DiskSound' /\ Fresh' /\ ObsoleteSound'
  BY DEF SideInv, Crash, NoProcess, disk, DiskSound, Fresh, ObsoleteSound
<1>3. LiveSound' /\ JobsSound'
  BY DEF SideInv, Crash, NoProcess, disk, LiveSound, JobsSound, NoFalseNegative, Idle
<1>4. QED
  BY <1>1, <1>2, <1>3 DEF SideInv

\* A sidecar that opening takes for a filter covers its run.
LEMMA OpenRunsStep ==
    ASSUME SideInv, NEW b \in Builds, OpenRuns(b)
    PROVE  SideInv'
<1> DEFINE kept == [n \in Seqs |-> IF b /\ n \in Discarded THEN None ELSE side[n]]
<1>1. Types /\ DiskSound /\ LiveSound /\ JobsSound /\ ObsoleteSound
  BY DEF SideInv
<1>2. /\ proc = "down" /\ proc' = "reclaim" /\ side' = kept
      /\ live' = manifest.runs /\ next_seq' = manifest.next_seq
      /\ filter' = [n \in Seqs |-> IF n \in manifest.runs THEN Loaded(b, n) ELSE None]
      /\ todo' = {<<"tmp", n>> : n \in tmps}
                 \cup {<<"bloom", n>> : n \in {n \in Seqs : kept[n] # None}}
                 \cup {<<"run", n>> : n \in {n \in Seqs : run[n] # None}}
      /\ UNCHANGED <<run, tmps, manifest, job, obsolete>>
  BY DEF OpenRuns
<1>3. \A n \in Seqs : side'[n] \in {side[n], None}
  BY <1>2
<1>4. ASSUME NEW n \in Seqs
      PROVE  Loaded(b, n) \in Filters
  <2>1. side[n] \in Contents
    BY <1>1 DEF Types
  <2>2. side[n] # Damaged => side[n] \in Filters
    BY <2>1 DEF Contents, Filters
  <2>3. QED
    BY <2>2, NoneType DEF Loaded
<1>5. Types'
  <2>1. side' \in [Seqs -> Contents]
    BY <1>1, <1>2, NoneType DEF Types
  <2>2. filter' \in [Seqs -> Filters]
    BY <1>2, <1>4, NoneType
  <2>3. manifest.runs \subseteq Seqs /\ manifest.next_seq \in Nat
    BY <1>1 DEF Types
  <2>4. QED
    BY <1>1, <1>2, <2>1, <2>2, <2>3 DEF Types
<1>6. DiskSound'
  BY <1>1, <1>2, <1>3 DEF DiskSound
<1>7. NoFalseNegative'
  <2>1. SUFFICES ASSUME NEW n \in manifest.runs, filter'[n] # None
                 PROVE  run[n] \subseteq filter'[n]
    BY <1>2, Zenon DEF NoFalseNegative
  <2>2. n \in Seqs
    BY <1>1 DEF Types
  <2>3. filter'[n] = Loaded(b, n)
    BY <1>2, <2>2
  <2>4. filter'[n] = side[n] /\ side[n] # Damaged
    BY <2>1, <2>3 DEF Loaded
  <2>5. QED
    BY <1>1, <2>1, <2>2, <2>4 DEF DiskSound
<1>8. LiveSound'
  <2>1. manifest.next_seq \in Nat
    BY <1>1 DEF Types
  <2>2. QED
    BY <1>1, <1>2, <1>7, <2>1 DEF LiveSound
<1>9. Fresh'
  BY <1>2 DEF Fresh
<1>10. JobsSound' /\ ObsoleteSound'
  BY <1>1, <1>2 DEF LiveSound, JobsSound, ObsoleteSound
<1>11. QED
  BY <1>5, <1>6, <1>8, <1>9, <1>10 DEF SideInv

\* Recovery removes only what is not live.
LEMMA ReclaimStep ==
    ASSUME SideInv, NEW kind \in {"tmp", "bloom", "run"}, NEW n \in Seqs, Reclaim(kind, n)
    PROVE  SideInv'
<1>1. Types /\ DiskSound /\ LiveSound /\ Fresh /\ JobsSound /\ ObsoleteSound
  BY DEF SideInv
<1>2. /\ proc = "reclaim" /\ todo' = todo \ {<<kind, n>>}
      /\ next_seq' \in {n + 1, next_seq} /\ (next_seq' # next_seq => n >= next_seq)
      /\ side' = IF kind = "bloom" /\ n \notin live THEN [side EXCEPT ![n] = None] ELSE side
      /\ run' = IF kind = "run" /\ n \notin live THEN [run EXCEPT ![n] = None] ELSE run
      /\ UNCHANGED <<manifest, proc, live, filter, job, obsolete>>
  BY DEF Reclaim, Removed
<1>3. n \in Nat /\ next_seq \in Nat /\ manifest.next_seq \in Nat
  BY <1>1, SeqsNat DEF Types
<1>4. next_seq' \in Nat /\ next_seq <= next_seq'
  BY <1>2, <1>3
<1>5. Types'
  BY <1>1, <1>2, <1>4, NoneType DEF Types
<1>6. /\ \A i \in Seqs : run'[i] # run[i] => i \notin live /\ run'[i] = None
      /\ \A i \in Seqs : side'[i] # side[i] => i = n /\ kind = "bloom" /\ side'[i] = None
  BY <1>1, <1>2 DEF Types
<1>7. DiskSound'
  <2>1. manifest.runs \subseteq Seqs /\ live = manifest.runs
    BY <1>1, <1>2 DEF Types, LiveSound
  <2>2. \A i \in manifest.runs : i < manifest.next_seq /\ run'[i] # None
    BY <1>1, <1>6, <2>1 DEF DiskSound
  <2>3. \A i \in Seqs : run'[i] # None /\ side'[i] \notin {None, Damaged} => run'[i] \subseteq side'[i]
    BY <1>1, <1>6 DEF DiskSound
  <2>4. QED
    BY <1>2, <2>2, <2>3 DEF DiskSound
<1>8. LiveSound'
  <2>1. NoFalseNegative'
    BY <1>1, <1>2, <1>6 DEF LiveSound, NoFalseNegative, Types
  <2>2. manifest.next_seq <= next_seq'
    BY <1>1, <1>2, <1>3, <1>4 DEF LiveSound
  <2>3. QED
    BY <1>1, <1>2, <2>1, <2>2 DEF LiveSound
<1>9. Fresh'
  <2>1. \A i \in Seqs : i \notin live /\ side'[i] # None => <<"bloom", i>> \in todo'
    <3>1. SUFFICES ASSUME NEW i \in Seqs, i \notin live, side'[i] # None
                   PROVE  <<"bloom", i>> \in todo'
      OBVIOUS
    <3>2. side'[i] = side[i] /\ <<"bloom", i>> \in todo
      BY <1>1, <1>2, <1>6, <3>1 DEF Fresh
    <3>3. ~(kind = "bloom" /\ n = i)
      BY <1>1, <1>2, <3>1 DEF Types
    <3>4. QED
      BY <1>2, <3>2, <3>3
  <2>2. QED
    BY <1>2, <2>1 DEF Fresh
<1>10. JobsSound' /\ ObsoleteSound'
  BY <1>1, <1>2 DEF LiveSound, JobsSound, ObsoleteSound
<1>11. QED
  BY <1>5, <1>7, <1>8, <1>9, <1>10 DEF SideInv

\* Once the directory has been read, every number from next_seq on is free.
LEMMA OpenedStep == SideInv /\ Opened => SideInv'
<1> SUFFICES ASSUME SideInv, Opened
             PROVE  SideInv'
  OBVIOUS
<1>1. Types /\ DiskSound /\ LiveSound /\ Fresh /\ JobsSound /\ ObsoleteSound
  BY DEF SideInv
<1>2. /\ proc = "reclaim" /\ todo = {} /\ proc' = "up"
      /\ UNCHANGED <<run, side, tmps, manifest, bloom, todo, live, filter, next_seq, job,
                     obsolete>>
  BY DEF Opened, disk
<1>3. Types' /\ DiskSound' /\ JobsSound' /\ ObsoleteSound'
  BY <1>1, <1>2 DEF Types, DiskSound, JobsSound, ObsoleteSound
<1>4. LiveSound'
  BY <1>1, <1>2 DEF LiveSound, NoFalseNegative
<1>5. Fresh'
  <2>1. SUFFICES ASSUME NEW n \in Seqs, n >= next_seq, side[n] # None
                 PROVE  FALSE
    BY <1>2 DEF Fresh
  <2>2. n \in live
    BY <1>1, <1>2, <2>1 DEF Fresh
  <2>3. n < manifest.next_seq /\ manifest.next_seq <= next_seq
    BY <1>1, <1>2, <2>2 DEF LiveSound, DiskSound
  <2>4. n \in Nat /\ next_seq \in Nat /\ manifest.next_seq \in Nat
    BY <1>1, SeqsNat DEF Types
  <2>5. QED
    BY <2>1, <2>3, <2>4
<1>6. QED
  BY <1>3, <1>4, <1>5 DEF SideInv
-------------------------------------------------------------------------------
(* Flush and compaction.                                                   *)

\* A new job takes a number nobody has and whose sidecar does not exist.
LEMMA StartStep ==
    ASSUME SideInv, NEW w \in Writers, NEW K \in SUBSET Keys, NEW inputs,
           inputs \subseteq live, w = "flush" => inputs = {},
           NEW f \in Filters, StartJob(w, K, inputs, f)
    PROVE  SideInv'
<1> DEFINE j == [pc |-> "install", seq |-> next_seq, keys |-> K, inputs |-> inputs,
                 filter |-> f]
<1>1. Types /\ DiskSound /\ LiveSound /\ Fresh /\ JobsSound /\ ObsoleteSound
  BY DEF SideInv
<1>2. /\ proc = "up" /\ job[w].pc = "idle"
      /\ next_seq < MaxSeq /\ next_seq' = next_seq + 1 /\ (f # None => K \subseteq f)
      /\ job' = [job EXCEPT ![w] = j]
      /\ UNCHANGED <<run, side, manifest, proc, live, filter, obsolete>>
  BY DEF StartJob, Built, disk
<1>3. /\ next_seq \in Nat /\ next_seq \in Seqs /\ manifest.next_seq \in Nat
      /\ Seqs \subseteq Nat
  <2>1. MaxSeq \in Nat
    BY SidecarAssumption
  <2>2. next_seq \in Nat /\ manifest.next_seq \in Nat
    BY <1>1 DEF Types
  <2>3. QED
    BY <1>2, <2>1, <2>2, SeqsNat DEF Seqs
<1>4. j \in JobSet
  <2>1. inputs \in SUBSET Seqs
    BY <1>1 DEF Types
  <2>2. QED
    BY <1>3, <2>1 DEF JobSet
<1>5. /\ j.pc = "install" /\ j.seq = next_seq /\ j.keys = K /\ j.inputs = inputs
      /\ j.filter # None => j.keys \subseteq j.filter
  BY <1>2
<1> HIDE DEF j
<1>6. job'[w] = j /\ \A v \in Writers \ {w} : job'[v] = job[v]
  BY <1>1, <1>2 DEF Types
<1>7. Types'
  <2>1. job' \in [Writers -> JobSet]
    BY <1>1, <1>2, <1>4 DEF Types
  <2>2. next_seq' \in Nat
    BY <1>2, <1>3
  <2>3. QED
    BY <1>1, <1>2, <2>1, <2>2 DEF Types
<1>8. DiskSound'
  BY <1>1, <1>2 DEF DiskSound
<1>9. LiveSound'
  BY <1>1, <1>2, <1>3 DEF LiveSound, NoFalseNegative
<1>10. Fresh'
  BY <1>1, <1>2, <1>3 DEF Fresh
<1>11. ObsoleteSound'
  BY <1>1, <1>2, <1>3 DEF ObsoleteSound
<1>12. JobsSound'
  <2>1. /\ next_seq \notin live /\ obsolete[next_seq] = "no" /\ side[next_seq] = None
        /\ next_seq < next_seq'
    <3>1. ASSUME NEW n \in live
          PROVE  n < manifest.next_seq /\ manifest.next_seq <= next_seq /\ n \in Nat
      <4>1. n \in Seqs
        BY <1>1 DEF Types
      <4>2. QED
        BY <1>1, <1>2, <1>3, <4>1 DEF LiveSound, DiskSound
    <3>2. next_seq \notin live
      BY <1>3, <3>1
    <3>3. obsolete[next_seq] = "no"
      BY <1>1, <1>3 DEF ObsoleteSound
    <3>4. side[next_seq] = None
      BY <1>1, <1>2, <1>3 DEF Fresh
    <3>5. QED
      BY <1>2, <1>3, <3>2, <3>3, <3>4
  <2>2. \A v \in Writers \ {w} : job[v].pc # "idle" => /\ job[v].seq \in Nat
                                                        /\ job[v].seq < next_seq
                                                        /\ job[v].seq # next_seq
                                                        /\ job[v].seq < next_seq'
    <3>1. SUFFICES ASSUME NEW v \in Writers \ {w}, job[v].pc # "idle"
                   PROVE  /\ job[v].seq \in Nat /\ job[v].seq < next_seq
                          /\ job[v].seq # next_seq /\ job[v].seq < next_seq'
      OBVIOUS
    <3>2. job[v].seq \in Seqs /\ job[v].seq < next_seq
      BY <1>1, <3>1 DEF JobsSound
    <3>3. job[v].seq \in Nat /\ next_seq \in Nat /\ next_seq' = next_seq + 1
      BY <1>2, <1>3, <3>2, Zenon
    <3>4. QED
      BY <3>2, <3>3
  <2>3. ASSUME NEW v \in Writers, v # w, job[v].pc # "idle"
        PROVE  /\ job[v].seq \in Seqs
               /\ job[v].seq \notin live /\ obsolete[job[v].seq] = "no"
               /\ job[v].inputs \subseteq live /\ (v = "flush" => job[v].inputs = {})
               /\ \A u \in Writers \ {v} : job[u].pc # "idle" => job[u].seq # job[v].seq
               /\ job[v].filter # None => job[v].keys \subseteq job[v].filter
               /\ job[v].pc = "install" => side[job[v].seq] = None
               /\ job[v].pc # "install" => run[job[v].seq] = job[v].keys
    BY <1>1, <2>3 DEF JobsSound
  <2>4. QED
    BY <1>2, <1>3, <1>5, <1>6, <2>1, <2>2, <2>3 DEF JobsSound
<1>13. QED
  BY <1>7, <1>8, <1>9, <1>10, <1>11, <1>12 DEF SideInv

\* What is known of a job under way.
LEMMA JobFacts ==
    ASSUME SideInv, NEW w \in Writers, job[w].pc # "idle"
    PROVE  /\ proc = "up" /\ job[w] \in JobSet
           /\ job[w].seq \in Seqs /\ job[w].seq < next_seq
           /\ job[w].seq \notin live /\ live = manifest.runs
           /\ \A v \in Writers : v # w /\ job[v].pc # "idle" => job[v].seq # job[w].seq
<1>1. proc = "up"
  BY DEF SideInv, LiveSound
<1>2. job[w] \in JobSet
  BY DEF SideInv, Types
<1>3. QED
  BY <1>1, <1>2 DEF SideInv, LiveSound, JobsSound

LEMMA InstallStep ==
    ASSUME SideInv, NEW w \in Writers, InstallRun(w)
    PROVE  SideInv'
<1> DEFINE n == job[w].seq
           p == IF job[w].filter = None THEN "commit" ELSE "sidecar"
<1>1. Types /\ DiskSound /\ LiveSound /\ Fresh /\ JobsSound /\ ObsoleteSound
  BY DEF SideInv
<1>2. /\ job[w].pc = "install" /\ run' = [run EXCEPT ![n] = job[w].keys]
      /\ job' = [job EXCEPT ![w].pc = p]
      /\ UNCHANGED <<side, manifest, proc, live, filter, next_seq, obsolete>>
  BY DEF InstallRun, At, Goto
<1>3. /\ n \in Seqs /\ n \notin live /\ live = manifest.runs /\ job[w] \in JobSet
      /\ \A v \in Writers : v # w /\ job[v].pc # "idle" => job[v].seq # n
      /\ side[n] = None
  BY <1>1, <1>2, JobFacts DEF JobsSound
<1>4. job[w].keys \in Filters
  BY <1>3 DEF JobSet, Filters
<1>5. /\ run'[n] = job[w].keys /\ \A i \in Seqs : i # n => run'[i] = run[i]
  BY <1>1, <1>2, <1>3 DEF Types
<1>6. p \in {"sidecar", "commit"}
  OBVIOUS
<1> HIDE DEF p
<1>7. /\ job'[w] = [job[w] EXCEPT !.pc = p]
      /\ \A v \in Writers : v # w => job'[v] = job[v]
  BY <1>1, <1>2 DEF Types
<1>8. /\ job'[w].pc = p /\ job'[w].seq = n /\ job'[w].keys = job[w].keys
      /\ job'[w].inputs = job[w].inputs /\ job'[w].filter = job[w].filter
      /\ job'[w] \in JobSet
  BY <1>3, <1>6, <1>7 DEF JobSet
<1>9. Types'
  <2>1. job' \in [Writers -> JobSet]
    BY <1>1, <1>2, <1>7, <1>8 DEF Types
  <2>2. run' \in [Seqs -> Filters]
    BY <1>1, <1>2, <1>4, Zenon DEF Types
  <2>3. QED
    BY <1>1, <1>2, <2>1, <2>2 DEF Types
<1> HIDE DEF n
<1>10. DiskSound'
  BY <1>1, <1>2, <1>3, <1>5 DEF DiskSound, Types
<1>11. LiveSound'
  <2>1. NoFalseNegative'
    BY <1>1, <1>2, <1>3, <1>5 DEF LiveSound, NoFalseNegative, Types
  <2>2. QED
    BY <1>1, <1>2, <1>7, <2>1 DEF LiveSound, At, InstallRun
<1>12. Fresh' /\ ObsoleteSound'
  BY <1>1, <1>2 DEF Fresh, ObsoleteSound, At, InstallRun
<1>13. JobsSound'
  <2>1. ASSUME NEW v \in Writers, job'[v].pc # "idle"
        PROVE  /\ job[v].pc # "idle" /\ job'[v].seq = job[v].seq
               /\ job'[v].keys = job[v].keys /\ job'[v].inputs = job[v].inputs
               /\ job'[v].filter = job[v].filter
    BY <1>2, <1>7, <1>8, <2>1 DEF n
  <2>2. ASSUME NEW v \in Writers, job'[v].pc # "idle"
        PROVE  /\ job'[v].pc = "install" => side[job[v].seq] = None
               /\ job'[v].pc # "install" => run'[job[v].seq] = job[v].keys
    BY <1>1, <1>3, <1>5, <1>6, <1>7, <1>8, <2>1, <2>2 DEF JobsSound, n
  <2>3. QED
    BY <1>1, <1>2, <2>1, <2>2 DEF JobsSound
<1>14. QED
  BY <1>9, <1>10, <1>11, <1>12, <1>13 DEF SideInv

\* Writing the temporary changes nothing that is read.
LEMMA WriteSidecarStep ==
    ASSUME SideInv, NEW w \in Writers, WriteSidecar(w)
    PROVE  SideInv'
<1>1. Types /\ DiskSound /\ LiveSound /\ Fresh /\ JobsSound /\ ObsoleteSound
  BY DEF SideInv
<1>2. /\ proc = "up" /\ job[w].pc = "sidecar" /\ job' = [job EXCEPT ![w].pc = "rename"]
      /\ UNCHANGED <<run, side, manifest, proc, live, filter, next_seq, obsolete>>
  BY DEF WriteSidecar, At, Goto
<1>3. job[w] \in JobSet
  BY <1>2, JobFacts
<1>4. /\ job'[w] = [job[w] EXCEPT !.pc = "rename"]
      /\ \A v \in Writers : v # w => job'[v] = job[v]
  BY <1>1, <1>2 DEF Types
<1>5. /\ job'[w].pc = "rename" /\ job'[w].seq = job[w].seq /\ job'[w].keys = job[w].keys
      /\ job'[w].inputs = job[w].inputs /\ job'[w].filter = job[w].filter
      /\ job'[w] \in JobSet
  BY <1>3, <1>4 DEF JobSet
<1>6. Types'
  <2>1. job' \in [Writers -> JobSet]
    BY <1>1, <1>2, <1>4, <1>5 DEF Types
  <2>2. QED
    BY <1>1, <1>2, <2>1 DEF Types
<1>7. DiskSound' /\ LiveSound' /\ Fresh' /\ ObsoleteSound'
  BY <1>1, <1>2 DEF DiskSound, LiveSound, Fresh, ObsoleteSound, NoFalseNegative
<1>8. JobsSound'
  <2>1. ASSUME NEW v \in Writers, job'[v].pc # "idle"
        PROVE  /\ job[v].pc # "idle" /\ job'[v].seq = job[v].seq
               /\ job'[v].keys = job[v].keys /\ job'[v].inputs = job[v].inputs
               /\ job'[v].filter = job[v].filter
               /\ job'[v].pc = "install" <=> job[v].pc = "install"
    BY <1>2, <1>4, <1>5, <2>1
  <2>2. QED
    BY <1>1, <1>2, <2>1 DEF JobsSound
<1>9. QED
  BY <1>6, <1>7, <1>8 DEF SideInv

\* The sidecar that is put in place covers the run.
LEMMA RenameStep ==
    ASSUME SideInv, NEW w \in Writers, RenameSidecar(w)
    PROVE  SideInv'
<1> DEFINE n == job[w].seq
<1>1. Types /\ DiskSound /\ LiveSound /\ Fresh /\ JobsSound /\ ObsoleteSound
  BY DEF SideInv
<1>2. /\ proc = "up" /\ job[w].pc = "rename" /\ job' = [job EXCEPT ![w].pc = "commit"]
      /\ side' = [side EXCEPT ![n] = job[w].filter]
      /\ UNCHANGED <<run, manifest, proc, live, filter, next_seq, obsolete>>
  BY DEF RenameSidecar, At, Goto
<1>3. /\ n \in Seqs /\ n < next_seq /\ job[w] \in JobSet
      /\ \A v \in Writers : v # w /\ job[v].pc # "idle" => job[v].seq # n
      /\ run[n] = job[w].keys
      /\ job[w].filter # None => job[w].keys \subseteq job[w].filter
  BY <1>1, <1>2, JobFacts DEF JobsSound
<1>4. job[w].filter \in Contents
  BY <1>3 DEF JobSet, Filters, Contents
<1>5. side'[n] = job[w].filter /\ \A i \in Seqs : i # n => side'[i] = side[i]
  BY <1>1, <1>2, <1>3 DEF Types
<1>6. /\ job'[w] = [job[w] EXCEPT !.pc = "commit"]
      /\ \A v \in Writers : v # w => job'[v] = job[v]
  BY <1>1, <1>2 DEF Types
<1>7. /\ job'[w].pc = "commit" /\ job'[w].seq = n /\ job'[w].keys = job[w].keys
      /\ job'[w].inputs = job[w].inputs /\ job'[w].filter = job[w].filter
      /\ job'[w] \in JobSet
  BY <1>3, <1>6 DEF JobSet
<1>8. Types'
  <2>1. job' \in [Writers -> JobSet]
    BY <1>1, <1>2, <1>6, <1>7 DEF Types
  <2>2. side' \in [Seqs -> Contents]
    BY <1>1, <1>2, <1>4, Zenon DEF Types
  <2>3. QED
    BY <1>1, <1>2, <2>1, <2>2 DEF Types
<1> HIDE DEF n
<1>9. DiskSound'
  BY <1>1, <1>2, <1>3, <1>5 DEF DiskSound
<1>10. LiveSound' /\ ObsoleteSound'
  BY <1>1, <1>2 DEF LiveSound, ObsoleteSound, NoFalseNegative
<1>11. Fresh'
  <2>1. n \in Nat /\ next_seq \in Nat /\ ~(n >= next_seq)
    BY <1>1, <1>3, SeqsNat DEF Types
  <2>2. QED
    BY <1>1, <1>2, <1>5, <2>1 DEF Fresh
<1>12. JobsSound'
  <2>1. ASSUME NEW v \in Writers, job'[v].pc # "idle"
        PROVE  /\ job[v].pc # "idle" /\ job'[v].seq = job[v].seq
               /\ job'[v].keys = job[v].keys /\ job'[v].inputs = job[v].inputs
               /\ job'[v].filter = job[v].filter
               /\ job'[v].pc = "install" <=> job[v].pc = "install"
    BY <1>2, <1>6, <1>7, <2>1 DEF n
  <2>2. ASSUME NEW v \in Writers, job'[v].pc = "install"
        PROVE  side'[job[v].seq] = None
    <3>1. v # w /\ job[v].pc = "install"
      BY <1>6, <1>7, <2>2, Zenon
    <3>2. side[job[v].seq] = None /\ job[v].seq \in Seqs /\ job[v].seq # n
      BY <1>1, <1>3, <3>1 DEF JobsSound
    <3>3. QED
      BY <1>5, <3>2
  <2>3. QED
    BY <1>1, <1>2, <2>1, <2>2 DEF JobsSound
<1>13. QED
  BY <1>8, <1>9, <1>10, <1>11, <1>12 DEF SideInv

\* A job that ends without a commit leaves its files, whose number is not free.
LEMMA JobFailsStep ==
    ASSUME SideInv, NEW w \in Writers, JobFails(w)
    PROVE  SideInv'
<1>1. Types /\ DiskSound /\ LiveSound /\ Fresh /\ JobsSound /\ ObsoleteSound
  BY DEF SideInv
<1>2. /\ proc = "up" /\ job' = [job EXCEPT ![w] = Idle]
      /\ UNCHANGED <<run, side, manifest, proc, live, filter, next_seq, obsolete>>
  BY DEF JobFails, disk
<1>3. job'[w].pc = "idle" /\ \A v \in Writers : v # w => job'[v] = job[v]
  BY <1>1, <1>2 DEF Types, Idle
<1>4. Types'
  <2>1. job' \in [Writers -> JobSet]
    BY <1>1, <1>2, IdleType DEF Types
  <2>2. QED
    BY <1>1, <1>2, <2>1 DEF Types
<1>5. DiskSound' /\ LiveSound' /\ Fresh' /\ ObsoleteSound'
  BY <1>1, <1>2 DEF DiskSound, LiveSound, Fresh, ObsoleteSound, NoFalseNegative
<1>6. JobsSound'
  <2>1. ASSUME NEW v \in Writers, job'[v].pc # "idle"
        PROVE  job'[v] = job[v] /\ job[v].pc # "idle"
    BY <1>3, <2>1
  <2>2. /\ live' = live /\ next_seq' = next_seq /\ run' = run /\ side' = side
        /\ obsolete' = obsolete
    BY <1>2, Zenon
  <2>3. ASSUME NEW v \in Writers, job'[v].pc # "idle"
        PROVE  \A u \in Writers \ {v} : job'[u].pc # "idle" => job'[u].seq # job'[v].seq
    <3>1. \A u \in Writers \ {v} : job[u].pc # "idle" => job[u].seq # job[v].seq
      BY <1>1, <2>1, <2>3, Zenon DEF JobsSound
    <3>2. QED
      BY <2>1, <2>3, <3>1, Zenon
  <2>4. ASSUME NEW v \in Writers, job'[v].pc # "idle"
        PROVE  /\ job'[v].seq \in Seqs /\ job'[v].seq < next_seq'
               /\ job'[v].seq \notin live' /\ obsolete'[job'[v].seq] = "no"
               /\ job'[v].inputs \subseteq live' /\ (v = "flush" => job'[v].inputs = {})
               /\ job'[v].filter # None => job'[v].keys \subseteq job'[v].filter
               /\ job'[v].pc = "install" => side'[job'[v].seq] = None
               /\ job'[v].pc # "install" => run'[job'[v].seq] = job'[v].keys
    <3>1. job'[v] = job[v] /\ job[v].pc # "idle"
      BY <2>1, <2>4, Zenon
    <3>2. QED
      BY <1>1, <2>2, <3>1 DEF JobsSound
  <2>5. QED
    BY <2>3, <2>4, Zenon DEF JobsSound
<1>7. QED
  BY <1>4, <1>5, <1>6 DEF SideInv

\* The new run goes live with its filter; what it supersedes does not.
LEMMA CommitStep ==
    ASSUME SideInv, NEW w \in Writers, Commit(w)
    PROVE  SideInv'
<1> DEFINE n == job[w].seq
           runs == (live \ job[w].inputs) \cup {n}
<1>1. Types /\ DiskSound /\ LiveSound /\ Fresh /\ JobsSound /\ ObsoleteSound
  BY DEF SideInv
<1>2. /\ proc = "up" /\ job[w].pc = "commit" /\ (w = "compact" => job["flush"].pc = "idle")
      /\ manifest' = [runs |-> runs, next_seq |-> next_seq] /\ live' = runs
      /\ filter' = [i \in Seqs |-> IF i = n THEN job[w].filter
                                   ELSE IF i \in runs THEN filter[i] ELSE None]
      /\ obsolete' = [i \in Seqs |-> IF i \in job[w].inputs THEN "run" ELSE obsolete[i]]
      /\ job' = [job EXCEPT ![w] = Idle]
      /\ UNCHANGED <<run, side, proc, next_seq>>
  BY DEF Commit, At
<1>3. /\ n \in Seqs /\ n < next_seq /\ job[w] \in JobSet /\ n \notin live
      /\ \A v \in Writers : v # w /\ job[v].pc # "idle" => job[v].seq # n
      /\ run[n] = job[w].keys /\ live = manifest.runs
      /\ job[w].filter # None => job[w].keys \subseteq job[w].filter
      /\ job[w].inputs \subseteq live /\ obsolete[n] = "no"
      /\ w = "flush" => job[w].inputs = {}
  BY <1>1, <1>2, JobFacts DEF JobsSound
<1>4. job[w].filter \in Filters /\ run[n] # None
  BY <1>3, SidecarAssumption DEF JobSet
<1>5. job'[w].pc = "idle" /\ \A v \in Writers : v # w => job'[v] = job[v]
  BY <1>1, <1>2 DEF Types, Idle
<1>6. manifest'.runs = runs /\ manifest'.next_seq = next_seq
  BY <1>2
<1>7. live \subseteq Seqs /\ next_seq \in Nat /\ manifest.next_seq \in Nat /\ runs \subseteq Seqs
  BY <1>1, <1>3 DEF Types
<1>8. \A i \in live : i < next_seq
  <2>1. SUFFICES ASSUME NEW i \in live
                 PROVE  i < next_seq
    OBVIOUS
  <2>2. i < manifest.next_seq /\ manifest.next_seq <= next_seq
    BY <1>1, <1>2, <1>3 DEF DiskSound, LiveSound
  <2>3. i \in Nat
    BY <1>7, SeqsNat
  <2>4. QED
    BY <1>7, <2>2, <2>3
<1> HIDE DEF n, runs
<1>9. \A i : i \in runs <=> (i \in live /\ i \notin job[w].inputs) \/ i = n
  BY DEF runs
<1>10. Types'
  <2>1. job' \in [Writers -> JobSet]
    BY <1>1, <1>2, IdleType DEF Types
  <2>2. filter' \in [Seqs -> Filters]
    BY <1>1, <1>2, <1>4, NoneType DEF Types
  <2>3. obsolete' \in [Seqs -> {"no", "run", "sidecar"}]
    BY <1>1, <1>2 DEF Types
  <2>4. manifest' \in [runs: SUBSET Seqs, next_seq: Nat]
    BY <1>2, <1>7
  <2>5. QED
    BY <1>1, <1>2, <1>7, <2>1, <2>2, <2>3, <2>4 DEF Types
<1>11. DiskSound'
  <2>1. \A i \in runs : i < next_seq /\ run[i] # None
    BY <1>1, <1>3, <1>4, <1>8, <1>9 DEF DiskSound
  <2>2. QED
    BY <1>1, <1>2, <1>6, <2>1 DEF DiskSound
<1>12. LiveSound'
  <2>1. NoFalseNegative'
    <3>1. SUFFICES ASSUME NEW i \in runs, filter'[i] # None
                   PROVE  run[i] \subseteq filter'[i]
      BY <1>2 DEF NoFalseNegative
    <3>2. i \in Seqs /\ filter'[i] = IF i = n THEN job[w].filter ELSE filter[i]
      BY <1>2, <1>7
    <3>3. CASE i = n
      BY <1>3, <3>1, <3>2, <3>3
    <3>4. CASE i # n
      BY <1>1, <1>9, <3>1, <3>2, <3>4 DEF LiveSound, NoFalseNegative
    <3>5. QED
      BY <3>3, <3>4
  <2>2. /\ proc' = "up" /\ live' = manifest'.runs
        /\ manifest'.next_seq = next_seq' /\ next_seq' \in Nat
    BY <1>2, <1>6, <1>7
  <2>3. manifest'.next_seq <= next_seq'
    BY <2>2
  <2>4. QED
    BY <2>1, <2>2, <2>3, Zenon DEF LiveSound
<1>13. Fresh'
  BY <1>1, <1>2 DEF Fresh
<1>14. ObsoleteSound'
  <2>1. ASSUME NEW i \in Seqs, obsolete'[i] # "no"
        PROVE  i \notin runs /\ i < next_seq
    <3>1. CASE i \in job[w].inputs
      BY <1>3, <1>8, <1>9, <3>1
    <3>2. CASE i \notin job[w].inputs
      <4>1. obsolete[i] # "no"
        BY <1>2, <2>1, <3>2
      <4>2. QED
        BY <1>1, <1>3, <1>9, <4>1 DEF ObsoleteSound
    <3>3. QED
      BY <3>1, <3>2
  <2>2. QED
    BY <1>2, <2>1 DEF ObsoleteSound
<1>15. JobsSound'
  <2>1. ASSUME NEW v \in Writers, job'[v].pc # "idle"
        PROVE  job'[v] = job[v] /\ job[v].pc # "idle" /\ v # w /\ w = "flush" /\ v = "compact"
    BY <1>2, <1>5, <2>1 DEF Writers
  <2>2. ASSUME NEW v \in Writers, job'[v].pc # "idle"
        PROVE  /\ job[v].seq \notin runs /\ job[v].inputs \subseteq runs
               /\ job[v].seq \in Seqs /\ obsolete'[job[v].seq] = "no"
    <3>1. /\ job[v].pc # "idle" /\ job[w].inputs = {} /\ job[v].seq # n
      BY <1>3, <2>1, <2>2
    <3>2. /\ job[v].seq \in Seqs /\ job[v].seq \notin live /\ obsolete[job[v].seq] = "no"
          /\ job[v].inputs \subseteq live
      BY <1>1, <3>1 DEF JobsSound
    <3>3. QED
      BY <1>2, <1>9, <3>1, <3>2
  <2>3. live' = runs /\ next_seq' = next_seq /\ run' = run /\ side' = side
    BY <1>2
  <2>4. \A u, v \in Writers : job'[u].pc # "idle" /\ job'[v].pc # "idle" => u = v
    BY <2>1, Zenon
  <2>5. ASSUME NEW v \in Writers, job'[v].pc # "idle"
        PROVE  /\ job'[v].seq < next_seq' /\ (v = "flush" => job'[v].inputs = {})
               /\ job'[v].filter # None => job'[v].keys \subseteq job'[v].filter
               /\ job'[v].pc = "install" => side'[job'[v].seq] = None
               /\ job'[v].pc # "install" => run'[job'[v].seq] = job'[v].keys
    <3>1. job'[v] = job[v] /\ job[v].pc # "idle"
      BY <2>1, <2>5, Zenon
    <3>2. /\ job[v].seq < next_seq /\ (v = "flush" => job[v].inputs = {})
          /\ job[v].filter # None => job[v].keys \subseteq job[v].filter
          /\ job[v].pc = "install" => side[job[v].seq] = None
          /\ job[v].pc # "install" => run[job[v].seq] = job[v].keys
      BY <1>1, <3>1, Zenon DEF JobsSound
    <3>3. QED
      BY <2>3, <3>1, <3>2, Zenon
  <2>6. ASSUME NEW v \in Writers, job'[v].pc # "idle"
        PROVE  /\ job'[v].seq \in Seqs /\ job'[v].seq \notin live'
               /\ obsolete'[job'[v].seq] = "no" /\ job'[v].inputs \subseteq live'
    BY <2>1, <2>2, <2>3, <2>6, Zenon
  <2>7. \A v \in Writers : job'[v].pc # "idle" =>
           \A u \in Writers \ {v} : job'[u].pc # "idle" => job'[u].seq # job'[v].seq
    BY <2>4, Zenon
  <2>8. QED
    BY <2>5, <2>6, <2>7, Zenon DEF JobsSound
<1>16. QED
  BY <1>10, <1>11, <1>12, <1>13, <1>14, <1>15 DEF SideInv

\* Dropping a superseded run, and damage, take a file away from no job and from
\* no live run.
LEMMA FilesStep ==
    ASSUME SideInv, NEW n \in Seqs, UnlinkRun(n) \/ UnlinkSidecar(n) \/ Damage(n)
    PROVE  SideInv'
<1>1. Types /\ DiskSound /\ LiveSound /\ Fresh /\ JobsSound /\ ObsoleteSound
  BY DEF SideInv
<1>2. /\ run' \in {run, [run EXCEPT ![n] = None]}
      /\ \/ side' \in {side, [side EXCEPT ![n] = None]}
         \/ side[n] # None /\ side' = [side EXCEPT ![n] = Damaged]
      /\ obsolete' \in {obsolete, [obsolete EXCEPT ![n] = "sidecar"],
                        [obsolete EXCEPT ![n] = "no"]}
      /\ run' # run \/ obsolete' # obsolete => proc = "up" /\ obsolete[n] # "no"
      /\ UNCHANGED <<manifest, proc, todo, live, filter, next_seq, job>>
  BY DEF UnlinkRun, UnlinkSidecar, Damage, process
<1>3. \A i \in Seqs : run'[i] # run[i] => i = n /\ run'[i] = None /\ obsolete[n] # "no"
  BY <1>1, <1>2 DEF Types
<1>4. \A i \in Seqs : side'[i] # side[i] => side'[i] \in {None, Damaged} /\ side[i] # None
  BY <1>1, <1>2 DEF Types
<1>5. \A i \in Seqs : obsolete'[i] # "no" => obsolete[i] # "no"
  BY <1>1, <1>2 DEF Types
<1>6. Types'
  <2>1. run' \in [Seqs -> Filters]
    BY <1>1, <1>2, NoneType DEF Types
  <2>2. Damaged \in Contents
    BY DEF Contents
  <2>3. side' \in [Seqs -> Contents]
    BY <1>1, <1>2, <2>2, NoneType DEF Types
  <2>4. obsolete' \in [Seqs -> {"no", "run", "sidecar"}]
    BY <1>1, <1>2 DEF Types
  <2>5. QED
    BY <1>1, <1>2, <2>1, <2>3, <2>4 DEF Types
<1>7. \A i \in live : i \in Seqs /\ run'[i] = run[i]
  BY <1>1, <1>3 DEF Types, ObsoleteSound
<1>8. DiskSound'
  <2>1. \A i \in manifest.runs : run'[i] # None
    <3>1. proc # "down" => manifest.runs = live
      BY <1>1 DEF LiveSound
    <3>2. proc = "down" => run' = run
      BY <1>2
    <3>3. QED
      BY <1>1, <1>2, <1>7, <3>1, <3>2 DEF DiskSound
  <2>2. \A i \in Seqs : run'[i] # None /\ side'[i] \notin {None, Damaged} => run'[i] \subseteq side'[i]
    BY <1>1, <1>3, <1>4 DEF DiskSound
  <2>3. QED
    BY <1>1, <1>2, <2>1, <2>2 DEF DiskSound
<1>9. LiveSound'
  <2>1. NoFalseNegative'
    BY <1>1, <1>2, <1>7 DEF LiveSound, NoFalseNegative
  <2>2. proc # "up" => obsolete' = obsolete
    BY <1>2
  <2>3. QED
    BY <1>1, <1>2, <2>1, <2>2 DEF LiveSound
<1>10. Fresh'
  BY <1>1, <1>2, <1>4 DEF Fresh
<1>11. ObsoleteSound'
  BY <1>1, <1>2, <1>5 DEF ObsoleteSound
<1>12. JobsSound'
  <2>1. ASSUME NEW w \in Writers, job[w].pc # "idle"
        PROVE  /\ run'[job[w].seq] = run[job[w].seq] /\ obsolete'[job[w].seq] = "no"
               /\ side[job[w].seq] = None => side'[job[w].seq] = None
    <3>1. job[w].seq \in Seqs /\ obsolete[job[w].seq] = "no"
      BY <1>1, <2>1 DEF JobsSound
    <3>2. QED
      BY <1>3, <1>4, <1>5, <3>1
  <2>2. live' = live /\ next_seq' = next_seq /\ job' = job
    BY <1>2, Zenon
  <2>3. QED
    BY <1>1, <2>1, <2>2, Zenon DEF JobsSound
<1>13. QED
  BY <1>6, <1>8, <1>9, <1>10, <1>11, <1>12 DEF SideInv

LEMMA SideInvariance == Spec => []SideInv
<1>1. SideInv /\ [Next]_vars => SideInv'
  <2> SUFFICES ASSUME SideInv, [Next]_vars
               PROVE  SideInv'
    OBVIOUS
  <2>1. ASSUME NEW b \in Builds, OpenRuns(b)
        PROVE  SideInv'
    BY <2>1, OpenRunsStep
  <2>2. ASSUME NEW kind \in {"tmp", "bloom", "run"}, NEW n \in Seqs, Reclaim(kind, n)
        PROVE  SideInv'
    BY <2>2, ReclaimStep
  <2>3. ASSUME NEW K \in SUBSET Keys, NEW f \in Filters,
               StartFlush(K, f) \/ StartCompact(K, f)
        PROVE  SideInv'
    <3>1. CASE StartFlush(K, f)
      <4>1. StartJob("flush", K, {}, f) /\ "flush" \in Writers
        BY <3>1 DEF StartFlush, Writers
      <4>2. QED
        BY <4>1, StartStep
    <3>2. CASE StartCompact(K, f)
      <4>1. StartJob("compact", K, live, f) /\ "compact" \in Writers
        BY <3>2 DEF StartCompact, Writers
      <4>2. QED
        BY <4>1, StartStep
    <3>3. QED
      BY <2>3, <3>1, <3>2
  <2>4. ASSUME NEW w \in Writers,
               InstallRun(w) \/ WriteSidecar(w) \/ RenameSidecar(w) \/ Commit(w) \/ JobFails(w)
        PROVE  SideInv'
    BY <2>4, InstallStep, WriteSidecarStep, RenameStep, CommitStep, JobFailsStep
  <2>5. ASSUME NEW n \in Seqs, UnlinkRun(n) \/ UnlinkSidecar(n) \/ Damage(n)
        PROVE  SideInv'
    BY <2>5, FilesStep
  <2>6. CASE UNCHANGED vars
    <3>1. Types' /\ DiskSound'
      BY <2>6 DEF vars, disk, process, SideInv, Types, DiskSound
    <3>2. LiveSound' /\ Fresh'
      BY <2>6 DEF vars, disk, process, SideInv, LiveSound, NoFalseNegative, Fresh
    <3>3. JobsSound' /\ ObsoleteSound'
      BY <2>6 DEF vars, disk, process, SideInv, JobsSound, ObsoleteSound
    <3>4. QED
      BY <3>1, <3>2, <3>3, Zenon DEF SideInv
  <2>7. QED
    BY <2>1, <2>2, <2>3, <2>4, <2>5, <2>6, OpenedStep, CrashStep DEF Next, Filters
<1>2. QED
  BY <1>1, SideInit, PTL DEF Spec

-------------------------------------------------------------------------------
(* What a flush or compaction has written before it commits, and what is   *)
(* left of the sidecars.                                                   *)

\* A job with a filter writes it before it commits; one without leaves its
\* number without a sidecar.
JobWritten(j, s) ==
    /\ j.filter = None => j.pc \in {"install", "commit"} /\ s = None
    /\ j.filter # None /\ j.pc = "commit" => s \in {j.filter, Damaged}

FilterWritten ==
    \A w \in Writers : job[w].pc # "idle" => JobWritten(job[w], side[job[w].seq])

\* The job of w moves from pc to pc2 and the others stay.
Moved(w, pc, pc2) ==
    /\ job[w].pc = pc /\ job'[w].pc = pc2
    /\ job'[w].seq = job[w].seq /\ job'[w].filter = job[w].filter
    /\ \A v \in Writers \ {w} : job'[v] = job[v]

LEMMA GotoMoves ==
    ASSUME SideInv, NEW w \in Writers, NEW pc, job[w].pc = pc, NEW pc2, Goto(w, pc2)
    PROVE  Moved(w, pc, pc2)
<1>1. job \in [Writers -> JobSet]
  BY DEF SideInv, Types
<1>2. job[w] \in JobSet /\ job' = [job EXCEPT ![w] = [job[w] EXCEPT !.pc = pc2]]
  BY <1>1 DEF Goto
<1>3. job'[w] = [job[w] EXCEPT !.pc = pc2] /\ \A v \in Writers \ {w} : job'[v] = job[v]
  BY <1>1, <1>2
<1>4. QED
  BY <1>2, <1>3 DEF Moved, JobSet

\* Jobs begin, and the other steps of the process.
LEMMA JobsBegin ==
    ASSUME SideInv, NEW w \in Writers, NEW K, NEW inputs, NEW f, StartJob(w, K, inputs, f)
    PROVE  /\ job[w].pc = "idle" /\ job'[w].pc = "install" /\ job'[w].seq = next_seq
           /\ \A v \in Writers \ {w} : job'[v] = job[v]
           /\ UNCHANGED <<side, proc, live, obsolete, failed>>
<1>1. job \in [Writers -> JobSet]
  BY DEF SideInv, Types
<1>2. QED
  BY <1>1 DEF StartJob, disk

LEMMA JobsEnd ==
    ASSUME SideInv, NEW w \in Writers, job' = [job EXCEPT ![w] = Idle]
    PROVE  job'[w].pc = "idle" /\ \A v \in Writers \ {w} : job'[v] = job[v]
<1>1. job \in [Writers -> JobSet]
  BY DEF SideInv, Types
<1>2. QED
  BY <1>1 DEF Idle

\* The jobs under way write sidecars of different numbers, none of them obsolete.
LEMMA JobNumbers ==
    ASSUME SideInv, NEW w \in Writers, job[w].pc # "idle"
    PROVE  /\ job[w].seq \in Seqs /\ obsolete[job[w].seq] = "no"
           /\ \A v \in Writers \ {w} : job[v].pc # "idle" => job[v].seq # job[w].seq
BY DEF SideInv, JobsSound

LEMMA FilterWrittenStep ==
    ASSUME SideInv, FilterWritten, [Next]_vars
    PROVE  FilterWritten'
<1>0. side \in [Seqs -> Contents]
  BY DEF SideInv, Types
<1>1. ASSUME proc # "up", job' = job PROVE FilterWritten'
  BY <1>1 DEF FilterWritten, SideInv, LiveSound
<1>2. ASSUME NEW b \in Builds, OpenRuns(b) PROVE FilterWritten'
  BY <1>1, <1>2 DEF OpenRuns
<1>3. ASSUME NEW kind, NEW n \in Seqs, Reclaim(kind, n) PROVE FilterWritten'
  BY <1>1, <1>3 DEF Reclaim
<1>4. CASE Opened
  BY <1>1, <1>4 DEF Opened
<1>5. ASSUME NEW w \in Writers, NEW K, NEW inputs, NEW f, StartJob(w, K, inputs, f)
      PROVE  FilterWritten'
  <2>1. /\ job'[w].pc = "install" /\ job'[w].seq = next_seq /\ side' = side
        /\ \A v \in Writers \ {w} : job'[v] = job[v]
    BY <1>5, JobsBegin
  <2>2. side[next_seq] = None
    <3>1. MaxSeq \in Nat /\ next_seq \in Nat
      BY SidecarAssumption DEF SideInv, Types
    <3>2. proc = "up" /\ next_seq < MaxSeq
      BY <1>5 DEF StartJob
    <3>3. next_seq \in Seqs /\ next_seq >= next_seq
      BY <3>1, <3>2 DEF Seqs
    <3>4. QED
      BY <3>2, <3>3 DEF SideInv, Fresh
  <2>3. JobWritten(job'[w], side'[job'[w].seq])
    BY <2>1, <2>2 DEF JobWritten
  <2>4. QED
    BY <2>1, <2>3, Zenon DEF FilterWritten
<1>6. ASSUME NEW w \in Writers, InstallRun(w) PROVE FilterWritten'
  <2>1. side' = side /\ job[w].pc = "install"
    BY <1>6 DEF InstallRun, At
  <2>2. Moved(w, "install", IF job[w].filter = None THEN "commit" ELSE "sidecar")
    BY <1>6, GotoMoves DEF InstallRun, At
  <2>3. side[job[w].seq] = None
    BY <2>1 DEF SideInv, JobsSound
  <2>4. JobWritten(job'[w], side'[job'[w].seq])
    BY <2>1, <2>2, <2>3 DEF JobWritten, Moved
  <2>5. QED
    BY <2>1, <2>2, <2>4, Zenon DEF FilterWritten, Moved
<1>7. ASSUME NEW w \in Writers, WriteSidecar(w) PROVE FilterWritten'
  <2>1. side' = side /\ Moved(w, "sidecar", "rename")
    BY <1>7, GotoMoves DEF WriteSidecar, At
  <2>2. job[w].filter # None
    BY <2>1 DEF FilterWritten, JobWritten, Moved
  <2>3. JobWritten(job'[w], side'[job'[w].seq])
    BY <2>1, <2>2 DEF JobWritten, Moved
  <2>4. QED
    BY <2>1, <2>3, Zenon DEF FilterWritten, Moved
<1>8. ASSUME NEW w \in Writers, RenameSidecar(w) PROVE FilterWritten'
  <2>1. /\ Moved(w, "rename", "commit")
        /\ side' = [side EXCEPT ![job[w].seq] = job[w].filter]
    BY <1>8, GotoMoves DEF RenameSidecar, At
  <2>2. /\ job[w].seq \in Seqs
        /\ \A v \in Writers \ {w} : job[v].pc # "idle" => job[v].seq # job[w].seq
    BY <2>1, JobNumbers DEF Moved
  <2>3. side'[job[w].seq] = job[w].filter
    BY <1>0, <2>1, <2>2
  <2>4. \A v \in Writers \ {w} : job[v].pc # "idle" => side'[job[v].seq] = side[job[v].seq]
    BY <1>0, <2>1, <2>2, JobNumbers
  <2>5. job[w].filter # None
    BY <2>1 DEF FilterWritten, JobWritten, Moved
  <2>6. JobWritten(job'[w], side'[job'[w].seq])
    BY <2>1, <2>3, <2>5 DEF JobWritten, Moved
  <2>7. ASSUME NEW v \in Writers \ {w}, job'[v].pc # "idle"
        PROVE  JobWritten(job'[v], side'[job'[v].seq])
    <3>1. job'[v] = job[v] /\ job[v].pc # "idle"
      BY <2>1, <2>7, Zenon DEF Moved
    <3>2. JobWritten(job[v], side[job[v].seq]) /\ side'[job[v].seq] = side[job[v].seq]
      BY <2>4, <3>1, Zenon DEF FilterWritten
    <3>3. QED
      BY <3>1, <3>2, Zenon
  <2>8. QED
    BY <2>6, <2>7, Zenon DEF FilterWritten
<1>9. ASSUME NEW w \in Writers, Commit(w) \/ JobFails(w) PROVE FilterWritten'
  <2>1. side' = side /\ job' = [job EXCEPT ![w] = Idle]
    BY <1>9 DEF Commit, JobFails, disk
  <2>2. QED
    BY <2>1, JobsEnd, Zenon DEF FilterWritten
<1>10. ASSUME NEW n \in Seqs, UnlinkRun(n) \/ UnlinkSidecar(n) \/ Damage(n)
       PROVE  FilterWritten'
  <2>1. job' = job
    BY <1>10 DEF UnlinkRun, UnlinkSidecar, Damage, process
  <2>2. \A i \in Seqs : \/ side'[i] = side[i] \/ obsolete[i] = "sidecar"
                        \/ side[i] # None /\ side'[i] = Damaged
    BY <1>0, <1>10 DEF UnlinkRun, UnlinkSidecar, Damage
  <2>3. ASSUME NEW w \in Writers, job[w].pc # "idle"
        PROVE  JobWritten(job[w], side'[job[w].seq])
    <3>1. \/ side'[job[w].seq] = side[job[w].seq]
          \/ side[job[w].seq] # None /\ side'[job[w].seq] = Damaged
      BY <2>2, <2>3, JobNumbers
    <3>2. JobWritten(job[w], side[job[w].seq])
      BY <2>3 DEF FilterWritten
    <3>3. QED
      BY <3>1, <3>2 DEF JobWritten
  <2>4. QED
    BY <2>1, <2>3, Zenon DEF FilterWritten
<1>11. CASE Crash
  <2>1. \A w \in Writers : job'[w].pc = "idle"
    BY <1>11 DEF Crash, NoProcess, Idle
  <2>2. QED
    BY <2>1, Zenon DEF FilterWritten
<1>12. CASE UNCHANGED vars
  BY <1>12, Zenon DEF vars, disk, process, FilterWritten
<1>13. QED
  BY <1>2, <1>3, <1>4, <1>5, <1>6, <1>7, <1>8, <1>9, <1>10, <1>11, <1>12
     DEF Next, StartFlush, StartCompact, Writers

LEMMA ReclaimedStep ==
    ASSUME SideInv, SidecarsReclaimed, [Next]_vars
    PROVE  SidecarsReclaimed'
<1> DEFINE InUse(n) == \/ n \in live \/ obsolete[n] # "no"
                       \/ \E w \in Writers : job[w].seq = n /\ job[w].pc = "commit"
<1>0. /\ side \in [Seqs -> Contents] /\ obsolete \in [Seqs -> {"no", "run", "sidecar"}]
  BY DEF SideInv, Types
<1>1. ASSUME NEW b \in Builds, OpenRuns(b) PROVE SidecarsReclaimed'
  BY <1>1 DEF OpenRuns, SidecarsReclaimed
<1>2. ASSUME NEW kind, NEW n \in Seqs, Reclaim(kind, n) PROVE SidecarsReclaimed'
  BY <1>2 DEF Reclaim, SidecarsReclaimed
<1>3. CASE Opened
  BY <1>3 DEF Opened, disk, SidecarsReclaimed, SideInv, Fresh
<1>4. ASSUME UNCHANGED <<side, proc, live, obsolete, failed>>, NEW w \in Writers,
             job[w].pc # "commit", \A v \in Writers \ {w} : job'[v] = job[v]
      PROVE  SidecarsReclaimed'
  <2>1. ASSUME NEW n \in Seqs, InUse(n) PROVE InUse(n)'
    BY <1>4, <2>1
  <2>2. SidecarsReclaimed <=>
           (proc = "up" /\ ~failed => \A n \in Seqs : side[n] # None => InUse(n))
    BY Zenon DEF SidecarsReclaimed
  <2>3. SidecarsReclaimed' <=>
           (proc' = "up" /\ ~failed' => \A n \in Seqs : side'[n] # None => InUse(n)')
    BY Zenon DEF SidecarsReclaimed
  <2> HIDE DEF InUse
  <2>4. QED
    BY <1>4, <2>1, <2>2, <2>3, Zenon
<1>5. ASSUME NEW w \in Writers, NEW K, NEW inputs, NEW f, StartJob(w, K, inputs, f)
      PROVE  SidecarsReclaimed'
  BY <1>4, <1>5, JobsBegin
<1>6. ASSUME NEW w \in Writers, InstallRun(w) \/ WriteSidecar(w) PROVE SidecarsReclaimed'
  <2>1. /\ UNCHANGED <<side, proc, live, obsolete, failed>> /\ job[w].pc # "commit"
        /\ \E pc2 : Goto(w, pc2)
    BY <1>6 DEF InstallRun, WriteSidecar, At
  <2>2. \A v \in Writers \ {w} : job'[v] = job[v]
    BY <2>1, GotoMoves DEF Moved
  <2>3. QED
    BY <1>4, <2>1, <2>2
<1>7. ASSUME NEW w \in Writers, RenameSidecar(w) PROVE SidecarsReclaimed'
  <2>1. /\ UNCHANGED <<proc, live, obsolete, failed>> /\ Moved(w, "rename", "commit")
        /\ side' = [side EXCEPT ![job[w].seq] = job[w].filter]
    BY <1>7, GotoMoves DEF RenameSidecar, At
  <2>2. \A n \in Seqs : n # job[w].seq => side'[n] = side[n]
    BY <1>0, <2>1
  <2>3. /\ job'[w].seq = job[w].seq /\ job'[w].pc = "commit" /\ job[w].pc = "rename"
        /\ \A v \in Writers \ {w} : job'[v] = job[v]
    BY <2>1, Zenon DEF Moved
  <2>4. ASSUME NEW n \in Seqs, InUse(n) PROVE InUse(n)'
    BY <2>1, <2>3, <2>4
  <2>5. ASSUME NEW n \in Seqs, n = job[w].seq PROVE InUse(n)'
    BY <2>3, <2>5
  <2> HIDE DEF InUse
  <2>6. ASSUME proc = "up", ~failed, NEW n \in Seqs, side'[n] # None PROVE InUse(n)'
    <3>1. CASE n = job[w].seq
      BY <2>5, <3>1, Zenon
    <3>2. CASE n # job[w].seq
      <4>1. InUse(n)
        BY <2>2, <2>6, <3>2 DEF SidecarsReclaimed, InUse
      <4>2. QED
        BY <2>4, <4>1, Zenon
    <3>3. QED
      BY <3>1, <3>2, Zenon
  <2>7. QED
    BY <2>1, <2>6 DEF SidecarsReclaimed, InUse
<1>8. ASSUME NEW w \in Writers, Commit(w) PROVE SidecarsReclaimed'
  <2>1. /\ UNCHANGED <<side, proc, failed>> /\ job' = [job EXCEPT ![w] = Idle]
        /\ live' = (live \ job[w].inputs) \cup {job[w].seq}
        /\ obsolete' = [n \in Seqs |-> IF n \in job[w].inputs THEN "run" ELSE obsolete[n]]
    BY <1>8 DEF Commit
  <2>2. \A v \in Writers \ {w} : job'[v] = job[v]
    BY <2>1, JobsEnd
  <2>3. ASSUME NEW n \in Seqs, InUse(n) PROVE InUse(n)'
    BY <1>0, <2>1, <2>2, <2>3
  <2>4. QED
    BY <2>1, <2>3 DEF SidecarsReclaimed
<1>9. ASSUME NEW w \in Writers, JobFails(w) PROVE SidecarsReclaimed'
  BY <1>9 DEF JobFails, SidecarsReclaimed
<1>10. ASSUME NEW n \in Seqs, UnlinkRun(n) PROVE SidecarsReclaimed'
  BY <1>0, <1>10 DEF UnlinkRun, SidecarsReclaimed
<1>11. ASSUME NEW n \in Seqs, UnlinkSidecar(n) PROVE SidecarsReclaimed'
  BY <1>0, <1>11, SMTT(30) DEF UnlinkSidecar, SidecarsReclaimed
<1>12. ASSUME NEW n \in Seqs, Damage(n) PROVE SidecarsReclaimed'
  BY <1>0, <1>12, SMTT(30) DEF Damage, process, SidecarsReclaimed
<1>13. CASE Crash
  BY <1>13 DEF Crash, NoProcess, SidecarsReclaimed
<1>14. CASE UNCHANGED vars
  BY <1>14 DEF vars, disk, process, SidecarsReclaimed
<1>15. QED
  BY <1>1, <1>2, <1>3, <1>5, <1>6, <1>7, <1>8, <1>9, <1>10, <1>11, <1>12, <1>13, <1>14
     DEF Next, StartFlush, StartCompact, Writers

-------------------------------------------------------------------------------
(* The theorems.                                                           *)

\* A filter attached to a live run rules out no key of the run: for every set of
\* keys and number of runs, across crashes, failures, builds without the feature
\* and damaged sidecars (bloom.rs:6-8).
THEOREM FiltersSound == Spec => []NoFalseNegative
<1>1. SideInv => NoFalseNegative
  BY DEF SideInv, LiveSound
<1>2. QED
  BY <1>1, SideInvariance, PTL

\* A run whose builder yielded a filter is committed with its sidecar on disk, as
\* db.rs:570-571 says, and a run whose builder yielded none (bloom.rs:115-116) is
\* committed with no sidecar of its number on disk, whatever crashed, failed or was
\* dropped before: the next opening attaches to a run its own filter or none.
THEOREM SidecarsComeFirst == Spec => SidecarFirst
<1> DEFINE First == \A n \in manifest'.runs \ manifest.runs :
                       IF filter'[n] = None THEN side[n] = None
                                            ELSE side[n] \in {filter'[n], Damaged}
<1>1. Init => FilterWritten
  BY DEF Init, Idle, FilterWritten
<1>2. SideInv /\ FilterWritten /\ [Next]_vars => FilterWritten'
  BY FilterWrittenStep
<1>3. SideInv /\ FilterWritten /\ [Next]_vars => [First]_vars
  <2> SUFFICES ASSUME SideInv, FilterWritten, Next PROVE First
    OBVIOUS
  <2>1. ASSUME NEW w \in Writers, Commit(w) PROVE First
    <3>1. /\ manifest'.runs = (live \ job[w].inputs) \cup {job[w].seq}
          /\ proc = "up" /\ job[w].pc = "commit"
          /\ \A n \in Seqs : n = job[w].seq => filter'[n] = job[w].filter
      BY <2>1 DEF Commit, At
    <3>2. live = manifest.runs
      BY <3>1 DEF SideInv, LiveSound
    <3>3. job[w].seq \in Seqs
      BY <3>1, JobNumbers
    <3>4. JobWritten(job[w], side[job[w].seq]) /\ filter'[job[w].seq] = job[w].filter
      BY <3>1, <3>3 DEF FilterWritten
    <3>5. QED
      BY <3>1, <3>2, <3>4 DEF JobWritten
  <2>2. (\E w \in Writers : Commit(w)) \/ manifest' = manifest
    BY Zenon DEF Next, OpenRuns, Reclaim, Opened, StartFlush, StartCompact, StartJob, InstallRun,
       WriteSidecar, RenameSidecar, JobFails, UnlinkRun, UnlinkSidecar, Damage, Crash, disk
  <2>3. QED
    BY <2>1, <2>2
<1>4. QED
  BY <1>1, <1>2, <1>3, SideInvariance, PTL DEF Spec, SidecarFirst

\* Recovery and the drop of obsolete runs leave no sidecar behind: in an open
\* store in which nothing has failed, every sidecar belongs to a live run or to one
\* that is being committed or dropped (db.rs:204-210, sstable.rs:294-305).
THEOREM NoSidecarLeft == Spec => []SidecarsReclaimed
<1>1. Init => SidecarsReclaimed
  BY DEF Init, SidecarsReclaimed
<1>2. SideInv /\ SidecarsReclaimed /\ [Next]_vars => SidecarsReclaimed'
  BY ReclaimedStep
<1>3. QED
  BY <1>1, <1>2, SideInvariance, PTL DEF Spec
===============================================================================
