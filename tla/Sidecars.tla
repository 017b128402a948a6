------------------------------- MODULE Sidecars -------------------------------
(***************************************************************************)
(* Bloom sidecars (bloom.rs): the filter file next to every run, written   *)
(* by flush and compaction between the run and the manifest, loaded or     *)
(* discarded when the database is opened, and removed with its run.  The   *)
(* database may be opened by a build with or without the feature.          *)
(*                                                                         *)
(* A run is the set of its keys; a filter is the set of keys it does not   *)
(* rule out, which a bloom filter guarantees to include the keys added.    *)
(* The log, the memtable and the order of the runs are in Engine.          *)
(***************************************************************************)
EXTENDS Integers, FiniteSets

CONSTANTS Keys,
          MaxSeq,   \* bound: run numbers are below MaxSeq
          Builds,   \* the values the feature takes from one opening to the next
          Faults,   \* whether I/O may fail
          Damages,  \* whether a sidecar's bytes may be lost or changed
          None,     \* no file, no filter
          Damaged   \* a sidecar that fails its envelope

Seqs == 0 .. MaxSeq - 1

ASSUME SidecarAssumption ==
    /\ MaxSeq \in Nat
    /\ Builds \subseteq BOOLEAN
    /\ Faults \in BOOLEAN /\ Damages \in BOOLEAN
    /\ None # Damaged
    /\ \A K \in SUBSET Keys : K # None /\ K # Damaged

VARIABLES
    \* The directory.
    run,       \* run[n]: the keys of run file n
    side,      \* side[n]: the filter in its sidecar
    tmps,      \* numbers with a temporary sidecar
    manifest,  \* run numbers and next_seq
    \* The process.
    proc,      \* down, reclaim, up
    bloom,     \* whether it was built with the feature
    todo,      \* directory entries recovery has not come to
    live,      \* Inner.runs
    filter,    \* SsTable.filter of the live runs
    next_seq,
    job,       \* what the flush, and the compaction, under way are doing
    obsolete,  \* superseded runs not yet dropped, and what of them is left
    failed     \* whether I/O has failed since the opening

disk == <<run, side, tmps, manifest>>
process == <<proc, bloom, todo, live, filter, next_seq, job, obsolete, failed>>
vars == <<disk, process>>

Writers == {"flush", "compact"}

Idle == [pc |-> "idle", seq |-> 0, keys |-> {}, inputs |-> {}, filter |-> None]

\* What is left of a process that is gone.
NoProcess ==
    /\ proc' = "down" /\ bloom' = FALSE /\ todo' = {} /\ live' = {}
    /\ filter' = [n \in Seqs |-> None]
    /\ next_seq' = 0
    /\ job' = [w \in Writers |-> Idle]
    /\ obsolete' = [n \in Seqs |-> "no"]
    /\ failed' = FALSE

Init ==
    /\ run = [n \in Seqs |-> None] /\ side = [n \in Seqs |-> None] /\ tmps = {}
    /\ manifest = [runs |-> {}, next_seq |-> 0]
    /\ proc = "down" /\ bloom = FALSE /\ todo = {} /\ live = {}
    /\ filter = [n \in Seqs |-> None]
    /\ next_seq = 0
    /\ job = [w \in Writers |-> Idle]
    /\ obsolete = [n \in Seqs |-> "no"]
    /\ failed = FALSE

-------------------------------------------------------------------------------
(* Opening.                                                                *)

\* load removes the sidecars of live runs that fail their envelope.
Discarded == {n \in manifest.runs : side[n] = Damaged}

\* A mutant: the envelope is not checked, and other bytes are taken for a filter.
LoadedUnchecked(b, n) ==
    IF ~b THEN None ELSE IF side[n] = Damaged THEN {} ELSE side[n]

\* RunFilter::load; without the feature there is none.
Loaded(b, n) == IF b /\ side[n] # Damaged THEN side[n] ELSE None

\* open_with, up to the scan of the directory.
OpenRuns(b) ==
    LET kept == [n \in Seqs |-> IF b /\ n \in Discarded THEN None ELSE side[n]]
    IN  /\ proc = "down" /\ proc' = "reclaim"
        /\ \A n \in manifest.runs : run[n] # None
        /\ bloom' = b
        /\ side' = kept
        /\ live' = manifest.runs
        /\ filter' = [n \in Seqs |-> IF n \in manifest.runs THEN Loaded(b, n) ELSE None]
        /\ next_seq' = manifest.next_seq
        /\ todo' = {<<"tmp", n>> : n \in tmps}
                   \cup {<<"bloom", n>> : n \in {n \in Seqs : kept[n] # None}}
                   \cup {<<"run", n>> : n \in {n \in Seqs : run[n] # None}}
        /\ UNCHANGED <<run, tmps, manifest, job, obsolete, failed>>

\* A mutant: the sidecars of runs that are not live are left alone.
RemovedNotSidecars(kind, n) == kind = "tmp" \/ (kind = "run" /\ n \notin live)

\* Temporaries, and the files of runs that are not live, are removed.
Removed(kind, n) == kind = "tmp" \/ n \notin live

\* One entry of read_dir.
Reclaim(kind, n) ==
    /\ proc = "reclaim" /\ <<kind, n>> \in todo
    /\ todo' = todo \ {<<kind, n>>}
    /\ next_seq' = IF kind = "run" /\ n >= next_seq THEN n + 1 ELSE next_seq
    /\ tmps' = IF kind = "tmp" THEN tmps \ {n} ELSE tmps
    /\ side' = IF kind = "bloom" /\ Removed(kind, n) THEN [side EXCEPT ![n] = None] ELSE side
    /\ run' = IF kind = "run" /\ Removed(kind, n) THEN [run EXCEPT ![n] = None] ELSE run
    /\ UNCHANGED <<manifest, proc, bloom, live, filter, job, obsolete, failed>>

Opened ==
    /\ proc = "reclaim" /\ todo = {}
    /\ proc' = "up"
    /\ UNCHANGED <<disk, bloom, todo, live, filter, next_seq, job, obsolete, failed>>

-------------------------------------------------------------------------------
(* flush_locked and compact_inner.                                         *)

\* What builder, add and finish return for the keys K: no filter without the
\* feature or when the filter library cannot size one, otherwise a filter that
\* rules out none of the keys added.
Built(K, f) == f # None => bloom /\ K \subseteq f

\* A number is taken, the entries go to the temporary run and their keys to the
\* builder, which yields f.
StartJob(w, K, inputs, f) ==
    /\ proc = "up" /\ job[w].pc = "idle" /\ job["flush"].pc = "idle"
    /\ next_seq < MaxSeq /\ next_seq' = next_seq + 1
    /\ Built(K, f)
    /\ job' = [job EXCEPT ![w] = [pc |-> "install", seq |-> next_seq, keys |-> K,
                                  inputs |-> inputs, filter |-> f]]
    /\ UNCHANGED <<disk, proc, bloom, todo, live, filter, obsolete, failed>>

\* A flush of a memtable with keys K, which is not empty.
StartFlush(K, f) == K # {} /\ StartJob("flush", K, {}, f)

\* A compaction of all runs: the keys whose newest record is a value.  The
\* builder's capacity is the entries of all inputs; a capacity of 0, when every
\* input is empty, yields no filter.
StartCompact(K, f) ==
    /\ Cardinality(live) >= 2
    /\ K \subseteq UNION {run[n] : n \in live}
    /\ f # None => \E n \in live : run[n] # {}
    /\ StartJob("compact", K, live, f)

At(w, pc) == proc = "up" /\ job[w].pc = pc

Goto(w, pc) == job' = [job EXCEPT ![w].pc = pc]

\* A mutant: the sidecar is left for after the commit.
InstallRunOnly(w) ==
    /\ At(w, "install")
    /\ run' = [run EXCEPT ![job[w].seq] = job[w].keys]
    /\ Goto(w, "commit")
    /\ UNCHANGED <<side, tmps, manifest, proc, bloom, todo, live, filter, next_seq,
                   obsolete, failed>>

\* The rename of the run.
InstallRun(w) ==
    /\ At(w, "install")
    /\ run' = [run EXCEPT ![job[w].seq] = job[w].keys]
    /\ Goto(w, IF job[w].filter = None THEN "commit" ELSE "sidecar")
    /\ UNCHANGED <<side, tmps, manifest, proc, bloom, todo, live, filter, next_seq,
                   obsolete, failed>>

\* write_sidecar: the temporary, then the rename.
WriteSidecar(w) ==
    /\ At(w, "sidecar")
    /\ tmps' = tmps \cup {job[w].seq}
    /\ Goto(w, "rename")
    /\ UNCHANGED <<run, side, manifest, proc, bloom, todo, live, filter, next_seq,
                   obsolete, failed>>

RenameSidecar(w) ==
    /\ At(w, "rename")
    /\ tmps' = tmps \ {job[w].seq}
    /\ side' = [side EXCEPT ![job[w].seq] = job[w].filter]
    /\ Goto(w, "commit")
    /\ UNCHANGED <<run, manifest, proc, bloom, todo, live, filter, next_seq, obsolete, failed>>

\* The manifest and the new list of runs, under the write lock; a compaction's
\* inputs are marked obsolete.
Commit(w) ==
    LET runs == (live \ job[w].inputs) \cup {job[w].seq}
    IN  /\ At(w, "commit")
        /\ w = "compact" => job["flush"].pc = "idle"
        /\ manifest' = [runs |-> runs, next_seq |-> next_seq]
        /\ live' = runs
        /\ filter' = [n \in Seqs |-> IF n = job[w].seq THEN job[w].filter
                                     ELSE IF n \in runs THEN filter[n] ELSE None]
        /\ obsolete' = [n \in Seqs |-> IF n \in job[w].inputs THEN "run" ELSE obsolete[n]]
        /\ job' = [job EXCEPT ![w] = Idle]
        /\ UNCHANGED <<run, side, tmps, proc, bloom, todo, next_seq, failed>>

\* A step fails: the flush or compaction returns and its files stay.
JobFails(w) ==
    /\ Faults /\ proc = "up" /\ job[w].pc # "idle"
    /\ job' = [job EXCEPT ![w] = Idle]
    /\ failed' = TRUE
    /\ UNCHANGED <<disk, proc, bloom, todo, live, filter, next_seq, obsolete>>

\* Drop of an obsolete run, once its last reader is done: the run file, then
\* the sidecar.  A failed unlink is ignored.
UnlinkRun(n) ==
    /\ proc = "up" /\ obsolete[n] = "run"
    /\ obsolete' = [obsolete EXCEPT ![n] = "sidecar"]
    /\ \/ run' = [run EXCEPT ![n] = None] /\ UNCHANGED failed
       \/ Faults /\ failed' = TRUE /\ UNCHANGED run
    /\ UNCHANGED <<side, tmps, manifest, proc, bloom, todo, live, filter, next_seq, job>>

UnlinkSidecar(n) ==
    /\ proc = "up" /\ obsolete[n] = "sidecar"
    /\ obsolete' = [obsolete EXCEPT ![n] = "no"]
    /\ \/ side' = [side EXCEPT ![n] = None] /\ UNCHANGED failed
       \/ Faults /\ failed' = TRUE /\ UNCHANGED side
    /\ UNCHANGED <<run, tmps, manifest, proc, bloom, todo, live, filter, next_seq, job>>

-------------------------------------------------------------------------------
(* The environment.                                                        *)

\* The process ends, at any point of an opening or of its work.
Crash == proc # "down" /\ NoProcess /\ UNCHANGED disk

\* A sidecar is not synced: what it holds can be lost or changed.
Damage(n) ==
    /\ Damages /\ side[n] \notin {None, Damaged}
    /\ side' = [side EXCEPT ![n] = Damaged]
    /\ UNCHANGED <<run, tmps, manifest, process>>

Next ==
    \/ \E b \in Builds : OpenRuns(b)
    \/ \E kind \in {"tmp", "bloom", "run"}, n \in Seqs : Reclaim(kind, n)
    \/ Opened
    \/ \E K \in SUBSET Keys, f \in (SUBSET Keys) \cup {None} :
          StartFlush(K, f) \/ StartCompact(K, f)
    \/ \E w \in Writers : \/ InstallRun(w) \/ WriteSidecar(w) \/ RenameSidecar(w)
                          \/ Commit(w) \/ JobFails(w)
    \/ \E n \in Seqs : UnlinkRun(n) \/ UnlinkSidecar(n) \/ Damage(n)
    \/ Crash

Spec == Init /\ [][Next]_vars

-------------------------------------------------------------------------------
(* Properties.                                                             *)

\* A filter attached to a live run rules out no key of the run, so a read that
\* skips the run loses nothing (bloom.rs:6-8), across crashes, reused numbers,
\* builds without the feature and damaged sidecars.
NoFalseNegative == \A n \in live : filter[n] # None => run[n] \subseteq filter[n]

\* "any run the manifest names is guaranteed to have its sidecar on disk"
\* (db.rs:570-571), as far as there is one.  When a run is committed and its
\* builder yielded a filter, the sidecar of its number holds that filter, or what
\* damage left of it, and was not taken for an orphan or removed with an earlier
\* run of the number.  When the builder yielded none (bloom.rs:115-116), there is
\* no sidecar of that number, left by a crashed flush or compaction, that the next
\* opening would take for the run's filter (db.rs:178-182).
SidecarFirst ==
    [][\A n \in manifest'.runs \ manifest.runs :
          IF filter'[n] = None THEN side[n] = None
                               ELSE side[n] \in {filter'[n], Damaged}]_vars

\* Once recovery is done and nothing has failed since, only live runs and runs
\* being written or dropped have a sidecar: those of crashed flushes,
\* compactions and drops are gone (db.rs:204-210).
SidecarsReclaimed ==
    proc = "up" /\ ~failed =>
        \A n \in Seqs : side[n] # None =>
            n \in live \/ obsolete[n] # "no" \/ \E w \in Writers : job[w].seq = n /\ job[w].pc = "commit"
===============================================================================
