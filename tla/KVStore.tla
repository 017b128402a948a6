------------------------------- MODULE KVStore -------------------------------
(***************************************************************************)
(* What the store promises its clients, with no memtable, runs, manifest,  *)
(* log or compaction: a map that reads see, a map that survives a crash,   *)
(* and reads that return the map as it was when they began.                *)
(***************************************************************************)
EXTENDS Records

CONSTANTS Batches,  \* the writes clients issue: a put, a delete, a batch
          Ranges,   \* the key ranges scans ask for
          Readers,  \* the client threads that read
          Durable   \* whether every write is logged before it is acknowledged

VARIABLES
    current,  \* the value each key has for a read that begins now
    durable,  \* the value each key would have after a crash now
    reading   \* for each read in progress, the answer it is bound to give

vars == <<current, durable, reading>>

NoRead == [keys |-> {}, answer |-> EmptyTable]

Init ==
    /\ current = EmptyTable
    /\ durable = EmptyTable
    /\ reading = [r \in Readers |-> NoRead]

\* A write takes effect as a whole; a logged one is durable at once.
Write(b) ==
    /\ UNCHANGED reading
    /\ durable' = IF Durable THEN Live(Overlay(b, durable)) ELSE durable
    /\ current' = Live(Overlay(b, current))

\* A write whose log append failed is refused.  It is not readable, but what
\* reached the log may be recovered.
WriteRefused(b) ==
    /\ Durable
    /\ durable' = Live(Overlay(b, durable))
    /\ UNCHANGED <<current, reading>>

\* A flush: everything readable becomes durable.
Persist ==
    /\ durable' = current
    /\ UNCHANGED <<current, reading>>

\* The process goes away, by a crash or by closing the handle.
Restart ==
    /\ current' = durable
    /\ reading' = [r \in Readers |-> NoRead]
    /\ UNCHANGED durable

\* A get (one key) or a scan (a range) fixes its answer when it begins ...
Begin(r, K) ==
    /\ reading[r] = NoRead
    /\ reading' = [reading EXCEPT ![r] = [keys |-> K, answer |-> Only(current, K)]]
    /\ UNCHANGED <<current, durable>>

\* ... and returns it, whatever was written, flushed or compacted meanwhile.
End(r) ==
    /\ reading[r] # NoRead
    /\ reading' = [reading EXCEPT ![r] = NoRead]
    /\ UNCHANGED <<current, durable>>

Next ==
    \/ \E r \in Readers :
          \/ \E K \in Ranges \cup {{k} : k \in Keys} : Begin(r, K)
          \/ End(r)
    \/ Persist
    \/ Restart
    \/ \E b \in Batches : Write(b) \/ WriteRefused(b)

Spec == Init /\ [][Next]_vars
===============================================================================
