------------------------------ MODULE WriteBuffer -----------------------------
(***************************************************************************)
(* The write path at the level of single operations and their lengths:     *)
(* building a batch (batch.rs), the log record made of it and read back at *)
(* recovery (durability.rs encode, decode, replay), the memtable's entries *)
(* and its running size (memtable.rs), and the flush at capacity (db.rs    *)
(* maybe_flush).  Engine takes over from here: there a batch is one table. *)
(*                                                                         *)
(* A value is its length.  A call of put, delete, write or flush holds the *)
(* write lock throughout, so it is one step.                               *)
(***************************************************************************)
EXTENDS Integers, Sequences, FiniteSets

CONSTANTS Keys,
          KeyLen,      \* key.len() of every key
          Values,      \* lengths of values
          MaxLen,      \* MAX_LEN, 2^30
          U32,         \* 2^32: lengths are written as 32-bit numbers
          Capacities,  \* what memtable_capacity may be set to
          Faults,      \* whether an append, a flush or a rotation may fail
          MaxBatch,    \* bound: operations in a batch
          MaxLog,      \* bound: records in the log
          Tombstone, None

Record == Values \cup {Tombstone}

\* An operation of a batch.
Op == Keys \X Record

ASSUME WriteBufferAssumption ==
    /\ MaxLen \in Nat /\ U32 \in Nat /\ MaxLen < U32
    /\ KeyLen \in [Keys -> Nat]
    /\ Values \subseteq Nat
    /\ Capacities \subseteq Nat
    /\ Faults \in BOOLEAN
    /\ None \notin Record

VARIABLES
    up,        \* whether the database is open
    capacity,  \* memtable_capacity_bytes of this opening
    mem,       \* MemTable: entries and approx_size
    log,       \* the records in wal.log
    wal,       \* whether Durability has the log open
    batch,     \* a Batch under construction
    failed,    \* whether a flush has failed in this opening
    refused    \* history: places in the log of records whose append failed

vars == <<up, capacity, mem, log, wal, batch, failed, refused>>

-------------------------------------------------------------------------------
(* memtable.rs.                                                            *)

NewMemTable == [entries |-> [k \in Keys |-> None], size |-> 0]

IsEmpty(m) == \A k \in Keys : m.entries[k] = None

ValueLen(r) == IF r = Tombstone THEN 0 ELSE r

\* A mutant: the value that is replaced stays counted.
InsertKeepingOld(m, op) ==
    [entries |-> [m.entries EXCEPT ![op[1]] = op[2]],
     size |-> IF m.entries[op[1]] = None
              THEN m.size + KeyLen[op[1]] + ValueLen(op[2])
              ELSE m.size + ValueLen(op[2])]

\* insert: a new key counts with its value, a known one by the difference.
Insert(m, op) ==
    [entries |-> [m.entries EXCEPT ![op[1]] = op[2]],
     size |-> IF m.entries[op[1]] = None
              THEN m.size + KeyLen[op[1]] + ValueLen(op[2])
              ELSE m.size - ValueLen(m.entries[op[1]]) + ValueLen(op[2])]

\* The operations of a batch, in its order.
ApplyAll(m, ops) ==
    LET applied[i \in 0 .. Len(ops)] ==
            IF i = 0 THEN m ELSE Insert(applied[i - 1], ops[i])
    IN  applied[Len(ops)]

-------------------------------------------------------------------------------
(* durability.rs.  A log record is the list of its fields: the number of   *)
(* operations, then key length, key, tag, value length, value of each.     *)

Fields == 5

\* The lengths are cast to 32 bits; the key and the value are written whole.
FieldsOfOp(op) ==
    <<KeyLen[op[1]] % U32, op[1],
      IF op[2] = Tombstone THEN 1 ELSE 0, ValueLen(op[2]) % U32, ValueLen(op[2])>>

\* A mutant: the operations are written newest first.
EncodeReversed(ops) ==
    [p \in 1 .. 1 + Fields * Len(ops) |->
        IF p = 1 THEN Len(ops) % U32
        ELSE FieldsOfOp(ops[Len(ops) - ((p - 2) \div Fields)])[((p - 2) % Fields) + 1]]

\* encode: the count, then the fields of one operation after the other.
Encode(ops) ==
    [p \in 1 .. 1 + Fields * Len(ops) |->
        IF p = 1 THEN Len(ops) % U32
        ELSE FieldsOfOp(ops[((p - 2) \div Fields) + 1])[((p - 2) % Fields) + 1]]

\* The fields decode reads for operation i.
FieldsAt(bytes, i) == [f \in 1 .. Fields |-> bytes[1 + Fields * (i - 1) + f]]

\* The checks on one operation: lengths, tag, no value for a tombstone.
Acceptable(f) ==
    /\ f[1] <= MaxLen /\ f[4] <= MaxLen
    /\ f[3] = 0 \/ (f[3] = 1 /\ f[4] = 0)

\* A key or value is longer than the length in front of it says, by a multiple of
\* U32, and decode takes the rest of it for the next fields.
Misread(f) ==
    /\ f[1] <= MaxLen
    /\ f[1] # KeyLen[f[2]] \/ (f[4] <= MaxLen /\ f[4] # f[5])

\* decode comes to such an operation; what it then returns is not modelled.
Garbled(bytes) ==
    \E i \in 1 .. bytes[1] :
        /\ Misread(FieldsAt(bytes, i))
        /\ \A j \in 1 .. i - 1 : Acceptable(FieldsAt(bytes, j))

\* Whether decode returns the operations: neither too few bytes nor trailing ones,
\* and every operation acceptable.
Decodable(bytes) ==
    /\ ~Garbled(bytes)
    /\ Len(bytes) = 1 + Fields * bytes[1]
    /\ \A i \in 1 .. bytes[1] : Acceptable(FieldsAt(bytes, i))

Decode(bytes) ==
    [i \in 1 .. bytes[1] |->
        LET f == FieldsAt(bytes, i)
        IN  <<f[2], IF f[3] = 1 THEN Tombstone ELSE f[5]>>]

\* Every record decodes.
Replayable(records) == \A i \in DOMAIN records : Decodable(records[i])

\* replay: every record in append order.
Replay(records) ==
    LET replayed[i \in 0 .. Len(records)] ==
            IF i = 0 THEN NewMemTable ELSE ApplyAll(replayed[i - 1], Decode(records[i]))
    IN  replayed[Len(records)]

-------------------------------------------------------------------------------

Init ==
    /\ up = FALSE
    /\ capacity \in Capacities
    /\ mem = NewMemTable
    /\ log = <<>> /\ wal = FALSE
    /\ batch = <<>>
    /\ failed = FALSE /\ refused = {}

\* maybe_flush.
Full(m) == ~IsEmpty(m) /\ m.size >= capacity

\* SsTableWriter::push refuses a length that takes more than 32 bits.
Storable(m) ==
    \A k \in Keys : m.entries[k] # None => KeyLen[k] < U32 /\ ValueLen(m.entries[k]) < U32

\* rotate: the log is closed, removed and opened anew; the removal, or the
\* opening after it, may fail.
Rotate(records) ==
    \/ wal' = TRUE /\ log' = <<>> /\ refused' = {}
    \/ Faults /\ wal' = FALSE /\ \/ log' = records /\ UNCHANGED refused
                                 \/ log' = <<>> /\ refused' = {}

\* flush_locked takes the buffer m; the log is rotated once the run is committed.
Flushed(m, records) ==
    /\ mem' = NewMemTable
    /\ \/ Storable(m) /\ Rotate(records) /\ UNCHANGED failed
       \/ /\ Faults \/ ~Storable(m)
          /\ log' = records /\ failed' = TRUE /\ UNCHANGED <<wal, refused>>

\* put, delete and write: log, apply, flush if full.
Write(ops) ==
    LET records == Append(log, Encode(ops))
        m == ApplyAll(mem, ops)
    IN  /\ up /\ wal /\ Len(log) < MaxLog
        /\ IF Full(m) THEN Flushed(m, records)
           ELSE mem' = m /\ log' = records /\ UNCHANGED <<wal, failed, refused>>
        /\ UNCHANGED <<up, capacity>>

\* append returns an error, because the log is not open or because append_and_sync
\* fails, before or after the record is in the log; nothing is applied.
LogFails(ops) ==
    /\ up /\ (Faults \/ ~wal)
    /\ \/ UNCHANGED <<log, refused>>
       \/ /\ wal /\ Len(log) < MaxLog
          /\ log' = Append(log, Encode(ops))
          /\ refused' = refused \cup {Len(log')}
    /\ UNCHANGED <<up, capacity, mem, wal, failed>>

\* put and delete.
WriteOne(k, r) ==
    /\ Write(<< <<k, r>> >>) \/ LogFails(<< <<k, r>> >>)
    /\ UNCHANGED batch

\* Batch::put and Batch::delete.  Bound: none while the log has no room for a record.
Queue(k, r) ==
    /\ up /\ Len(batch) < MaxBatch /\ Len(log) < MaxLog
    /\ batch' = Append(batch, <<k, r>>)
    /\ UNCHANGED <<up, capacity, mem, log, wal, failed, refused>>

\* write takes the batch, whether it succeeds or not.
WriteBatch == (Write(batch) \/ LogFails(batch)) /\ batch' = <<>>

FlushCall ==
    /\ up /\ ~IsEmpty(mem)
    /\ Flushed(mem, log)
    /\ UNCHANGED <<up, capacity, batch>>

Crash ==
    /\ up
    /\ up' = FALSE /\ mem' = NewMemTable /\ wal' = FALSE
    /\ batch' = <<>> /\ failed' = FALSE /\ refused' = {}
    /\ UNCHANGED <<capacity, log>>

\* Whether replay may return for a garbled log, with operations nobody wrote.
MayReplay(records) ==
    /\ \E i \in DOMAIN records : Garbled(records[i])
    /\ \A i \in DOMAIN records : Garbled(records[i]) \/ Decodable(records[i])

\* open_with: what is replayed is flushed and the log rotated.  A log that replay
\* refuses keeps the database closed; so does a flush that fails, which leaves the
\* log as it was ...
Open(c) ==
    /\ ~up
    /\ \/ Replayable(log) /\ log' = IF IsEmpty(Replay(log)) THEN log ELSE <<>>
       \/ MayReplay(log) /\ log' = <<>>
    /\ up' = TRUE /\ capacity' = c /\ wal' = TRUE
    /\ mem' = NewMemTable
    /\ UNCHANGED <<batch, failed, refused>>

\* ... unless the flush gets as far as removing it.
OpenFails ==
    /\ ~up /\ Faults
    /\ (Replayable(log) /\ ~IsEmpty(Replay(log))) \/ MayReplay(log)
    /\ log' = <<>>
    /\ UNCHANGED <<up, capacity, mem, wal, batch, failed, refused>>

Next ==
    \/ \E k \in Keys, r \in Record : WriteOne(k, r) \/ Queue(k, r)
    \/ WriteBatch \/ FlushCall \/ Crash
    \/ (\E c \in Capacities : Open(c)) \/ OpenFails

Spec == Init /\ [][Next]_vars

-------------------------------------------------------------------------------
(* Properties.                                                             *)

LengthOf(m, k) ==
    IF m.entries[k] = None THEN 0 ELSE KeyLen[k] + ValueLen(m.entries[k])

\* The bytes of the keys and values that m holds.
HeldBytes(m) == UNION {{k} \X (1 .. LengthOf(m, k)) : k \in Keys}

\* approx_size is the number of key and value bytes held (memtable.rs:21-22),
\* whatever was overwritten, deleted and written again; so the subtraction in
\* insert (memtable.rs:52) never goes below zero.
SizeExact == mem.size = Cardinality(HeldBytes(mem))

\* r is what the records at the places P say of k: the record of the last operation
\* on k in the order of the log, None if there is no such operation.
LastWrite(records, P, k, r) ==
    LET ops(i) == Decode(records[i])
    IN  \/ r = None /\ \A i \in P : \A j \in DOMAIN ops(i) : ops(i)[j][1] # k
        \/ \E i \in P : \E j \in DOMAIN ops(i) :
              /\ ops(i)[j] = <<k, r>>
              /\ \A h \in P : \A l \in DOMAIN ops(h) :
                    h > i \/ (h = i /\ l > j) => ops(h)[l][1] # k

\* The lengths and the number of operations in a record are within what decode
\* accepts (durability.rs:85).
WithinLimits(bytes) ==
    LET n == (Len(bytes) - 1) \div Fields
    IN  /\ n < U32
        /\ \A i \in 1 .. n : /\ KeyLen[FieldsAt(bytes, i)[2]] <= MaxLen
                             /\ FieldsAt(bytes, i)[5] <= MaxLen

\* Until a flush or a rotation fails, and while no key or value exceeds MAX_LEN, the
\* log decodes.  The buffer has for each key the last operation on it whose append
\* succeeded, within a batch too (batch.rs:22-23).  Replay has for each key the last
\* operation on it in the log (durability.rs:147-148), so it differs from the buffer
\* by the writes that returned an error after they reached the log, and by nothing
\* if there are none.
RecoveryExact ==
    wal /\ ~failed /\ (\A i \in DOMAIN log : WithinLimits(log[i])) =>
        /\ Replayable(log)
        /\ \A k \in Keys : /\ LastWrite(log, DOMAIN log \ refused, k, mem.entries[k])
                           /\ LastWrite(log, DOMAIN log, k, Replay(log).entries[k])
        /\ refused = {} => Replay(log) = mem
===============================================================================
