-------------------------------- MODULE SsTable -------------------------------
(***************************************************************************)
(* One sorted run of sstable.rs: the writer that cuts a stream of entries  *)
(* into blocks and adds index and footer, opening the file, and point      *)
(* lookups through the index.  Between writing and reading the file may be *)
(* damaged: a block, the index, a footer field, or its end missing.        *)
(*                                                                         *)
(* Bytes are abstracted to what the code tells apart: an entry has a key,  *)
(* two lengths and a tag; the contents of a block are the positions, in    *)
(* the stream, of its first and its last entry.  A checksum is ideal: it   *)
(* is the contents it was computed from.                                   *)
(***************************************************************************)
EXTENDS Integers, Sequences, Functions

CONSTANTS Streams,        \* the streams of entries writers are given
          Lookups,        \* the keys looked up
          Target,         \* TARGET_BLOCK_SIZE
          MaxRecordLen,   \* MAX_RECORD_LEN, 2^30
          MaxU32,         \* u32::MAX
          Damages,        \* whether the file may be damaged
          Garbled,        \* bytes that are not what was written
          None,           \* the None of lookup
          Err             \* Error::Corruption

MagicLen == 8
FooterSize == 8 + 8 + 8 + 4 + 8

Entry == [key: Int, key_len: Nat, tag: {"value", "tombstone"}, val_len: Nat]

\* The memtable and the merge hand over entries in strictly ascending order.
Ascending(s) == \A i, j \in DOMAIN s : i < j => s[i].key < s[j].key

\* An index entry: the last key of a block, where it is, and its checksum.
BlockHandle ==
    [last_key: Int, key_len: Nat, offset: Nat, len: Nat, crc: Nat \X Nat]

ASSUME SsTableAssumption ==
    /\ \A s \in Streams : s \in Seq(Entry) /\ Ascending(s)
    /\ \A s \in Streams : \A i \in DOMAIN s : s[i].tag = "tombstone" => s[i].val_len = 0
    /\ Lookups \subseteq Int
    /\ Target \in Nat \ {0} /\ MaxRecordLen \in Nat /\ MaxU32 \in Nat
    /\ Damages \in BOOLEAN
    /\ None # Err /\ None \notin Entry /\ Err \notin Entry
    /\ Garbled \notin Seq(BlockHandle) /\ Err \notin Seq(BlockHandle)

VARIABLES
    \* SsTableWriter.
    wpc,      \* push, finished, failed
    stream,   \* the entries it is given
    pushed,   \* entry_count: how many it has taken
    written,  \* how many of them are in blocks already written
    buf_len,  \* block_buf.len()
    offset,   \* where the next block goes
    handles,  \* the index built so far
    \* The file.
    file,
    \* The reader.
    index,    \* SsTable.index, or None while the run is not open
    answer    \* the last lookup and its result

writer == <<wpc, stream, pushed, written, buf_len, offset, handles>>
vars == <<writer, file, index, answer>>

NoFile == [len |-> 0, index_offset |-> 0, index_len |-> 0, index_crc |-> <<>>,
           magic |-> FALSE, index |-> <<>>, blocks |-> <<>>]

NoAnswer == [key |-> None, result |-> None]

Init ==
    /\ wpc = "push"
    /\ stream \in Streams
    /\ pushed = 0 /\ written = 0
    /\ buf_len = 0
    /\ offset = MagicLen
    /\ handles = <<>>
    /\ file = NoFile
    /\ index = None
    /\ answer = NoAnswer

-------------------------------------------------------------------------------
(* Writing.                                                                *)

\* key_len, key, tag, val_len, value.
EntrySize(e) == 4 + e.key_len + 1 + 4 + e.val_len

\* The length prefixes are u32::try_from.
Encodable(e) == e.key_len <= MaxU32 /\ e.val_len <= MaxU32

\* The handle of the block that holds the entries after `written` up to hi.
Handle(hi, len) ==
    [last_key |-> stream[hi].key, key_len |-> stream[hi].key_len,
     offset |-> offset, len |-> len, crc |-> <<written + 1, hi>>]

\* A mutant: the offset is not advanced.
FlushBlockInPlace(hi, len) ==
    /\ len <= MaxU32
    /\ handles' = Append(handles, Handle(hi, len))
    /\ written' = hi
    /\ buf_len' = 0
    /\ UNCHANGED offset

\* flush_block with `len` bytes in the buffer, up to entry hi.
FlushBlock(hi, len) ==
    /\ len <= MaxU32
    /\ handles' = Append(handles, Handle(hi, len))
    /\ offset' = offset + len
    /\ written' = hi
    /\ buf_len' = 0

\* push: the block is written once it has reached its target size.
Push ==
    /\ wpc = "push" /\ pushed < Len(stream)
    /\ Encodable(stream[pushed + 1])
    /\ pushed' = pushed + 1
    /\ LET len == buf_len + EntrySize(stream[pushed + 1])
       IN  IF len >= Target
           THEN FlushBlock(pushed + 1, len)
           ELSE /\ buf_len' = len
                /\ UNCHANGED <<written, offset, handles>>
    /\ UNCHANGED <<wpc, stream, file, index, answer>>

\* The entry or, with it, the block is too long for its 32-bit length.
Refused ==
    LET e == stream[pushed + 1]
        len == buf_len + EntrySize(e)
    IN  ~Encodable(e) \/ (len >= Target /\ len > MaxU32)

\* push returns an error, and the flush or compaction gives the file up.
PushFails ==
    /\ wpc = "push" /\ pushed < Len(stream)
    /\ Refused
    /\ wpc' = "failed"
    /\ UNCHANGED <<stream, pushed, written, buf_len, offset, handles, file, index, answer>>

\* last_key_len, last_key, offset, len, crc.
HandleSize(h) == 4 + h.key_len + 8 + 4 + 4

IndexLen(hs) == SumFunction([i \in DOMAIN hs |-> HandleSize(hs[i])])

\* flush_block on what is left in the buffer: nothing if it is empty.
FinishFlush ==
    IF buf_len = 0 THEN UNCHANGED <<handles, offset, written, buf_len>>
    ELSE FlushBlock(pushed, buf_len)

\* The file with index hs at offset off.
FileOf(hs, off) ==
    [len |-> off + IndexLen(hs) + FooterSize, index_offset |-> off,
     index_len |-> IndexLen(hs), index_crc |-> hs, magic |-> TRUE, index |-> hs,
     blocks |-> [i \in DOMAIN hs |-> hs[i].crc]]

\* finish: last block, index, footer, sync.
Finish ==
    /\ wpc = "push" /\ pushed = Len(stream)
    /\ FinishFlush
    /\ wpc' = "finished"
    /\ file' = FileOf(handles', offset')
    /\ UNCHANGED <<stream, pushed, index, answer>>

-------------------------------------------------------------------------------
(* Damage, once, at any time after the file is complete.  entry_count is   *)
(* left out: nothing that reads the run's data uses it.                    *)

Intact == file = FileOf(handles, offset)

\* The end is cut off at n: other bytes stand where the footer was, and the
\* blocks past n cannot be read.
Truncated(n) ==
    [file EXCEPT !.len = n, !.magic = FALSE,
                 !.blocks = [i \in DOMAIN handles |->
                                IF handles[i].offset + handles[i].len <= n
                                THEN file.blocks[i] ELSE Garbled]]

Damage ==
    /\ Damages /\ wpc = "finished" /\ Intact
    /\ \/ \E i \in DOMAIN file.blocks : file' = [file EXCEPT !.blocks[i] = Garbled]
       \/ file' = [file EXCEPT !.index = Garbled]
       \/ file' = [file EXCEPT !.index_crc = Garbled]
       \/ \E n \in {0, file.index_offset - 1, file.index_offset + 1} :
             \/ file' = [file EXCEPT !.index_offset = n]
             \/ file' = [file EXCEPT !.index_offset = n,
                                     !.index_len = file.len - FooterSize - n]
       \/ \E n \in 0 .. file.len - 1 : file' = Truncated(n)
    /\ UNCHANGED <<writer, index, answer>>

-------------------------------------------------------------------------------
(* Reading.                                                                *)

\* parse_index.
IndexParses(hs) ==
    /\ \A i \in DOMAIN hs : hs[i].key_len <= MaxRecordLen
    /\ \A i, j \in DOMAIN hs : i < j => hs[i].last_key < hs[j].last_key

\* The bytes the footer points at: the index, if that is where it is.
IndexBytes ==
    IF file.index_offset = offset /\ file.index_len = IndexLen(handles)
    THEN file.index ELSE Garbled

Opens ==
    /\ file.len >= MagicLen + FooterSize
    /\ file.magic
    /\ file.index_offset >= MagicLen
    /\ file.index_offset + file.index_len = file.len - FooterSize
    /\ IndexBytes = file.index_crc
    /\ IndexBytes # Garbled /\ IndexParses(IndexBytes)

\* SsTable::open.
Open ==
    /\ wpc = "finished" /\ index = None
    /\ index' = IF Opens THEN IndexBytes ELSE Err
    /\ UNCHANGED <<writer, file, answer>>

\* A mutant: the limit is taken to be exclusive.
ReadableBelow(e) == e.key_len < MaxRecordLen /\ e.val_len < MaxRecordLen

\* The limits decode_block puts on an entry.
Readable(e) == e.key_len <= MaxRecordLen /\ e.val_len <= MaxRecordLen

\* decode_block_at: the checksum, then decode_block.
Decodes(i) ==
    /\ file.blocks[i] = index[i].crc
    /\ \A p \in index[i].crc[1] .. index[i].crc[2] : Readable(stream[p])

\* What decode_block makes of block i: the entries that were written, unless the
\* bytes are others.
Decoded(i) ==
    IF file.blocks[i] # index[i].crc THEN {}
    ELSE {stream[p] : p \in index[i].crc[1] .. index[i].crc[2]}

\* A mutant: a block that ends in the key is passed over.
BlocksPast(k) == {i \in DOMAIN index : index[i].last_key > k}

\* The blocks partition_point does not pass over.
BlocksFrom(k) == {i \in DOMAIN index : ~(index[i].last_key < k)}

\* lookup: the first such block, decoded, holds the key or nobody does.
Lookup(k) ==
    /\ index \notin {None, Err}
    /\ answer' = [key |-> k, result |->
          IF BlocksFrom(k) = {} THEN None
          ELSE LET i == CHOOSE i \in BlocksFrom(k) : \A j \in BlocksFrom(k) : i <= j
               IN  IF ~Decodes(i) THEN Err
                   ELSE IF \E e \in Decoded(i) : e.key = k
                        THEN CHOOSE e \in Decoded(i) : e.key = k
                        ELSE None]
    /\ UNCHANGED <<writer, file, index>>

Next ==
    \/ Push \/ PushFails \/ Finish
    \/ Damage
    \/ Open
    \/ \E k \in Lookups : Lookup(k)

Spec == Init /\ [][Next]_vars

-------------------------------------------------------------------------------
(* Properties.                                                             *)

\* What the run holds for k.
Held(k) == {stream[i] : i \in {i \in DOMAIN stream : stream[i].key = k}}

\* A lookup that does not report an error answers with the entry that was pushed
\* for the key, and with None only if there is none, wherever the blocks were
\* cut (sstable.rs:237) and whatever was damaged before or after opening
\* (error.rs:47-48, "rather than returning partial or fabricated data").
AnswersExact ==
    answer.key # None /\ answer.result # Err =>
        IF Held(answer.key) = {} THEN answer.result = None
        ELSE answer.result \in Held(answer.key)

\* What finish has written, and nothing has damaged, opens and can be read
\* wherever its blocks were cut (sstable.rs:467-505 against 136-188 and 541-575),
\* provided its lengths are within MAX_RECORD_LEN (sstable.rs:63), which the
\* writer does not check.
IntactReadable ==
    /\ wpc = "finished" /\ Intact
    /\ \A i \in DOMAIN stream :
          stream[i].key_len <= MaxRecordLen /\ stream[i].val_len <= MaxRecordLen
    => index # Err /\ answer.result # Err

\* The bytes a handle points at are the entries of its block: blocks follow one
\* another from the header on, each as long as its entries (sstable.rs:450-456),
\* so that the file is as long as open requires (sstable.rs:160).
ExtentsExact ==
    \A i \in DOMAIN handles :
        LET h == handles[i]
            Sizes == [p \in h.crc[1] .. h.crc[2] |-> EntrySize(stream[p])]
        IN  /\ h.len = SumFunction(Sizes)
            /\ h.offset = IF i = 1 THEN MagicLen
                          ELSE handles[i - 1].offset + handles[i - 1].len
===============================================================================
