---------------------------- MODULE RecordCodec ----------------------------
(***************************************************************************)
(* The L1/L2 wire codec of record.rs: RecordData, the Record header,      *)
(* Record and RecordSet, as operators over byte sequences.  The           *)
(* primitive codecs (zig-zag varint, big-endian i32, Option tag) and the  *)
(* Batch codec live in crates outside src/ and follow spec.md §4.1/§3.    *)
(*                                                                         *)
(* A decoder is an operator from the bytes left in `src` to a result      *)
(* [ok, err, val, rest]: `rest` is what remains in the Buf afterwards, so  *)
(* a decoder that stops early is visible as bytes left over.              *)
(***************************************************************************)
EXTENDS Integers, Sequences, FiniteSets, FiniteSetsExt, SequencesExt

CONSTANTS
    NoKey,          \* the absent key: Option::None
    MaxVarBytes     \* the widest varint the decoder accepts (10 for i64)


Ok(v, rest)  == [ok |-> TRUE,  err |-> "none", val |-> v, rest |-> rest]
Err(e, rest) == [ok |-> FALSE, err |-> e,      val |-> NoKey, rest |-> rest]

Drop(s, n) == SubSeq(s, n + 1, Len(s))

MinOf(a, b) == IF a < b THEN a ELSE b

-----------------------------------------------------------------------------
(* L1: primitive codecs (spec §4.1).                                       *)

\* zig-zag: (n << 1) ^ (n >> 63)
ZigZag(n)   == IF n >= 0 THEN 2 * n ELSE -2 * n - 1
UnZigZag(u) == IF u % 2 = 0 THEN u \div 2 ELSE -((u + 1) \div 2)

\* 7 bits at a time, low group first, high bit set on non-terminal bytes
RECURSIVE VarBytes(_)

VarBytes(u) ==
    IF u < 128 THEN <<u>>
    ELSE <<(u % 128) + 128>> \o VarBytes(u \div 128)

EncodeVarInt(n) == VarBytes(ZigZag(n))

VarWriteSize(n) == Len(EncodeVarInt(n))

\* the groups of src[1..e], low group first
VarValue(src, e) ==
    LET acc[j \in 0..e] ==
            IF j = 0 THEN 0 ELSE acc[j - 1] + (src[j] % 128) * 128^(j - 1)
    IN  acc[e]

\* the varint ends at the first byte without the continuation bit; none
\* within MaxVarBytes bytes is InvalidData, none before the end of src EOF
DecodeVarInt(src) ==
    LET ends == {i \in 1..MinOf(Len(src), MaxVarBytes) : src[i] < 128}
        e    == Min(ends)
    IN  CASE ends # {}                -> Ok(UnZigZag(VarValue(src, e)), Drop(src, e))
          [] Len(src) >= MaxVarBytes -> Err("InvalidData", Drop(src, MaxVarBytes))
          [] OTHER                    -> Err("UnexpectedEof", <<>>)

\* i32, big endian, two's complement; built byte by byte to stay in TLC's ints
EncodeI32(n) ==
    <<(n \div 16777216) % 256, (n \div 65536) % 256, (n \div 256) % 256, n % 256>>

DecodeI32(src) ==
    IF Len(src) < 4 THEN Err("UnexpectedEof", src)
    ELSE LET hi == IF src[1] >= 128 THEN src[1] - 256 ELSE src[1]
         IN Ok(((hi * 256 + src[2]) * 256 + src[3]) * 256 + src[4], Drop(src, 4))

EncodeI8(n) == <<n % 256>>

DecodeI8(src) ==
    IF src = <<>> THEN Err("UnexpectedEof", <<>>)
    ELSE Ok(IF src[1] >= 128 THEN src[1] - 256 ELSE src[1], Tail(src))

-----------------------------------------------------------------------------
(* L2: RecordData (record.rs 145-186).                                     *)

RecordDataWriteSize(d) == VarWriteSize(Len(d)) + Len(d)

EncodeRecordData(d) == EncodeVarInt(Len(d)) \o d

\* `src.take(len as usize)` then `bytes.put(slice)`: Take::remaining is the
\* smaller of the limit and what is left, so a short source yields a short
\* value and no error; a negative length casts to a huge usize.
DecodeRecordData(src) ==
    LET l == DecodeVarInt(src)
        n == IF l.val < 0 THEN Len(l.rest) ELSE MinOf(l.val, Len(l.rest))
    IN  IF ~l.ok THEN l
        ELSE Ok(SubSeq(l.rest, 1, n), Drop(l.rest, n))

\* Option<RecordData> (spec §4.1): tag 0 absent, 1 present, else InvalidData
EncodeKey(k) == IF k = NoKey THEN <<0>> ELSE <<1>> \o EncodeRecordData(k)

KeyWriteSize(k) == IF k = NoKey THEN 1 ELSE 1 + RecordDataWriteSize(k)

\* mutant: any non-zero tag is read as a present key
DecodeKeyAnyTag(src) ==
    IF src = <<>> THEN Err("UnexpectedEof", <<>>)
    ELSE IF src[1] = 0 THEN Ok(NoKey, Tail(src))
    ELSE DecodeRecordData(Tail(src))

DecodeKey(src) ==
    IF src = <<>> THEN Err("UnexpectedEof", <<>>)
    ELSE IF src[1] = 0 THEN Ok(NoKey, Tail(src))
    ELSE IF src[1] = 1 THEN DecodeRecordData(Tail(src))
    ELSE Err("InvalidData", Tail(src))

-----------------------------------------------------------------------------
(* RecordHeader (record.rs 311-318): the derived codec emits the fields in *)
(* declaration order, i8 then two #[varint] fields.                        *)

EncodeHeader(h) ==
    EncodeI8(h.attributes) \o EncodeVarInt(h.timestamp_delta)
        \o EncodeVarInt(h.offset_delta)

HeaderWriteSize(h) ==
    1 + VarWriteSize(h.timestamp_delta) + VarWriteSize(h.offset_delta)

DecodeHeader(src) ==
    LET a == DecodeI8(src)
        t == DecodeVarInt(a.rest)
        o == DecodeVarInt(t.rest)
    IN  CASE ~a.ok -> a
          [] ~t.ok -> t
          [] ~o.ok -> o
          [] OTHER -> Ok([attributes |-> a.val, timestamp_delta |-> t.val,
                          offset_delta |-> o.val], o.rest)

-----------------------------------------------------------------------------
(* Record (record.rs 415-473): an outer varint length, then the fields.    *)

\* mutant: the outer length is taken to fit in one varint byte
RecordWriteSizeOneByteLen(r) ==
    LET inner == HeaderWriteSize(r.preamble) + KeyWriteSize(r.key)
                   + RecordDataWriteSize(r.value) + VarWriteSize(r.headers)
    IN  1 + inner

RecordWriteSize(r) ==
    LET inner == HeaderWriteSize(r.preamble) + KeyWriteSize(r.key)
                   + RecordDataWriteSize(r.value) + VarWriteSize(r.headers)
    IN  VarWriteSize(inner) + inner

EncodeRecord(r) ==
    LET out == EncodeHeader(r.preamble) \o EncodeKey(r.key)
                 \o EncodeRecordData(r.value) \o EncodeVarInt(r.headers)
    IN  EncodeVarInt(Len(out)) \o out

\* mutant: the trailing headers-count varint is never read
DecodeRecordNoHeaders(src) ==
    LET l == DecodeVarInt(src)
        h == DecodeHeader(l.rest)
        k == DecodeKey(h.rest)
        v == DecodeRecordData(k.rest)
    IN  CASE ~l.ok                -> l
          [] Len(l.rest) < l.val  -> Err("UnexpectedEof", l.rest)
          [] ~h.ok -> h
          [] ~k.ok -> k
          [] ~v.ok -> v
          [] OTHER -> Ok([preamble |-> h.val, key |-> k.val, value |-> v.val,
                          headers |-> 0], v.rest)

\* The length is only checked against what is left; the fields are then
\* decoded from `src` itself, not from a sub-reader of that length.
DecodeRecord(src) ==
    LET l == DecodeVarInt(src)
        h == DecodeHeader(l.rest)
        k == DecodeKey(h.rest)
        v == DecodeRecordData(k.rest)
        n == DecodeVarInt(v.rest)
    IN  CASE ~l.ok                -> l
          [] Len(l.rest) < l.val  -> Err("UnexpectedEof", l.rest)
          [] ~h.ok -> h
          [] ~k.ok -> k
          [] ~v.ok -> v
          [] ~n.ok -> n
          [] OTHER -> Ok([preamble |-> h.val, key |-> k.val, value |-> v.val,
                          headers |-> n.val], n.rest)

\* Record::new and Record::new_key_value (lines 377-401): default preamble
\* and headers; RecordKey::NULL becomes the absent key (lines 44-65).
DefaultPreamble == [attributes |-> 0, timestamp_delta |-> 0, offset_delta |-> 0]

NewKeyValue(k, v) == [preamble |-> DefaultPreamble, key |-> k, value |-> v, headers |-> 0]

NewRecord(v) == NewKeyValue(NoKey, v)

\* The layout before `key: Option<B>` (test_decode_old_record_empty_key,
\* lines 566-604): the key was a plain byte string, always present, which
\* the public API only ever wrote empty.
LegacyEncodeRecord(r) ==
    LET key == IF r.key = NoKey THEN << >> ELSE r.key
        out == EncodeHeader(r.preamble) \o EncodeRecordData(key)
                 \o EncodeRecordData(r.value) \o EncodeVarInt(r.headers)
    IN  EncodeVarInt(Len(out)) \o out

-----------------------------------------------------------------------------
(* Batch (spec §3: opaque; round-trips, and fails UnexpectedEof when       *)
(* truncated).  Abstracted to base offset, body length, records.           *)

RecordsBytes(rs) == FlattenSeq([i \in DOMAIN rs |-> EncodeRecord(rs[i])])

EncodeBatch(b) ==
    EncodeI32(b.base_offset) \o EncodeI32(Len(RecordsBytes(b.records)))
        \o RecordsBytes(b.records)

BatchWriteSize(b) ==
    FoldLeft(LAMBDA acc, r : acc + RecordWriteSize(r), 8, b.records)

RECURSIVE DecodeRecords(_, _)
DecodeRecords(buf, acc) ==
    IF buf = <<>> THEN Ok(acc, <<>>)
    ELSE LET r == DecodeRecord(buf)
         IN  IF r.ok THEN DecodeRecords(r.rest, Append(acc, r.val)) ELSE r

\* On failure the batch has consumed its 8 header bytes.
DecodeBatch(src) ==
    LET o  == DecodeI32(src)
        l  == DecodeI32(o.rest)
        rs == DecodeRecords(SubSeq(l.rest, 1, l.val), <<>>)
    IN  CASE ~o.ok -> o
          [] ~l.ok -> l
          [] l.val < 0 \/ Len(l.rest) < l.val -> Err("UnexpectedEof", l.rest)
          [] ~rs.ok -> Err(rs.err, l.rest)
          [] OTHER  -> Ok([base_offset |-> o.val, records |-> rs.val],
                          Drop(l.rest, l.val))

-----------------------------------------------------------------------------
(* RecordSet (record.rs 231-309).                                          *)

EncodeRecordSet(s) ==
    LET out == FlattenSeq([i \in DOMAIN s |-> EncodeBatch(s[i])])
    IN  EncodeI32(Len(out)) \o out

-----------------------------------------------------------------------------
(* Checking harness.  The state is the value under test, chosen once in    *)
(* Init from small sets that reach the varint width boundaries (1, 2 and   *)
(* 3 byte encodings), empty and non-empty keys and values, and every cut   *)
(* of the last batch of a record set.                                      *)

CONSTANTS
    Attributes,     \* values of RecordHeader.attributes
    Deltas,         \* values of timestamp_delta and offset_delta
    Values,         \* RecordData contents
    Headers,        \* values of Record.headers
    SetRecords,     \* the records a batch of a record set may hold
    BaseOffsets,    \* Batch.base_offset
    MaxBatches      \* the most batches in a record set

VARIABLES
    rec,        \* the record under test
    set,        \* the record set under test
    cut,        \* bytes dropped from the end of the encoded set
    relen,      \* whether the i32 length was rewritten after the cut
    src,        \* the bytes left in the reader RecordSet::decode is given
    limit,      \* what is left of the take(len) limit over src
    batches,    \* self.batches
    dpc         \* where RecordSet::decode is

vars == <<rec, set, cut, relen, src, limit, batches, dpc>>

Records ==
    [preamble : [attributes : Attributes, timestamp_delta : Deltas,
                 offset_delta : Deltas],
     key : {NoKey} \cup Values, value : Values, headers : Headers]

Batches == [base_offset : BaseOffsets, records : {<<r>> : r \in SetRecords}]

RecordSets == UNION {[1..n -> Batches] : n \in 2..MaxBatches}

\* bytes that follow the value under test in the same buffer
Trailer == <<7>>

LastBatchSize(s) == Len(EncodeBatch(s[Len(s)]))

\* the batches of a stored set with the last n bytes of the log lost, as the
\* truncation test builds them (spec §7)
Truncate(s, n) ==
    LET e == EncodeRecordSet(s) IN SubSeq(e, 5, Len(e) - n)

\* FileRecordSet::file_encode (lines 690-708): the i32 length of the file
\* slice into `dest`, then the slice itself as a second StoreValue; the
\* wire carries the two back to back.
FileEncode(slice) == EncodeI32(Len(slice)) \o slice

\* a set cut short without rewriting its length: a short read of a file
ShortRead(s, n) ==
    LET e == EncodeRecordSet(s) IN SubSeq(e, 1, Len(e) - n)

RecordInit ==
    /\ rec \in Records
    /\ set = <<>>
    /\ cut = 0
    /\ relen = TRUE
    /\ src = <<>>
    /\ limit = 0
    /\ batches = <<>>
    /\ dpc = "idle"

RecordNext == UNCHANGED vars


-----------------------------------------------------------------------------
(* RecordSet::decode (record.rs 231-280) as steps over the reader: `src`   *)
(* is the underlying Buf and `limit` the Take over it, so the bytes a      *)
(* batch consumes through the Take are gone from `src` too.                *)

SetInit ==
    /\ rec = NoKey
    /\ set \in RecordSets
    /\ cut \in 0..(LastBatchSize(set) - 1)
    /\ relen \in BOOLEAN
    /\ src = IF relen THEN FileEncode(Truncate(set, cut)) \o Trailer
             ELSE ShortRead(set, cut)
    /\ limit = 0
    /\ batches = <<>>
    /\ dpc = "len"

\* mutant: `<=` for `<` in the remaining-bytes check
ReadLenOffByOne ==
    /\ dpc = "len"
    /\ LET l == DecodeI32(src)
       IN  \/ /\ ~l.ok \/ l.val < 0 \/ Len(l.rest) <= l.val
              /\ src' = l.rest
              /\ dpc' = "failed"
              /\ UNCHANGED limit
           \/ /\ l.ok /\ l.val >= 0 /\ Len(l.rest) > l.val
              /\ src' = l.rest
              /\ limit' = l.val
              /\ dpc' = "loop"
    /\ UNCHANGED <<rec, set, cut, relen, batches>>

\* read the i32 length; `len as usize` of a negative i32 exceeds any buffer
ReadLen ==
    /\ dpc = "len"
    /\ LET l == DecodeI32(src)
       IN  \/ /\ ~l.ok \/ l.val < 0 \/ Len(l.rest) < l.val
              /\ src' = l.rest
              /\ dpc' = "failed"
              /\ UNCHANGED limit
           \/ /\ l.ok /\ l.val >= 0 /\ Len(l.rest) >= l.val
              /\ src' = l.rest
              /\ limit' = l.val
              /\ dpc' = "loop"
    /\ UNCHANGED <<rec, set, cut, relen, batches>>

\* one iteration of `while buf.remaining() > 0`: decode a batch through the
\* Take; on any error, UnexpectedEof or not, return Ok(()) at once
DecodeNextBatch ==
    /\ dpc = "loop"
    /\ limit > 0
    /\ \E b \in {DecodeBatch(SubSeq(src, 1, limit))} :
       LET used == limit - Len(b.rest)
       IN  /\ src' = Drop(src, used)
           /\ limit' = limit - used
           /\ \/ b.ok /\ batches' = Append(batches, b.val) /\ dpc' = "loop"
              \/ ~b.ok /\ batches' = batches /\ dpc' = "done"
    /\ UNCHANGED <<rec, set, cut, relen>>

\* the Take is exhausted: the loop ends and decode returns Ok(())
LoopExit ==
    /\ dpc = "loop"
    /\ limit = 0
    /\ dpc' = "done"
    /\ UNCHANGED <<rec, set, cut, relen, src, limit, batches>>

\* decode has returned
Returned ==
    /\ dpc \in {"done", "failed"}
    /\ UNCHANGED vars

SetNext == ReadLen \/ DecodeNextBatch \/ LoopExit \/ Returned

SetSpec == SetInit /\ [][SetNext]_vars

\* Both harnesses in one state space: a state is either a record under test
\* (the decoder at rest) or a run of RecordSet::decode.
CodecSpec == (RecordInit \/ SetInit) /\ [][RecordNext \/ SetNext]_vars

RecordUnderTest == dpc = "idle"

-----------------------------------------------------------------------------
(* Properties.                                                             *)

\* Record::decode inverts Record::encode and stops exactly at the record's
\* end, leaving the bytes that follow in `src`.
RecordRoundTrip ==
    RecordUnderTest =>
    DecodeRecord(EncodeRecord(rec) \o Trailer) = Ok(rec, Trailer)

\* Record::write_size, computed from the fields without encoding them,
\* equals the length of Record::encode, including the outer varint length
\* whose own width depends on the inner size.
WriteSizeMatchesEncoding ==
    RecordUnderTest => Len(EncodeRecord(rec)) = RecordWriteSize(rec)

\* Legacy keys (spec §9, test_decode_old_record_empty_key): Record::decode
\* reads a record written before keys became optional as the same record
\* with the key absent when the old key was empty (its length byte 0x00 is
\* the None tag), and rejects it with InvalidData at the key tag when the
\* old key was not empty, never decoding it to some other record.
LegacyKeyCompatible ==
    RecordUnderTest =>
    LET d == DecodeRecord(LegacyEncodeRecord(rec) \o Trailer)
    IN  IF rec.key \in {NoKey, << >>}
        THEN d = Ok([rec EXCEPT !.key = NoKey], Trailer)
        ELSE ~d.ok /\ d.err = "InvalidData"

\* Spec §4.2/§7: when RecordSet::decode returns, a set whose last batch lost
\* its tail and whose length was rewritten has decoded without error to
\* exactly the batches before it, an untruncated set to all of them, and a
\* set cut short under its original length has failed with UnexpectedEof.
RecordSetDecodesWholeBatches ==
    dpc \in {"done", "failed"} =>
        CASE cut = 0 -> dpc = "done" /\ batches = set
          [] relen   -> dpc = "done" /\ batches = Front(set)
          [] OTHER   -> dpc = "failed"

\* Spec §3: the leading i32 is the exact count of bytes that belong to the
\* record set, so once decode has returned Ok the reader is at the bytes
\* after those.
RecordSetConsumesDeclaredLength ==
    dpc = "done" /\ relen => src = Trailer

====
