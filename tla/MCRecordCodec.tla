--------------------------- MODULE MCRecordCodec ---------------------------
EXTENDS RecordCodec

\* "test", the value of the record-set test in record.rs
Test == <<116, 101, 115, 116>>

\* 64 bytes: the first RecordData length whose varint takes two bytes
Wide == [i \in 1..64 |-> 86]

MCAttributes == {0, -1}

MCValues == {<<>>, Test, Wide}

\* zig-zag widths: 0, -1, 63 -> 1 byte; 64, -65 -> 2 bytes; 8192 -> 3 bytes
MCDeltas == {0, -1, 63, 64, -65, 8192}

\* Record::new("test") and a keyed record with a non-zero offset delta
MCSetRecords ==
    { NewRecord(Test),
      [NewKeyValue(<<1>>, Test) EXCEPT !.preamble.offset_delta = 1] }
====
