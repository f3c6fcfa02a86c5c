CONSTANTS
    NoKey = NoKey
    MaxVarBytes = 10
    Attributes <- MCAttributes
    Deltas <- MCDeltas
    Values <- MCValues
    Headers = {0, 1}
    SetRecords <- MCSetRecords
    BaseOffsets = {0, 5}
    MaxBatches = 4
SPECIFICATION CodecSpec
INVARIANTS
    RecordRoundTrip
    WriteSizeMatchesEncoding
    RecordSetDecodesWholeBatches
    LegacyKeyCompatible
