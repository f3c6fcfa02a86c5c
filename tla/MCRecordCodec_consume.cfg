CONSTANTS
    NoKey = NoKey
    MaxVarBytes = 10
    Attributes <- MCAttributes
    Deltas <- MCDeltas
    Values <- MCValues
    Headers = {0, 1}
    SetRecords <- MCSetRecords
    BaseOffsets = {0, 5}
    MaxBatches = 3
SPECIFICATION SetSpec
INVARIANT
    RecordSetConsumesDeclaredLength
