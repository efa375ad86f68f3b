\* Every length up to two full frames, with the limits of the code.
SPECIFICATION Spec
CONSTANTS
    MsgLens <- MCMsgLens
    Seqs = {0, 10, 12345678}
    FragMax = 1394
    ChunkMax = 252
    SlotMax = 10
    CsvMax = 500
    LineMax = 199
    Before <- MCBefore
    After <- MCAfter
INVARIANTS
    SlotsSuffice
    Reassembled
    RecordFits
    AckReadBack
\* A frame that has been heard is the end.
CHECK_DEADLOCK FALSE
