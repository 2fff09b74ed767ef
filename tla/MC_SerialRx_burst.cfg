\* A sustained burst: every Read returns a full 4096-byte buffer.
CONSTANTS
    Streams <- MC_StreamsBurst
    ChunkSizes = {4096}
    MaxErrors = 0
SPECIFICATION Spec
INVARIANT EveryFrameDecoded
CHECK_DEADLOCK FALSE
