\* Scenario S4: garbage, then a frame with a 1-byte payload.
CONSTANTS
    Streams <- MC_StreamsS4
    ChunkSizes = {1, 2, 3}
    MaxErrors = 0
SPECIFICATION Spec
INVARIANT EveryFrameDecoded
CHECK_DEADLOCK FALSE
