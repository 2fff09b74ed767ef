CONSTANTS
    Streams <- MC_StreamsTwo
    ChunkSizes = {1, 2}
    DecodeMax = 2
    MaxTimeouts = 1
SPECIFICATION Spec
INVARIANT
    FramesInOrder
CHECK_DEADLOCK FALSE
