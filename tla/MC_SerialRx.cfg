\* Streams of up to 3 pieces, Reads of 1 to 4 bytes, and up to 7 read
\* errors: enough consecutive failures to take the sleep to its 500 ms cap
\* (20, 40, ..., 320, 500).
CONSTANTS
    Streams <- MC_Streams
    ChunkSizes = {1, 2, 3, 4}
    MaxErrors = 7
SPECIFICATION Spec
INVARIANT TypeOK
INVARIANT ChunkingInvariant
INVARIANT EveryFrameDecoded
INVARIANT BackoffFollowsErrorRun
\* The goroutine ends (cancelled or on a fatal read error) and the port
\* may run dry: both are final states of the RX loop.
CHECK_DEADLOCK FALSE
