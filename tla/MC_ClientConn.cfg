\* A peer that is silent, sends a good or a bad hello, or closes; after a
\* good hello, up to three frames and five stream ends in chunks of 1 or 4
\* bytes, and one read deadline expiry.
CONSTANTS
    Streams <- MC_Streams
    ChunkSizes = {1, 4}
    DecodeMax = 2
    MaxTimeouts = 1
SPECIFICATION Spec
INVARIANT TypeOK
INVARIANT OkMeansHelloExchanged
INVARIANT ReaderDeliversStream
INVARIANT MalformedOverCountOnlyOnClose
PROPERTY HandshakeReturns
PROPERTY HelpersExit
PROPERTY PeerCloseEndsReader
\* The connection's goroutines end, and the peer may stop sending for ever.
CHECK_DEADLOCK FALSE
