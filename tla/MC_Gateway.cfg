CONSTANTS
    p1 = p1
    Producers <- MC_Producers
    MaxSends = 1
    BufSize = 1
    BusFrames = 1
    CmdLines <- MC_CmdLines
    Envs <- MC_Envs
    SerialStreams <- MC_SerialStreams
    SerialChunks = {16}
    MaxErrors = 5
SPECIFICATION Spec
INVARIANT TypeOK
INVARIANT BackoffFollowsErrorRun
PROPERTY CleanupCompletes
PROPERTY WaitReturnsOnceRxEnds
PROPERTY SerialShutdownCompletes
PROPERTY ServeFailureStopsGoroutines
\* After main's wg.Wait() returns the process ends; an idle gateway that
\* never gets its signal also stops here.
CHECK_DEADLOCK FALSE
