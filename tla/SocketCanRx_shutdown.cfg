\* An idle bus: no frame arrives and the interface stays up; then the
\* process is signalled.
CONSTANTS
    BusFrames = 0
    MaxErrors = 0
    Removable = FALSE
SPECIFICATION FairSpec
PROPERTY
    ShutdownEndsRx
CHECK_DEADLOCK FALSE
