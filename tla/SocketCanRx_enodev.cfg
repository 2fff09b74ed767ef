\* The interface is removed while the bus is idle; no signal comes.
CONSTANTS
    BusFrames = 1
    MaxErrors = 0
    Removable = TRUE
SPECIFICATION FairSpec
PROPERTY
    DeviceRemovalEndsRx
CHECK_DEADLOCK FALSE
