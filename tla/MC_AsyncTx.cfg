CONSTANTS
    p1 = p1
    p2 = p2
    Producers <- MC_Producers
    MaxSends = 2
    BufSize = 1
SPECIFICATION Spec
INVARIANT TypeOK
INVARIANT NoSendOnClosedChannel
INVARIANT DeviceOrderFollowsEnqueueOrder
PROPERTY NoDeviceWriteAfterClose
PROPERTY AcceptedEventuallySent
PROPERTY FunnelRefined
\* Every SendFrame call and Close may be finished with the worker idle
\* on an empty channel: the funnel legitimately stops there.
CHECK_DEADLOCK FALSE
