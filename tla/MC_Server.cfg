CONSTANTS
    c1 = c1
    c2 = c2
    NoConn = NoConn
    UseShutdown = TRUE
    Clients <- MC_Clients
    OutBufSize = 1
    HubPolicies = {"drop", "kick", "fifo"}
    MaxFrames = 2
    MaxClients = 1
    BatchSize = 2
SPECIFICATION Spec
INVARIANT TypeOK
INVARIANT MaxClientsRespected
INVARIANT WireFollowsHubOrder
PROPERTY CancelTearsDownClients
PROPERTY LostClientTornDown
INVARIANT ShutdownAfterReadyClosesListener
\* The gateway may sit idle for ever: no connection arrives and no CAN
\* frame is received.
CHECK_DEADLOCK FALSE
