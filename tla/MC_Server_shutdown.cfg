CONSTANTS
    c1 = c1
    c2 = c2
    NoConn = NoConn
    UseShutdown = TRUE
    Clients <- MC_Clients
    OutBufSize = 1
    HubPolicies = {"drop"}
    MaxFrames = 0
    MaxClients = 0
    BatchSize = 2
SPECIFICATION Spec
PROPERTY ShutdownReleasesClients
\* The gateway may sit idle for ever: no connection arrives and no CAN
\* frame is received.
CHECK_DEADLOCK FALSE
