---------------------------- MODULE MC_ClientConn ----------------------------
EXTENDS ClientConn, CnlScenarios
=============================================================================
