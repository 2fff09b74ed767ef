------------------------------ MODULE MC_CnlRx ------------------------------
EXTENDS CnlRx, CnlScenarios
=============================================================================
