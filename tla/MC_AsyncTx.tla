------------------------------ MODULE MC_AsyncTx ------------------------------
(* Two client readers feeding a one-slot funnel, two frames each: enough   *)
(* for an overflow, for a frame enqueued behind another, and for a Send    *)
(* racing each step of Close.                                              *)
EXTENDS AsyncTx, TLC

CONSTANTS p1, p2

MC_Producers == {p1, p2}

=============================================================================
