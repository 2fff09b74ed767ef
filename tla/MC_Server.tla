------------------------------ MODULE MC_Server ------------------------------
(* Two connections, frames and a one-slot Out channel with batches of two: *)
(* a full queue, a partial batch left to the ticker, and a second         *)
(* connection racing admission, teardown and Shutdown.                     *)
EXTENDS Server, TLC

CONSTANTS c1, c2

MC_Clients == {c1, c2}
=============================================================================
