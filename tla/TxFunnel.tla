------------------------------ MODULE TxFunnel ------------------------------
(***************************************************************************)
(* What the asynchronous TX funnel promises its callers (the doc comment  *)
(* of AsyncTx, unnamed/part_012 lines 12-29), as an abstract queue with  *)
(* atomic steps: frames accepted while the funnel is open are handed to  *)
(* the device one at a time in acceptance order, each exactly once, with *)
(* a success or an error; the worker stops only when cancelled or when    *)
(* the funnel is closed with nothing left; Close returns only after the   *)
(* worker has stopped, so no frame is handed over after that.  Dropping  *)
(* a frame on a full buffer changes nothing here.                         *)
(***************************************************************************)
EXTENDS Sequences

CONSTANT Frames

VARIABLES
    open,       \* Close has not begun: frames are accepted
    cancelled,  \* the funnel's context is done
    queue,      \* accepted frames not yet handed to the device
    written,    \* frames the device accepted, in order
    failed,     \* frames the device rejected
    stopped,    \* the worker has stopped
    returned    \* Close has returned

fvars == <<open, cancelled, queue, written, failed, stopped, returned>>

FInit ==
    /\ open = TRUE /\ cancelled = FALSE /\ queue = << >>
    /\ written = << >> /\ failed = {}
    /\ stopped = FALSE /\ returned = FALSE

Accept(f) ==
    /\ open
    /\ queue' = Append(queue, f)
    /\ UNCHANGED <<open, cancelled, written, failed, stopped, returned>>

Hand ==
    /\ ~stopped /\ queue # << >>
    /\ \/ written' = Append(written, Head(queue)) /\ UNCHANGED failed
       \/ failed' = failed \cup {Head(queue)} /\ UNCHANGED written
    /\ queue' = Tail(queue)
    /\ UNCHANGED <<open, cancelled, stopped, returned>>

Stop ==
    /\ ~stopped
    /\ cancelled \/ (~open /\ queue = << >>)
    /\ stopped' = TRUE
    /\ UNCHANGED <<open, cancelled, queue, written, failed, returned>>

Cancel ==
    /\ ~cancelled /\ cancelled' = TRUE
    /\ UNCHANGED <<open, queue, written, failed, stopped, returned>>

BeginClose ==
    /\ open /\ open' = FALSE
    /\ UNCHANGED <<cancelled, queue, written, failed, stopped, returned>>

EndClose ==
    /\ ~open /\ cancelled /\ stopped /\ ~returned
    /\ returned' = TRUE
    /\ UNCHANGED <<open, cancelled, queue, written, failed, stopped>>

FNext ==
    \/ \E f \in Frames : Accept(f)
    \/ Hand \/ Stop \/ Cancel \/ BeginClose \/ EndClose

\* The worker keeps handing frames over until it stops, and a Close that
\* has begun returns once the worker has stopped.
FSpec == FInit /\ [][FNext]_fvars /\ WF_fvars(Hand \/ Stop) /\ WF_fvars(EndClose)

=============================================================================
