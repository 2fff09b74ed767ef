---------------------------- MODULE SocketCanRx ----------------------------
(***************************************************************************)
(* The SocketCAN backend's RX goroutine (initSocketCANBackend,            *)
(* cmd/can-server/backend_socketcan.go) and its cleanup: check the        *)
(* context, Device.ReadFrame (a blocking unix.Read of the raw socket),    *)
(* broadcast the frame and reset the backoff, or on an error return if    *)
(* the context is cancelled and otherwise sleep with a doubling backoff.  *)
(* main calls cancel() and then the cleanup, which is dev.Close() (then   *)
(* the TX funnel's Close, modelled in AsyncTx), and waits for the group.  *)
(*                                                                         *)
(* The select on ctx.Done and the call of ReadFrame are separate steps:  *)
(* main's cancel() and dev.Close() may both fall between them.            *)
(*                                                                         *)
(* A read(2) that is in progress holds the open file: unix.Close of the   *)
(* descriptor does not wake it (close(2), Linux).  A read started after   *)
(* the close fails at once with EBADF.  readOnClosed records which of the *)
(* two the current read is.  When the interface is removed, the raw     *)
(* socket's next read reports ENODEV once (raw_notify sets sk_err, which *)
(* the read clears) and later reads find no frames: dev is "up", then     *)
(* "enodev" until a read reports it, then "gone".                         *)
(***************************************************************************)
EXTENDS Naturals

CONSTANTS
    BusFrames,  \* frames the bus delivers in one behaviour
    MaxErrors,  \* transient read errors (short reads, I/O errors)
    Removable   \* the CAN interface may disappear

ASSUME BusFrames \in Nat /\ MaxErrors \in Nat /\ Removable \in BOOLEAN

RxBackoffMin == 20
RxBackoffMax == 500

\* errRun stops counting here: from then on the backoff sits at its cap
\* (20 * 2^5 > 500), so the history keeps what the backoff depends on.
ErrRunCap == 6

VARIABLES
    rxPc,         \* "top" (ctx check), "call" (past the select, before
                  \* unix.Read), "reading" (in unix.Read), "exited"
    readOnClosed, \* the current read began after dev.Close()
    ctxDone,      \* the root context is cancelled
    devClosed,    \* the cleanup has closed the descriptor
    dev,          \* the CAN interface: "up", "enodev", "gone"
    busLeft,      \* frames still to come from the bus
    broadcast,    \* frames passed to Hub.Broadcast
    backoff,      \* the next sleep
    slept,        \* the last sleep taken (0: none yet)
    errRun,       \* history: failed reads since the last frame, up to ErrRunCap
    nErr          \* transient errors so far

vars == <<rxPc, readOnClosed, ctxDone, devClosed, dev, busLeft, broadcast,
          backoff, slept, errRun, nErr>>

MinOf(a, b) == IF a <= b THEN a ELSE b

TypeOK ==
    /\ rxPc \in {"top", "call", "reading", "exited"}
    /\ {readOnClosed, ctxDone, devClosed} \subseteq BOOLEAN
    /\ dev \in {"up", "enodev", "gone"}
    /\ busLeft \in 0..BusFrames /\ broadcast + busLeft = BusFrames
    /\ backoff \in {MinOf(RxBackoffMin * 2^k, RxBackoffMax) : k \in 0..ErrRunCap}
    /\ errRun \in 0..ErrRunCap /\ nErr \in 0..MaxErrors

Init ==
    /\ rxPc = "top" /\ readOnClosed = FALSE
    /\ ctxDone = FALSE /\ devClosed = FALSE /\ dev = "up"
    /\ busLeft = BusFrames /\ broadcast = 0
    /\ backoff = RxBackoffMin /\ slept = 0 /\ errRun = 0 /\ nErr = 0

\* select { case <-ctx.Done(): return; default: }.
CheckCtx ==
    /\ rxPc = "top"
    /\ rxPc' = IF ctxDone THEN "exited" ELSE "call"
    /\ UNCHANGED <<readOnClosed, ctxDone, devClosed, dev, busLeft, broadcast,
                   backoff, slept, errRun, nErr>>

\* dev.ReadFrame enters unix.Read(d.fd, ...): on a descriptor the cleanup
\* has already closed, the read will fail with EBADF.
StartRead ==
    /\ rxPc = "call"
    /\ rxPc' = "reading" /\ readOnClosed' = devClosed
    /\ UNCHANGED <<ctxDone, devClosed, dev, busLeft, broadcast, backoff,
                   slept, errRun, nErr>>

\* Mutant: a frame read leaves the backoff where the errors put it.
ReadFrameOkNoReset ==
    /\ rxPc = "reading" /\ ~readOnClosed /\ dev = "up" /\ busLeft > 0
    /\ busLeft' = busLeft - 1 /\ broadcast' = broadcast + 1
    /\ errRun' = 0 /\ rxPc' = "top"
    /\ UNCHANGED <<readOnClosed, ctxDone, devClosed, dev, backoff, slept, nErr>>

\* unix.Read returns a full 16-byte frame (n = CAN_MTU), ReadFrame
\* returns nil and the loop does IncSocketCANRx, h.Broadcast(fr), backoff reset.
ReadFrameOk ==
    /\ rxPc = "reading" /\ ~readOnClosed /\ dev = "up" /\ busLeft > 0
    /\ busLeft' = busLeft - 1 /\ broadcast' = broadcast + 1
    /\ backoff' = RxBackoffMin /\ errRun' = 0 /\ rxPc' = "top"
    /\ UNCHANGED <<readOnClosed, ctxDone, devClosed, dev, slept, nErr>>

\* Mutant: the doubling is not capped at rxBackoffMax.
ReadFrameErrNoCap(cause) ==
    /\ rxPc = "reading"
    /\ CASE cause = "badfd" ->
              readOnClosed /\ UNCHANGED <<nErr, dev>>
         [] cause = "enodev" ->
              ~readOnClosed /\ dev = "enodev" /\ dev' = "gone" /\ UNCHANGED nErr
         [] cause = "transient" ->
              ~readOnClosed /\ dev = "up" /\ nErr < MaxErrors
              /\ nErr' = nErr + 1 /\ UNCHANGED dev
    /\ IF ctxDone
         THEN rxPc' = "exited" /\ UNCHANGED <<backoff, slept, errRun>>
         ELSE /\ slept' = backoff
              /\ backoff' = backoff * 2
              /\ errRun' = MinOf(errRun + 1, ErrRunCap)
              /\ rxPc' = "top"
    /\ UNCHANGED <<readOnClosed, ctxDone, devClosed, busLeft, broadcast>>

\* ReadFrame returns an error: EBADF on a descriptor closed before the
\* read, ENODEV once the interface is gone, or a transient error.  The
\* goroutine returns if ctx is cancelled, and otherwise sleeps for
\* backoff, doubles it up to rxBackoffMax and loops.
ReadFrameErr(cause) ==
    /\ rxPc = "reading"
    /\ CASE cause = "badfd" ->
              readOnClosed /\ UNCHANGED <<nErr, dev>>
         [] cause = "enodev" ->
              ~readOnClosed /\ dev = "enodev" /\ dev' = "gone" /\ UNCHANGED nErr
         [] cause = "transient" ->
              ~readOnClosed /\ dev = "up" /\ nErr < MaxErrors
              /\ nErr' = nErr + 1 /\ UNCHANGED dev
    /\ IF ctxDone
         THEN rxPc' = "exited" /\ UNCHANGED <<backoff, slept, errRun>>
         ELSE /\ slept' = backoff
              /\ backoff' = MinOf(backoff * 2, RxBackoffMax)
              /\ errRun' = MinOf(errRun + 1, ErrRunCap)
              /\ rxPc' = "top"
    /\ UNCHANGED <<readOnClosed, ctxDone, devClosed, busLeft, broadcast>>

\* main: cancel() on a signal.
Cancel ==
    /\ ~ctxDone /\ ctxDone' = TRUE
    /\ UNCHANGED <<rxPc, readOnClosed, devClosed, dev, busLeft, broadcast,
                   backoff, slept, errRun, nErr>>

\* main: cleanup() after cancel(), whose first step is dev.Close().
Cleanup ==
    /\ ctxDone /\ ~devClosed /\ devClosed' = TRUE
    /\ UNCHANGED <<rxPc, readOnClosed, ctxDone, dev, busLeft, broadcast,
                   backoff, slept, errRun, nErr>>

\* The CAN interface disappears (USB adapter unplugged, link deleted).
DeviceRemoved ==
    /\ Removable /\ dev = "up" /\ dev' = "enodev"
    /\ UNCHANGED <<rxPc, readOnClosed, ctxDone, devClosed, busLeft, broadcast,
                   backoff, slept, errRun, nErr>>

\* The steps the goroutine takes as soon as it can: the context check,
\* the call into the read, a read with a frame waiting, a read that fails
\* at once.
RxStep ==
    \/ CheckCtx
    \/ StartRead
    \/ ReadFrameOk
    \/ ReadFrameErr("badfd")
    \/ ReadFrameErr("enodev")

Next ==
    \/ RxStep
    \/ ReadFrameErr("transient")
    \/ Cancel
    \/ Cleanup
    \/ DeviceRemoved

Spec == Init /\ [][Next]_vars

\* The goroutine runs when it can, and main runs cleanup() after cancel().
FairSpec == Spec /\ WF_vars(RxStep) /\ WF_vars(Cleanup)

-----------------------------------------------------------------------------
(* Properties                                                              *)

\* Spec 5 (backoff): the k-th consecutive failed read sleeps
\* rxBackoffMin * 2^(k-1), capped at rxBackoffMax; a frame read restarts
\* the sequence from rxBackoffMin.
BackoffFollowsErrorRun ==
    errRun > 0 => slept = MinOf(RxBackoffMin * 2^(errRun - 1), RxBackoffMax)

\* Spec 5 (cancellation): after cancel() and the backend's close, the RX
\* goroutine ends, so main's wg.Wait() returns.
ShutdownEndsRx == ctxDone ~> rxPc = "exited"

\* Spec 7: a device-removal error ends the backend RX loop (and is
\* reported as fatal), without waiting for a shutdown.  The goroutine
\* treats the ENODEV of a removed interface like any read error: it
\* sleeps, loops and reads again.
DeviceRemovalEndsRx == dev = "gone" ~> (rxPc = "exited" \/ ctxDone)

=============================================================================
