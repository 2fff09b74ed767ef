------------------------------- MODULE AsyncTx -------------------------------
(***************************************************************************)
(* The asynchronous single-writer TX funnel of internal/transport          *)
(* (AsyncTx, part_012): many producers call SendFrame, one worker          *)
(* goroutine drains the bounded channel and calls the device send         *)
(* function, Close stops the worker.                                       *)
(*                                                                         *)
(* The two critical sections guarded by a.mu (the locked part of          *)
(* SendFrame and close(a.ch) in Close) are single atomic actions: a.mu     *)
(* serialises them and nothing else touches a.ch under it.  The atomic    *)
(* closed flag and the context are read and written outside the lock, so *)
(* the fast-path check, the Swap, the cancel and the worker's select are   *)
(* separate steps.                                                         *)
(***************************************************************************)
EXTENDS Naturals, Sequences, SequencesExt

CONSTANTS
    Producers,   \* goroutines calling SendFrame (the per-client readers)
    MaxSends,    \* SendFrame calls per producer (bounds the model)
    BufSize      \* capacity of a.ch (txQueueSize in the program)

ASSUME Producers # {} /\ MaxSends \in Nat \ {0} /\ BufSize \in Nat \ {0}

\* A frame is identified by its producer and the number of its SendFrame call.
Frames == Producers \X (1..MaxSends)

VARIABLES
    closed,      \* a.closed, the atomic flag set by Close
    cancelled,   \* a.ctx is done (Close's cancel or the parent context)
    ch,          \* the buffered contents of a.ch
    chClosed,    \* close(a.ch) has happened
    ppc,         \* producer program counter: "idle" or "locking"
    calls,       \* SendFrame calls started by each producer
    wpc,         \* worker: "loop", "send" (inside a.send) or "exited"
    cur,         \* the frame the worker is sending
    cpc,         \* Close: "open", "cancel", "closech", "wait", "returned"
    panicked,    \* a send on the closed channel happened (runtime panic)
    accepted,    \* history: frames SendFrame enqueued, in enqueue order
    written,     \* history: frames the device accepted (OnAfter calls)
    failed       \* history: frames the device rejected (OnError calls)

vars == <<closed, cancelled, ch, chClosed, ppc, calls, wpc, cur, cpc,
          panicked, accepted, written, failed>>

NoFrame == <<>>

FrameOf(p) == <<p, calls[p]>>

TypeOK ==
    /\ closed \in BOOLEAN /\ cancelled \in BOOLEAN /\ chClosed \in BOOLEAN
    /\ ch \in Seq(Frames) /\ Len(ch) <= BufSize
    /\ ppc \in [Producers -> {"idle", "locking"}]
    /\ calls \in [Producers -> 0..MaxSends]
    /\ wpc \in {"loop", "send", "exited"}
    /\ cur \in Frames \cup {NoFrame}
    /\ cpc \in {"open", "cancel", "closech", "wait", "returned"}
    /\ panicked \in BOOLEAN
    /\ accepted \in Seq(Frames) /\ written \in Seq(Frames)
    /\ failed \in SUBSET Frames

\* NewAsyncTx: fresh channel, context not cancelled, worker started.
Init ==
    /\ closed = FALSE /\ cancelled = FALSE
    /\ ch = <<>> /\ chClosed = FALSE
    /\ ppc = [p \in Producers |-> "idle"]
    /\ calls = [p \in Producers |-> 0]
    /\ wpc = "loop" /\ cur = NoFrame
    /\ cpc = "open" /\ panicked = FALSE
    /\ accepted = <<>> /\ written = <<>> /\ failed = {}

-----------------------------------------------------------------------------
(* SendFrame                                                               *)

\* Fast path: a.closed.Load() outside the lock; a closed funnel returns
\* ErrAsyncTxClosed and the call is over.
SendFastCheck(p) ==
    /\ ppc[p] = "idle" /\ calls[p] < MaxSends
    /\ calls' = [calls EXCEPT ![p] = @ + 1]
    /\ ppc' = [ppc EXCEPT ![p] = IF closed THEN "idle" ELSE "locking"]
    /\ UNCHANGED <<closed, cancelled, ch, chClosed, wpc, cur, cpc, panicked,
                   accepted, written, failed>>

\* Mutant: the buffer's capacity is not respected.
SendLockedNoCapCheck(p) ==
    /\ ppc[p] = "locking"
    /\ ppc' = [ppc EXCEPT ![p] = "idle"]
    /\ IF closed
         THEN UNCHANGED <<ch, accepted, panicked>>
       ELSE IF chClosed
         THEN panicked' = TRUE /\ UNCHANGED <<ch, accepted>>
       ELSE /\ ch' = Append(ch, FrameOf(p))
            /\ accepted' = Append(accepted, FrameOf(p))
            /\ UNCHANGED panicked
    /\ UNCHANGED <<closed, cancelled, chClosed, calls, wpc, cur, cpc,
                   written, failed>>

\* Mutant: the re-check of a.closed under the lock is dropped.
SendLockedNoRecheck(p) ==
    /\ ppc[p] = "locking"
    /\ ppc' = [ppc EXCEPT ![p] = "idle"]
    /\ IF chClosed
         THEN panicked' = TRUE /\ UNCHANGED <<ch, accepted>>
       ELSE IF Len(ch) < BufSize
         THEN /\ ch' = Append(ch, FrameOf(p))
              /\ accepted' = Append(accepted, FrameOf(p))
              /\ UNCHANGED panicked
         ELSE UNCHANGED <<ch, accepted, panicked>>
    /\ UNCHANGED <<closed, cancelled, chClosed, calls, wpc, cur, cpc,
                   written, failed>>

\* Under a.mu: re-check closed, then the non-blocking send.  A full buffer
\* calls OnDrop (ErrTxOverflow); a send on a closed channel panics.
SendLocked(p) ==
    /\ ppc[p] = "locking"
    /\ ppc' = [ppc EXCEPT ![p] = "idle"]
    /\ IF closed
         THEN UNCHANGED <<ch, accepted, panicked>>
       ELSE IF chClosed
         THEN panicked' = TRUE /\ UNCHANGED <<ch, accepted>>
       ELSE IF Len(ch) < BufSize
         THEN /\ ch' = Append(ch, FrameOf(p))
              /\ accepted' = Append(accepted, FrameOf(p))
              /\ UNCHANGED panicked
         ELSE UNCHANGED <<ch, accepted, panicked>>
    /\ UNCHANGED <<closed, cancelled, chClosed, calls, wpc, cur, cpc,
                   written, failed>>

-----------------------------------------------------------------------------
(* The worker goroutine (loop): a select over a.ch and a.ctx.Done(); Go   *)
(* picks any ready case, so both are enabled when both are ready.          *)

WorkerRecv ==
    /\ wpc = "loop" /\ ch # <<>>
    /\ cur' = Head(ch) /\ ch' = Tail(ch)
    /\ wpc' = "send"
    /\ UNCHANGED <<closed, cancelled, chClosed, ppc, calls, cpc, panicked,
                   accepted, written, failed>>

\* Receive on the closed, drained channel: ok is false, the loop returns.
WorkerRecvClosed ==
    /\ wpc = "loop" /\ ch = <<>> /\ chClosed
    /\ wpc' = "exited"
    /\ UNCHANGED <<closed, cancelled, ch, chClosed, ppc, calls, cur, cpc,
                   panicked, accepted, written, failed>>

WorkerCtxDone ==
    /\ wpc = "loop" /\ cancelled
    /\ wpc' = "exited"
    /\ UNCHANGED <<closed, cancelled, ch, chClosed, ppc, calls, cur, cpc,
                   panicked, accepted, written, failed>>

\* Mutant: a failed frame is queued again for a retry.
WorkerSendRetry ==
    /\ wpc = "send"
    /\ \/ written' = Append(written, cur) /\ UNCHANGED <<failed, ch>>
       \/ /\ failed' = failed \cup {cur}
          /\ ch' = IF Len(ch) < BufSize THEN Append(ch, cur) ELSE ch
          /\ UNCHANGED written
    /\ wpc' = "loop" /\ cur' = NoFrame
    /\ UNCHANGED <<closed, cancelled, chClosed, ppc, calls, cpc,
                   panicked, accepted>>

\* Mutant: the loop returns instead of continuing after a send error.
WorkerSendErrorReturns ==
    /\ wpc = "send"
    /\ \/ written' = Append(written, cur) /\ wpc' = "loop" /\ UNCHANGED failed
       \/ failed' = failed \cup {cur} /\ wpc' = "exited" /\ UNCHANGED written
    /\ cur' = NoFrame
    /\ UNCHANGED <<closed, cancelled, ch, chClosed, ppc, calls, cpc,
                   panicked, accepted>>

\* a.send(fr): success calls OnAfter, an error calls OnError; the frame is
\* never retried.
WorkerSend ==
    /\ wpc = "send"
    /\ \/ written' = Append(written, cur) /\ UNCHANGED failed
       \/ failed' = failed \cup {cur} /\ UNCHANGED written
    /\ wpc' = "loop" /\ cur' = NoFrame
    /\ UNCHANGED <<closed, cancelled, ch, chClosed, ppc, calls, cpc,
                   panicked, accepted>>

-----------------------------------------------------------------------------
(* Close, and the parent context                                           *)

\* Mutant: Close goes on to cancel without setting a.closed.
CloseSwapNoFlag ==
    /\ cpc = "open"
    /\ cpc' = "cancel"
    /\ UNCHANGED <<closed, cancelled, ch, chClosed, ppc, calls, wpc, cur,
                   panicked, accepted, written, failed>>

\* a.closed.Swap(true); a second Close would return here.
CloseSwap ==
    /\ cpc = "open"
    /\ closed' = TRUE /\ cpc' = "cancel"
    /\ UNCHANGED <<cancelled, ch, chClosed, ppc, calls, wpc, cur, panicked,
                   accepted, written, failed>>

CloseCancel ==
    /\ cpc = "cancel"
    /\ cancelled' = TRUE /\ cpc' = "closech"
    /\ UNCHANGED <<closed, ch, chClosed, ppc, calls, wpc, cur, panicked,
                   accepted, written, failed>>

\* close(a.ch) under a.mu.
CloseChannel ==
    /\ cpc = "closech"
    /\ chClosed' = TRUE /\ cpc' = "wait"
    /\ UNCHANGED <<closed, cancelled, ch, ppc, calls, wpc, cur, panicked,
                   accepted, written, failed>>

\* Mutant: Close returns without waiting for the worker.
CloseWaitNoJoin ==
    /\ cpc = "wait"
    /\ cpc' = "returned"
    /\ UNCHANGED <<closed, cancelled, ch, chClosed, ppc, calls, wpc, cur,
                   panicked, accepted, written, failed>>

\* Mutant: Close also waits for the buffer to be empty.
CloseWaitForDrain ==
    /\ cpc = "wait" /\ wpc = "exited" /\ ch = << >>
    /\ cpc' = "returned"
    /\ UNCHANGED <<closed, cancelled, ch, chClosed, ppc, calls, wpc, cur,
                   panicked, accepted, written, failed>>

\* a.wg.Wait(): Close returns once the worker has exited.
CloseWait ==
    /\ cpc = "wait" /\ wpc = "exited"
    /\ cpc' = "returned"
    /\ UNCHANGED <<closed, cancelled, ch, chClosed, ppc, calls, wpc, cur,
                   panicked, accepted, written, failed>>

\* The parent context (main's ctx) is cancelled; main does this before it
\* calls the backend cleanup that closes the funnel.
ParentCancel ==
    /\ ~cancelled
    /\ cancelled' = TRUE
    /\ UNCHANGED <<closed, ch, chClosed, ppc, calls, wpc, cur, cpc, panicked,
                   accepted, written, failed>>

Worker == WorkerRecv \/ WorkerRecvClosed \/ WorkerCtxDone \/ WorkerSend

Closer == CloseSwap \/ CloseCancel \/ CloseChannel \/ CloseWait

Next ==
    \/ \E p \in Producers : SendFastCheck(p) \/ SendLocked(p)
    \/ Worker
    \/ Closer
    \/ ParentCancel

\* The worker goroutine and a started Close keep running; a producer that
\* passed the fast path eventually gets the lock.  Nobody is obliged to
\* call SendFrame or Close, nor to cancel the parent context.
Fairness ==
    /\ WF_vars(Worker)
    /\ WF_vars(CloseCancel) /\ WF_vars(CloseChannel) /\ WF_vars(CloseWait)
    /\ \A p \in Producers : WF_vars(SendLocked(p))

Spec == Init /\ [][Next]_vars /\ Fairness

-----------------------------------------------------------------------------
(* Properties                                                              *)

Delivered == Range(written) \cup failed

\* A producer that passed the fast-path check while Close ran concurrently
\* must never send on the channel Close has closed (Go panics): the
\* re-check of a.closed under a.mu in SendFrame is what prevents it.
NoSendOnClosedChannel == ~panicked

\* After Close has returned, the device send function is never called
\* again: Close waits for the worker (a.wg.Wait) before it returns.
NoDeviceWriteAfterClose ==
    [][cpc = "returned" => written' = written /\ failed' = failed]_vars

RECURSIVE IsSubSeqOf(_, _)
IsSubSeqOf(s, t) ==
    IF s = <<>> THEN TRUE
    ELSE IF t = <<>> THEN FALSE
    ELSE IF Head(s) = Head(t) THEN IsSubSeqOf(Tail(s), Tail(t))
    ELSE IsSubSeqOf(s, Tail(t))

\* The device sees the accepted frames in enqueue order, each at most once,
\* the failed ones left out (no retry): FIFO across all producers.
DeviceOrderFollowsEnqueueOrder ==
    /\ IsSubSeqOf(written, accepted)
    /\ \A i, j \in DOMAIN written : i # j => written[i] # written[j]
    /\ failed \cap Range(written) = {}

\* Every frame SendFrame accepted is eventually handed to the device,
\* unless the funnel's context is cancelled first (then the worker may
\* exit with frames still queued).
AcceptedEventuallySent ==
    \A f \in Frames :
        (f \in Range(accepted)) ~> (f \in Delivered \/ cancelled)

\* The spec (8.5, 4.3): when Close returns, every frame a successful
\* SendFrame enqueued has been handed to the device (Close drains).
DrainedWhenCloseReturns ==
    cpc = "returned" => Range(accepted) \subseteq Delivered


(***************************************************************************)
(* Refinement: AsyncTx implements TxFunnel.  The abstract queue is the    *)
(* buffered channel with the frame the worker holds in front of it; the   *)
(* funnel is open until the Swap of a.closed; the worker has stopped when *)
(* loop has returned.  The fast-path check, a drop, the receive from a.ch *)
(* and close(a.ch) are stuttering steps of the abstract funnel.           *)
(***************************************************************************)
Funnel == INSTANCE TxFunnel WITH
    open      <- ~closed,
    queue     <- IF cur = NoFrame THEN ch ELSE << cur >> \o ch,
    stopped   <- wpc = "exited",
    returned  <- cpc = "returned"

\* The funnel keeps the promise of its doc comment: every behaviour of the
\* detailed SendFrame / loop / Close interleaving, with its weak fairness,
\* is a behaviour of the atomic abstract funnel TxFunnel.
FunnelRefined == Funnel!FSpec

=============================================================================
