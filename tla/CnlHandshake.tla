---------------------------- MODULE CnlHandshake ----------------------------
(***************************************************************************)
(* The Cannelloni hello exchange, cnl.Handshake (internal/cnl/            *)
(* handshake.go), as acceptOnce runs it inline for each accepted          *)
(* connection (internal/server/server.go): set the conn deadline, start a *)
(* writer goroutine (WriteString of the hello) and a reader goroutine      *)
(* (ReadFull of len(hello) bytes, compared with the hello), each sending  *)
(* its error to the buffered channel errCh; then receive twice from errCh *)
(* or return on ctx.Done.  The deferred SetDeadline(time.Time{}) clears   *)
(* the deadline on every return; on an error acceptOnce closes the conn.  *)
(*                                                                         *)
(* The peer is the environment: it sends a good or a bad hello, closes,   *)
(* or stays silent.  Time only matters through the deadline: Expire is    *)
(* the moment it passes.  Write and read results are "nil" or "err".      *)
(***************************************************************************)
EXTENDS Naturals, Sequences

\* Mutant: errCh has room for one result only.
ErrChCapOne == 1

\* errCh := make(chan error, 2)
ErrChCap == 2

VARIABLES
    hsPc,      \* Handshake: "start", "wait" (the receive loop), "returned"
    recvd,     \* the loop index i: nil results received so far
    result,    \* what Handshake returned: "none", "ok", "err", "ctx"
    errCh,     \* the buffered contents of errCh
    wrPc,      \* writer goroutine: "idle", "writing", "sending", "done"
    wrRes,     \* the writer's error
    rdPc,      \* reader goroutine: "idle", "reading", "sending", "done"
    rdRes,     \* the reader's error
    deadline,  \* a deadline is set on the conn
    expired,   \* the deadline has passed
    connOpen,  \* our side of the conn is open
    ctxDone,   \* the server context is cancelled
    peer,      \* the peer: "silent", "good", "bad" (hello sent), "closed"
    accPc      \* acceptOnce after the handshake: "handshake", "closed", "admit"

vars == <<hsPc, recvd, result, errCh, wrPc, wrRes, rdPc, rdRes, deadline,
          expired, connOpen, ctxDone, peer, accPc>>

Results == {"nil", "err"}

TypeOK ==
    /\ hsPc \in {"start", "wait", "returned"} /\ recvd \in 0..2
    /\ result \in {"none", "ok", "err", "ctx"}
    /\ errCh \in Seq(Results) /\ Len(errCh) <= ErrChCap
    /\ wrPc \in {"idle", "writing", "sending", "done"} /\ wrRes \in Results
    /\ rdPc \in {"idle", "reading", "sending", "done"} /\ rdRes \in Results
    /\ {deadline, expired, connOpen, ctxDone} \subseteq BOOLEAN
    /\ peer \in {"silent", "good", "bad", "closed"}
    /\ accPc \in {"handshake", "closed", "admit"}

\* A connection just accepted; the handshake has not begun.
Init ==
    /\ hsPc = "start" /\ recvd = 0 /\ result = "none" /\ errCh = << >>
    /\ wrPc = "idle" /\ wrRes = "nil" /\ rdPc = "idle" /\ rdRes = "nil"
    /\ deadline = FALSE /\ expired = FALSE /\ connOpen = TRUE
    /\ ctxDone = FALSE /\ peer = "silent" /\ accPc = "handshake"

-----------------------------------------------------------------------------
(* Handshake                                                               *)

\* Mutant: the deadline is never set.
BeginNoDeadline ==
    /\ hsPc = "start"
    /\ hsPc' = "wait" /\ wrPc' = "writing" /\ rdPc' = "reading"
    /\ UNCHANGED <<recvd, result, errCh, wrRes, rdRes, deadline, expired,
                   connOpen, ctxDone, peer, accPc>>

\* SetDeadline(now + timeout) (on a conn just accepted it cannot fail),
\* make errCh, start the writer and the reader goroutines.
Begin ==
    /\ hsPc = "start"
    /\ deadline' = TRUE
    /\ hsPc' = "wait" /\ wrPc' = "writing" /\ rdPc' = "reading"
    /\ UNCHANGED <<recvd, result, errCh, wrRes, rdRes, expired, connOpen,
                   ctxDone, peer, accPc>>

\* Return, running the deferred SetDeadline(time.Time{}): the deadline is
\* cleared, so a read still blocked no longer times out.
Return(res) ==
    /\ hsPc' = "returned" /\ result' = res
    /\ deadline' = FALSE /\ expired' = FALSE

\* Mutant: the loop stops after one receive (i < 1).
RecvOnce ==
    /\ hsPc = "wait" /\ errCh # << >>
    /\ errCh' = Tail(errCh)
    /\ IF Head(errCh) = "err" THEN Return("err") /\ UNCHANGED recvd
       ELSE recvd' = recvd + 1 /\ Return("ok")
    /\ UNCHANGED <<wrPc, wrRes, rdPc, rdRes, connOpen, ctxDone, peer, accPc>>

\* case err := <-errCh: a non-nil error returns at once; the second nil
\* ends the loop and Handshake returns nil.
Recv ==
    /\ hsPc = "wait" /\ errCh # << >>
    /\ errCh' = Tail(errCh)
    /\ IF Head(errCh) = "err" THEN Return("err") /\ UNCHANGED recvd
       ELSE IF recvd + 1 = 2 THEN recvd' = 2 /\ Return("ok")
       ELSE recvd' = recvd + 1
            /\ UNCHANGED <<hsPc, result, deadline, expired>>
    /\ UNCHANGED <<wrPc, wrRes, rdPc, rdRes, connOpen, ctxDone, peer, accPc>>

\* case <-ctx.Done(): return ctx.Err() (Go may pick this case while errCh
\* also holds a result).
RecvCtx ==
    /\ hsPc = "wait" /\ ctxDone
    /\ Return("ctx")
    /\ UNCHANGED <<recvd, errCh, wrPc, wrRes, rdPc, rdRes, connOpen, ctxDone,
                   peer, accPc>>

-----------------------------------------------------------------------------
(* The two goroutines                                                      *)

\* io.WriteString(c, hello): the 12 bytes go into the socket buffer or the
\* write fails (reset by the peer); it fails once the deadline has passed
\* or the conn is closed.
Write ==
    /\ wrPc = "writing"
    /\ \E r \in Results :
         /\ (expired \/ ~connOpen) => r = "err"
         /\ wrRes' = r
    /\ wrPc' = "sending"
    /\ UNCHANGED <<hsPc, recvd, result, errCh, rdPc, rdRes, deadline, expired,
                   connOpen, ctxDone, peer, accPc>>

\* io.ReadFull(c, buf) returns once the peer's 12 bytes are there (an
\* error if they are not the hello), or fails on the passed deadline, a
\* closed conn or the peer's EOF.  Otherwise it blocks.
Read ==
    /\ rdPc = "reading"
    /\ \/ peer \in {"good", "bad"}
          /\ rdRes' = IF peer = "good" THEN "nil" ELSE "err"
       \/ (expired \/ ~connOpen \/ peer = "closed") /\ rdRes' = "err"
    /\ rdPc' = "sending"
    /\ UNCHANGED <<hsPc, recvd, result, errCh, wrPc, wrRes, deadline, expired,
                   connOpen, ctxDone, peer, accPc>>

\* errCh <- err: blocks while the channel is full.
WriterSend ==
    /\ wrPc = "sending" /\ Len(errCh) < ErrChCap
    /\ errCh' = Append(errCh, wrRes) /\ wrPc' = "done"
    /\ UNCHANGED <<hsPc, recvd, result, rdPc, rdRes, wrRes, deadline, expired,
                   connOpen, ctxDone, peer, accPc>>

ReaderSend ==
    /\ rdPc = "sending" /\ Len(errCh) < ErrChCap
    /\ errCh' = Append(errCh, rdRes) /\ rdPc' = "done"
    /\ UNCHANGED <<hsPc, recvd, result, wrPc, wrRes, rdRes, deadline, expired,
                   connOpen, ctxDone, peer, accPc>>

-----------------------------------------------------------------------------
(* acceptOnce after the handshake, and the environment                     *)

\* An error (ctx.Err() included) is counted and the conn closed; on nil
\* the connection goes on to admission (modelled in Server).
AfterHandshake ==
    /\ hsPc = "returned" /\ accPc = "handshake"
    /\ IF result = "ok"
         THEN accPc' = "admit" /\ UNCHANGED connOpen
         ELSE accPc' = "closed" /\ connOpen' = FALSE
    /\ UNCHANGED <<hsPc, recvd, result, errCh, wrPc, wrRes, rdPc, rdRes,
                   deadline, expired, ctxDone, peer>>

\* The handshake timeout elapses while the deadline is set.
Expire ==
    /\ deadline /\ ~expired /\ expired' = TRUE
    /\ UNCHANGED <<hsPc, recvd, result, errCh, wrPc, wrRes, rdPc, rdRes,
                   deadline, connOpen, ctxDone, peer, accPc>>

PeerHello(h) ==
    /\ peer = "silent" /\ peer' = h
    /\ UNCHANGED <<hsPc, recvd, result, errCh, wrPc, wrRes, rdPc, rdRes,
                   deadline, expired, connOpen, ctxDone, accPc>>

CtxCancel ==
    /\ ~ctxDone /\ ctxDone' = TRUE
    /\ UNCHANGED <<hsPc, recvd, result, errCh, wrPc, wrRes, rdPc, rdRes,
                   deadline, expired, connOpen, peer, accPc>>

Handshake == Begin \/ Recv \/ RecvCtx \/ AfterHandshake

Helpers == Write \/ Read \/ WriterSend \/ ReaderSend

Next ==
    \/ Handshake \/ Helpers \/ Expire
    \/ \E h \in {"good", "bad", "closed"} : PeerHello(h)
    \/ CtxCancel

(***************************************************************************)
(* Every goroutine runs when it can, and time passes: a deadline that is  *)
(* set eventually expires.  The peer and the cancellation get no fairness *)
(* (the peer may stay silent for ever).                                   *)
(***************************************************************************)
Spec == Init /\ [][Next]_vars
        /\ WF_vars(Handshake) /\ WF_vars(Helpers) /\ WF_vars(Expire)

-----------------------------------------------------------------------------
(* Properties                                                              *)

\* Handshake returns nil only when both goroutines succeeded: our hello was
\* written and the peer's 12 bytes were the hello.
OkMeansHelloExchanged ==
    result = "ok" => wrRes = "nil" /\ rdRes = "nil" /\ peer = "good"

\* A peer that never sends the hello cannot hold the accept loop for
\* ever: the conn deadline makes Handshake return, and acceptOnce moves on.
HandshakeReturns == <>(accPc # "handshake")

\* Both helper goroutines end, whatever Handshake returned and whenever:
\* errCh has room for both results, and a read left blocked once the
\* deferred reset has cleared the deadline is ended by acceptOnce's
\* conn.Close.
HelpersExit == <>[](wrPc = "done" /\ rdPc = "done")

=============================================================================
