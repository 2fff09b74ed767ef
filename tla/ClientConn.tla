------------------------------ MODULE ClientConn ------------------------------
(***************************************************************************)
(* One accepted TCP connection, as acceptOnce (internal/server/server.go) *)
(* drives it: cnl.Handshake on the conn (module CnlHandshake, as Hs), and *)
(* once it returned nil, newClient, the s.clients entry and startReader, *)
(* whose goroutine runs the DecodeN loop on the same conn (module CnlRx,  *)
(* as Rd).  The server context is shared: one cancel reaches the          *)
(* handshake's select and the reader's round check.                       *)
(*                                                                         *)
(* The reader's variables sit at their initial values until the handshake *)
(* admits the connection; the peer's frames are taken to reach the socket *)
(* after that (bytes that arrive earlier wait unread in the socket, which *)
(* the reader sees the same way).  The max-clients rejection after a good *)
(* handshake is modelled in Server.  connOpen is the conn during the      *)
(* handshake and closed after admission: the handshake closes it only on *)
(* the error path, where no reader starts.                                 *)
(***************************************************************************)
EXTENDS Naturals

CONSTANTS Streams, ChunkSizes, DecodeMax, MaxTimeouts

VARIABLES
    \* CnlHandshake
    hsPc, recvd, result, errCh, wrPc, wrRes, rdPc, rdRes, deadline, expired,
    connOpen, peer, accPc,
    \* shared: the server context
    ctxDone,
    \* CnlRx
    sent, pending, avail, peerEOF, closed, rPc, got, count, frames, malformed,
    srvErr, exitWhy, nTimeout

Hs == INSTANCE CnlHandshake
Rd == INSTANCE CnlRx

hsVars == <<hsPc, recvd, result, errCh, wrPc, wrRes, rdPc, rdRes, deadline,
            expired, connOpen, peer, accPc>>
rdVars == <<sent, pending, avail, peerEOF, closed, rPc, got, count, frames,
            malformed, srvErr, exitWhy, nTimeout>>
vars == <<hsVars, ctxDone, rdVars>>

TypeOK == Hs!TypeOK /\ Rd!TypeOK

Init == Hs!Init /\ Rd!Init

\* startReader has run: the client was admitted after a nil handshake.
Admitted == accPc = "admit"

-----------------------------------------------------------------------------
(* The handshake phase                                                     *)

HsStep ==
    /\ \/ Hs!Handshake \/ Hs!Helpers \/ Hs!Expire
       \/ \E h \in {"good", "bad", "closed"} : Hs!PeerHello(h)
    /\ UNCHANGED rdVars

\* cancel() of the server context, at any time.
CtxCancel == Hs!CtxCancel /\ UNCHANGED rdVars

-----------------------------------------------------------------------------
(* The admitted connection: the reader goroutine and its environment       *)

ReaderStep ==
    /\ Admitted
    /\ Rd!Reader \/ Rd!Timeout
    /\ UNCHANGED hsVars

PeerStream ==
    /\ Admitted
    /\ (\E k \in ChunkSizes : Rd!Arrive(k)) \/ Rd!PeerClose
    /\ UNCHANGED hsVars

\* The writer's teardown or Shutdown closes the conn.
ConnClose ==
    /\ Admitted
    /\ Rd!LocalClose
    /\ UNCHANGED hsVars

Next == HsStep \/ CtxCancel \/ ReaderStep \/ PeerStream \/ ConnClose

(***************************************************************************)
(* The handshake's goroutines run when they can and its deadline passes;  *)
(* the reader runs whenever one of its reads can return.  The peer, the   *)
(* close and the cancellation get no fairness.                            *)
(***************************************************************************)
Spec ==
    /\ Init /\ [][Next]_vars
    /\ WF_vars(Hs!Handshake /\ UNCHANGED rdVars)
    /\ WF_vars(Hs!Helpers /\ UNCHANGED rdVars)
    /\ WF_vars(Hs!Expire /\ UNCHANGED rdVars)
    /\ WF_vars(Admitted /\ Rd!Reader /\ UNCHANGED hsVars)

-----------------------------------------------------------------------------
(* Properties                                                              *)

\* Handshake returns nil only when both goroutines succeeded: our hello was
\* written and the peer's 12 bytes were the hello.
OkMeansHelloExchanged == Hs!OkMeansHelloExchanged

\* A peer that never sends the hello cannot hold the accept loop for
\* ever: the conn deadline makes Handshake return, and acceptOnce moves on.
HandshakeReturns == Hs!HandshakeReturns

\* Both handshake helper goroutines end, whatever Handshake returned and
\* whenever (errCh has room for both results; a read left blocked after
\* the deadline reset is ended by acceptOnce's conn.Close).
HelpersExit == Hs!HelpersExit

\* However TCP splits the peer's bytes after the hello, the reader hands
\* the backend the frames the peer encoded, in order; when the stream
\* ends the goroutine, with the error, malformed count and setError report
\* of the whole-stream decode (while no read deadline has expired).
ReaderDeliversStream == Rd!ReaderDeliversStream

\* Once the peer has closed the connection, the reader goroutine ends: it
\* does not loop on io.EOF.
PeerCloseEndsReader == Rd!PeerCloseEndsReader

\* On an admitted connection, the malformed counter exceeds the peer's
\* malformed frames only by the frame whose payload read a local close
\* (the writer's teardown or Shutdown) cut short.
MalformedOverCountOnlyOnClose == Rd!MalformedOverCountOnlyOnClose

=============================================================================
