-------------------------------- MODULE CnlRx --------------------------------
(***************************************************************************)
(* The per-client reader goroutine (Server.startReader, reader.go) using  *)
(* Codec.DecodeN on the TCP connection.  Each round sets the read         *)
(* deadline and calls DecodeN(conn, 16, onFrame); onFrame hands the frame *)
(* to the backend (recorded in frames).  A DecodeN error ends the         *)
(* goroutine, except a net.Error timeout, after which it loops.  After a  *)
(* round of 16 frames it checks the context.                              *)
(*                                                                         *)
(* Decode blocks three times per frame: ReadFull of the 4 id bytes, Read  *)
(* of the length byte, ReadFull of the payload.  got holds the bytes of    *)
(* the current frame read so far, so the phase is Len(got) (see Need).   *)
(* A blocked read returns bytes that have arrived, EOF once the peer has  *)
(* closed and everything is read, net.ErrClosed once the connection is    *)
(* closed locally (the writer's teardown or shutdown), or a timeout once  *)
(* the deadline has passed.  Time is not modelled, so a read may time out *)
(* whenever it is in progress, at most MaxTimeouts times.                 *)
(***************************************************************************)
EXTENDS CnlCodec, TLC

CONSTANTS
    Streams,     \* what a peer may send: records [frames, tail], the bytes
                 \* being Encode(frames) \o tail
    ChunkSizes,  \* the sizes in which bytes reach the socket
    DecodeMax,   \* DecodeN's max argument (16 in the code)
    MaxTimeouts  \* deadline expiries in one behaviour

ASSUME DecodeMax \in Nat \ {0} /\ MaxTimeouts \in Nat

VARIABLES
    sent,      \* the peer's stream (fixed)
    pending,   \* bytes the peer has not yet sent
    avail,     \* bytes in the socket, not yet read
    peerEOF,   \* the peer has closed its side after sending everything
    closed,    \* conn.Close() has been called locally
    ctxDone,   \* the server context is cancelled
    rPc,       \* "top" (set the deadline), "decode" (in DecodeN), "exited"
    got,       \* bytes of the frame Decode is reading
    count,     \* frames of this DecodeN call
    frames,    \* frames passed to onFrame, in order
    malformed, \* IncMalformed calls
    srvErr,    \* s.setError(ErrConnRead) was called
    exitWhy,   \* the error that ended the goroutine ("" while running)
    nTimeout   \* timeouts so far

vars == <<sent, pending, avail, peerEOF, closed, ctxDone, rPc, got, count,
          frames, malformed, srvErr, exitWhy, nTimeout>>

Wire(s) == Encode(s.frames) \o s.tail

MinOf(a, b) == IF a <= b THEN a ELSE b

Byte == 0..255

TypeOK ==
    /\ rPc \in {"top", "decode", "exited"}
    /\ got \in Seq(Byte) /\ Len(got) <= 5 + MaxDLC
    /\ count \in 0..DecodeMax
    /\ \A i \in DOMAIN frames : Len(frames[i].data) = frames[i].len
                                /\ frames[i].len <= MaxDLC
    /\ malformed \in Nat /\ srvErr \in BOOLEAN
    /\ nTimeout \in 0..MaxTimeouts

Init ==
    /\ sent \in Streams
    /\ pending = Wire(sent) /\ avail = << >>
    /\ peerEOF = FALSE /\ closed = FALSE /\ ctxDone = FALSE
    /\ rPc = "top" /\ got = << >> /\ count = 0
    /\ frames = << >> /\ malformed = 0 /\ srvErr = FALSE /\ exitWhy = ""
    /\ nTimeout = 0

-----------------------------------------------------------------------------
(* The peer and the rest of the server                                     *)

\* Up to k more of the peer's bytes reach the socket.
Arrive(k) ==
    /\ pending # << >>
    /\ avail' = avail \o SubSeq(pending, 1, MinOf(k, Len(pending)))
    /\ pending' = SubSeq(pending, MinOf(k, Len(pending)) + 1, Len(pending))
    /\ UNCHANGED <<sent, peerEOF, closed, ctxDone, rPc, got, count, frames,
                   malformed, srvErr, exitWhy, nTimeout>>

PeerClose ==
    /\ pending = << >> /\ ~peerEOF /\ peerEOF' = TRUE
    /\ UNCHANGED <<sent, pending, avail, closed, ctxDone, rPc, got, count,
                   frames, malformed, srvErr, exitWhy, nTimeout>>

\* conn.Close() by the writer's teardown or by Shutdown.
LocalClose ==
    /\ ~closed /\ closed' = TRUE
    /\ UNCHANGED <<sent, pending, avail, peerEOF, ctxDone, rPc, got, count,
                   frames, malformed, srvErr, exitWhy, nTimeout>>

CtxCancel ==
    /\ ~ctxDone /\ ctxDone' = TRUE
    /\ UNCHANGED <<sent, pending, avail, peerEOF, closed, rPc, got, count,
                   frames, malformed, srvErr, exitWhy, nTimeout>>

-----------------------------------------------------------------------------
(* The reader goroutine                                                    *)

Exit(why) == rPc' = "exited" /\ exitWhy' = why

\* Mutant: the frame count of the previous round is carried over.
SetDeadlineNoReset ==
    /\ rPc = "top"
    /\ rPc' = "decode" /\ got' = << >>
    /\ UNCHANGED <<sent, pending, avail, peerEOF, closed, ctxDone, count,
                   frames, malformed, srvErr, exitWhy, nTimeout>>

\* conn.SetReadDeadline, then DecodeN starts with n = 0.
SetDeadline ==
    /\ rPc = "top"
    /\ rPc' = "decode" /\ got' = << >> /\ count' = 0
    /\ UNCHANGED <<sent, pending, avail, peerEOF, closed, ctxDone, frames,
                   malformed, srvErr, exitWhy, nTimeout>>

\* A read of the current phase returns the bytes that have arrived, up to
\* what the phase needs.  A complete length byte above 8 fails the frame;
\* a complete frame goes to onFrame, and DecodeN either decodes the next
\* one or, with max frames done, returns nil and the loop checks ctx.
ReadBytes ==
    /\ rPc = "decode" /\ ~closed /\ avail # << >>
    /\ LET k == MinOf(Need(got) - Len(got), Len(avail))
           g == got \o SubSeq(avail, 1, k)
       IN
       /\ avail' = SubSeq(avail, k + 1, Len(avail))
       /\ IF Len(g) = 5 /\ InvalidLen(LenOf(g[5]))
            THEN /\ malformed' = malformed + 1 /\ srvErr' = TRUE
                 /\ Exit("invalid")
                 /\ UNCHANGED <<got, count, frames>>
          ELSE IF Len(g) < Need(g)
            THEN /\ got' = g
                 /\ UNCHANGED <<rPc, count, frames, malformed, srvErr, exitWhy>>
          ELSE /\ frames' = Append(frames, FrameOf(g))
               /\ got' = << >>
               /\ IF count + 1 = DecodeMax
                    THEN /\ count' = count + 1
                         /\ IF ctxDone THEN Exit("ctx")
                            ELSE rPc' = "top" /\ UNCHANGED exitWhy
                    ELSE count' = count + 1 /\ UNCHANGED <<rPc, exitWhy>>
               /\ UNCHANGED <<malformed, srvErr>>
    /\ UNCHANGED <<sent, pending, peerEOF, closed, ctxDone, nTimeout>>

\* The deadline passes during a read.  ReadFull of the id and the Read of
\* the length return the timeout as it is, and the loop continues with a
\* new Decode (the bytes of got are gone).  The payload's error comes back
\* wrapped by fmt.Errorf after IncMalformed, so err.(net.Error) fails and
\* the goroutine reports ErrConnRead and exits.
Timeout ==
    /\ rPc = "decode" /\ ~closed /\ nTimeout < MaxTimeouts
    /\ nTimeout' = nTimeout + 1
    /\ IF Len(got) < 5
         THEN rPc' = "top" /\ got' = << >>
              /\ UNCHANGED <<malformed, srvErr, exitWhy>>
         ELSE malformed' = malformed + 1 /\ srvErr' = TRUE /\ Exit("timeout")
              /\ UNCHANGED got
    /\ UNCHANGED <<sent, pending, avail, peerEOF, closed, ctxDone, count, frames>>

\* Mutant: io.EOF at a frame boundary is retried like a timeout.
AtEOFRetry ==
    /\ rPc = "decode" /\ ~closed /\ avail = << >> /\ peerEOF
    /\ CASE Len(got) = 0 ->
              rPc' = "top" /\ UNCHANGED <<malformed, srvErr, exitWhy>>
         [] Len(got) = 4 -> Exit("eof") /\ UNCHANGED <<malformed, srvErr>>
         [] Len(got) < 4 ->
              srvErr' = TRUE /\ Exit("unexpectedEOF") /\ UNCHANGED malformed
         [] OTHER ->
              malformed' = malformed + 1 /\ srvErr' = TRUE /\ Exit("truncated")
    /\ UNCHANGED <<sent, pending, avail, peerEOF, closed, ctxDone, got, count,
                   frames, nTimeout>>

\* The peer has closed and every byte is read.  At the boundary, and
\* after the id (the one-byte Read returns 0, io.EOF), DecodeN returns
\* io.EOF and the goroutine returns quietly; in the id ReadFull gives
\* ErrUnexpectedEOF, reported as ErrConnRead; in the payload Decode counts
\* a malformed frame and returns ErrTruncatedFrame, also reported.
AtEOF ==
    /\ rPc = "decode" /\ ~closed /\ avail = << >> /\ peerEOF
    /\ CASE Len(got) = 0 \/ Len(got) = 4 ->
              Exit("eof") /\ UNCHANGED <<malformed, srvErr>>
         [] Len(got) < 4 ->
              srvErr' = TRUE /\ Exit("unexpectedEOF") /\ UNCHANGED malformed
         [] OTHER ->
              malformed' = malformed + 1 /\ srvErr' = TRUE /\ Exit("truncated")
    /\ UNCHANGED <<sent, pending, avail, peerEOF, closed, ctxDone, got, count,
                   frames, nTimeout>>

\* Mutant: Decode counts a malformed frame for a close in any phase.
ReadClosedAlwaysMalformed ==
    /\ rPc = "decode" /\ closed
    /\ malformed' = malformed + 1
    /\ Exit("closed")
    /\ UNCHANGED <<sent, pending, avail, peerEOF, closed, ctxDone, got, count,
                   frames, srvErr, nTimeout>>

\* A read on the locally closed connection fails with net.ErrClosed and
\* the goroutine returns; in the payload phase Decode first counts a
\* malformed frame (the error is neither EOF nor ErrUnexpectedEOF).
ReadClosed ==
    /\ rPc = "decode" /\ closed
    /\ malformed' = IF Len(got) >= 5 THEN malformed + 1 ELSE malformed
    /\ Exit("closed")
    /\ UNCHANGED <<sent, pending, avail, peerEOF, closed, ctxDone, got, count,
                   frames, srvErr, nTimeout>>

Reader ==
    \/ SetDeadline
    \/ ReadBytes
    \/ AtEOF
    \/ ReadClosed

Next ==
    \/ Reader
    \/ Timeout
    \/ \E k \in ChunkSizes : Arrive(k)
    \/ PeerClose
    \/ LocalClose
    \/ CtxCancel

Spec == Init /\ [][Next]_vars

\* The goroutine runs whenever one of its reads can return.
FairSpec == Spec /\ WF_vars(Reader)

-----------------------------------------------------------------------------
(* Properties                                                              *)

\* DecodeN of the whole stream at once (DecodeAll of CnlCodec).
Whole == DecodeAll(Wire(sent), << >>)

\* The goroutine ended on the stream itself, not on a close, a cancel or
\* a timeout.
EndedByStream == rPc = "exited" /\ exitWhy \in {"eof", "unexpectedEOF", "invalid", "truncated"}

\* However TCP splits the peer's bytes, the reader hands the backend the
\* frames the peer encoded, in order (round-trip law 1 of the spec); when
\* the stream itself ends the goroutine, it has handed over all of them,
\* and how it ended (the error, the malformed count, the setError report)
\* does not depend on the split: it is what Decode gives on the whole
\* stream at once.  That outcome is the code's, not the one codec.go's
\* comments document: a stream cut after an id ends with a plain io.EOF,
\* one cut inside the id with io.ErrUnexpectedEOF and no malformed count,
\* where the comments promise io.EOF only at a frame boundary and
\* ErrTruncatedFrame mid-frame.  This holds while no read deadline has
\* expired (FramesInOrder is the case with timeouts).
ReaderDeliversStream ==
    nTimeout = 0 =>
        /\ IsPrefix(frames, sent.frames)
        /\ EndedByStream =>
             /\ frames = sent.frames /\ Whole.frames = sent.frames
             /\ exitWhy = Whole.err /\ malformed = Whole.malformed
             /\ srvErr = (Whole.err # "eof")

\* The malformed counter (IncMalformed) counts the malformed frames of the
\* peer's stream, and at most one more: the frame whose payload read a
\* local conn.Close interrupted, which Decode counts before the reader
\* recognises net.ErrClosed (codec.go:94).  A close at a frame boundary,
\* in the id or at the length byte counts nothing.  This holds while no
\* read deadline has expired (a timeout can desynchronise the stream:
\* cnl_timeout).
MalformedOverCountOnlyOnClose ==
    nTimeout = 0 =>
        /\ malformed <= Whole.malformed + 1
        /\ malformed > Whole.malformed => exitWhy = "closed" /\ Len(got) >= 5

\* Spec 4.6 and 8.1 with timeouts: what the reader hands on stays the
\* peer's frames in order even after a read timed out.
FramesInOrder == IsPrefix(frames, sent.frames)

\* Once the peer has closed the connection, the reader goroutine ends: it
\* does not loop on io.EOF.
PeerCloseEndsReader == peerEOF ~> rPc = "exited"

=============================================================================
