------------------------------ MODULE SerialRx ------------------------------
(***************************************************************************)
(* The serial backend's RX goroutine (initSerialBackend, unnamed/part_004):*)
(* check the context, Read a chunk from the port, append it to the        *)
(* accumulator and run DecodeStream on it, one step per iteration of its  *)
(* loop (each frame goes to Hub.Broadcast, recorded here in frames), then *)
(* handle read errors:                                                     *)
(* return on shutdown or on a PathError, continue on EOF, otherwise sleep *)
(* with a doubling backoff capped at rxBackoffMax.                         *)
(*                                                                         *)
(* The bytes the adapter sends are a sequence of pieces (encoded frames,  *)
(* garbage, truncated frames) fixed at the start; each Read hands out the *)
(* next c bytes, c from ChunkSizes (or what is left, if less).            *)
(***************************************************************************)
EXTENDS SerialCodec, TLC

CONSTANTS
    Streams,    \* set of sequences of pieces [wire |-> bytes, carries |->
                \* frames]: what the adapter may send, and the frames the
                \* bytes stand for
    ChunkSizes, \* the sizes a Read may return
    MaxErrors   \* read errors the port produces in one behaviour

\* Constants of part_003 (durations in ms).
RxBackoffMin == 20
RxBackoffMax == 500
SerialReadBufSize == 4096
LargeBufferReclaimThreshold == 16 * 1024

ASSUME ChunkSizes \subseteq 1..SerialReadBufSize /\ MaxErrors \in Nat

VARIABLES
    sent,      \* the pieces of this behaviour's stream (fixed)
    input,     \* bytes the port has not delivered yet
    acc,       \* the accumulator bytes.Buffer
    frames,    \* frames passed to Hub.Broadcast, in order
    malformed, \* IncMalformed calls
    rxPc,      \* "top" (ctx check), "read", "decode" (in DecodeStream), "exited"
    ctxDone,   \* the root context is cancelled
    backoff,   \* the next sleep
    slept,     \* the last sleep taken (0: none yet)
    errRun,    \* history: sleeps since the last successful read
    nErr       \* read errors other than EOF so far

vars == <<sent, input, acc, frames, malformed, rxPc, ctxDone, backoff,
          slept, errRun, nErr>>

\* Concatenation of a sequence of sequences, splitting in halves so that
\* long streams stay within TLC's recursion depth.
RECURSIVE Concat(_, _, _)
Concat(ss, lo, hi) ==
    IF lo > hi THEN << >>
    ELSE IF lo = hi THEN ss[lo]
    ELSE LET mid == (lo + hi) \div 2 IN Concat(ss, lo, mid) \o Concat(ss, mid + 1, hi)

BytesOf(ps) == Concat([i \in DOMAIN ps |-> ps[i].wire], 1, Len(ps))

ExpectedFrames(ps) == Concat([i \in DOMAIN ps |-> ps[i].carries], 1, Len(ps))

MinInt(a, b) == IF a <= b THEN a ELSE b

TypeOK ==
    /\ rxPc \in {"top", "read", "decode", "exited"}
    /\ ctxDone \in BOOLEAN
    /\ malformed \in Nat /\ nErr \in 0..MaxErrors /\ errRun \in Nat
    /\ backoff \in {MinInt(RxBackoffMin * 2^k, RxBackoffMax) : k \in 0..MaxErrors}
    /\ UnreadLen(acc) <= Len(BytesOf(sent))

Init ==
    /\ sent \in Streams
    /\ input = BytesOf(sent)
    /\ acc = NewBuffer /\ frames = << >> /\ malformed = 0
    /\ rxPc = "top" /\ ctxDone = FALSE
    /\ backoff = RxBackoffMin /\ slept = 0 /\ errRun = 0 /\ nErr = 0

\* The next Read's bytes: c of them, or what is left; a Read needs at
\* least one.
Chunk(c) == SubSeq(input, 1, MinInt(c, Len(input)))

\* acc.Len() == 0 && cap(acc.Bytes()) > threshold: the capacity of the
\* unread slice, which starts at the read offset.
Reclaim(b) ==
    IF UnreadLen(b) = 0 /\ Cap(b) - b.off > LargeBufferReclaimThreshold
    THEN NewBuffer ELSE b

\* select { case <-ctx.Done(): return; default: }
CheckCtx ==
    /\ rxPc = "top"
    /\ rxPc' = IF ctxDone THEN "exited" ELSE "read"
    /\ UNCHANGED <<sent, input, acc, frames, malformed, ctxDone, backoff,
                   slept, errRun, nErr>>

\* n > 0: acc.Write(buf[:n]), then DecodeStream(acc, ...).
ReadData(k) ==
    /\ rxPc = "read" /\ k \in ChunkSizes /\ input # << >>
    /\ acc' = BufWrite(acc, Chunk(k))
    /\ input' = SubSeq(input, Len(Chunk(k)) + 1, Len(input))
    /\ rxPc' = "decode"
    /\ UNCHANGED <<sent, frames, malformed, ctxDone, backoff, slept, errRun,
                   nErr>>

\* Mutant: a successful read leaves the backoff where the errors put it.
DecodeStepNoReset ==
    /\ rxPc = "decode"
    /\ LET r == DecodeIter(acc) IN
         /\ frames' = frames \o r.out
         /\ malformed' = malformed + r.bad
         /\ IF r.done
              THEN /\ acc' = Reclaim(r.buf)
                   /\ errRun' = 0
                   /\ rxPc' = "top"
              ELSE /\ acc' = r.buf
                   /\ UNCHANGED <<rxPc, errRun>>
    /\ UNCHANGED <<sent, input, ctxDone, slept, nErr, backoff>>

\* One iteration of DecodeStream, each frame going to Hub.Broadcast.  When
\* the call returns: a fresh accumulator in place of an empty one grown
\* past the reclaim threshold, and the backoff back to its minimum.
DecodeStep ==
    /\ rxPc = "decode"
    /\ LET r == DecodeIter(acc) IN
         /\ frames' = frames \o r.out
         /\ malformed' = malformed + r.bad
         /\ IF r.done
              THEN /\ acc' = Reclaim(r.buf)
                   /\ backoff' = RxBackoffMin /\ errRun' = 0
                   /\ rxPc' = "top"
              ELSE /\ acc' = r.buf
                   /\ UNCHANGED <<rxPc, backoff, errRun>>
    /\ UNCHANGED <<sent, input, ctxDone, slept, nErr>>

\* n == 0 with an error: shutdown and PathError end the goroutine, EOF is
\* ignored, anything else sleeps for backoff and doubles it up to the cap.
\* EOF is what a port with a read timeout returns when no byte came, so
\* it is not bounded like the other errors.
ReadError(kind) ==
    /\ rxPc = "read" /\ (kind = "eof" \/ nErr < MaxErrors)
    /\ nErr' = IF kind = "eof" THEN nErr ELSE nErr + 1
    /\ CASE ctxDone \/ kind = "path" ->
              rxPc' = "exited" /\ UNCHANGED <<backoff, slept, errRun>>
         [] kind = "eof" ->
              rxPc' = "top" /\ UNCHANGED <<backoff, slept, errRun>>
         [] OTHER ->
              /\ slept' = backoff
              /\ backoff' = MinInt(backoff * 2, RxBackoffMax)
              /\ errRun' = errRun + 1
              /\ rxPc' = "top"
    /\ UNCHANGED <<sent, input, acc, frames, malformed, ctxDone>>

\* main's cancel() (signal or fatal server error).
CtxCancel ==
    /\ ~ctxDone /\ ctxDone' = TRUE
    /\ UNCHANGED <<sent, input, acc, frames, malformed, rxPc, backoff, slept,
                   errRun, nErr>>

Next ==
    \/ CheckCtx
    \/ \E k \in ChunkSizes : ReadData(k)
    \/ DecodeStep
    \/ \E kind \in {"path", "eof", "other"} : ReadError(kind)
    \/ CtxCancel

Spec == Init /\ [][Next]_vars

-----------------------------------------------------------------------------
(* Properties                                                              *)

Whole == DecodeStream(BufWrite(NewBuffer, BytesOf(sent)))

\* DecodeStream keeps partial frames and preamble halves across calls, so
\* however Read splits the stream, once every byte has been read the
\* accumulator, the frames broadcast and the malformed count are those of
\* decoding the whole stream at once.
ChunkingInvariant ==
    input = << >> /\ rxPc # "decode" =>
        /\ frames = Whole.out
        /\ malformed = Whole.bad
        /\ Unread(acc) = Unread(Whole.buf)

\* Every frame the adapter sends is broadcast, in order, whatever garbage
\* or truncated frames surround it: the frames broadcast so far are a
\* prefix of the frames sent, and all of them once the stream is read.
EveryFrameDecoded ==
    /\ IsPrefix(frames, ExpectedFrames(sent))
    /\ input = << >> /\ rxPc # "decode" => frames = ExpectedFrames(sent)

\* The k-th consecutive failed read sleeps rxBackoffMin * 2^(k-1), capped
\* at rxBackoffMax: the backoff restarts from the minimum after data.
BackoffFollowsErrorRun ==
    errRun > 0 =>
        slept = MinInt(RxBackoffMin * 2^(errRun - 1), RxBackoffMax)

=============================================================================
