------------------------------ MODULE CnlCodec ------------------------------
(***************************************************************************)
(* The Cannelloni codec of package cnl (internal/cnl/codec.go) as pure    *)
(* operators: the encoder (Encode, EncodeTo) and the single-frame decoder *)
(* Decode with DecodeN, applied to a byte stream that ends in EOF.        *)
(*                                                                         *)
(* A frame is a record [id, len, data]: id the 32-bit CANID as its four   *)
(* big-endian bytes, len the Len byte, data the payload bytes Data[:len]. *)
(* The step-wise reader of a TCP connection, where bytes arrive in chunks *)
(* and reads can time out, is CnlRx; it uses the phase operators below.   *)
(***************************************************************************)
EXTENDS Integers, Sequences, SequencesExt

\* Decode's bound on the masked length byte.
MaxDLC == 8

\* ln := int(lb[0] & 0x7F): the high bit is masked off.
LenOf(lb) == lb % 128

\* Mutant: the length check is off by one and rejects an 8-byte payload.
InvalidLenOffByOne(ln) == ln >= MaxDLC

\* if ln > 8 { IncMalformed; ErrInvalidLength }
InvalidLen(ln) == ln > MaxDLC

\* EncodeTo for one frame: the id bytes, the Len byte as it is, then
\* Data[:Len & 0x7F].
EncodeFrame(f) == f.id \o << f.len >> \o SubSeq(f.data, 1, LenOf(f.len))

\* Encode / EncodeTo of a batch: the frames' encodings back to back (nil
\* for an empty batch).
Encode(frames) == FoldLeft(LAMBDA acc, f : acc \o EncodeFrame(f), << >>, frames)

\* The bytes Decode needs in total once it holds the bytes g of the
\* current frame: the id, then the length byte, then the payload.
Need(g) == IF Len(g) < 4 THEN 4
           ELSE IF Len(g) = 4 THEN 5
           ELSE 5 + LenOf(g[5])

\* The frame Decode returns once it holds all of its bytes g.
FrameOf(g) == [id |-> SubSeq(g, 1, 4), len |-> LenOf(g[5]),
               data |-> SubSeq(g, 6, Len(g))]

(***************************************************************************)
(* Decode on a reader over the bytes bs that ends in EOF.  The outcome:   *)
(*   "ok"            a frame, with the bytes left after it;                *)
(*   "eof"           io.EOF: no byte left, or only the 4 id bytes (the    *)
(*                   one-byte Read of the length returns 0, io.EOF);       *)
(*   "unexpectedEOF" ReadFull of the id got 1..3 bytes;                   *)
(*   "invalid"       ErrInvalidLength, after IncMalformed;                 *)
(*   "truncated"     ErrTruncatedFrame, after IncMalformed.               *)
(***************************************************************************)
Decode(bs) ==
    LET res(r, m) == [res |-> r, malformed |-> m, rest |-> << >>]
        ln == LenOf(bs[5])
    IN
    IF Len(bs) = 0 \/ Len(bs) = 4 THEN res("eof", 0)
    ELSE IF Len(bs) < 4 THEN res("unexpectedEOF", 0)
    ELSE IF InvalidLen(ln) THEN res("invalid", 1)
    ELSE IF Len(bs) < 5 + ln THEN res("truncated", 1)
    ELSE [res |-> "ok", malformed |-> 0, rest |-> SubSeq(bs, 6 + ln, Len(bs)),
          frame |-> FrameOf(SubSeq(bs, 1, 5 + ln))]

\* DecodeN(r, 0, onFrame): decode until the first error; the frames passed
\* to onFrame, the terminal error and the IncMalformed calls.
RECURSIVE DecodeAll(_, _)
DecodeAll(bs, out) ==
    LET d == Decode(bs) IN
    IF d.res = "ok" THEN DecodeAll(d.rest, Append(out, d.frame))
    ELSE [frames |-> out, err |-> d.res, malformed |-> d.malformed]

=============================================================================
