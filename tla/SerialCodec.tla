----------------------------- MODULE SerialCodec -----------------------------
(***************************************************************************)
(* The serial UART codec of package serial (the file appended to          *)
(* internal/metrics/metrics.go): the envelope canUARTSend, the TX encoder *)
(* Encode, and the RX stream parser DecodeStream with CompactBuffer, as   *)
(* pure operators.  Bytes keep their values (0..255) because the parser   *)
(* branches on the preamble, the length byte and an 8-bit checksum.       *)
(*                                                                         *)
(* DecodeStream works on a bytes.Buffer and keeps a slice of its unread   *)
(* bytes across a call that may rewrite the backing array, so the buffer  *)
(* is modelled with its geometry: the backing array arr (its length is   *)
(* cap), the read offset off and the length n of the slice, with         *)
(* unread bytes arr[off+1..n].  Its operations follow Go's bytes.Buffer.   *)
(*                                                                         *)
(* A decoded frame is a record [id, eff, data]: id is the 32-bit CAN      *)
(* identifier as its four big-endian bytes (TLC integers are 32-bit       *)
(* signed), eff the CAN_EFF_FLAG bit that DecodeStream ORs in, and data   *)
(* the payload (its length is Frame.Len).                                  *)
(***************************************************************************)
EXTENDS Integers, Sequences, SequencesExt, FiniteSetsExt

Pre0 == 45    \* 0x2D
Pre1 == 212   \* 0xD4

\* minLn and maxLn of DecodeStream: LEN counts the bytes after itself.
MinLn == 7
MaxLn == 15

ByteSum(s) == FoldLeft(LAMBDA a, b : a + b, 0, s)

\* The identifier as four big-endian bytes (binary.BigEndian / the shifts
\* of Encode).
IdBytes(id) == << (id \div 2^24) % 256, (id \div 2^16) % 256,
                  (id \div 2^8) % 256, id % 256 >>

\* canUARTSend: [0x2D, 0xD4, len+1, data..., checksum], the checksum being
\* (len+1) + 0x2D + sum(data) in byte arithmetic.
CanUARTSend(data) ==
    LET n == Len(data) IN
    << Pre0, Pre1, (n + 1) % 256 >> \o data
        \o << (((n + 1) % 256) + Pre0 + ByteSum(data)) % 256 >>

\* Codec.Encode (host to bus): INS 2, FLAGS 0x80|len, the id masked to 29
\* bits when the EFF flag is set, the payload, wrapped by canUARTSend.
Encode(f) ==
    LET id == IF f.eff THEN << f.id[1] % 32 >> \o Tail(f.id) ELSE f.id IN
    CanUARTSend(<< 2, 128 + Len(f.data) >> \o id \o f.data)

\* The bus-to-host wire of a frame, ID | PAYLOAD in the envelope (rxWire of
\* the serial codec tests).
RxWire(id, payload) == CanUARTSend(IdBytes(id) \o payload)

-----------------------------------------------------------------------------
(* bytes.Buffer                                                            *)

SmallBufferSize == 64

NewBuffer == [arr |-> << >>, off |-> 0, n |-> 0, isNil |-> TRUE]

Unread(b) == SubSeq(b.arr, b.off + 1, b.n)       \* b.Bytes()
UnreadLen(b) == b.n - b.off                       \* b.Len()
Cap(b) == Len(b.arr)

BufReset(b) == [b EXCEPT !.off = 0, !.n = 0]

BufNext(b, k) ==
    [b EXCEPT !.off = @ + (IF k > UnreadLen(b) THEN UnreadLen(b) ELSE k)]

\* arr with p copied in at (0-based) position pos.
CopyAt(arr, pos, p) ==
    [i \in 1..Len(arr) |-> IF pos < i /\ i <= pos + Len(p) THEN p[i - pos] ELSE arr[i]]

Zeros(c) == [i \in 1..c |-> 0]

\* grow(k) of bytes.Buffer: make room for k more bytes; returns the buffer
\* with its length extended by k and the (0-based) index where they go.
\* growSlice is taken to allocate exactly the capacity it asks for
\* (append may round it up to a size class).
Grow(b, k) ==
    LET m  == UnreadLen(b)
        b0 == IF m = 0 /\ b.off # 0 THEN BufReset(b) ELSE b
        c  == Cap(b0)
    IN
    IF k <= c - b0.n
      THEN [buf |-> [b0 EXCEPT !.n = @ + k], at |-> b0.n]    \* tryGrowByReslice
    ELSE IF b0.isNil /\ k <= SmallBufferSize
      THEN [buf |-> [arr |-> Zeros(SmallBufferSize), off |-> 0, n |-> k,
                     isNil |-> FALSE], at |-> 0]
    ELSE IF k <= c \div 2 - m
      \* slide the unread bytes down to the front
      THEN [buf |-> [b0 EXCEPT !.arr = CopyAt(@, 0, Unread(b0)), !.off = 0,
                     !.n = m + k], at |-> m]
    ELSE LET want == m + b0.off + k
             nc   == IF want < 2 * (c - b0.off) THEN 2 * (c - b0.off) ELSE want
         IN [buf |-> [arr |-> CopyAt(Zeros(nc), 0, Unread(b0)), off |-> 0,
                      n |-> m + k, isNil |-> FALSE], at |-> m]

\* b.Write(p) (and WriteByte for a one-byte p).
BufWrite(b, p) ==
    LET g == Grow(b, Len(p)) IN [g.buf EXCEPT !.arr = CopyAt(@, g.at, p)]

\* CompactBuffer: with 1 KiB or more unread and the unread bytes below a
\* quarter of the slice's capacity, copy them out, Reset and Write them
\* back (into the same backing array, from its start).
CompactBuffer(b) ==
    LET data == Unread(b) IN
    IF Len(data) < 1024 THEN b
    ELSE IF Cap(b) - b.off > 0 /\ Len(data) * 4 < Cap(b) - b.off
      THEN BufWrite(BufReset(b), data)
    ELSE b

-----------------------------------------------------------------------------
(* DecodeStream                                                            *)

\* Mutant: the search stops one byte early and misses a preamble that
\* ends the buffer.
PreambleAtNoTail(data) ==
    LET RECURSIVE From(_)
        From(i) == IF i >= Len(data) - 1 THEN 0
                   ELSE IF data[i] = Pre0 /\ data[i + 1] = Pre1 THEN i
                   ELSE From(i + 1)
    IN From(1)

\* 1-based index of the first 0x2D 0xD4 in data, 0 if there is none
\* (bytes.Index(data, header)).
PreambleAt(data) ==
    LET RECURSIVE From(_)
        From(i) == IF i >= Len(data) THEN 0
                   ELSE IF data[i] = Pre0 /\ data[i + 1] = Pre1 THEN i
                   ELSE From(i + 1)
    IN From(1)

\* Mutant: the checksum leaves out the length byte.
ChecksumNoLen(data, req) ==
    (Pre0 + ByteSum(SubSeq(data, 4, req - 1))) % 256 = data[req]

\* The checksum test of a candidate frame of req bytes at the start of data.
ChecksumOK(data, req) ==
    (Pre0 + data[3] + ByteSum(SubSeq(data, 4, req - 1))) % 256 = data[req]

\* The frame at the start of data: id from bytes 4..7, payload 8..req-1.
FrameAt(data, req) ==
    [id |-> SubSeq(data, 4, 7), eff |-> TRUE, data |-> SubSeq(data, 8, req - 1)]

\* Mutant: the last byte is written back without the Reset.
KeepLastByteNoReset(b, data) == BufWrite(b, << data[Len(data)] >>)

\* No preamble: if more than one byte is unread, in.Reset() and write back
\* the last byte of data, which may start a preamble split across reads.
KeepLastByte(b, data) ==
    IF UnreadLen(b) > 1 THEN BufWrite(BufReset(b), << data[Len(data)] >>) ELSE b

(***************************************************************************)
(* One iteration of DecodeStream's for-loop on buffer in: it takes        *)
(* data := in.Bytes() and then calls CompactBuffer(in); the branches read  *)
(* data and move in.  data is a slice of in's backing array, which        *)
(* CompactBuffer rewrites in place (the Write after Reset always fits),   *)
(* so data reads the compacted array at in's old positions.  The result:  *)
(* the buffer, the frame passed to out                                     *)
(* (<<>> or one frame), the IncMalformed calls (0 or 1), and whether the  *)
(* call returns.                                                           *)
(***************************************************************************)
DecodeIter(in) ==
    LET b    == CompactBuffer(in)
        data == SubSeq(b.arr, in.off + 1, in.n)
        go(buf, bad) == [buf |-> buf, out |-> << >>, bad |-> bad, done |-> FALSE]
        ret(buf)     == [buf |-> buf, out |-> << >>, bad |-> 0, done |-> TRUE]
        i    == PreambleAt(data)
    IN
    IF Len(data) < 3 THEN ret(b)
    ELSE IF i = 0 THEN ret(KeepLastByte(b, data))
    ELSE IF i > 1 THEN go(BufNext(b, i - 1), 0)
    ELSE IF Len(data) < 4 THEN ret(b)
    ELSE IF data[3] < MinLn \/ data[3] > MaxLn THEN go(BufNext(b, 1), 1)
    ELSE LET req == 3 + data[3] IN
      IF Len(data) < req THEN ret(b)
      ELSE IF ~ChecksumOK(data, req) THEN go(BufNext(b, 1), 1)
      ELSE [go(BufNext(b, req), 0) EXCEPT !.out = << FrameAt(data, req) >>]

\* A whole call of DecodeStream: iterate until it returns.
RECURSIVE DecodeLoop(_, _, _)
DecodeLoop(in, out, bad) ==
    LET r == DecodeIter(in) IN
    IF r.done THEN [buf |-> r.buf, out |-> out, bad |-> bad]
    ELSE DecodeLoop(r.buf, out \o r.out, bad + r.bad)

DecodeStream(in) == DecodeLoop(in, << >>, 0)

=============================================================================
