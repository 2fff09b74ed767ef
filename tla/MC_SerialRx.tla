---------------------------- MODULE MC_SerialRx ----------------------------
EXTENDS SerialRx

\* A frame sent by the adapter, with the frame DecodeStream should give.
FramePiece(id, payload) ==
    [wire |-> RxWire(id, payload),
     carries |-> << [id |-> IdBytes(id), eff |-> TRUE, data |-> payload] >>]

Garbage(bs) == [wire |-> bs, carries |-> << >>]

\* Streams of up to n pieces of P.
UpTo(P, n) == UNION { [1..k -> P] : k \in 1..n }

\* Frames of 2 and 3 payload bytes, line noise, a lone preamble byte and a
\* frame cut after its length byte.
MC_Pieces ==
    { FramePiece(1, << 170, 1 >>),
      FramePiece(258, << 0, 45, 212 >>),
      Garbage(<< 255 >>),
      Garbage(<< 45 >>),
      Garbage(SubSeq(RxWire(3, << 7, 7 >>), 1, 5)) }

\* Scenario S4 of the spec: FF FF, then a frame with a 1-byte payload.
MC_PiecesS4 ==
    { Garbage(<< 255, 255 >>),
      FramePiece(1, << 170 >>) }

MC_Streams == UpTo(MC_Pieces, 3)

MC_StreamsS4 == UpTo(MC_PiecesS4, 2)

\* A burst of 820 distinct 10-byte frames (8200 bytes): read in 4096-byte
\* Reads, the second one grows the accumulator to 8 KiB.
MC_StreamsBurst == { [i \in 1..820 |-> FramePiece(i, << 170, 1 >>)] }
=============================================================================
