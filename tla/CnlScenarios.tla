----------------------------- MODULE CnlScenarios -----------------------------
(* Peer streams for the Cannelloni reader, shared by MC_CnlRx and         *)
(* MC_ClientConn.                                                          *)

\* Frames of the spec's scenarios: S1 (id 0x123, payload 1 2 3), an empty
\* payload, and a full 8-byte payload.
F1 == [id |-> << 0, 0, 1, 35 >>, len |-> 3, data |-> << 1, 2, 3 >>]
F2 == [id |-> << 0, 0, 0, 16 >>, len |-> 0, data |-> << >>]
F3 == [id |-> << 0, 0, 0, 17 >>, len |-> 8, data |-> << 1, 2, 3, 4, 5, 6, 7, 8 >>]

\* Ends of a stream: clean, S2 (length 9), S3 (payload cut short), an id
\* cut short, an id with no length byte.
MC_Tails == { << >>, << 0, 0, 0, 1, 9 >>, << 0, 0, 0, 2, 5, 1, 2, 3 >>,
              << 0, 0 >>, << 0, 0, 0, 3 >> }

MC_Streams ==
    { [frames |-> fs, tail |-> t] :
        fs \in { << >> } \cup { << f >> : f \in {F1, F2, F3} }
               \cup { << f, g >> : f \in {F1, F2}, g \in {F1, F3} },
        t \in MC_Tails }
    \cup { [frames |-> << F2, F1, F2 >>, tail |-> << >>] }

\* Two frames, then the peer's stream ends.
MC_StreamsTwo == { [frames |-> << F1, F2 >>, tail |-> << >>] }

=============================================================================
