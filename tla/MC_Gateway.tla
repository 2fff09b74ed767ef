------------------------------ MODULE MC_Gateway ------------------------------
(* One client reader sending a frame into a one-slot funnel, next to      *)
(* the RX goroutine of either backend: a frame can be queued or in flight *)
(* at each step of main's shutdown.  The serial adapter sends one frame.  *)
(* The command lines and environments select either backend, start the   *)
(* metrics logger or not, set a zero serial read timeout (which validate *)
(* rejects and the override ignores), and include texts that fail to     *)
(* parse, so that parseFlags also returns nil.                            *)
EXTENDS Gateway, Functions, TLC

CONSTANTS p1

MC_Producers == {p1}

\* The serial codec's operators, for writing the adapter's bytes.
Uart == INSTANCE SerialCodec

MC_SerialPayload == << 170, 1 >>

MC_SerialStreams ==
    { << [wire |-> Uart!RxWire(1, MC_SerialPayload),
          carries |-> << [id |-> Uart!IdBytes(1), eff |-> TRUE,
                          data |-> MC_SerialPayload] >>] >> }

\* Every function that maps some of the keys of tbl, each to a value of
\* the set tbl gives it.
RECURSIVE Settings(_)
Settings(tbl) ==
    IF DOMAIN tbl = {} THEN {<<>>}
    ELSE LET k    == CHOOSE k \in DOMAIN tbl : TRUE
             rest == Settings(Restrict(tbl, DOMAIN tbl \ {k}))
         IN  rest \cup {r @@ (k :> w) : r \in rest, w \in tbl[k]}

MC_CmdLines ==
    Settings(("backend" :> {"serial"}) @@ ("log-metrics-interval" :> {5000, -1000})
             @@ ("serial-read-timeout" :> {0}))

MC_Envs ==
    Settings(("CAN_SERVER_BACKEND" :> {"serial", "can"})
             @@ ("CAN_SERVER_LOG_METRICS_INTERVAL" :> {"5s", "-1s", "5"})
             @@ ("CAN_SERVER_BAUD" :> {"x", "-1"})
             @@ ("CAN_SERVER_SERIAL_READ_TIMEOUT" :> {"0"}))
=============================================================================
