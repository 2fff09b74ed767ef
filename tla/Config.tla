------------------------------- MODULE Config --------------------------------
(***************************************************************************)
(* The process configuration (cmd/can-server/config.go): parseFlags reads *)
(* the command line, applyEnvOverrides lays the CAN_SERVER_* environment  *)
(* over every flag the command line did not set, and validate checks the *)
(* result.  All three are pure functions of their inputs, so this module  *)
(* is constant-level: a configuration is a function from flag names to    *)
(* values, the environment a function from variable names to the text    *)
(* os.LookupEnv returns after strings.TrimSpace (a variable outside its   *)
(* DOMAIN is unset).  Durations are in milliseconds: validate and the     *)
(* overrides only compare them with zero.                                 *)
(***************************************************************************)
EXTENDS Integers, SequencesExt

\* The flags of parseFlags and their defaults (flag.String, flag.Int, ...).
Defaults ==
    ("serial" :> "/dev/ttyUSB0") @@ ("baud" :> 115200)
    @@ ("listen" :> ":20000") @@ ("serial-read-timeout" :> 50)
    @@ ("log-format" :> "text") @@ ("log-level" :> "info")
    @@ ("metrics-addr" :> "") @@ ("hub-buffer" :> 512)
    @@ ("hub-policy" :> "drop") @@ ("log-metrics-interval" :> 0)
    @@ ("backend" :> "socketcan") @@ ("can-if" :> "can0")
    @@ ("max-clients" :> 0) @@ ("handshake-timeout" :> 3000)
    @@ ("client-read-timeout" :> 60000) @@ ("mdns-enable" :> FALSE)
    @@ ("mdns-name" :> "")

Flags == DOMAIN Defaults

\* flag.Parse and cfg.serialDev = *serialDev, ...: each field is the value
\* the command line gives its flag, or the flag's default.
FlagValues(cmdline) == cmdline @@ Defaults

\* strconv.Atoi and time.ParseDuration on the strings the models use: a
\* string outside a table's DOMAIN is one the function rejects ("5" is no
\* duration: it has no unit; "5s" is no integer).
AtoiTable ==
    ("230400" :> 230400) @@ ("0" :> 0) @@ ("-1" :> -1) @@ ("2" :> 2)
DurationTable ==
    ("100ms" :> 100) @@ ("5s" :> 5000) @@ ("0" :> 0) @@ ("-1s" :> -1000)

\* The words the CAN_SERVER_MDNS_ENABLE switch recognises after
\* strings.ToLower; any other word leaves the field alone.
TrueWords  == {"1", "true", "yes", "on"}
FalseWords == {"0", "false", "no", "off"}

\* applyEnvOverrides' steps, in the order of the code: the flag that wins
\* over the variable, the variable, and how its text is applied: "str" a
\* non-empty text as is, "any" any text (an empty CAN_SERVER_METRICS turns
\* the metrics endpoint off), "int"/"dur" a text that parses to a number
\* of at least min (a parse error is an error, a number below min is
\* ignored), "bool" a word of TrueWords or FalseWords.
Step(flag, var, kind, min) ==
    [flag |-> flag, var |-> var, kind |-> kind, min |-> min]
EnvSteps ==
    << Step("serial", "CAN_SERVER_SERIAL", "str", 0),
       Step("baud", "CAN_SERVER_BAUD", "int", 1),
       Step("listen", "CAN_SERVER_LISTEN", "str", 0),
       Step("serial-read-timeout", "CAN_SERVER_SERIAL_READ_TIMEOUT", "dur", 1),
       Step("log-format", "CAN_SERVER_LOG_FORMAT", "str", 0),
       Step("log-level", "CAN_SERVER_LOG_LEVEL", "str", 0),
       Step("metrics-addr", "CAN_SERVER_METRICS", "any", 0),
       Step("hub-buffer", "CAN_SERVER_HUB_BUFFER", "int", 1),
       Step("hub-policy", "CAN_SERVER_HUB_POLICY", "str", 0),
       Step("backend", "CAN_SERVER_BACKEND", "str", 0),
       Step("can-if", "CAN_SERVER_IF", "str", 0),
       Step("max-clients", "CAN_SERVER_MAX_CLIENTS", "int", 0),
       Step("handshake-timeout", "CAN_SERVER_HANDSHAKE_TIMEOUT", "dur", 1),
       Step("client-read-timeout", "CAN_SERVER_CLIENT_READ_TIMEOUT", "dur", 1),
       Step("mdns-enable", "CAN_SERVER_MDNS_ENABLE", "bool", 0),
       Step("mdns-name", "CAN_SERVER_MDNS_NAME", "str", 0),
       Step("log-metrics-interval", "CAN_SERVER_LOG_METRICS_INTERVAL", "dur", 0) >>

EnvVars == {EnvSteps[i].var : i \in DOMAIN EnvSteps}

\* firstErr == nil.
NoErr == "nil"

\* The table a numeric step parses its text with.
ParseTable(s) == IF s.kind = "int" THEN AtoiTable ELSE DurationTable

\* else if err != nil && firstErr == nil { firstErr = ... }
RecordErr(st, var) == IF st.err = NoErr THEN [st EXCEPT !.err = var] ELSE st

\* One if-block of applyEnvOverrides on the pair <<c, firstErr>>.  The
\* error is named by the variable whose text failed to parse.
ApplyEnvStep(st, s, set, env) ==
    LET v == env[s.var] IN
    IF s.flag \in set \/ s.var \notin DOMAIN env THEN st
    ELSE CASE s.kind = "any" -> [st EXCEPT !.cfg[s.flag] = v]
           [] v = "" -> st
           [] s.kind = "str" -> [st EXCEPT !.cfg[s.flag] = v]
           [] s.kind = "bool" ->
                IF v \in TrueWords THEN [st EXCEPT !.cfg[s.flag] = TRUE]
                ELSE IF v \in FalseWords THEN [st EXCEPT !.cfg[s.flag] = FALSE]
                ELSE st
           [] v \in DOMAIN ParseTable(s) ->
                IF ParseTable(s)[v] >= s.min
                THEN [st EXCEPT !.cfg[s.flag] = ParseTable(s)[v]]
                ELSE st
           [] OTHER -> RecordErr(st, s.var)

\* applyEnvOverrides(c, set): every step in order; the result is the
\* overridden configuration and firstErr.
ApplyEnvOverrides(c, set, env) ==
    FoldLeft(LAMBDA st, s : ApplyEnvStep(st, s, set, env),
             [cfg |-> c, err |-> NoErr], EnvSteps)

\* validate's checks, in its order; Validate is the flag of the first check
\* that fails, or NoErr.
ValidateOrder ==
    << "log-format", "log-level", "backend", "hub-policy", "hub-buffer",
       "baud", "serial-read-timeout", "handshake-timeout",
       "client-read-timeout", "max-clients" >>
\* Mutant: the duration checks test < 0 instead of <= 0.
FieldValidNonNeg(f, v) ==
    CASE f = "log-format" -> v \in {"text", "json"}
      [] f = "log-level"  -> v \in {"debug", "info", "warn", "error"}
      [] f = "backend"    -> v \in {"serial", "socketcan"}
      [] f = "hub-policy" -> v \in {"drop", "kick"}
      [] f \in {"hub-buffer", "baud"} -> v > 0
      [] OTHER -> v >= 0
FieldValid(f, v) ==
    CASE f = "log-format" -> v \in {"text", "json"}
      [] f = "log-level"  -> v \in {"debug", "info", "warn", "error"}
      [] f = "backend"    -> v \in {"serial", "socketcan"}
      [] f = "hub-policy" -> v \in {"drop", "kick"}
      [] f = "max-clients" -> v >= 0
      [] OTHER -> v > 0
Validate(c) ==
    LET i == SelectInSeq(ValidateOrder, LAMBDA f : ~FieldValid(f, c[f])) IN
    IF i = 0 THEN NoErr ELSE ValidateOrder[i]

\* parseFlags with the command line setting the flags in DOMAIN cmdline to
\* the values it maps them to (flag.Visit reports exactly those), and the
\* environment env.  The result is a record whose cfg is the configuration
\* when err = NoErr; otherwise an override or the validation failed, the
\* error was printed and parseFlags returned a nil *appConfig.
ParseFlags(cmdline, env) ==
    LET r == ApplyEnvOverrides(FlagValues(cmdline), DOMAIN cmdline, env) IN
    IF r.err # NoErr THEN r ELSE [r EXCEPT !.err = Validate(r.cfg)]

=============================================================================
