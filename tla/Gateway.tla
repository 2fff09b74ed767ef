------------------------------- MODULE Gateway -------------------------------
(***************************************************************************)
(* The gateway process: main (cmd/can-server/main.go), which reads its    *)
(* configuration (module Config) and starts the backend initBackend       *)
(* selects by cfg.backend.  It composes that backend's RX      *)
(* goroutine (module SocketCanRx for initSocketCANBackend, module SerialRx *)
(* for initSerialBackend) and the TX funnel that the client readers feed  *)
(* (module AsyncTx, inside socketcan.TXWriter or serial.TXWriter), under  *)
(* one root context, and main's shutdown sequence after the signal:       *)
(*     cancel(); cleanup(); wg.Wait()                                      *)
(* where cleanup is  func() { _ = dev.Close(); tw.Close() }  or           *)
(* func() { _ = sp.Close(); w.Close() }.                                   *)
(*                                                                         *)
(* The funnel's context is a child of the root context, so main's cancel() *)
(* reaches both goroutines in one step.  The SocketCAN send function is   *)
(* dev.WriteFrame, a unix.Write on the same raw descriptor that           *)
(* dev.Close() closes; the serial one is sp.Write of the encoded frame.   *)
(*                                                                         *)
(* The serial port is a tarm/serial port, an *os.File on the tty: a Read  *)
(* returns bytes, (0, io.EOF) when the read timeout passes with none, or  *)
(* an *os.PathError for any other failure (os.File wraps every error but  *)
(* EOF).  Close does not interrupt a Read in progress (the file is in     *)
(* blocking mode and the descriptor is released when the Read returns).   *)
(* The goroutine of the backend that is not selected never runs; its      *)
(* variables stay at their initial values.                                 *)
(***************************************************************************)
EXTENDS Naturals

CONSTANTS
    CmdLines, Envs,                \* the command lines and environments (Config)
    Producers, MaxSends, BufSize,  \* the TX funnel (AsyncTx)
    BusFrames, MaxErrors,          \* the SocketCAN RX goroutine (SocketCanRx)
    SerialStreams, SerialChunks    \* the serial RX goroutine (SerialRx)

VARIABLES
    \* AsyncTx
    closed, cancelled, ch, chClosed, ppc, calls, wpc, cur, cpc, panicked,
    accepted, written, failed,
    \* SocketCanRx
    rxPc, readOnClosed, ctxDone, devClosed, dev, busLeft, broadcast,
    backoff, slept, errRun, nErr,
    \* SerialRx (ctxDone is shared: both watch the root context)
    sent, input, acc, frames, malformed, srxPc, sBackoff, sSlept, sErrRun,
    sNErr,
    \* main and its other goroutines
    cmdline,    \* the flags given on the command line, with their values
    env,        \* the CAN_SERVER_* variables set, with their text
    backend,    \* cfg.backend once initBackend has run, "none" before
    serialTO,   \* the ReadTimeout the serial port was opened with (ms)
    mainPc,     \* "start", "panicked", "serving", "devclose", "txclose",
                \* "wait", "exited"
    mlPc,       \* the metrics logger: "off", "running", "exited"
    servePc     \* the goroutine running srv.Serve: "none", "serving",
                \* "returned"

Cfg == INSTANCE Config
Tx == INSTANCE AsyncTx
Rx == INSTANCE SocketCanRx WITH Removable <- TRUE
Srx == INSTANCE SerialRx
    WITH Streams <- SerialStreams, ChunkSizes <- SerialChunks, MaxErrors <- 1,
         rxPc <- srxPc, backoff <- sBackoff, slept <- sSlept,
         errRun <- sErrRun, nErr <- sNErr

txVars == <<closed, cancelled, ch, chClosed, ppc, calls, wpc, cur, cpc,
            panicked, accepted, written, failed>>
rxVars == <<rxPc, readOnClosed, ctxDone, devClosed, dev, busLeft, broadcast,
            backoff, slept, errRun, nErr>>
srxVars == <<sent, input, acc, frames, malformed, srxPc, sBackoff, sSlept,
             sErrRun, sNErr>>
mainVars == <<cmdline, env, backend, serialTO, mainPc, mlPc, servePc>>
vars == <<txVars, rxVars, srxVars, mainVars>>

\* The selected backend's RX goroutine has returned.
RxEnded == IF backend = "serial" THEN srxPc = "exited" ELSE rxPc = "exited"

\* initBackend has made the TX funnel and started the RX goroutine.
BackendUp == backend \in {"serial", "socketcan"}

TypeOK ==
    /\ Tx!TypeOK /\ Rx!TypeOK /\ Srx!TypeOK
    /\ DOMAIN cmdline \subseteq Cfg!Flags /\ DOMAIN env \subseteq Cfg!EnvVars
    /\ backend \in {"serial", "socketcan", "none"} /\ serialTO \in Nat
    /\ mainPc \in {"start", "panicked", "serving", "devclose", "txclose",
                   "wait", "exited"}
    /\ mlPc \in {"off", "running", "exited"}
    /\ servePc \in {"none", "serving", "returned"}

\* The process starts with any command line and environment; no goroutine
\* runs yet.
Init ==
    /\ cmdline \in CmdLines /\ env \in Envs
    /\ Tx!Init /\ Rx!Init /\ Srx!Init
    /\ backend = "none" /\ serialTO = 0 /\ mainPc = "start" /\ servePc = "none"
    /\ mlPc = "off"

\* main up to the signal wait: parseFlags; with a nil config the next
\* statement, cfg.logFormat, dereferences nil and the process panics.
\* Otherwise startMetricsLogger starts its goroutine if the interval is
\* > 0, initBackend calls the initializer of cfg.backend (validate admits
\* no other value, so its default branch is dead), which opens the device,
\* (openSerialPort(cfg.serialDev, cfg.baud, cfg.serialReadTO) for the
\* serial backend), makes the TXWriter and starts the RX goroutine, and the goroutine
\* running srv.Serve starts.  The command line and environment are read
\* once; the model forgets them here.
MainStart ==
    /\ mainPc = "start"
    /\ LET r == Cfg!ParseFlags(cmdline, env) IN
       IF r.err # Cfg!NoErr
       THEN mainPc' = "panicked" /\ UNCHANGED <<backend, serialTO, mlPc, servePc>>
       ELSE /\ backend' = r.cfg["backend"]
            /\ serialTO' = r.cfg["serial-read-timeout"]
            /\ mlPc' = IF r.cfg["log-metrics-interval"] > 0
                       THEN "running" ELSE "off"
            /\ mainPc' = "serving" /\ servePc' = "serving"
    /\ cmdline' = <<>> /\ env' = <<>>
    /\ UNCHANGED <<txVars, rxVars, srxVars>>

\* cancel() of the root context, which reaches the RX goroutine's context
\* and the funnel's child context in one step; a second call does nothing.
CancelRoot ==
    /\ \/ Rx!Cancel /\ Tx!ParentCancel
       \/ ctxDone /\ UNCHANGED <<txVars, rxVars>>
    /\ UNCHANGED srxVars

-----------------------------------------------------------------------------
(* The TX funnel                                                           *)

\* Client readers call the TXWriter's SendFrame (the send function main
\* gives Server).
Produce ==
    /\ BackendUp
    /\ \E p \in Producers : Tx!SendFastCheck(p) \/ Tx!SendLocked(p)
    /\ UNCHANGED <<rxVars, srxVars, mainVars>>

TxWorkerSelect ==
    /\ BackendUp
    /\ Tx!WorkerRecv \/ Tx!WorkerRecvClosed \/ Tx!WorkerCtxDone
    /\ UNCHANGED <<rxVars, srxVars, mainVars>>

\* The funnel's send: dev.WriteFrame(fr), a unix.Write on the raw
\* descriptor, or sp.Write(codec.Encode(fr)) on the port.  After the
\* device's Close the raw descriptor number is closed (EBADF) or already
\* reused by another open, and the port's file reports os.ErrClosed;
\* either way the outcome is the success or error that WorkerSend chooses.
DeviceWrite ==
    /\ BackendUp
    /\ Tx!WorkerSend
    /\ UNCHANGED <<rxVars, srxVars, mainVars>>

-----------------------------------------------------------------------------
(* The SocketCAN RX goroutine                                              *)

RxGoroutine ==
    /\ backend = "socketcan"
    /\ \/ Rx!CheckCtx \/ Rx!StartRead \/ Rx!ReadFrameOk
       \/ \E cause \in {"badfd", "enodev", "transient"} : Rx!ReadFrameErr(cause)
    /\ UNCHANGED <<txVars, srxVars, mainVars>>

DeviceRemoved ==
    /\ backend = "socketcan"
    /\ Rx!DeviceRemoved
    /\ UNCHANGED <<txVars, srxVars, mainVars>>

-----------------------------------------------------------------------------
(* The serial RX goroutine                                                 *)

\* serial.Open passes the timeout as the port's ReadTimeout.  tarm/serial
\* sets VMIN 0 and VTIME >= 1 for a ReadTimeout > 0: a Read that gets no
\* byte returns (0, io.EOF) within VTIME.  For a ReadTimeout <= 0 it sets
\* VMIN 1, VTIME 0: a Read returns only with a byte or an error.
SerialReadTimeout == IF serialTO > 0 THEN {"eof"} ELSE {}

\* The steps the goroutine takes without waiting for the adapter: the ctx
\* check, DecodeStream, and a Read ended by the port's read timeout.
SerialRxStep ==
    /\ backend = "serial"
    /\ \/ Srx!CheckCtx \/ Srx!DecodeStep
       \/ \E kind \in SerialReadTimeout : Srx!ReadError(kind)
    /\ UNCHANGED <<txVars, rxVars, mainVars>>

\* A Read that returns the adapter's bytes, or fails: any failure of the
\* tty (the adapter unplugged, an I/O error) is an *os.PathError.
SerialRxRead ==
    /\ backend = "serial"
    /\ (\E k \in SerialChunks : Srx!ReadData(k)) \/ Srx!ReadError("path")
    /\ UNCHANGED <<txVars, rxVars, mainVars>>

-----------------------------------------------------------------------------
(* main after the signal                                                   *)

\* The signal arrives (<-sigCh), then cancel().
MainCancel ==
    /\ mainPc = "serving"
    /\ CancelRoot
    /\ mainPc' = "devclose"
    /\ UNCHANGED <<cmdline, env, backend, serialTO, mlPc, servePc>>

\* cleanup(), first statement: dev.Close(), or sp.Close(), which leaves a
\* Read in progress to end at its read timeout; no Read starts after it,
\* since ctx is done and the loop checks it first.
MainCloseDevice ==
    /\ mainPc = "devclose"
    /\ IF backend = "socketcan" THEN Rx!Cleanup ELSE UNCHANGED rxVars
    /\ mainPc' = "txclose"
    /\ UNCHANGED <<txVars, srxVars, cmdline, env, backend, serialTO, mlPc, servePc>>

\* cleanup(), second statement: tw.Close() or w.Close(), i.e. AsyncTx.Close,
\* whose steps are those of AsyncTx; main goes on when it returns.
MainCloseFunnel ==
    /\ mainPc = "txclose"
    /\ \/ Tx!CloseSwap /\ UNCHANGED mainPc
       \/ Tx!CloseCancel /\ UNCHANGED mainPc
       \/ Tx!CloseChannel /\ UNCHANGED mainPc
       \/ Tx!CloseWait /\ mainPc' = "wait"
    /\ UNCHANGED <<rxVars, srxVars, cmdline, env, backend, serialTO, mlPc, servePc>>

\* wg.Wait(): the RX goroutine and the metrics logger have returned.
MainWait ==
    /\ mainPc = "wait" /\ RxEnded /\ mlPc # "running"
    /\ mainPc' = "exited"
    /\ UNCHANGED <<txVars, rxVars, srxVars, cmdline, env, backend, serialTO, mlPc, servePc>>

-----------------------------------------------------------------------------
(* main's other goroutines                                                 *)

\* Mutant: the logger's select has only the ticker case.
MetricsLoggerTickOnly ==
    /\ mlPc = "running"
    /\ UNCHANGED vars

\* The metrics logger's select: a tick logs a snapshot (no modelled state),
\* ctx.Done returns and runs the deferred wg.Done().
MetricsLoggerStop ==
    /\ mlPc = "running" /\ ctxDone
    /\ mlPc' = "exited"
    /\ UNCHANGED <<txVars, rxVars, srxVars, cmdline, env, backend, serialTO, mainPc, servePc>>

\* Mutant: the goroutine logs Serve's error and does not call cancel().
ServeReturnsNoCancel ==
    /\ servePc = "serving"
    /\ servePc' = "returned"
    /\ UNCHANGED <<txVars, rxVars, srxVars, cmdline, env, backend, serialTO, mainPc, mlPc>>

\* The goroutine running srv.Serve: Serve returns an error (the listen
\* fails, or Accept fails fatally while ctx is live) and the goroutine
\* calls cancel(), while main still waits for the signal; after
\* cancellation Serve returns nil, which is the same step, cancel()
\* being a no-op by then.
ServeReturns ==
    /\ servePc = "serving"
    /\ CancelRoot
    /\ servePc' = "returned"
    /\ UNCHANGED <<cmdline, env, backend, serialTO, mainPc, mlPc>>

Main == MainStart \/ MainCancel \/ MainCloseDevice \/ MainCloseFunnel \/ MainWait

Next ==
    \/ Produce \/ TxWorkerSelect \/ DeviceWrite
    \/ RxGoroutine \/ DeviceRemoved
    \/ SerialRxStep \/ SerialRxRead
    \/ Main
    \/ MetricsLoggerStop \/ ServeReturns

(***************************************************************************)
(* Fairness: main's start-up, the funnel worker, a producer holding the fast-path result,  *)
(* the RX goroutines' immediate steps (for the serial one, a Read ends by *)
(* its read timeout at the latest), main once the signal has come, and    *)
(* the metrics logger once ctx is done.  The signal itself, a Serve       *)
(* error, bus traffic and device errors get none.                         *)
(***************************************************************************)
Spec ==
    /\ Init /\ [][Next]_vars
    /\ WF_vars(TxWorkerSelect \/ DeviceWrite)
    /\ \A p \in Producers :
           WF_vars(Tx!SendLocked(p) /\ UNCHANGED <<rxVars, srxVars, mainVars>>)
    /\ WF_vars(backend = "socketcan" /\ Rx!RxStep
                 /\ UNCHANGED <<txVars, srxVars, mainVars>>)
    /\ WF_vars(SerialRxStep)
    /\ WF_vars(MainStart \/ MainCloseDevice \/ MainCloseFunnel \/ MainWait)
    /\ WF_vars(MetricsLoggerStop)

-----------------------------------------------------------------------------
(* Properties                                                              *)

\* The SocketCAN RX goroutine's backoff, inside the composed process: the
\* sleep before a retry is the one its current run of read errors calls
\* for.
BackoffFollowsErrorRun == Rx!BackoffFollowsErrorRun

\* cleanup() returns: the funnel's Close completes even though the device
\* it writes to is already closed, so main reaches wg.Wait().
CleanupCompletes == (mainPc = "devclose") ~> (mainPc \in {"wait", "exited"})

\* wg.Wait() returns once the RX goroutine has: the other goroutine in
\* main's WaitGroup, the metrics logger, always leaves on ctx.Done.
WaitReturnsOnceRxEnds ==
    (mainPc = "wait" /\ RxEnded) ~> (mainPc = "exited")

\* With the serial backend, main returns after the signal whatever the
\* adapter does: a Read in progress ends at the port's read timeout even
\* when no byte comes, the goroutine sees ctx done and leaves main's
\* WaitGroup (the SocketCAN read has no such timeout: socketcan_shutdown).
\* The timeout is cfg.serialReadTO from any command line and environment:
\* this holds only because validate rejects a timeout <= 0 and the
\* CAN_SERVER_SERIAL_READ_TIMEOUT override ignores one <= 0 (a zero
\* timeout opens the port blocking, and sp.Close does not end the Read).
SerialShutdownCompletes ==
    (backend = "serial" /\ mainPc # "serving") ~> (mainPc = "exited")

\* When srv.Serve fails while main still waits for the signal, the
\* cancel() of its goroutine ends the TX funnel's worker, the metrics
\* logger and, with the serial backend, the RX goroutine (the SocketCAN
\* read may block: socketcan_shutdown); main itself stays in <-sigCh.
ServeFailureStopsGoroutines ==
    (servePc = "returned" /\ mainPc = "serving")
        ~> (wpc = "exited" /\ mlPc # "running"
            /\ (backend = "serial" => RxEnded))
=============================================================================
