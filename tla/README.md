# TLA+ models of go-ampio-server

go-ampio-server is a CAN ↔ TCP gateway. One CAN backend (a serial UART adapter
or a SocketCAN socket) is fanned out to many TCP clients speaking the
Cannelloni frame format, and the clients can inject frames back onto the bus.
This directory holds TLA+ models of the concurrent core of the gateway, the
TLC configurations that check them, and (in `PROJECT.json`) the map from every
modelled definition to the source lines it stands for.

## 1. Inventory

Several source files are concatenated under one path in `src/` (they are
separated by a marker line). The file names below give the path where each
piece of code is found.

| Component | Source | State | Operations |
|---|---|---|---|
| CAN frame value | `go.mod` (package `can`, appended) | id with EFF/RTR/ERR flag bits, `Len`, 64-byte `Data` | pure value |
| Cannelloni codec | `internal/cnl/codec.go` | stateless | `Encode`, `EncodeTo`, `Decode`, `DecodeN` |
| Handshake | `internal/cnl/handshake.go` | a deadline on the conn, two helper goroutines | `Handshake` |
| Serial UART codec | `internal/metrics/metrics.go` (package `serial`, appended) | the RX accumulator `bytes.Buffer` | `Encode`, `canUARTSend`, `DecodeStream`, `CompactBuffer` |
| Async TX funnel | `unnamed/part_012` (`transport.AsyncTx`) | `closed` flag, `mu`, bounded channel, worker, context | `SendFrame`, `loop`, `Close` |
| Backend TX writers | `internal/serial/txwriter.go`, `internal/socketcan/stub.go` | an `AsyncTx` plus hooks | `SendFrame`, `Close` |
| Broadcast hub | `internal/hub/hub.go` | client registry under an RWMutex; for each client an `Out` channel and a `Closed` signal | `Add`, `Remove`, `Broadcast`, `Snapshot`, `Count` |
| Server / accept loop | `internal/server/server.go` | the listener, `s.clients` map, counters, `wg` | `Serve`, `acceptOnce`, `newClient`, `Shutdown` |
| Client writer | `internal/server/writer.go` | batch, ticker | `startWriter` goroutine |
| Client reader | `internal/server/reader.go` | read deadline | `startReader` goroutine |
| Backend RX loops | `unnamed/part_004` (serial), `cmd/can-server/backend_socketcan.go` | accumulator, backoff | RX goroutine |
| Process wiring | `cmd/can-server/main.go`, `unnamed/part_001` (`initBackend`) | root context | start-up, signal, `cancel(); cleanup()` |
| Config | `unnamed/part_005` (`config.go`) | `appConfig` | `parseFlags`, `applyEnvOverrides`, `validate` |
| Logging, metrics HTTP, mDNS, serial port, SocketCAN device | `logger.go`, `internal/logging`, `internal/metrics`, `mdns.go`, `internal/serial/port.go`, `internal/socketcan` | — | I/O and formatting |

**How the parts interact.**
- `main` builds its configuration first: the flags, then the `CAN_SERVER_*`
  environment over every flag the command line did not set, then
  `validate`. The configuration picks the backend and whether the metrics
  logger runs.
- The backend RX goroutine decodes frames and calls `Hub.Broadcast`.
- `Broadcast` snapshots the registry under the read lock. It then does one
  non-blocking send into each client's `Out` channel.
- For a full channel, the `drop` policy counts a drop. The `kick` policy
  fires the client's `Closed` signal instead.
- Each client has a writer goroutine. It batches frames from `Out` and writes
  them to the socket. It flushes when the batch is full, when the ticker
  fires, or on `Closed` or cancellation.
- When the writer exits, it closes the conn and calls `Hub.Remove`.
- Each client also has a reader goroutine. It decodes frames from the socket
  and calls the backend's `SendFrame`: the `AsyncTx` funnel.
- The funnel's single worker goroutine is the only caller of the device
  write.
- The accept loop runs the handshake inline. It checks `max_clients` against
  `Hub.Count()`, then registers the client and starts its two goroutines.
- `main` shuts down with `cancel()`. After that it calls the backend cleanup
  (device close, then `AsyncTx.Close`).
- `Server.Shutdown` is a separate API that tests call.

**What is hard.**
- Every box above runs concurrently.
- Go's `select` picks any ready case.
- The funnel's `Close` races producers that have already passed its fast-path
  check.
- `Broadcast` works on a snapshot while clients come and go.
- Teardown of a client is split between the reader and the writer, and only
  the writer removes the client from the hub.
- `Shutdown` races the accept loop.
- Queues are bounded and overflow.
- The serial decoder must resynchronise on arbitrary chunking and garbage.

**What makes each part correct** (the properties, or the ones planned):
- **AsyncTx:**
  - no send on the closed channel;
  - no device write after `Close` returns;
  - device order follows enqueue order, with no retry;
  - every accepted frame is eventually written;
  - the spec's "`Close` drains".
- **Hub and writer:**
  - the wire is a prefix of what entered the client's queue;
  - a kicked client is torn down;
  - `max_clients` is respected.
- **Server:**
  - cancellation tears everything down;
  - teardown after a peer leaves;
  - the client table holds live clients only;
  - `Shutdown` does not leak tasks.
- **Serial codec:**
  - the frames emitted do not depend on chunking;
  - garbage never hides a later frame;
  - length bounds.
- **Cannelloni codec:** round trip, and the malformed-input outcomes.
- **Backend RX:** the backoff stays in [20 ms, 500 ms] and resets on data;
  device removal ends the gateway.
- **Config:** every configuration `parseFlags` accepts is one the process
  can shut down with: `validate` keeps the serial read timeout above zero,
  which the serial shutdown depends on.

## 2. Modules

### `AsyncTx` — the TX funnel (`unnamed/part_012`)

**State.**
- `closed` is the atomic flag.
- `cancelled` is the funnel's context.
- `ch` and `chClosed` are the channel.
- Each producer has a program counter `ppc` (`idle`/`locking`).
- The worker has `wpc` (`loop`/`send`/`exited`) and `cur`, the frame it is
  sending.
- `Close` has `cpc` (`open`, `cancel`, `closech`, `wait`, `returned`).
- The histories `accepted`, `written` and `failed` record what was enqueued,
  written and rejected.

**Actions.**
- `SendFrame`:
  - `SendFastCheck` is the lock-free `closed.Load()`.
  - `SendLocked` is the critical section under `a.mu`: the re-check, then the
    non-blocking send or `OnDrop`. A send on a closed channel sets
    `panicked`.
- The worker's `select` has one action per case: `WorkerRecv`,
  `WorkerRecvClosed` and `WorkerCtxDone`. `WorkerSend` is `a.send` with
  `OnAfter` or `OnError`.
- `Close` has one action per step: `CloseSwap`, `CloseCancel`,
  `CloseChannel` (under `a.mu`) and `CloseWait`.
- `ParentCancel` is `main`'s `cancel()`, which comes before `cleanup()`.
- The two `a.mu` critical sections are single actions because the lock
  serialises them.

### `TxFunnel` — what the funnel promises, and the refinement

`TxFunnel` is the abstract funnel of `AsyncTx`'s doc comment
(`unnamed/part_012` lines 12–53). Every step is atomic:
- `Accept(f)` appends to `queue` while the funnel is `open`.
- `Hand` passes the head of the queue to the device, with success
  (`written`) or an error (`failed`).
- `Stop` stops the worker, only when it is cancelled or when the funnel is
  closed with nothing queued.
- `Cancel`, `BeginClose` and `EndClose` are the rest. `EndClose` needs the
  worker stopped.
- Fairness: the worker keeps handing frames over or stops, and a `Close`
  that has begun returns.

`AsyncTx` defines `Funnel == INSTANCE TxFunnel WITH ...`. The mapping is:
- `open` is `~closed`;
- `queue` is the channel with the frame the worker holds in front of it;
- `stopped` is `wpc = "exited"`;
- `returned` is `cpc = "returned"`.

The fast-path check, a drop, the worker's receive and `close(a.ch)` are
stuttering steps. `FunnelRefined == Funnel!FSpec` is checked as a
`PROPERTY` of the `asynctx` run.

The doc comment says that after `Close` "the channel is not closed" and that
late sends still enqueue. The code closes the channel and rejects late sends
through `a.closed`. The abstract spec follows the code.

### `Hub` — the broadcast hub (`internal/hub/hub.go`)

**State.**
- The registry is `hclients`.
- Each client has `out[c]` and `closedSig[c]`.
- The broadcaster has `bcPc`, `bcFrame`, the remaining snapshot `bcSnap` and
  `bcCount`.
- The histories are `sentTo` (frames that entered each queue) and `kickedSet`.

`policy` is `h.Policy`. `HubInit` chooses it as `initHub`
(`cmd/can-server/hub_init.go`) does: `"kick"` selects kick, and `"drop"` or
any unknown value selects drop.
The drop and kick counters are metrics only and are left out. The constant `HubPolicies` is the set of
configured values, so one run covers both policies.

**Operators.**
- `HubAdd`, `HubRemove`, `HubRemoveAll` and `HubTake` (the writer's receive).
- `Broadcast` is split into `BroadcastBegin` (the snapshot), one
  `BroadcastTo(c)` for each member in any order, and `BroadcastEnd`.

The module has no `Next` of its own; `Server` composes it.

### `Server` — accept loop, writer, reader, shutdown (`internal/server`), `EXTENDS Hub`

**State.**
- `Serve`'s start-up has `lnOpen` (the listener is bound and not closed),
  `lnSet` (`s.listener` holds it), `ready` (`readyCh` closed) and
  `ctxDone`.
- The accept loop has `accPc` and `accConn`.
- Each connection has `connOpen` (our side not closed) and `peerGone` (the
  peer has left).
- `srvClients` is the keys of `s.clients`.
- Each writer has `wpc` and `batch`.
- `wire[c]` records what was written to the socket.
- Each reader has `rpc`.
- `Shutdown` has `sdPc`.
- The lifecycle counters (`totalAccepted` and the rest) are metrics only
  and are left out.

**Actions.**
- `Serve`'s start-up:
  - `Listen` is `net.Listen`: it binds, or fails and `Serve` returns the
    error.
  - `SetListener` is the store `s.listener = ln`, which `Serve` does
    without `s.mu`.
  - `MarkReady` closes `readyCh` and starts the ctx watcher goroutine. If
    ctx is already done, the watcher closes the listener at once.
- Accept loop:
  - `AcceptConn` accepts a connection.
  - `Handshake` either succeeds or fails.
  - `Admit` is the max-clients check and `newClient`, which calls
    `Hub.Add`.
  - `Register` inserts into `s.clients` and starts the writer and reader.
  - `AcceptStopped` is `Serve` returning after cancellation. The fatal
    `ErrAccept` branch is never taken: a TCP listener's `Accept` only
    returns `*net.OpError`, which is a `net.Error`.
- Writer:
  - `WriterRecv` is a receive, with a flush when the batch is full.
  - `WriterTick` is a timer flush.
  - `WriterStop` covers `Closed` and `ctxDone`: a best-effort flush, then
    return.
  - `WriterDefer` is the deferred teardown: conn close and `Hub.Remove`.
- Reader:
  - `ReaderEOF` is EOF or `net.ErrClosed`.
  - `ReaderError` is malformed input or another read error.
  - `ReaderCancelled` is the ctx select at `reader.go:90-94`. It follows
    only a `DecodeN` call that returned nil after a full round of frames:
    a deadline timeout `continue`s before it (`reader.go:49-50`). So only a
    peer that keeps sending lets the reader see the cancellation, and the
    action gets no fairness. An idle reader ends through `ReaderEOF` once
    its writer's teardown closes the conn, which is how
    `CancelTearsDownClients` holds.
- Environment, cancellation and Shutdown:
  - `PeerDisconnect` is the peer leaving (environment, not code).
  - `CtxCancel` cancels the context. Once the watcher goroutine is running
    it closes the listener; before that, `MarkReady` does.
  - `ShutdownBegin` is called only once `Ready()` has fired, as the tests
    do (`main` never calls `Shutdown`). It takes `s.listener` under `s.mu`
    and closes it if it was set.
  - `ShutdownBegin`, `ShutdownClients` and `ShutdownWait` are the three steps
    of `Shutdown`.
- `FrameReceived` and `Fanout` are the backend RX goroutine calling
  `Broadcast`.

**Abstractions.**
- A frame is its arrival number.
- Socket writes succeed while our side is open. They may also fail once the
  peer is gone, and always fail after our side is closed.
- A reader iteration that neither exits nor sees cancellation changes no
  modelled state, so it is not an action. The frames it decodes go to the
  funnel, which `AsyncTx` models.
- When `Shutdown` closes the listener without cancelling, `Serve` keeps
  retrying `Accept`. That is a loop that changes no state, so it is not an
  action.

### `CnlHandshake` — the hello exchange (`internal/cnl/handshake.go`)

This module models `cnl.Handshake` as `acceptOnce` runs it for one accepted
connection.

**State.**
- The main goroutine has `hsPc`, the loop index `recvd` and `result`.
- `errCh` is the buffered channel, with capacity `ErrChCap` = 2.
- The writer goroutine has `wrPc` and `wrRes`; the reader has `rdPc` and
  `rdRes`.
- The conn has `deadline`, `expired` and `connOpen`.
- `ctxDone` is the server context. `peer` is what the peer did: silent, a
  good or a bad hello, or a close.
- `accPc` is `acceptOnce` after the handshake.

**Actions.**
- `Begin` is `SetDeadline` and starting the two goroutines.
- `Recv` is one receive from `errCh`: an error returns at once, and the
  second nil returns nil.
- `RecvCtx` is the `ctx.Done()` case. Go may pick it while `errCh` also
  holds a result.
- Every return runs the deferred `SetDeadline(time.Time{})`, which clears
  the deadline.
- `Write` and `Read` are the goroutines' I/O:
  - `Read` blocks until the peer's 12 bytes arrive, the deadline passes, the
    conn is closed, or the peer closes.
  - `Write` may fail at any time, and always fails after the deadline or a
    close.
- `WriterSend` and `ReaderSend` block while `errCh` is full.
- `AfterHandshake` is `acceptOnce`: on an error it closes the conn.
- `Expire` (time passing), `PeerHello` and `CtxCancel` are the environment.

`Server` keeps the handshake as the single step `Handshake`: it succeeds
only if the peer is still there, and it can always fail. That matches the
outcomes `CnlHandshake` shows.

### `SerialCodec` — the serial UART codec (`internal/metrics/metrics.go`, package `serial`)

This module defines pure operators, with bytes kept as their values 0..255,
because the parser branches on the preamble, the length byte and an 8-bit
checksum.
- `CanUARTSend`, `Encode` and `RxWire` are the envelope, the TX encoder and
  the bus-to-host wire of the tests.
- `bytes.Buffer` is modelled by its geometry: a record of the backing array
  `arr`, the read offset `off`, the length `n` and `isNil`.
  - `BufWrite` follows Go's `grow`: reset when empty, reslice, a 64-byte first
    allocation, sliding the unread bytes down, or a new array of
    `max(needed, 2*cap)`. `growSlice`'s rounding up to a size class is left
    out.
  - `BufNext` and `BufReset` are `Next` and `Reset`.
  - The geometry matters because `DecodeStream` keeps a slice of the buffer
    across a call that may rewrite it.
- `CompactBuffer` is the compaction.
- `DecodeIter` is one iteration of `DecodeStream`'s loop. Its branches follow
  the code's order:
  - fewer than 3 bytes;
  - no preamble (keep the last byte);
  - skip to the preamble;
  - fewer than 4 bytes;
  - LEN out of range;
  - incomplete;
  - bad checksum;
  - emit a frame.
- `data` is read from the compacted array at the old offsets: this is the
  aliasing slice.
- `DecodeLoop` and `DecodeStream` iterate `DecodeIter` until it returns. They
  serve as the reference decode of a whole stream.

### `SerialRx` — the serial RX goroutine (`unnamed/part_004`), `EXTENDS SerialCodec`

State:
- `input`, the bytes the adapter has not delivered yet, taken from a stream
  of pieces: encoded frames, garbage, a cut frame;
- the accumulator `acc`;
- `frames`, the frames passed to `Hub.Broadcast`;
- `malformed`;
- `rxPc`, `backoff`, and the history `slept` and `errRun`.

Actions:
- `CheckCtx` is the ctx select.
- `ReadData(k)` reads a chunk of size `k` and writes it into `acc`.
- `DecodeStep` is one `DecodeIter`. When `DecodeStream` returns it also does
  the reclaim and the backoff reset, which follow the call in the same loop
  body.
- `ReadError(kind)` covers the shutdown, `PathError`, EOF and other-error
  branches with the capped doubling. EOF is what a port with a read
  timeout returns when no byte came, so it does not count against
  `MaxErrors`.
- `CtxCancel` cancels the context.

### `CnlCodec` — the Cannelloni codec (`internal/cnl/codec.go`)

Pure operators:
- `EncodeFrame` and `Encode` are `EncodeTo` and `Encode`: the id bytes, the
  `Len` byte, then `Data[:Len&0x7F]`.
- `Need` and `FrameOf` give the three blocking reads of `Decode`: the 4-byte
  id, the length byte, and the payload.
- `Decode` is one call on a reader that ends in EOF, with the outcomes `ok`,
  `eof`, `unexpectedEOF`, `invalid` and `truncated`.
- `DecodeAll` is `DecodeN` with no limit.

### `CnlRx` — the per-client reader on a TCP stream (`internal/server/reader.go`), `EXTENDS CnlCodec`

The peer's bytes (`Encode(frames)` followed by a tail) reach the socket in
chunks (`Arrive`).
- `got` holds the bytes of the frame being decoded, so `Len(got)` is the
  phase: id, length or payload.
- `SetDeadline` starts a round: `SetReadDeadline` and `DecodeN` with
  `n = 0`.
- `ReadBytes` is a read that returns what has arrived, up to what the phase
  needs. On completion it rejects a length above 8 or hands the frame on.
  After `DecodeMax` frames it returns and the loop checks ctx.
- `Timeout` is a read whose deadline passed:
  - in the id or length phase the raw `net.Error` makes the loop continue;
  - in the payload phase the wrapped error ends it.
- `AtEOF` and `ReadClosed` are the EOF and `net.ErrClosed` outcomes of each
  phase.
- `PeerClose`, `LocalClose` (writer teardown or Shutdown) and `CtxCancel`
  are the environment.
- `DecodeMax` is 16 in the code and 2 in the runs: the round-end path is the
  same for any limit.
- The frame filter and the `Send` error counters only count, so they are left
  out.

### `ClientConn` — one connection from accept to the end of its reader (`internal/server/server.go`, `reader.go`)

`ClientConn` composes `CnlHandshake` (as `Hs`) and `CnlRx` (as `Rd`) on
one accepted conn, sharing the server context `ctxDone`.
- `HsStep` is the handshake and its two helpers, the deadline and the peer's
  hello; `CtxCancel` is the server's `cancel()`.
- `Admitted` is `acceptOnce` having reached `startReader` after a nil
  handshake. Only then do `ReaderStep` (the reader goroutine), `PeerStream`
  (the peer's frames and close) and `ConnClose` (writer teardown or
  Shutdown) run.
- The peer's frames are taken to arrive after the hello; bytes that arrive
  earlier wait unread in the socket, which the reader sees the same way.
- The stream scenarios (`F1`–`F3`, `MC_Streams`) live in `CnlScenarios`, which
  `MC_ClientConn` and `MC_CnlRx` extend.
- The max-clients rejection after a good handshake is modelled in `Server`.

### `SocketCanRx` — the SocketCAN RX goroutine and its cleanup (`cmd/can-server/backend_socketcan.go`)

- `CheckCtx` is the ctx select, and `StartRead` the call into
  `Device.ReadFrame`'s `unix.Read`. They are separate steps, so `cancel()`
  and `dev.Close()` can both fall between them. The read then starts on a
  closed (or reused) descriptor and fails with EBADF (`readOnClosed`).
- `ReadFrameOk` is `unix.Read` returning a full 16-byte frame, then
  `IncSocketCANRx`, `Broadcast` and the backoff reset.
- `ReadFrameErr(cause)` covers the error branches:
  - EBADF on a descriptor closed before the read;
  - the one-shot ENODEV of a removed interface;
  - a transient error.

  Each one either returns (ctx cancelled) or sleeps and doubles the backoff.
- `Cancel`, `Cleanup` (`dev.Close()`) and `DeviceRemoved` are the
  environment. The constant `Removable` allows `DeviceRemoved`: it is
  FALSE in `socketcan_shutdown`, so that run's trace is the idle-bus hang
  alone, and TRUE in `socketcan_enodev` and in `Gateway`.
- A read already in progress when the descriptor is closed is not woken
  (`readOnClosed` is FALSE for it). This is the Linux semantics of close(2)
  on a descriptor with a blocked read(2).
- `errRun` stops counting at 6, where the backoff is already at its cap.

### `Config` — the configuration (`unnamed/part_005`)

`Config` is constant-level: `parseFlags`, `applyEnvOverrides` and
`validate` are pure functions, and so are their operators. A configuration
is a function from flag names to values (`Defaults` holds the flags'
defaults), a command line a function from the flags it sets to their
values (`FlagValues` is `flag.Parse` and the copy into `cfg`; the flags in
its `DOMAIN` are those `flag.Visit` reports), and an environment a function
from the variables set to their text after `strings.TrimSpace`.

- `EnvSteps` lists the 17 if-blocks of `applyEnvOverrides` in the code's
  order, each with its flag, its variable and the way its text is applied:
  as is when non-empty (`str`), as is even when empty (`any`: only
  `CAN_SERVER_METRICS`), as an integer or duration of at least a minimum
  (`int`, `dur`), or as a mDNS switch word (`bool`).
- `ApplyEnvStep` is one block on the pair `<<cfg, firstErr>>`, and
  `ApplyEnvOverrides` folds it over `EnvSteps` (`FoldLeft`).
  `RecordErr` is `else if err != nil && firstErr == nil`.
- Parsing is modelled by what it does: `AtoiTable` and `DurationTable` give
  `strconv.Atoi` and `time.ParseDuration` on the strings the model uses,
  and a string outside a table is one the function rejects ("5" is no
  duration, "x" no integer). Durations are in milliseconds; the code only
  compares them with zero.
- `Validate` is the first of `validate`'s ten checks that fails
  (`ValidateOrder`, `FieldValid`), and `ParseFlags` the whole of
  `parseFlags`: its result's `err` is `NoErr` with the configuration, or
  names the failing override or check (a nil config).
- `Gateway` uses `ParseFlags` at start-up. The checked consequence is
  `SerialShutdownCompletes`: the port's read timeout comes from the
  configuration, and shutdown completes for every accepted command line
  and environment only because `validate` rejects a timeout <= 0.
- `FlagValues` abstracts `flag.Parse` to the flags given. The form the
  repository README gives for the systemd unit, `-mdns-enable true`, is
  not modelled: a bool flag takes no separate value, so `flag.Parse` stops
  at the positional `true` and ignores every flag after it.
- The repository README (`part_001:99-102`) says the unit's `-mdns-enable
  true` can be turned off with `CAN_SERVER_MDNS_ENABLE=false`. Under
  `applyEnvOverrides` a flag on the command line always wins over its
  variable, so that setting has no effect. No run checks this one-step
  disagreement (every run slot is taken); it follows directly from
  `ApplyEnvStep`'s first guard.

### `Gateway` — the process with either backend (`cmd/can-server/main.go`, `initBackend`, `backend_socketcan.go`, `unnamed/part_004`)

`Gateway` composes the backend that `initBackend` selects with `main`.
The process starts from a command line and an environment (`cmdline`,
`env`, chosen in `Init` from `CmdLines` and `Envs`). `MainStart` is `main`
up to the signal wait: `parseFlags` (`Config`); with a nil config the next
statement, `cfg.logFormat`, panics (`mainPc = "panicked"`); otherwise the
metrics logger starts for an interval > 0, `initBackend` starts the
backend `cfg.backend` names (`validate` admits no other, so its default
branch is dead), and the Serve goroutine starts. The model then forgets
the inputs, so runs from different inputs that start the same goroutines
meet. `backend` is `"none"` until then, and no goroutine runs before
(`BackendUp`), so one run covers both backends and the panic. The RX goroutine is
`SocketCanRx` (as `Rx`) or `SerialRx` (as `Srx`, its variables renamed
with an `s` and sharing `ctxDone`), and the TX funnel is `AsyncTx` (as
`Tx`, inside `socketcan.TXWriter` or `serial.TXWriter`). They run under
one root context, with `main`'s shutdown after the signal:
`cancel(); cleanup(); wg.Wait()`. `cleanup` is
`func() { _ = dev.Close(); tw.Close() }` (`backend_socketcan.go:58`) or
`func() { _ = sp.Close(); w.Close() }` (`part_004:79`). The modules'
variables are the composition's; each action of a component leaves the
others' variables unchanged, and the goroutine of the backend not
selected never runs.

- `Produce` is a client reader calling `tw.SendFrame`; `TxWorkerSelect`
  and `DeviceWrite` are the funnel worker, whose send function is
  `Device.WriteFrame`, a `unix.Write` on the raw descriptor.
- `RxGoroutine` and `DeviceRemoved` are the SocketCAN RX goroutine and the
  bus.
- `SerialRxStep` and `SerialRxRead` are the serial RX goroutine. The port
  is a tarm/serial port, an `*os.File` on the tty, opened with
  `cfg.serialReadTO` as its read timeout (`serialTO`, set by `MainStart`).
  tarm/serial gives a timeout > 0 VMIN 0 and VTIME >= 1, and a timeout
  <= 0 VMIN 1 and VTIME 0, a Read that waits for a byte. So a Read returns bytes, `(0, io.EOF)` once the timeout passes
  with none (`SerialReadTimeout`, a step the goroutine always gets to),
  or an `*os.PathError`: `os.File` wraps every error but EOF in one.
  `sp.Close()` does not interrupt a Read in progress: the file is in
  blocking mode, and its descriptor is released when the Read returns.
- `mainPc` follows `main`: `MainCancel` is `cancel()`, which reaches the
  RX goroutine's context and the funnel's child context in one step;
  `MainCloseDevice` is `dev.Close()` or `sp.Close()`; `MainCloseFunnel` is the four steps
  of `AsyncTx.Close`; `MainWait` is `wg.Wait()` returning once the RX
  goroutine has.
- `mlPc` is the metrics logger (`startMetricsLogger`, started only for an
  interval > 0), the other goroutine in `main`'s `wg`; `MetricsLoggerStop`
  is its `ctx.Done` case. A tick changes no modelled state.
- `servePc` is the goroutine running `srv.Serve`: `ServeReturns` is its
  return, with `cancel()` when Serve failed (a no-op once ctx is done).
  After a Serve error `main` still waits for the signal, so the process
  stays up with every goroutine ended (a hazard, `main.go:53`).
- `Server` is not in the composition: it is checked on its own. The
  serial send after `sp.Close()` fails with `os.ErrClosed`; that is one of
  the outcomes `WorkerSend` chooses.
- `initBackend`'s open error is left out: `main` returns and the process
  exits. So is the `-version` flag, which prints and returns.

While writing this module the order inside `cleanup` showed a late write:
after `cancel()` the worker may hold a frame, or take one from the buffer
(Go's select picks any ready case), and write it after `dev.Close()`, to a
closed descriptor or to whatever file has reused its number. A history
flag set by such a write is violated in 7 steps (produce, produce, the
worker takes the first frame, `cancel()`, `dev.Close()`, the write). Spec
§4.3 promises only that no write follows `TXWriter.Close`, which holds, so
this is listed as a hazard (`backend_socketcan.go:58`, ordering) and not
given a violation run.

## 3. Runs

| Run | Cfg | Expect | What it shows |
|---|---|---|---|
| `asynctx` | `MC_AsyncTx.cfg` | pass | 2 producers × 2 sends, buffer 1, parent cancel and Close at any point: no panic on the closed channel, no device write after Close, FIFO device order, every accepted frame sent unless cancelled, and `AsyncTx` implements `TxFunnel` (`FunnelRefined`) |
| `asynctx_drain` | `MC_AsyncTx_drain.cfg` | violation | Close can return with accepted frames never sent (spec §4.3/§8.5 say it drains) |
| `server` | `MC_Server.cfg` | pass | 2 connections, `max_clients`=1, either hub policy (`initHub` with "drop", "kick" or an unknown value), Out=1, batch 2, 2 frames, from `Serve`'s start-up (listen error, cancellation before Ready), Shutdown after Ready: max-clients respected, the wire is a prefix of the queue, cancellation tears everything down, a kicked client or one whose reader ended with a frame waiting is eventually removed and closed (`LostClientTornDown`), and Shutdown has closed the listener (`ShutdownAfterReadyClosesListener`) |
| `server_shutdown` | `MC_Server_shutdown.cfg` | violation | a client admitted while Shutdown runs is never closed: its tasks leak |
| `serial` | `MC_SerialRx.cfg` | pass | up to 7 read errors, and streams of up to 3 pieces (2 frames, one with a preamble inside its payload; noise; a lone 0x2D; a cut frame) read in chunks of 1–4 bytes: the frames, the malformed count and the leftover bytes equal the whole-stream decode, and every frame sent is broadcast, in order. The k-th consecutive failed read sleeps min(20·2^(k-1), 500) ms |
| `serial_s4` | `MC_SerialRx_s4.cfg` | violation | a frame with a 1-byte payload (scenario S4) is counted as malformed and never broadcast |
| `serial_burst` | `MC_SerialRx_burst.cfg` | violation | 820 frames in full 4096-byte reads: after `CompactBuffer` fires, a frame is skipped |
| `conn` | `MC_ClientConn.cfg` | pass | one accepted connection (`ClientConn`): a peer that is silent, sends a good or bad hello, or closes, the handshake deadline and cancellation at any point; after admission up to 3 frames followed by each of 5 stream ends, in chunks of 1 and 4 bytes, with one read-deadline expiry. Handshake returns nil only after both hellos, always returns, and leaves no helper goroutine; the admitted reader hands on exactly the encoded frames in order and ends the same way as a decode of the whole stream, however TCP splits it (while no read deadline has expired; that ending is the code's, which differs from `codec.go`'s comments: see Findings), ends once the peer closes, and counts at most one malformed frame more than the peer sent, only when a local close cuts a payload read short |
| `cnl_timeout` | `MC_CnlRx_timeout.cfg` | violation | a deadline expiring after part of a frame has been read desynchronises the stream: the backend receives frames the peer never sent |
| `gateway` | `MC_Gateway.cfg` | pass | 12 command lines and 72 environments (backend, metrics-logger interval, serial read timeout, baud, with texts that parse, are out of range or zero, or do not parse), which select either backend, start the metrics logger or not, or leave a nil config; one client reader sending a frame into a one-slot funnel; for SocketCAN 1 bus frame, up to 5 read errors and interface removal, for serial one frame from the adapter, read timeouts and a tty error; a Serve error, the metrics logger on or off, and main's shutdown at any point: the SocketCAN RX backoff follows min(20·2^(k-1), 500) ms inside the composition, `cleanup()` always returns after `cancel()` (`CleanupCompletes`), `wg.Wait()` returns once the RX goroutine has (`WaitReturnsOnceRxEnds`), and with the serial backend `main` returns after the signal whatever the adapter does, for every configuration `parseFlags` accepts (`SerialShutdownCompletes`: a `validate` that let a zero read timeout through would hang); a failed Serve's `cancel()` ends the funnel worker, the metrics logger and the serial RX goroutine while `main` keeps waiting (`ServeFailureStopsGoroutines`) |
| `socketcan_shutdown` | `SocketCanRx_shutdown.cfg` | violation | with no frame on the bus and the interface up (`Removable` FALSE), the RX goroutine that entered `unix.Read` before `cancel()` and `dev.Close()` stays in it, so `wg.Wait()` never returns |
| `socketcan_enodev` | `SocketCanRx_enodev.cfg` | violation | after the interface is removed, the RX goroutine reads ENODEV, sleeps, reads again and blocks for ever: the RX loop never ends and nothing is reported (spec §7 says it is fatal) |

**Bounds.**
- A one-slot queue with two frames is the smallest setting in which a queue
  overflows while another frame is in flight. A batch of 2 leaves a partial
  batch for the ticker.
- Two connections with `max_clients`=1 give a rejected connection and a
  replacement after a teardown.
- In `AsyncTx`, two producers with two sends each give a frame queued behind
  another and a sender racing each step of `Close`.
- The server run explores both hub policies: the drop half and the kick
  half are disjoint state spaces; together about 670,000 states, 2
  minutes. The two teardown liveness properties are one leads-to with a
  disjunctive antecedent, which halves the liveness checking time.
- Serial:
  - Three pieces with chunks of 1–4 bytes cover every split of a frame: in
    the preamble, in the length byte, in the id, in the payload, before the
    checksum.
  - The burst run uses the code's real constants (4096-byte reads, the
    1 KiB and 25% compaction rule). Nothing smaller reaches `CompactBuffer`.
- Cannelloni: chunks of 1 and 4 bytes split every phase of a frame. The
  8-byte payload exercises the length bound.
- Gateway: one producer with one send into a one-slot buffer leaves a
  frame queued or in flight at each step of the shutdown (the overflow
  races of two sends are checked in `asynctx`); one bus
  frame after a run of errors is what the backoff reset needs. The serial
  half sends one frame, enough for a Read that returns bytes before or
  after `cancel()`; the serial decoder's chunking is checked in `serial`.
  The command lines and environments vary four of the seventeen settings
  (`str`, `int` and `dur` blocks), with a zero serial read timeout on the
  command line and in the environment and with unparsable numbers; they
  are read once, so they multiply only the initial states (864). About
  222,000 states, under 2 minutes. Two sends (760,000 states, 4.5
  minutes) leave no margin under the 5-minute limit.
- Backoff: 5 errors take the doubled sleep past its 500 ms cap (20, 40,
  …, 320, then 640 capped to 500); the serial run allows 7.

**Fairness.**
- Weak fairness is assumed only for goroutines that the code keeps running
  once they have work:
  - the funnel worker;
  - a started `Close`;
  - a producer waiting for `a.mu`;
  - `Serve` starting up (listen, storing `s.listener`, readiness), and the
    accept loop once a connection is in hand;
  - writers, whose ticker keeps firing;
  - readers, whose read returns on EOF or on a closed conn (the read
    deadline only loops back without the ctx check, so a cancelled idle
    reader gets no fairness of its own);
  - a `Broadcast` in progress;
  - Shutdown's client loop;
  - the handshake's main goroutine and its two helpers, and the passing of
    time while the handshake deadline is set.
- The Cannelloni reader and the SocketCAN RX goroutine are weakly fair in
  the steps that return at once: the deadline set, a read with bytes or a
  frame waiting, EOF, a closed descriptor. `main`'s start-up and its
  cleanup after `cancel()` are also weakly fair, and so is the metrics logger once ctx is done (its
  select has the case ready). Timeouts and transient errors are not fair.
- The serial RX goroutine is weakly fair in its ctx check, in
  `DecodeStream` and in a Read ended by the port's read timeout: the tty
  driver returns such a Read after VTIME whatever the adapter does. Bytes
  from the adapter and tty errors are not fair.
- There is no fairness for arriving connections, peer behaviour, CAN
  traffic, cancellation, calls to `Close` or `Shutdown`, or the Shutdown
  timeout.
- `CHECK_DEADLOCK FALSE` is set because the gateway may legitimately idle
  for ever: no connection arrives and no frame is received.

## 4. Findings

The findings marked with a run are shown by a violation run. The others
were found while translating the code. They are listed as hazards in
`PROJECT.json`, and the model's actions reproduce them.

- **The funnel's `Close` does not drain** (`asynctx_drain`).
  - `Close` cancels the worker's context before it closes the channel.
  - The worker's `select` may take `ctx.Done()` with frames still queued.
  - Those frames were accepted (`SendFrame` returned nil) but are never
    written. Spec §8.5 says N successful sends give N `on_after` calls
    before `Close` returns.
  - `main` cancels the parent context even before `cleanup()`, so the
    window is wider still.
- **A reader exit does not tear the client down** (found while modelling).
  - When the peer leaves, the reader gets EOF and closes the conn.
  - The writer notices only when it next flushes. With no CAN traffic that
    never happens. `LostClientTornDown` checks that once a frame is
    waiting, teardown does follow.
  - The client stays registered and keeps counting against `max_clients`.
    Spec §4.7 says either exit initiates teardown.
- **`s.clients` is never pruned** (found while modelling; no run). The map entry is
  deleted only by `Shutdown`, so a long-running server keeps one entry for
  each connection it ever admitted.
- **`s.listener` is published without `s.mu`** (`server.go:178`).
  `Shutdown` reads it under `s.mu`; a `Shutdown` between `net.Listen` and
  the store finds nil and leaves the listener open, and `Serve` keeps
  accepting. Callers that wait for `Ready()` are safe only because the
  store comes before `close(readyCh)`; `ShutdownAfterReadyClosesListener`
  checks it, and a mutant that closes `readyCh` first breaks it.
- **`Shutdown` leaks a client admitted during it** (`server_shutdown`).
  - A handshake that completes while `Shutdown` runs registers its client
    after `Shutdown` has swept `s.clients`.
  - Nothing closes that client, and `Shutdown` can only time out.

- **Serial DLC range** (`serial_s4`, `metrics.go:377`).
  - `DecodeStream` accepts `LEN` in [7,15] and takes `LEN-5` payload bytes.
  - So a bus frame with DLC 0 or 1 is counted as malformed and dropped, and
    LEN 14–15 gives frames of length 9–10.
  - Spec §4.2 (`LEN = 4+DLC+1`, DLC 0–8) and its scenario S4 disagree.
- **`CompactBuffer` shifts the slice under `DecodeStream`** (`serial_burst`,
  `metrics.go:385`).
  - `data := in.Bytes()` is taken before `CompactBuffer(in)`, which Resets
    and rewrites the same backing array from its start.
  - The rest of the iteration parses `data` at the old offsets, so it sees
    the stream shifted.
  - After two full reads grow the accumulator to 8 KiB, a frame is skipped.
- **A read timeout in the middle of a Cannelloni frame desynchronises the
  stream** (`cnl_timeout`, `reader.go:49`).
  - The id and length reads return the raw timeout. The loop continues, and
    the bytes already consumed are lost.
  - The next `Decode` starts inside the frame.
  - The deadline is set once per 16-frame round, so a slow peer can hit it
    mid-frame.
- **A read timeout in the payload kills the reader** (`codec.go:95`, the
  `Timeout` action; no run).
  - `Decode` wraps the error and counts a malformed frame.
  - The loop's `err.(net.Error)` is a plain type assertion, so it misses the
    wrapped timeout.
- **A stream cut mid-frame ends the reader like a clean end**
  (`codec.go:75`; no run).
  - A peer that closes after exactly the 4 id bytes makes the one-byte
    length `Read` return `io.EOF`, which `Decode` returns as it is. The
    reader returns quietly, as at a frame boundary.
  - A close inside the id gives `io.ErrUnexpectedEOF`, with no malformed
    count.
  - `codec.go:21` and `:65` promise `io.EOF` only at a clean frame boundary
    and `ErrTruncatedFrame` when the stream ends mid-frame.
  - An invariant stating those comments (an `io.EOF` exit leaves no
    partial frame) is violated under `MC_ClientConn.cfg` in the first
    behaviour TLC checks, the tail `0,0,0,3`. Every run slot is taken, so
    it has no run. `ReaderDeliversStream` states only that the ending does
    not depend on how TCP splits the stream, which holds.
- **The repository README's mDNS opt-out has no effect** (`part_001:99-102`;
  no run). The packaged unit passes `-mdns-enable true`, and
  `CAN_SERVER_MDNS_ENABLE=false` cannot override a flag given on the
  command line (`part_005:238`). Also, `flag.Parse` stops at the
  positional `true`, so any flag after it in the unit is ignored.
- **A local close counts a malformed frame** (`codec.go:94`, the
  `ReadClosed` action):
  `IncMalformed` runs before `net.ErrClosed` is recognised. The `conn` run
  bounds the damage (`MalformedOverCountOnlyOnClose`): one frame at most,
  and only when the close hits the payload read.
- **Every serial read error ends the RX goroutine** (`part_004:61`; no run).
  - The port is an `*os.File`, which wraps every read error except EOF in
    an `*os.PathError`. So any I/O error of the tty, not only a removed
    device, takes the `PathError` branch and the goroutine returns; the
    backoff branch is reached only with the test fakes.
  - Nothing reports it: the gateway keeps serving TCP with no RX. Spec §7
    asks for backoff on RX errors and a fatal report on device removal.
  - `Gateway` models it (`SerialRxRead`), but the run list is full, so no
    violation run states it.
- **A configuration error ends in a nil-pointer panic** (`main.go:27`;
  no run). `parseFlags` prints an override or validation error and returns
  a nil config (`part_005:78`, `:83`); `main` reads `cfg.logFormat` from it
  without a check. `Gateway` reaches the panic from every rejected input of
  its run. Configuration is outside the spec (§1), so no run states a
  promise about it.
- **SocketCAN shutdown hangs on an idle bus** (`socketcan_shutdown`,
  `backend_socketcan.go:58`).
  - `dev.Close()` does not wake the `unix.Read` the RX goroutine is blocked
    in.
  - `main`'s `wg.Wait()` waits for the next bus frame.
  - The run leaves interface removal out and has no bus frame, so TLC's
    trace is the idle bus alone: ctx check, the call into `unix.Read`,
    `cancel()`, `dev.Close()`, and nothing more happens.
- **SocketCAN device removal never ends the RX loop** (`socketcan_enodev`,
  `backend_socketcan.go:40`).
  ENODEV is retried like any transient error: the goroutine sleeps and
  reads again, and the next read blocks on the dead socket. Spec §7 says a
  device-removal error ends the RX loop and is reported as fatal.

## 5. Plan (remaining sittings)

Done in the first sitting:
- `AsyncTx`, `Hub` and `Server`;
- the serial codec and RX loop;
- the Cannelloni codec and reader;
- the SocketCAN RX loop.

Done in the second sitting:
- `TxFunnel` and the refinement `AsyncTx` ⇒ `TxFunnel`;
- `initHub`'s policy choice, so that one server run covers both policies;
- `CnlHandshake`;
- `ClientConn`, the handshake followed by the reader on one connection,
  replacing the stand-alone `handshake` and `cnl` pass runs;
- the `socketcan_enodev` violation run;
- `Gateway`: the SocketCAN RX goroutine and TX funnel under `main`'s
  shutdown, replacing the stand-alone `socketcan` pass run.

Done in the third sitting:
- `Serve`'s start-up: listen and its error, the unsynchronised
  `s.listener` store, readiness and the ctx watcher;
- `LostClientTornDown` (kicked or reader-ended clients) and
  `ShutdownAfterReadyClosesListener`;
- the metrics counters of `Server` and `Hub` removed as data only;
- `Gateway` with either backend (`initBackend`): the serial RX goroutine
  and TX writer, the port's read timeout, and `SerialShutdownCompletes`.

Done in the fourth sitting:
- `Config`: `parseFlags`, `applyEnvOverrides` and `validate`;
- `Gateway`'s start-up from a command line and an environment, with the
  nil-config panic, and `ServeFailureStopsGoroutines`.

Done in the fifth sitting (after a review against the source):
- `SocketCanRx`: the ctx check and the start of `unix.Read` are separate
  steps, so the EBADF read on a descriptor closed in between is explored;
  `Removable` keeps interface removal out of `socketcan_shutdown`.
- `Server.ReaderCancelled`: only a full `DecodeN` round reaches the ctx
  select, and the action is no longer fair.
- `SerialRx.Reclaim` tests the capacity from the read offset.
- `EnvOverridesFollowComment` removed: its reference shared the
  implementation's tables. `Config` is now checked through
  `SerialShutdownCompletes`, whose mutant is a `validate` that accepts a
  zero read timeout.
- `ReaderDeliversStream` restated as split-independence; its disagreement
  with `codec.go`'s comments is now a finding.

Left:
1. **`Gateway` with `Server`**: add the accept loop and clients to the
   composition, so that shutdown ending every goroutine is one property.
   The state space of `Server` alone is 670,000 states, so this needs a
   smaller `Server` instance.
2. **Refinement**:
   - An abstract `FanOut` (per client, the delivered frames are a
     subsequence of the broadcast ones) that `Server`'s hub and writer part
     implements, through `INSTANCE ... WITH`.
3. The serial loop's `PathError` return is silent. A violation run could
   state spec §7's fatal report, if a run slot frees up.

## 6. Not modelled

- Logging set-up (`setupLogger`, `internal/logging`), Prometheus HTTP,
  mDNS, the metrics logger's tick, and the serial and SocketCAN system-call
  wrappers. These are I/O and formatting with no state the other parts
  read. Flag help text and the messages printed are left out of `Config`.
- Metrics gauges (fan-out and queue depth), which are data only.
- Go's `bytes.Buffer` and `append` are standard-library code. They are
  modelled from their documented semantics (`grow`, `Reset`, `Next`), not
  from this repository.
- Time: deadlines, the ticker period and the handshake timeout appear only
  as nondeterministic events that fairness keeps possible.
