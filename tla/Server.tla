-------------------------------- MODULE Server --------------------------------
(***************************************************************************)
(* The TCP side of the gateway, internal/server: the accept loop          *)
(* (acceptOnce: handshake, max-clients admission, newClient), the          *)
(* per-client writer (batching, flush, teardown) and reader (decode loop   *)
(* and its exits), context cancellation and Shutdown, composed with the    *)
(* broadcast hub of module Hub.                                            *)
(*                                                                         *)
(* A client is identified with its TCP connection.  The peer is the       *)
(* environment: it answers the handshake or not, sends malformed input,   *)
(* or disconnects.  The frames a reader decodes go to the backend TX       *)
(* funnel, modelled in AsyncTx; here only the reader's exits matter.       *)
(***************************************************************************)
EXTENDS Hub, SequencesExt

CONSTANTS
    MaxClients,  \* s.maxClients (0: unlimited)
    BatchSize,   \* s.batchSize
    NoConn,      \* "no connection in hand" (a model value)
    UseShutdown  \* Shutdown is called (tests do; cmd/can-server only cancels)

ASSUME MaxClients \in Nat /\ BatchSize \in Nat \ {0} /\ NoConn \notin Clients
       /\ UseShutdown \in BOOLEAN

VARIABLES
    lnOpen,      \* the listener is bound and open
    lnSet,       \* s.listener holds it (Shutdown can find and close it)
    ready,       \* readyCh has been closed
    ctxDone,     \* the server context is cancelled
    accPc,       \* Serve: "listen", "bound", "publish", then the accept loop:
                 \* "accept", "handshake", "admit", "register"; "stopped"
    accConn,     \* the connection acceptOnce is working on
    arrived,     \* connections accepted so far
    connOpen,    \* server side of each connection not yet Close()d
    peerGone,    \* the peer has closed its side
    srvClients,  \* keys of s.clients
    wpc,         \* writer: "none", "run", "exiting" (deferred teardown), "exited"
    batch,       \* the writer's pending batch
    wire,        \* history: frames written to each connection, in order
    rpc,         \* reader: "none", "run", "exited"
    sdPc         \* Shutdown: "idle", "clients", "wait", "done", "timeout"

srvVars == <<lnOpen, lnSet, ready, ctxDone, accPc, accConn, arrived, connOpen,
             peerGone, srvClients, wpc, batch, wire, rpc, sdPc>>

vars == <<hubVars, srvVars>>

TypeOK ==
    /\ HubTypeOK
    /\ {lnOpen, lnSet, ready, ctxDone} \subseteq BOOLEAN
    /\ accPc \in {"listen", "bound", "publish", "accept", "handshake", "admit",
                  "register", "stopped"}
    /\ accConn \in Clients \cup {NoConn}
    /\ arrived \subseteq Clients /\ srvClients \subseteq Clients
    /\ connOpen \in [Clients -> BOOLEAN] /\ peerGone \in [Clients -> BOOLEAN]
    /\ wpc \in [Clients -> {"none", "run", "exiting", "exited"}]
    /\ batch \in [Clients -> Seq(FrameIds)]
    /\ \A c \in Clients : Len(batch[c]) <= BatchSize
    /\ wire \in [Clients -> Seq(FrameIds)]
    /\ rpc \in [Clients -> {"none", "run", "exited"}]
    /\ sdPc \in {"idle", "clients", "wait", "done", "timeout"}

\* Serve has been called and reads s.addr; nothing is listening yet.
Init ==
    /\ HubInit
    /\ lnOpen = FALSE /\ lnSet = FALSE /\ ready = FALSE /\ ctxDone = FALSE
    /\ accPc = "listen" /\ accConn = NoConn /\ arrived = {}
    /\ connOpen = [c \in Clients |-> FALSE]
    /\ peerGone = [c \in Clients |-> FALSE]
    /\ srvClients = {}
    /\ wpc = [c \in Clients |-> "none"] /\ batch = [c \in Clients |-> <<>>]
    /\ wire = [c \in Clients |-> <<>>] /\ rpc = [c \in Clients |-> "none"]
    /\ sdPc = "idle"

-----------------------------------------------------------------------------
(* Serve, up to its accept loop                                            *)

\* Mutant: readyCh is closed as soon as the listener is bound, before
\* s.listener is set.
ListenReadyEarly ==
    /\ accPc = "listen"
    /\ \/ lnOpen' = TRUE /\ ready' = TRUE /\ accPc' = "bound"
       \/ accPc' = "stopped" /\ UNCHANGED <<lnOpen, ready>>
    /\ UNCHANGED lnSet
    /\ UNCHANGED hubVars
    /\ UNCHANGED <<ctxDone, accConn, arrived, connOpen, peerGone, srvClients,
                   wpc, batch, wire, rpc, sdPc>>

\* net.Listen: on an error Serve records it (setError) and returns it;
\* otherwise the listener is bound but not yet stored in s.listener.
Listen ==
    /\ accPc = "listen"
    /\ \/ lnOpen' = TRUE /\ accPc' = "bound"
       \/ accPc' = "stopped" /\ UNCHANGED lnOpen
    /\ UNCHANGED <<lnSet, ready>>
    /\ UNCHANGED hubVars
    /\ UNCHANGED <<ctxDone, accConn, arrived, connOpen, peerGone, srvClients,
                   wpc, batch, wire, rpc, sdPc>>

\* s.setAddr, then s.listener = ln: a plain write, without s.mu, racing
\* Shutdown's read of the field.
SetListener ==
    /\ accPc = "bound"
    /\ lnSet' = TRUE /\ accPc' = "publish"
    /\ UNCHANGED <<lnOpen, ready>>
    /\ UNCHANGED hubVars
    /\ UNCHANGED <<ctxDone, accConn, arrived, connOpen, peerGone, srvClients,
                   wpc, batch, wire, rpc, sdPc>>

\* readyOnce closes readyCh; Serve starts the goroutine that closes the
\* listener on ctx.Done (at once, if ctx is already cancelled).
MarkReady ==
    /\ accPc = "publish"
    /\ ready' = TRUE /\ lnOpen' = (lnOpen /\ ~ctxDone) /\ accPc' = "accept"
    /\ UNCHANGED lnSet
    /\ UNCHANGED hubVars
    /\ UNCHANGED <<ctxDone, accConn, arrived, connOpen, peerGone, srvClients,
                   wpc, batch, wire, rpc, sdPc>>

-----------------------------------------------------------------------------
(* Accept loop: Serve / acceptOnce / newClient                             *)

AcceptConn(c) ==
    /\ accPc = "accept" /\ lnOpen /\ c \notin arrived
    /\ arrived' = arrived \cup {c} /\ accConn' = c
    /\ connOpen' = [connOpen EXCEPT ![c] = TRUE]
    /\ accPc' = "handshake"
    /\ UNCHANGED hubVars
    /\ UNCHANGED <<lnOpen, lnSet, ready, ctxDone, peerGone, srvClients, wpc,
                   batch, wire, rpc, sdPc>>

\* Accept fails on the closed listener after cancellation: Serve returns.
\* (Closed without cancellation, by Shutdown, the error counts as transient
\* and the loop sleeps and retries for ever: no state changes.  Every
\* error a TCP listener's Accept returns is a *net.OpError, a net.Error,
\* so the fatal ErrAccept branch is never taken.)
AcceptStopped ==
    /\ accPc = "accept" /\ ~lnOpen /\ ctxDone
    /\ accPc' = "stopped"
    /\ UNCHANGED hubVars
    /\ UNCHANGED <<lnOpen, lnSet, ready, ctxDone, accConn, arrived, connOpen,
                   peerGone, srvClients, wpc, batch, wire, rpc, sdPc>>

\* CannelloniHandshake: succeeds only if the peer is there to send the
\* hello; it can always fail (bad hello, timeout, I/O error, cancellation).
Handshake ==
    /\ accPc = "handshake"
    /\ \/ /\ ~peerGone[accConn]
          /\ accPc' = "admit"
          /\ UNCHANGED connOpen
       \/ /\ connOpen' = [connOpen EXCEPT ![accConn] = FALSE]
          /\ accPc' = "accept"
    /\ UNCHANGED hubVars
    /\ UNCHANGED <<lnOpen, lnSet, ready, ctxDone, accConn, arrived, peerGone,
                   srvClients, wpc, batch, wire, rpc, sdPc>>

\* Mutant: the max-clients check compares with > instead of >=.
AdmitOffByOne ==
    /\ accPc = "admit"
    /\ IF MaxClients > 0 /\ Cardinality(hclients) > MaxClients
         THEN /\ connOpen' = [connOpen EXCEPT ![accConn] = FALSE]
              /\ accPc' = "accept"
              /\ UNCHANGED hubVars
         ELSE /\ HubAdd(accConn)
              /\ accPc' = "register"
              /\ UNCHANGED connOpen
    /\ UNCHANGED <<lnOpen, lnSet, ready, ctxDone, accConn, arrived, peerGone,
                   srvClients, wpc, batch, wire, rpc, sdPc>>

\* Reject when the hub already holds MaxClients clients; otherwise
\* newClient allocates the client and adds it to the hub.
Admit ==
    /\ accPc = "admit"
    /\ IF MaxClients > 0 /\ Cardinality(hclients) >= MaxClients
         THEN /\ connOpen' = [connOpen EXCEPT ![accConn] = FALSE]
              /\ accPc' = "accept"
              /\ UNCHANGED hubVars
         ELSE /\ HubAdd(accConn)
              /\ accPc' = "register"
              /\ UNCHANGED connOpen
    /\ UNCHANGED <<lnOpen, lnSet, ready, ctxDone, accConn, arrived, peerGone,
                   srvClients, wpc, batch, wire, rpc, sdPc>>

\* s.clients[client] = conn, then startWriter and startReader.
Register ==
    /\ accPc = "register"
    /\ srvClients' = srvClients \cup {accConn}
    /\ wpc' = [wpc EXCEPT ![accConn] = "run"]
    /\ rpc' = [rpc EXCEPT ![accConn] = "run"]
    /\ accPc' = "accept"
    /\ UNCHANGED hubVars
    /\ UNCHANGED <<lnOpen, lnSet, ready, ctxDone, accConn, arrived, connOpen,
                   peerGone, batch, wire, sdPc>>

-----------------------------------------------------------------------------
(* Writer (startWriter)                                                    *)

\* Mutant: a write on a closed conn can succeed.
WriteResultsClosedOk(c) ==
    {TRUE} \cup (IF ~connOpen[c] \/ peerGone[c] THEN {FALSE} ELSE {})

\* Outcomes of a conn write: it can succeed while our side is open (even
\* to a departed peer, into the socket buffer) and fails once our side is
\* closed or the peer is gone.
WriteResults(c) ==
    (IF connOpen[c] THEN {TRUE} ELSE {})
    \cup (IF ~connOpen[c] \/ peerGone[c] THEN {FALSE} ELSE {})

\* Mutant: a successful flush leaves the batch in place.
FlushNoReset(c, b, ok) ==
    /\ wire' = [wire EXCEPT ![c] = IF ok THEN @ \o b ELSE @]
    /\ batch' = [batch EXCEPT ![c] = IF ok THEN b ELSE <<>>]

\* flush: EncodeTo(conn, batch); the batch is reset whatever the outcome.
Flush(c, b, ok) ==
    /\ wire' = [wire EXCEPT ![c] = IF ok THEN @ \o b ELSE @]
    /\ batch' = [batch EXCEPT ![c] = <<>>]

\* case fr := <-cl.Out: append; flush when the batch reaches BatchSize; a
\* failed flush ends the loop.
WriterRecv(c) ==
    /\ wpc[c] = "run"
    /\ HubTake(c)
    /\ LET b == Append(batch[c], Head(out[c])) IN
         IF Len(b) >= BatchSize
           THEN \E ok \in WriteResults(c) :
                  /\ Flush(c, b, ok)
                  /\ wpc' = [wpc EXCEPT ![c] = IF ok THEN "run" ELSE "exiting"]
           ELSE /\ batch' = [batch EXCEPT ![c] = b]
                /\ UNCHANGED <<wire, wpc>>
    /\ UNCHANGED <<lnOpen, lnSet, ready, ctxDone, accPc, accConn, arrived,
                   connOpen, peerGone, srvClients, rpc, sdPc>>

\* case <-t.C: flush a non-empty batch (an empty one is a no-op).
WriterTick(c) ==
    /\ wpc[c] = "run" /\ batch[c] # <<>>
    /\ \E ok \in WriteResults(c) :
         /\ Flush(c, batch[c], ok)
         /\ wpc' = [wpc EXCEPT ![c] = IF ok THEN "run" ELSE "exiting"]
    /\ UNCHANGED hubVars
    /\ UNCHANGED <<lnOpen, lnSet, ready, ctxDone, accPc, accConn, arrived,
                   connOpen, peerGone, srvClients, rpc, sdPc>>

\* case <-cl.Closed and case <-ctxDone: a best-effort flush, then return.
WriterStop(c) ==
    /\ wpc[c] = "run" /\ (closedSig[c] \/ ctxDone)
    /\ IF batch[c] # <<>>
         THEN \E ok \in WriteResults(c) : Flush(c, batch[c], ok)
         ELSE UNCHANGED <<batch, wire>>
    /\ wpc' = [wpc EXCEPT ![c] = "exiting"]
    /\ UNCHANGED hubVars
    /\ UNCHANGED <<lnOpen, lnSet, ready, ctxDone, accPc, accConn, arrived,
                   connOpen, peerGone, srvClients, rpc, sdPc>>

\* Mutant: the deferred teardown forgets Hub.Remove.
WriterDeferNoRemove(c) ==
    /\ wpc[c] = "exiting"
    /\ connOpen' = [connOpen EXCEPT ![c] = FALSE]
    /\ UNCHANGED hubVars
    /\ wpc' = [wpc EXCEPT ![c] = "exited"]
    /\ UNCHANGED <<lnOpen, lnSet, ready, ctxDone, accPc, accConn, arrived,
                   peerGone, srvClients, batch, wire, rpc, sdPc>>

\* The writer's deferred teardown: close the conn and Hub.Remove (the
\* disconnect counter is left out).  s.clients is left as it is.
WriterDefer(c) ==
    /\ wpc[c] = "exiting"
    /\ connOpen' = [connOpen EXCEPT ![c] = FALSE]
    /\ HubRemove(c)
    /\ wpc' = [wpc EXCEPT ![c] = "exited"]
    /\ UNCHANGED <<lnOpen, lnSet, ready, ctxDone, accPc, accConn, arrived,
                   peerGone, srvClients, batch, wire, rpc, sdPc>>

-----------------------------------------------------------------------------
(* Reader (startReader): one iteration of the decode loop per step; an     *)
(* iteration that neither ends the loop nor observes cancellation changes *)
(* no modelled state.  Every exit closes the conn (deferred).              *)

ReaderExit(c) ==
    /\ rpc' = [rpc EXCEPT ![c] = "exited"]
    /\ connOpen' = [connOpen EXCEPT ![c] = FALSE]

\* io.EOF from a departed peer, or net.ErrClosed on our closed conn.
ReaderEOF(c) ==
    /\ rpc[c] = "run" /\ (peerGone[c] \/ ~connOpen[c])
    /\ ReaderExit(c)
    /\ UNCHANGED hubVars
    /\ UNCHANGED <<lnOpen, lnSet, ready, ctxDone, accPc, accConn, arrived,
                   peerGone, srvClients, wpc, batch, wire, sdPc>>

\* A malformed frame or another read error: ErrConnRead, the loop ends.
ReaderError(c) ==
    /\ rpc[c] = "run" /\ connOpen[c] /\ ~peerGone[c]
    /\ ReaderExit(c)
    /\ UNCHANGED hubVars
    /\ UNCHANGED <<lnOpen, lnSet, ready, ctxDone, accPc, accConn, arrived,
                   peerGone, srvClients, wpc, batch, wire, sdPc>>

\* DecodeN returns nil after a full round of 16 frames from the peer, and
\* the select on ctxDone that follows ends the loop.  A round cut short by
\* the read deadline continues before that select (reader.go:49-50), so
\* only a peer that keeps sending lets the reader see the cancellation:
\* an idle reader ends when its conn is closed (ReaderEOF).
ReaderCancelled(c) ==
    /\ rpc[c] = "run" /\ connOpen[c] /\ ~peerGone[c] /\ ctxDone
    /\ ReaderExit(c)
    /\ UNCHANGED hubVars
    /\ UNCHANGED <<lnOpen, lnSet, ready, ctxDone, accPc, accConn, arrived,
                   peerGone, srvClients, wpc, batch, wire, sdPc>>

-----------------------------------------------------------------------------
(* Environment, cancellation and Shutdown                                  *)

PeerDisconnect(c) ==
    /\ c \in arrived /\ ~peerGone[c]
    /\ peerGone' = [peerGone EXCEPT ![c] = TRUE]
    /\ UNCHANGED hubVars
    /\ UNCHANGED <<lnOpen, lnSet, ready, ctxDone, accPc, accConn, arrived,
                   connOpen, srvClients, wpc, batch, wire, rpc, sdPc>>

\* The server context is cancelled; Serve's helper goroutine, once
\* started, closes the listener.
CtxCancel ==
    /\ ~ctxDone
    /\ ctxDone' = TRUE
    /\ lnOpen' = (lnOpen /\ accPc \in {"bound", "publish"})
    /\ UNCHANGED hubVars
    /\ UNCHANGED <<lnSet, ready, accPc, accConn, arrived, connOpen, peerGone,
                   srvClients, wpc, batch, wire, rpc, sdPc>>

\* Shutdown, called once Ready() has fired (the tests wait for it; main
\* never calls Shutdown): take s.listener under s.mu, set it to nil, and
\* close it if it was there ...
ShutdownBegin ==
    /\ UseShutdown /\ ready /\ sdPc = "idle"
    /\ lnOpen' = (lnOpen /\ ~lnSet) /\ lnSet' = FALSE
    /\ sdPc' = "clients"
    /\ UNCHANGED hubVars
    /\ UNCHANGED <<ready, ctxDone, accPc, accConn, arrived, connOpen, peerGone,
                   srvClients, wpc, batch, wire, rpc>>

\* ... under clientsMu close every registered conn, Hub.Remove it and
\* delete it from s.clients ...
ShutdownClients ==
    /\ sdPc = "clients"
    /\ connOpen' = [c \in Clients |-> connOpen[c] /\ c \notin srvClients]
    /\ HubRemoveAll(srvClients)
    /\ srvClients' = {} /\ sdPc' = "wait"
    /\ UNCHANGED <<lnOpen, lnSet, ready, ctxDone, accPc, accConn, arrived,
                   peerGone, wpc, batch, wire, rpc>>

ClientTasksDone ==
    \A c \in Clients : wpc[c] \in {"none", "exited"} /\ rpc[c] \in {"none", "exited"}

\* ... then wait for the reader/writer cohort (s.wg) or the caller's
\* context deadline.
ShutdownWait ==
    /\ sdPc = "wait"
    /\ \/ ClientTasksDone /\ sdPc' = "done"
       \/ sdPc' = "timeout"
    /\ UNCHANGED hubVars
    /\ UNCHANGED <<lnOpen, lnSet, ready, ctxDone, accPc, accConn, arrived,
                   connOpen, peerGone, srvClients, wpc, batch, wire, rpc>>

\* The backend RX loop receives a frame and starts a Broadcast.
FrameReceived == BroadcastBegin /\ UNCHANGED srvVars

\* The rest of a Broadcast in progress.
Fanout ==
    /\ (\E c \in Clients : BroadcastTo(c)) \/ BroadcastEnd
    /\ UNCHANGED srvVars

Writer(c) == WriterRecv(c) \/ WriterTick(c) \/ WriterStop(c) \/ WriterDefer(c)

\* The reader's exits that do not wait on the peer.
Reader(c) == ReaderEOF(c)

Next ==
    \/ Listen \/ SetListener \/ MarkReady
    \/ \E c \in Clients : AcceptConn(c)
    \/ AcceptStopped \/ Handshake \/ Admit \/ Register
    \/ \E c \in Clients : Writer(c) \/ Reader(c) \/ ReaderError(c)
                           \/ ReaderCancelled(c)
    \/ FrameReceived \/ Fanout
    \/ \E c \in Clients : PeerDisconnect(c)
    \/ CtxCancel
    \/ ShutdownBegin \/ ShutdownClients \/ ShutdownWait

(***************************************************************************)
(* Fairness.  Goroutines that have work keep running: Serve starting up,   *)
(* the accept loop once a connection is in hand, each writer (its ticker   *)
(* keeps firing), each reader whose read must return (EOF or closed conn; *)
(* a cancelled reader whose peer is idle only times out and loops), a     *)
(* Broadcast in progress, and a Shutdown in progress up to its wait.      *)
(* Connections, peer                                                       *)
(* behaviour, CAN traffic, cancellation and calling Shutdown are up to the *)
(* environment and get no fairness.                                        *)
(***************************************************************************)
Fairness ==
    /\ WF_vars(Listen \/ SetListener \/ MarkReady \/ AcceptStopped
               \/ Handshake \/ Admit \/ Register)
    /\ \A c \in Clients : WF_vars(Writer(c)) /\ WF_vars(Reader(c))
    /\ WF_vars(Fanout)
    /\ WF_vars(ShutdownClients)

Spec == Init /\ [][Next]_vars /\ Fairness

-----------------------------------------------------------------------------
(* Properties                                                              *)

\* acceptOnce reads Hub.Count() and only later adds the client, while
\* writers remove clients concurrently: the hub still never holds more
\* than MaxClients clients.
MaxClientsRespected ==
    MaxClients > 0 => Cardinality(hclients) <= MaxClients

\* What a client receives on its socket is exactly the beginning of what
\* Broadcast put into its Out channel: in order, with no frame repeated
\* or skipped by the batching writer (frames are lost only at teardown,
\* after which nothing more is written).
WireFollowsHubOrder ==
    \A c \in Clients : IsPrefix(wire[c], sentTo[c])

\* A client the server can no longer serve is eventually torn down by its
\* writer (removed from the hub, its connection closed): one that
\* Broadcast kicked (Closed fired on a full Out channel), and one whose
\* reader has ended while a frame waits for it.  A reader's exit closes
\* only the conn; the writer learns of it only from a failed write.
LostClientTornDown ==
    \A c \in Clients :
        (\/ c \in kickedSet
         \/ /\ rpc[c] = "exited" /\ c \in hclients
            /\ (out[c] # <<>> \/ batch[c] # <<>>))
        ~> (c \notin hclients /\ ~connOpen[c])

\* After the server context is cancelled, every reader and writer ends,
\* the hub empties and Serve returns.
CancelTearsDownClients ==
    ctxDone ~> (hclients = {} /\ ClientTasksDone /\ accPc = "stopped")

\* A caller that waits for Ready() before calling Shutdown, as
\* TestGracefulShutdown does, finds the listener published: Shutdown
\* closes it and Serve accepts no further connection.  Serve stores
\* s.listener without s.mu; only its order before close(readyCh) makes
\* this hold.
ShutdownAfterReadyClosesListener ==
    sdPc # "idle" => ~lnOpen

\* The spec (4.7, Shutdown): Shutdown closes all client sockets and waits
\* for the reader/writer cohort; it must not leak any of them.
ShutdownReleasesClients ==
    (sdPc = "wait") ~> ClientTasksDone

=============================================================================
