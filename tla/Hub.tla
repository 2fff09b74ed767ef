--------------------------------- MODULE Hub ---------------------------------
(***************************************************************************)
(* The broadcast hub of internal/hub/hub.go: the client registry, each     *)
(* client's bounded Out channel and one-shot Closed signal, and the        *)
(* Broadcast fan-out run by the backend RX goroutine.                      *)
(*                                                                         *)
(* Broadcast takes a Snapshot under the read lock and then does one        *)
(* non-blocking send per snapshot member; the per-client sends are        *)
(* separate steps (in Go's map order, i.e. any order) so that writers,     *)
(* Add and Remove interleave with a fan-out in progress.  The operators    *)
(* here touch only hub state; Server composes them with its own.           *)
(***************************************************************************)
EXTENDS Naturals, Sequences, FiniteSets

CONSTANTS
    Clients,     \* client identities (one per admitted TCP connection)
    OutBufSize,  \* capacity of each client's Out channel (h.OutBufSize)
    HubPolicies, \* the values cfg.hubPolicy (-hub-policy) may take
    MaxFrames    \* frames the backend delivers to Broadcast (bounds the model)

ASSUME OutBufSize \in Nat \ {0} /\ HubPolicies # {}
       /\ MaxFrames \in Nat

\* Frames are numbered in the order the backend RX loop received them.
FrameIds == 1..MaxFrames

VARIABLES
    policy,      \* h.Policy: "drop" or "kick", fixed by initHub
    hclients,    \* keys of h.clients
    out,         \* contents of each client's Out channel
    closedSig,   \* each client's Closed channel has been closed
    bcPc,        \* broadcaster: "idle" or "fanout" (inside Broadcast)
    bcFrame,     \* the frame being broadcast
    bcSnap,      \* snapshot members not yet sent to in this Broadcast
    bcCount,     \* frames broadcast so far
    sentTo,      \* history: frames that entered each client's Out channel
    kickedSet    \* history: clients Broadcast closed under the kick policy

hubVars == <<policy, hclients, out, closedSig, bcPc, bcFrame, bcSnap, bcCount,
             sentTo, kickedSet>>

HubTypeOK ==
    /\ policy \in {"drop", "kick"}
    /\ hclients \subseteq Clients
    /\ out \in [Clients -> Seq(FrameIds)]
    /\ \A c \in Clients : Len(out[c]) <= OutBufSize
    /\ closedSig \in [Clients -> BOOLEAN]
    /\ bcPc \in {"idle", "fanout"} /\ bcFrame \in 0..MaxFrames
    /\ bcSnap \subseteq Clients /\ bcCount \in 0..MaxFrames
    /\ sentTo \in [Clients -> Seq(FrameIds)]
    /\ kickedSet \subseteq Clients

\* initHub: "kick" selects PolicyKick; "drop" and any unknown value
\* (logged as unknown_hub_policy) select PolicyDrop.
PolicyOf(cfgPolicy) == IF cfgPolicy = "kick" THEN "kick" ELSE "drop"

HubInit ==
    /\ \E cfgPolicy \in HubPolicies : policy = PolicyOf(cfgPolicy)
    /\ hclients = {}
    /\ out = [c \in Clients |-> <<>>]
    /\ closedSig = [c \in Clients |-> FALSE]
    /\ bcPc = "idle" /\ bcFrame = 0 /\ bcSnap = {} /\ bcCount = 0
    /\ sentTo = [c \in Clients |-> <<>>]
    /\ kickedSet = {}

-----------------------------------------------------------------------------
(* Registry operations (hub state only)                                    *)

\* Add: insert under the write lock; re-insertion is a no-op.
HubAdd(c) ==
    /\ hclients' = hclients \cup {c}
    /\ UNCHANGED <<policy, out, closedSig, bcPc, bcFrame, bcSnap, bcCount,
                   sentTo, kickedSet>>

\* Remove of every client in S: delete from the map (if present) and close
\* each Closed channel once (Client.Close is idempotent).
HubRemoveAll(S) ==
    /\ hclients' = hclients \ S
    /\ closedSig' = [c \in Clients |-> closedSig[c] \/ c \in S]
    /\ UNCHANGED <<policy, out, bcPc, bcFrame, bcSnap, bcCount, sentTo,
                   kickedSet>>

HubRemove(c) == HubRemoveAll({c})

-----------------------------------------------------------------------------
(* Broadcast, run by the backend RX goroutine                              *)

\* Snapshot under the read lock; the fan-out and depth gauges are data
\* only and left out.
BroadcastBegin ==
    /\ bcPc = "idle" /\ bcCount < MaxFrames
    /\ bcCount' = bcCount + 1 /\ bcFrame' = bcCount + 1
    /\ bcSnap' = hclients /\ bcPc' = "fanout"
    /\ UNCHANGED <<policy, hclients, out, closedSig, sentTo, kickedSet>>

\* Mutant: the send to Out succeeds whatever the channel holds.
BroadcastToNoCapCheck(c) ==
    /\ bcPc = "fanout" /\ c \in bcSnap
    /\ bcSnap' = bcSnap \ {c}
    /\ out' = [out EXCEPT ![c] = Append(@, bcFrame)]
    /\ sentTo' = [sentTo EXCEPT ![c] = Append(@, bcFrame)]
    /\ UNCHANGED <<policy, hclients, closedSig, bcPc, bcFrame, bcCount,
                   kickedSet>>

\* Mutant: the kick branch forgets c.Close().
BroadcastToNoClose(c) ==
    /\ bcPc = "fanout" /\ c \in bcSnap
    /\ bcSnap' = bcSnap \ {c}
    /\ IF Len(out[c]) < OutBufSize
         THEN /\ out' = [out EXCEPT ![c] = Append(@, bcFrame)]
              /\ sentTo' = [sentTo EXCEPT ![c] = Append(@, bcFrame)]
              /\ UNCHANGED <<closedSig, kickedSet>>
       ELSE IF policy = "kick"
         THEN /\ kickedSet' = kickedSet \cup {c}
              /\ UNCHANGED <<out, sentTo, closedSig>>
         ELSE /\ UNCHANGED <<out, sentTo, closedSig, kickedSet>>
    /\ UNCHANGED <<policy, hclients, bcPc, bcFrame, bcCount>>

\* The non-blocking send to one snapshot member.  A full Out channel is a
\* drop or, under the kick policy, a kick: the client's Closed signal is
\* fired and the writer then tears the client down.  (The drop and kick
\* counters are metrics only and left out.)
BroadcastTo(c) ==
    /\ bcPc = "fanout" /\ c \in bcSnap
    /\ bcSnap' = bcSnap \ {c}
    /\ IF Len(out[c]) < OutBufSize
         THEN /\ out' = [out EXCEPT ![c] = Append(@, bcFrame)]
              /\ sentTo' = [sentTo EXCEPT ![c] = Append(@, bcFrame)]
              /\ UNCHANGED <<closedSig, kickedSet>>
       ELSE IF policy = "kick"
         THEN /\ kickedSet' = kickedSet \cup {c}
              /\ closedSig' = [closedSig EXCEPT ![c] = TRUE]
              /\ UNCHANGED <<out, sentTo>>
         ELSE /\ UNCHANGED <<out, sentTo, closedSig, kickedSet>>
    /\ UNCHANGED <<policy, hclients, bcPc, bcFrame, bcCount>>

BroadcastEnd ==
    /\ bcPc = "fanout" /\ bcSnap = {}
    /\ bcPc' = "idle"
    /\ UNCHANGED <<policy, hclients, out, closedSig, bcFrame, bcSnap, bcCount,
                   sentTo, kickedSet>>

\* The writer's receive from its Out channel.
HubTake(c) ==
    /\ out[c] # <<>>
    /\ out' = [out EXCEPT ![c] = Tail(@)]
    /\ UNCHANGED <<policy, hclients, closedSig, bcPc, bcFrame, bcSnap, bcCount,
                   sentTo, kickedSet>>

=============================================================================
