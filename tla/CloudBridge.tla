------------------------------ MODULE CloudBridge ------------------------------
(* One TCP stream through the bridge of a cloud node (runtime/cloud/bridge.rs):  *)
(* a socket of the private network on one side, frames to and from the connector *)
(* on the server (agent.py) on the other. The bridge is one loop; the connector, *)
(* the peer on the network and the calls are concurrent with it. Bytes are units *)
(* of which a behaviour has a few in each direction.                             *)
EXTENDS Naturals, Sequences

CONSTANTS
    MaxUnits,        \* bound: units in each direction
    ChannelSize,     \* frames the outgoing channel of the session holds (128)
    PendingLimit     \* units a slot keeps for its socket (262144 bytes)

VARIABLES
    inward,          \* a node opened the stream; otherwise the server did
    sock,            \* TCP state: who has closed his half, or why it is over
    received,        \* units in the socket's receive buffer
    peerSent,        \* units the peer has sent
    slot,            \* [open, opening, closing, eof, pending] of the bridge's slot
    present,         \* the slot is in the list
    events,          \* frames on their way to the bridge
    outbox,          \* frames in the session's channel
    reported,        \* whether the answer of stream/open was passed on, or the call given up
    opened,          \* of stream/open or of the connect request
    agentSent,       \* units the connector has sent, and whether it ended them
    agentGot,        \* units the connector has been given, and the end it was told
    peerGot          \* units given to the socket, and whether FIN follows them

bridgeVars == <<inward, reported, sock, received, peerSent, slot, present, events, outbox, opened,
                agentSent, agentGot, peerGot>>

Units == 0..MaxUnits
Kind == {"data", "eof", "ready", "closed", "result"}
Established == {"open", "peerClosed", "weClosed"}

BridgeType ==
    /\ inward \in BOOLEAN /\ present \in BOOLEAN /\ reported \in {"no", "yes", "gaveUp"}
    /\ received \in Units /\ peerSent \in Units
    /\ sock \in {"connecting", "both", "aborted"} \cup Established
    /\ slot \in [open : BOOLEAN, opening : BOOLEAN, closing : BOOLEAN, eof : BOOLEAN,
                 pending : 0..PendingLimit]
    /\ events \in Seq(Kind) /\ outbox \in Seq(Kind) /\ Len(outbox) <= ChannelSize
    /\ opened \in {"no", "asked", "yes", "failed"}
    /\ agentSent \in [units : Units, ended : BOOLEAN]
    /\ agentGot \in [units : Units, told : {"nothing", "eof", "closed"}]
    /\ peerGot \in [units : Units, fin : BOOLEAN]

BridgeInit ==
    /\ inward \in BOOLEAN /\ sock = "connecting" /\ received = 0 /\ peerSent = 0
    /\ slot = [open |-> FALSE, opening |-> FALSE, closing |-> FALSE, eof |-> FALSE, pending |-> 0]
    /\ present = TRUE /\ reported = "no" /\ events = <<>> /\ outbox = <<>> /\ opened = "no"
    /\ agentSent = [units |-> 0, ended |-> FALSE]
    /\ agentGot = [units |-> 0, told |-> "nothing"]
    /\ peerGot = [units |-> 0, fin |-> FALSE]

Room == Len(outbox) < ChannelSize
-------------------------------------------------------------------------------
\* The handshake ends. A node's stream makes the bridge ask the connector to open the
\* local service; a stream of the server is reported to it, if the channel has room.
Establish ==
    /\ present /\ sock = "connecting" /\ sock' = "open"
    /\ slot' = [slot EXCEPT !.opening = TRUE]
    /\ IF inward THEN opened' = "asked" /\ UNCHANGED outbox
       ELSE /\ UNCHANGED opened
            /\ outbox' = IF Room THEN Append(outbox, "result") ELSE outbox
    /\ UNCHANGED <<inward, reported, received, peerSent, present, events, agentSent, agentGot, peerGot>>

\* The peer sends, and closes its half; both reach the socket in order.
PeerSends ==
    /\ sock \in {"open", "weClosed"} /\ peerSent < MaxUnits
    /\ peerSent' = peerSent + 1 /\ received' = received + 1
    /\ UNCHANGED <<inward, reported, sock, slot, present, events, outbox, opened, agentSent, agentGot,
                   peerGot>>

PeerCloses ==
    /\ sock \in {"open", "weClosed"}
    /\ sock' = IF sock = "open" THEN "peerClosed" ELSE "both"
    /\ UNCHANGED <<inward, reported, received, peerSent, slot, present, events, outbox, opened,
                   agentSent, agentGot, peerGot>>

\* Received units go to the connector once the stream is open there and the channel
\* has a place, which is reserved before anything is taken out of the socket.
ForwardBytes ==
    /\ present /\ received > 0 /\ slot.open /\ Room
    /\ received' = received - 1 /\ outbox' = Append(outbox, "data")
    /\ UNCHANGED <<inward, reported, sock, peerSent, slot, present, events, opened, agentSent, agentGot,
                   peerGot>>

ForwardEof ==
    /\ present /\ sock = "peerClosed" /\ received = 0 /\ slot.open /\ ~slot.eof /\ Room
    /\ slot' = [slot EXCEPT !.eof = TRUE] /\ outbox' = Append(outbox, "eof")
    /\ UNCHANGED <<inward, reported, sock, received, peerSent, present, events, opened, agentSent,
                   agentGot, peerGot>>

\* Units of the connector go from the slot into the socket.
Deliver ==
    /\ present /\ sock \in {"open", "peerClosed"} /\ slot.pending > 0
    /\ slot' = [slot EXCEPT !.pending = @ - 1]
    /\ peerGot' = [peerGot EXCEPT !.units = @ + 1]
    /\ UNCHANGED <<inward, reported, sock, received, peerSent, present, events, outbox, opened,
                   agentSent, agentGot>>

\* FIN follows the last unit of the slot.
CloseHalf ==
    /\ present /\ slot.closing /\ slot.pending = 0
    /\ sock \in {"connecting", "open", "peerClosed"} /\ peerGot' = [peerGot EXCEPT !.fin = TRUE]
    /\ sock' = CASE sock = "open" -> "weClosed" [] sock = "peerClosed" -> "both"
                 [] OTHER -> "aborted"
    /\ UNCHANGED <<inward, reported, received, peerSent, slot, present, events, outbox, opened,
                   agentSent, agentGot>>

\* The permission is withdrawn (a stream of the server only), the peer resets or does
\* not answer for a minute, or nothing moved for 90 s.
Abort ==
    /\ present /\ sock \in Established \cup {"connecting"} /\ sock' = "aborted"
    /\ UNCHANGED <<inward, reported, received, peerSent, slot, present, events, outbox, opened,
                   agentSent, agentGot, peerGot>>

\* A closed socket is removed when it is empty, or nobody will ever read it. The
\* connector is told if the channel has room.
RemoveSlot ==
    /\ present /\ sock \in {"both", "aborted"} /\ (received = 0 \/ ~slot.open)
    /\ present' = FALSE /\ outbox' = IF Room THEN Append(outbox, "closed") ELSE outbox
    /\ UNCHANGED <<inward, reported, sock, received, peerSent, slot, events, opened, agentSent, agentGot,
                   peerGot>>

\* A frame for the bridge. Those of a removed slot are dropped; more than a slot may
\* keep aborts its socket.
TakeEvent ==
    /\ events # <<>> /\ events' = Tail(events)
    /\ LET e == Head(events) full == slot.pending = PendingLimit
       IN  IF ~present THEN UNCHANGED <<slot, sock>>
           ELSE /\ slot' = CASE e = "ready" -> [slot EXCEPT !.open = TRUE]
                             [] e = "data" /\ ~full -> [slot EXCEPT !.pending = @ + 1]
                             [] e \in {"eof", "closed"} -> [slot EXCEPT !.closing = TRUE]
                             [] OTHER -> slot
                /\ sock' = IF e = "data" /\ full THEN "aborted" ELSE sock
    /\ UNCHANGED <<inward, reported, received, peerSent, present, outbox, opened, agentSent, agentGot,
                   peerGot>>
-------------------------------------------------------------------------------
\* The connector (agent.py). stream/open: its answer and its data are read by the same
\* reader, but "ready" is sent by the task that waited for the answer, so data may
\* come first.
AgentOpens ==
    /\ opened = "asked" /\ opened' \in {"yes", "failed"}
    /\ UNCHANGED <<inward, reported, sock, received, peerSent, slot, present, events, outbox, agentSent,
                   agentGot, peerGot>>

AnswerArrives ==
    /\ inward /\ opened \in {"yes", "failed"} /\ reported = "no" /\ reported' = "yes"
    /\ events' = Append(events, IF opened = "yes" THEN "ready" ELSE "closed")
    /\ UNCHANGED <<inward, sock, received, peerSent, slot, present, outbox, opened, agentSent,
                   agentGot, peerGot>>

\* The call fails on this side, refused as one too many or after 25 s, whatever the connector
\* does with the request: the stream is reported closed and may be opened there later.
OpenGivenUp ==
    /\ inward /\ opened # "no" /\ reported = "no" /\ reported' = "gaveUp"
    /\ events' = Append(events, "closed")
    /\ UNCHANGED <<inward, sock, received, peerSent, slot, present, outbox, opened, agentSent,
                   agentGot, peerGot>>

AgentSends ==
    /\ opened = "yes" /\ ~agentSent.ended /\ agentSent.units < MaxUnits
    /\ agentGot.told # "closed" /\ events' = Append(events, "data")
    /\ agentSent' = [agentSent EXCEPT !.units = @ + 1]
    /\ UNCHANGED <<inward, reported, sock, received, peerSent, slot, present, outbox, opened, agentGot,
                   peerGot>>

AgentEnds ==
    /\ opened = "yes" /\ ~agentSent.ended /\ agentSent' = [agentSent EXCEPT !.ended = TRUE]
    /\ events' = Append(events, "eof")
    /\ UNCHANGED <<inward, reported, sock, received, peerSent, slot, present, outbox, opened, agentGot,
                   peerGot>>

\* The writer of the session hands the next frame to the connector, which reports a
\* stream of the server ready when its connect request has succeeded within 20 s.
AgentTakes ==
    /\ outbox # <<>> /\ outbox' = Tail(outbox)
    /\ LET f == Head(outbox)
       IN  /\ agentGot' = CASE agentGot.told = "closed" -> agentGot
                            [] f = "data" -> [agentGot EXCEPT !.units = @ + 1]
                            [] f \in {"eof", "closed"} -> [agentGot EXCEPT !.told = f]
                            [] OTHER -> agentGot
           /\ \/ f = "result" /\ opened' = "yes" /\ events' = Append(events, "ready")
              \/ UNCHANGED <<opened, events>>
    /\ UNCHANGED <<inward, reported, sock, received, peerSent, slot, present, agentSent, peerGot>>

BridgeNext ==
    \/ Establish \/ PeerSends \/ PeerCloses \/ ForwardBytes \/ ForwardEof \/ Deliver \/ CloseHalf
    \/ Abort \/ RemoveSlot \/ TakeEvent \/ AgentOpens \/ AnswerArrives \/ OpenGivenUp
    \/ AgentSends \/ AgentEnds \/ AgentTakes

BridgeSpec == BridgeInit /\ [][BridgeNext]_bridgeVars

\* The limits are numbers.
BridgeConstants == MaxUnits \in Nat /\ ChannelSize \in Nat /\ PendingLimit \in Nat
-------------------------------------------------------------------------------
(* The peer sees the end of a reply only behind all of it: FIN follows what the  *)
(* connector sent before its end, however slowly the socket took it, unless the  *)
(* request to open the stream was given up.                                      *)
WholeReply ==
    peerGot.fin /\ opened = "yes" /\ sock # "aborted" /\ reported # "gaveUp"
      => peerGot.units = agentSent.units

(* The connector is told the end of an open stream only behind all units of the *)
(* peer, also when both sides have closed before the channel took them.         *)
WholeRequest ==
    agentGot.told # "nothing" /\ slot.open => agentGot.units = peerSent
===============================================================================
