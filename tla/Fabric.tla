------------------------------- MODULE Fabric -------------------------------
(* runtime/fabric.rs: the private network between environments.             *)
(*                                                                          *)
(* Every environment has one socket to the host.  The host knows from which *)
(* socket a frame comes, lets it pass if the rule of a connection permits   *)
(* it, and remembers the flows it let pass, so that answers come back.      *)
(*                                                                          *)
(* A frame is reduced to the sender it claims, the receiver it addresses    *)
(* and a segment: protocol, ports, and whether it may open a flow.  Time is *)
(* reduced to the two questions the code asks of it: a flow that was silent *)
(* for 300 s is old, and the sweep that removes old flows is due or not.    *)
EXTENDS Naturals, Sequences, FiniteSets

CONSTANTS
    Peer,       \* environments
    Conn,       \* connections
    Policy,     \* what a connection may ask for
    Address,    \* the private address that the identifier of each peer hashes to
    Segment,    \* what is sent
    MaxFlows,   \* flows of one rule, 4096 in the code
    MaxSockets  \* bound: sockets an environment is given

VARIABLES
    peers,      \* the number of the socket in the map of peers, 0 if none
    tasks,      \* what became of the tasks of the sockets, oldest first
    rules,      \* the rule of each connection, NoRule if none
    flows,      \* the flows of each rule
    leased      \* the address each environment was offered, 0 before

fabricVars == <<peers, tasks, rules, flows, leased>>

NoRule == [source |-> 0]
Applied == {c \in Conn : rules[c] # NoRule}

FlowOf(s, t, seg) ==
    [source |-> s, target |-> t, proto |-> seg.proto, from |-> seg.from, to |-> seg.to]
Reverse(f) ==
    [f EXCEPT !.source = f.target, !.target = f.source, !.from = f.to, !.to = f.from]

\* What the theorems ask of the constants.
FabricConstants ==
    /\ 0 \notin Peer /\ Address \in [Peer -> Nat] /\ MaxSockets \in Nat /\ MaxFlows \in Nat
    /\ Policy \subseteq [source : Peer, target : Peer, both : BOOLEAN, network : BOOLEAN,
                         ports : SUBSET Nat]
    /\ Segment \subseteq [proto : STRING, from : Nat, to : Nat, opens : BOOLEAN]

FabricInit ==
    /\ peers = [e \in Peer |-> 0] /\ tasks = [e \in Peer |-> <<>>]
    /\ rules = [c \in Conn |-> NoRule] /\ flows = [c \in Conn |-> {}]
    /\ leased = [e \in Peer |-> 0]

-----------------------------------------------------------------------------
(* Sockets.  A task that has left its loop takes its peer out of the map    *)
(* some time after that, and closes the channel last: until then the host   *)
(* takes the environment for connected, though it sends nothing any more.   *)

Connected(e) == peers[e] # 0
Sends(e) == Connected(e) /\ tasks[e][peers[e]] = "open"

\* attach(): a new socket replaces the one in the map, whose task may live on.  It
\* is refused if the address belongs to another environment in the map.
Attach(e) ==
    /\ \A o \in Peer \ {e} : peers[o] # 0 => Address[o] # Address[e]
    /\ Len(tasks[e]) < MaxSockets
    /\ tasks' = [tasks EXCEPT ![e] = Append(@, "open")]
    /\ peers' = [peers EXCEPT ![e] = Len(tasks[e]) + 1]
    /\ UNCHANGED <<rules, flows, leased>>

\* The guest closes the socket, or sends through one that was replaced.
Leave(e, g) ==
    /\ tasks[e][g] = "open"
    /\ tasks' = [tasks EXCEPT ![e][g] = "left"]
    /\ UNCHANGED <<peers, rules, flows, leased>>

Touches(f, e) == f.source = e \/ f.target = e
Forget(e) == flows' = [c \in Conn |-> {f \in flows[c] : ~Touches(f.key, e)}]

\* Variant: the task of a replaced socket takes its successor out of the map.
DetachAny(e, g) ==
    /\ tasks[e][g] = "left"
    /\ tasks' = [tasks EXCEPT ![e][g] = "done"]
    /\ peers' = [peers EXCEPT ![e] = 0]
    /\ Forget(e) /\ UNCHANGED <<rules, leased>>

\* The end of a task.  The flows go whether or not the socket was replaced.
Detach(e, g) ==
    /\ tasks[e][g] = "left"
    /\ tasks' = [tasks EXCEPT ![e][g] = "done"]
    /\ peers' = [peers EXCEPT ![e] = IF @ = g THEN 0 ELSE @]
    /\ Forget(e) /\ UNCHANGED <<rules, leased>>

-----------------------------------------------------------------------------
(* Rules                                                                    *)

\* apply(): a rule that is the same as before keeps its flows.
Apply(c, p) ==
    /\ Connected(p.source) /\ Connected(p.target)
    /\ rules' = [rules EXCEPT ![c] = p]
    /\ flows' = [flows EXCEPT ![c] = IF rules[c] = p THEN @ ELSE {}]
    /\ UNCHANGED <<peers, tasks, leased>>

RemoveRule(c) ==
    /\ rules' = [rules EXCEPT ![c] = NoRule]
    /\ flows' = [flows EXCEPT ![c] = {}]
    /\ UNCHANGED <<peers, tasks, leased>>

-----------------------------------------------------------------------------
(* Frames                                                                   *)

\* A flow falls silent for as long as it is remembered.
Age(c) ==
    /\ \E f \in flows[c] :
         /\ f.live
         /\ flows' = [flows EXCEPT ![c] = (@ \ {f}) \cup {[f EXCEPT !.live = FALSE]}]
    /\ UNCHANGED <<peers, tasks, rules, leased>>

Forward(c, s, t) == rules[c].source = s /\ rules[c].target = t
Backward(c, s, t) == Forward(c, t, s)
MayOpen(c, s, t) == Forward(c, s, t) \/ (rules[c].both /\ Backward(c, s, t))

Live(fs, key) == \E f \in fs : f.live /\ f.key = key

\* What the rule does with a segment of s to t, given the flows fs it has left
\* after a sweep: the flows it has afterwards, or nothing if it does not permit it.
Verdict(c, fs, s, t, seg) ==
    LET key     == FlowOf(s, t, seg)
        between == Forward(c, s, t) \/ Backward(c, s, t)
        backSyn == seg.proto = "tcp" /\ seg.opens /\ ~MayOpen(c, s, t)
        known   == Live(fs, key) \/ Live(fs, Reverse(key))
        granted == /\ seg.opens /\ MayOpen(c, s, t)
                   /\ rules[c].network \/ (seg.proto = "tcp" /\ seg.to \in rules[c].ports)
                   /\ Cardinality(fs) < MaxFlows
    IN  CASE ~between -> {}
          [] between /\ seg.proto = "arp" -> {fs}
          [] between /\ seg.proto # "arp" /\ backSyn -> {}
          [] between /\ seg.proto # "arp" /\ ~backSyn /\ known -> {fs}
          [] OTHER -> {gs \in {{f \in fs : f.key # key} \cup {[key |-> key, live |-> TRUE]}} :
                         granted}

\* The flows of a rule when its sweep is due, and when it is not.
Swept(c) == {flows[c], {f \in flows[c] : f.live}}

\* route(): frames that claim another sender, another address or a fragment are
\* dropped.  The rules are asked one after the other until one permits the frame,
\* and those that are asked may sweep their flows.  Frames of a socket that was
\* replaced end its task, see Leave.
Route(e, t, seg) ==
    /\ Sends(e) /\ Connected(t) /\ t # e
    /\ \E c \in Applied : \E fs \in Swept(c) : \E gs \in Verdict(c, fs, e, t, seg) :
         flows' = [flows EXCEPT ![c] = gs]
    /\ UNCHANGED <<peers, tasks, rules, leased>>

\* A frame that no rule permits leaves only the sweeps behind.
Refuse(e, t, seg) ==
    /\ Sends(e) /\ Connected(t) /\ t # e
    /\ \E fs \in [Conn -> UNION {Swept(c) : c \in Conn}] :
         /\ \A c \in Conn : fs[c] \in Swept(c)
         /\ \A c \in Applied : Verdict(c, fs[c], e, t, seg) = {}
         /\ flows' = fs
    /\ UNCHANGED <<peers, tasks, rules, leased>>

\* dhcp(): an environment is offered the address that its identifier hashes to; a
\* request for another address, or to another server, is ignored.
Dhcp(e, wanted) ==
    /\ Sends(e) /\ wanted = Address[e]
    /\ leased' = [leased EXCEPT ![e] = wanted]
    /\ UNCHANGED <<peers, tasks, rules, flows>>

FabricNext ==
    \/ \E e \in Peer : Attach(e) \/ \E o \in Peer : Dhcp(e, Address[o])
    \/ \E e \in Peer : \E g \in 1..Len(tasks[e]) : Leave(e, g) \/ Detach(e, g)
    \/ \E c \in Conn : RemoveRule(c) \/ Age(c) \/ \E p \in Policy : Apply(c, p)
    \/ \E e, t \in Peer, seg \in Segment : Route(e, t, seg) \/ Refuse(e, t, seg)

FabricSpec == FabricInit /\ [][FabricNext]_fabricVars

-----------------------------------------------------------------------------
(* Properties                                                               *)

\* Every remembered flow is one that the rule, as it is now, would let open: its
\* first segment went from the source to the target, or back over a connection in
\* both directions, and to a port the connection names unless it allows the whole
\* network.  Reconciliation may replace a rule at any moment between two frames.
FlowsPermitted ==
    \A c \in Conn : \A f \in flows[c] :
        /\ c \in Applied
        /\ MayOpen(c, f.key.source, f.key.target)
        /\ rules[c].network \/ (f.key.proto = "tcp" /\ f.key.to \in rules[c].ports)

\* No flow outlives the environments it connects: a later environment at the same
\* address cannot continue it.
FlowsHaveEnds ==
    \A c \in Conn : \A f \in flows[c] :
        peers[f.key.source] # 0 /\ peers[f.key.target] # 0

\* At most one environment in the map answers to an address, so a frame has one
\* receiver.
OneReceiver ==
    \A e, o \in Peer : (e # o /\ peers[e] # 0 /\ peers[o] # 0) => Address[e] # Address[o]

\* The task of a socket that was replaced never takes the new socket out of the map.
ReplacementKept ==
    [][\A e \in Peer : Sends(e) => peers'[e] # 0]_fabricVars

=============================================================================
