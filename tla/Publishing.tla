------------------------------ MODULE Publishing ------------------------------
(* Published services (workspace.rs): publications and the tunnels they own,    *)
(* the two-second cleanup, and the list of local ports that sync_local_ports()  *)
(* keeps in the guests. A publication is named by its host port. The guest side *)
(* is the agent's list and the chain of each running container                  *)
(* (appliance/agent/workspace.go), as runtime/workspace.rs uses them: the list  *)
(* and the containers of one engine, the appliance's or the CUDA one's.         *)
EXTENDS Naturals, FiniteSets

CONSTANTS
    Node,         \* containers with network access
    HostPort,     \* ports of the host, one publication each
    Tunnelled,    \* those of them published as a Cloudflare tunnel, not locally
    MaxLostSyncs, \* bound: requests to the agent that fail, whose answer is lost or
                  \* that leave something out
    MaxRestarts   \* bound: starts of a container

VARIABLES
    nodesUp,      \* containers whose stored status is Running
    published,    \* publications: HostPort -> its container, NoNode if it has none
    tunnel,       \* ports whose cloudflared process runs
    publishing,   \* the publish_service() that has the operations lock
    tick,         \* cleanup(): [at, seen], where it is and the status it has read
    syncing,      \* sync_local_ports() that has its lock: [by, ports, ids]
    waiting,      \* callers that are about to call sync_local_ports()
    lastKey,      \* local_ports_key: [ports, ids], NoKey at first
    agentPorts,   \* localPorts.ports in the agent
    chain,        \* ports a running container may reach
    doubtful,     \* history: ports of a failed request, until one succeeds
    missed,       \* history: running containers an accepted request left out,
                  \* and NoNode if it left out the agent's list
    lost, restarts

publishVars == <<nodesUp, published, tunnel, publishing, tick, syncing, waiting, lastKey,
                 agentPorts, chain, doubtful, missed, lost, restarts>>

NoNode == "none"
NoKey == [ports |-> {}, ids |-> {"never"}]
NotPublishing == [at |-> "idle", port |-> 0, node |-> NoNode]
Rests == [at |-> "idle", seen |-> {}]
NoSync == [by |-> "nobody", ports |-> {}, ids |-> {}]
LocalPort == HostPort \ Tunnelled
LocalPorts == {p \in LocalPort : published[p] # NoNode}

PublishType ==
    /\ nodesUp \subseteq Node /\ published \in [HostPort -> Node \cup {NoNode}]
    /\ tunnel \subseteq Tunnelled /\ agentPorts \subseteq LocalPort
    /\ publishing.at \in {"idle", "starting", "started", "syncing"}
    /\ tick.at \in {"idle", "read", "synced"} /\ tick.seen \subseteq Node
    /\ syncing.by \in {"nobody", "publish", "unpublish", "cleanup"}
    /\ waiting \subseteq {"publish", "unpublish", "cleanup"}
    /\ chain \in [Node -> SUBSET LocalPort] /\ doubtful \subseteq LocalPort
    /\ missed \subseteq Node \cup {NoNode}
    /\ lost \in 0..MaxLostSyncs /\ restarts \in 0..MaxRestarts

PublishConstants ==
    /\ NoNode \notin Node /\ Tunnelled \subseteq HostPort
    /\ MaxLostSyncs \in Nat /\ MaxRestarts \in Nat

PublishInit ==
    /\ nodesUp = {} /\ published = [p \in HostPort |-> NoNode] /\ tunnel = {}
    /\ publishing = NotPublishing /\ tick = Rests /\ syncing = NoSync /\ waiting = {}
    /\ lastKey = NoKey /\ agentPorts = {} /\ chain = [n \in Node |-> {}]
    /\ doubtful = {} /\ missed = {} /\ lost = 0 /\ restarts = 0

\* The engine starts and stops containers; the agent installs its list at a start.
NodeStarts(n) ==
    /\ n \notin nodesUp /\ restarts < MaxRestarts /\ restarts' = restarts + 1
    /\ nodesUp' = nodesUp \cup {n} /\ chain' = [chain EXCEPT ![n] = agentPorts]
    /\ missed' = IF NoNode \in missed THEN missed \cup {n} ELSE missed \ {n}
    /\ UNCHANGED <<published, tunnel, publishing, tick, syncing, waiting, lastKey,
                   agentPorts, doubtful, lost>>

NodeStops(n) ==
    /\ n \in nodesUp /\ nodesUp' = nodesUp \ {n} /\ chain' = [chain EXCEPT ![n] = {}]
    /\ missed' = missed \ {n}
    /\ UNCHANGED <<published, tunnel, publishing, tick, syncing, waiting, lastKey,
                   agentPorts, doubtful, lost, restarts>>

\* publish_service() takes the operations lock; the container must run, and a service
\* that is published already is answered from the list.
Publish(p, n) ==
    /\ publishing = NotPublishing /\ n \in nodesUp /\ published[p] = NoNode
    /\ publishing' = [at |-> "starting", port |-> p, node |-> n]
    /\ UNCHANGED <<nodesUp, published, tunnel, tick, syncing, waiting, lastKey, agentPorts,
                   chain, doubtful, missed, lost, restarts>>

\* The listener is bound; a tunnel has 45 seconds to connect. Whatever fails here
\* drops what was made so far.
PublishStarted ==
    /\ publishing.at = "starting" /\ publishing' = [publishing EXCEPT !.at = "started"]
    /\ tunnel' = tunnel \cup ({publishing.port} \cap Tunnelled)
    /\ UNCHANGED <<nodesUp, published, tick, syncing, waiting, lastKey, agentPorts, chain,
                   doubtful, missed, lost, restarts>>

PublishFails ==
    /\ publishing.at = "starting" /\ publishing' = NotPublishing
    /\ UNCHANGED <<nodesUp, published, tunnel, tick, syncing, waiting, lastKey, agentPorts,
                   chain, doubtful, missed, lost, restarts>>

\* The status is read again before the publication is listed; a local one is then told
\* to the guests, under the lock of the list of ports.
PublishListed ==
    /\ publishing.at = "started"
    /\ IF publishing.node \in nodesUp
       THEN /\ published' = [published EXCEPT ![publishing.port] = publishing.node]
            /\ IF publishing.port \in LocalPort
               THEN /\ waiting' = waiting \cup {"publish"}
                    /\ publishing' = [publishing EXCEPT !.at = "syncing"]
               ELSE publishing' = NotPublishing /\ UNCHANGED waiting
            /\ UNCHANGED tunnel
       ELSE /\ tunnel' = tunnel \ {publishing.port} /\ publishing' = NotPublishing
            /\ UNCHANGED <<published, waiting>>
    /\ UNCHANGED <<nodesUp, tick, syncing, lastKey, agentPorts, chain, doubtful, missed, lost,
                   restarts>>

\* unpublish_environment_service(), without the operations lock.
Unpublish(p) ==
    /\ published[p] # NoNode /\ "unpublish" \notin waiting /\ syncing.by # "unpublish"
    /\ published' = [published EXCEPT ![p] = NoNode] /\ tunnel' = tunnel \ {p}
    /\ waiting' = waiting \cup {"unpublish"}
    /\ UNCHANGED <<nodesUp, publishing, tick, syncing, lastKey, agentPorts, chain, doubtful, missed,
                   lost, restarts>>

\* cleanup(): the stored status is copied first, the list is locked after it.
CleanupReads ==
    /\ tick = Rests /\ tick' = [at |-> "read", seen |-> nodesUp]
    /\ UNCHANGED <<nodesUp, published, tunnel, publishing, syncing, waiting, lastKey,
                   agentPorts, chain, doubtful, missed, lost, restarts>>

Stale == {p \in HostPort : published[p] # NoNode /\ published[p] \notin tick.seen}

CleanupDrops ==
    /\ tick.at = "read" /\ tick' = [tick EXCEPT !.at = "synced"]
    /\ published' = [p \in HostPort |-> IF p \in Stale THEN NoNode ELSE published[p]]
    /\ tunnel' = tunnel \ Stale /\ waiting' = waiting \cup {"cleanup"}
    /\ UNCHANGED <<nodesUp, publishing, syncing, lastKey, agentPorts, chain, doubtful, missed, lost,
                   restarts>>

\* Who called sync_local_ports() goes on with its result.
Resume(by, ok) ==
    /\ tick' = IF by = "cleanup" THEN Rests ELSE tick
    /\ publishing' = IF by = "publish" THEN NotPublishing ELSE publishing
    /\ published' = IF by = "publish" /\ ~ok
                    THEN [published EXCEPT ![publishing.port] = NoNode] ELSE published

\* sync_local_ports(): nothing is sent if the ports and the containers are those of
\* the last success, or if there was none and there is nothing to publish.
Unneeded == \/ lastKey = [ports |-> LocalPorts, ids |-> nodesUp]
            \/ lastKey = NoKey /\ LocalPorts = {}

SyncSkips(by) ==
    /\ by \in waiting /\ syncing = NoSync /\ Unneeded
    /\ waiting' = waiting \ {by} /\ Resume(by, TRUE)
    /\ UNCHANGED <<nodesUp, tunnel, syncing, lastKey, agentPorts, chain, doubtful, missed, lost,
                   restarts>>

SyncSends(by) ==
    /\ by \in waiting /\ syncing = NoSync /\ ~Unneeded
    /\ waiting' = waiting \ {by}
    /\ syncing' = [by |-> by, ports |-> LocalPorts, ids |-> nodesUp]
    /\ UNCHANGED <<nodesUp, published, tunnel, publishing, tick, lastKey, agentPorts, chain,
                   doubtful, missed, lost, restarts>>

\* The agent keeps the list and writes the chain of the containers that still run,
\* those it could not inspect left out.
Granted(left) ==
    [n \in Node |-> IF n \in (syncing.ids \cap nodesUp) \ left THEN syncing.ports ELSE chain[n]]

\* The answer is Ok and the key is recorded. The agent wrote every chain, or it took
\* the list and left containers out, or the engine's endpoint could not be had and the
\* whole engine was left out.
SyncOk ==
    /\ syncing # NoSync /\ syncing' = NoSync /\ Resume(syncing.by, TRUE)
    /\ lastKey' = [ports |-> syncing.ports, ids |-> syncing.ids]
    /\ UNCHANGED <<nodesUp, tunnel, waiting, restarts>>

AgentTakes(left) ==
    /\ agentPorts' = syncing.ports /\ chain' = Granted(left) /\ doubtful' = {}
    /\ missed' = (missed \ ({NoNode} \cup syncing.ids)) \cup left

SyncSucceeds == SyncOk /\ AgentTakes({}) /\ UNCHANGED lost

SyncLeavesOut ==
    /\ SyncOk /\ lost < MaxLostSyncs /\ lost' = lost + 1
    /\ \/ \E left \in SUBSET (syncing.ids \cap nodesUp) : AgentTakes(left)
       \/ missed' = nodesUp \cup {NoNode} /\ UNCHANGED <<agentPorts, chain, doubtful>>

\* No answer, or an error: the agent may have done nothing, some or all of it.
Failed ==
    /\ syncing # NoSync /\ lost < MaxLostSyncs /\ lost' = lost + 1
    /\ syncing' = NoSync /\ Resume(syncing.by, FALSE)
    /\ \/ UNCHANGED <<agentPorts, chain>>
       \/ agentPorts' = syncing.ports /\ \E left \in SUBSET Node : chain' = Granted(left)
    /\ doubtful' = doubtful \cup syncing.ports
    /\ UNCHANGED <<nodesUp, tunnel, waiting, missed, restarts>>

\* Variant: the key is recorded for a request that failed.
SyncFailsKeyed ==
    Failed /\ lastKey' = [ports |-> syncing.ports, ids |-> syncing.ids]

SyncFails == Failed /\ UNCHANGED lastKey

Caller == {"publish", "unpublish", "cleanup"}

PublishNext ==
    \/ \E n \in Node : NodeStarts(n) \/ NodeStops(n)
    \/ \E p \in HostPort, n \in Node : Publish(p, n)
    \/ PublishStarted \/ PublishFails \/ PublishListed
    \/ \E p \in HostPort : Unpublish(p)
    \/ CleanupReads \/ CleanupDrops \/ SyncSucceeds \/ SyncLeavesOut \/ SyncFails
    \/ \E by \in Caller : SyncSkips(by) \/ SyncSends(by)

\* lib.rs runs cleanup() every two seconds; a request ends in 25 seconds.
PublishFairness ==
    /\ WF_publishVars(CleanupReads) /\ WF_publishVars(CleanupDrops)
    /\ WF_publishVars(SyncSucceeds)
    /\ \A by \in Caller : SF_publishVars(SyncSkips(by) \/ SyncSends(by))

PublishSpec == PublishInit /\ [][PublishNext]_publishVars /\ PublishFairness
-------------------------------------------------------------------------------
(* A service of a container that does not run stops being published, unless the *)
(* container is started again first: cleanup() finds it however publish, stop,  *)
(* a tunnel that takes 45 s to connect and lost requests interleave.            *)
StoppedUnpublished ==
    \A p \in HostPort :
        published[p] # NoNode /\ published[p] \notin nodesUp
            ~> (published[p] = NoNode \/ published[p] \in nodesUp)

(* A tunnel is the tunnel of a publication, or of the call that is starting it. *)
TunnelsListed ==
    \A p \in tunnel : published[p] # NoNode \/ publishing.port = p

(* A port that is no longer published stops being reachable from the            *)
(* containers, also when the request that withdraws it is lost: the key of the  *)
(* last success differs from what is published, so that a later cleanup sends   *)
(* it again. Left out (see the README) are the ports of a request that failed,  *)
(* and the containers that a request answered with Ok passed over.              *)
PortsWithdrawn ==
    \A p \in LocalPort, n \in Node :
        (p \in chain[n] /\ published[p] = NoNode /\ p \notin doubtful /\ n \notin missed)
            ~> (p \notin chain[n] \/ published[p] # NoNode \/ p \in doubtful \/ n \in missed)
===============================================================================
