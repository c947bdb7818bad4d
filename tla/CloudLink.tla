------------------------------- MODULE CloudLink -------------------------------
(* The SSH session of a cloud node (runtime/cloud/mod.rs) as the commands use it *)
(* (commands.rs): the map of sessions, the task that owns the ssh process, the   *)
(* calls that wait for an answer of the connector, the bridge to the private     *)
(* network and the refresh that notices a lost session. The task keeps the       *)
(* receiver of the outgoing channel until it returns, so a session counts as     *)
(* connected, and takes calls, for a while after its process has ended.          *)
EXTENDS Naturals

CONSTANT
    MaxConnects    \* bound: ssh processes started in a behaviour

VARIABLES
    nodeStatus,    \* stored status of the environment
    command,       \* of the command that holds the environment's lock
    listed,        \* sessions: the session of the environment, 0 if there is none
    session,       \* of each session's task: what it has done
    stopSent,      \* sessions whose stop signal was sent
    bridged,       \* sessions whose bridge is attached to the private network
    call,          \* of a call on each session
    lostSeen,      \* refresh_host_metrics() found the session gone
    started        \* ssh processes started

linkVars == <<nodeStatus, command, listed, session, stopSent, bridged, call, lostSeen, started>>

Session == 1..MaxConnects

LinkType ==
    /\ nodeStatus \in {"Stopped", "Running", "Error"} /\ lostSeen \in BOOLEAN
    /\ command \in {"idle", "health", "connected", "failed", "disconnected"}
    /\ listed \in 0..MaxConnects /\ started \in 0..MaxConnects
    /\ session \in [Session -> {"none", "up", "ended", "drained", "gone"}]
    /\ stopSent \subseteq Session /\ bridged \subseteq Session
    /\ call \in [Session -> {"none", "registered", "sent", "answered"}]

LinkInit ==
    /\ nodeStatus = "Stopped" /\ command = "idle" /\ listed = 0 /\ started = 0
    /\ session = [s \in Session |-> "none"] /\ call = [s \in Session |-> "none"]
    /\ stopSent = {} /\ bridged = {} /\ lostSeen = FALSE

\* Cloud::session(), connected(): listed, and its task has not returned.
Connected == listed # 0 /\ session[listed] # "gone"
-------------------------------------------------------------------------------
\* set_environment_status(Running): a connected session is taken as it is; otherwise
\* ssh is started and the connector asked for its health. Settings that cannot be
\* read, or no ssh client, fail the command.
Connect ==
    /\ command = "idle"
    /\ \/ Connected /\ command' = "connected" /\ UNCHANGED <<session, started>>
       \/ ~Connected /\ started < MaxConnects /\ command' = "health"
          /\ started' = started + 1 /\ session' = [session EXCEPT ![started + 1] = "up"]
       \/ ~Connected /\ command' = "failed" /\ UNCHANGED <<session, started>>
    /\ UNCHANGED <<nodeStatus, listed, stopSent, bridged, call, lostSeen>>

\* Health, endpoints and bridge::start() succeed: the session enters the map, also
\* when its process has ended meanwhile; a session that was there is dropped.
ConnectDone ==
    /\ command = "health" /\ command' = "connected" /\ session[started] # "none"
    /\ listed' = started /\ bridged' = bridged \cup {started}
    /\ UNCHANGED <<nodeStatus, session, stopSent, call, lostSeen, started>>

\* The health call fails, a port is invalid or the bridge cannot be attached.
ConnectFails ==
    /\ command = "health" /\ command' = "failed" /\ stopSent' = stopSent \cup {started}
    /\ UNCHANGED <<nodeStatus, listed, session, bridged, call, lostSeen, started>>

\* set_environment_status(Stopped): Cloud::disconnect().
Disconnect ==
    /\ command = "idle" /\ command' = "disconnected" /\ listed' = 0
    /\ stopSent' = IF listed # 0 THEN stopSent \cup {listed} ELSE stopSent
    /\ UNCHANGED <<nodeStatus, session, bridged, call, lostSeen, started>>

\* The new status is stored. When that fails, rollback_runtime_transition()
\* disconnects and the stored status stays what it was.
SaveStatus ==
    /\ command \in {"connected", "failed", "disconnected"} /\ command' = "idle"
    /\ \/ /\ nodeStatus' = CASE command = "connected" -> "Running"
                             [] command = "failed" -> "Error"
                             [] OTHER -> "Stopped"
          /\ UNCHANGED <<listed, stopSent>>
       \/ /\ command # "failed" /\ listed' = 0 /\ UNCHANGED nodeStatus
          /\ stopSent' = IF listed # 0 THEN stopSent \cup {listed} ELSE stopSent
    /\ UNCHANGED <<session, bridged, call, lostSeen, started>>
-------------------------------------------------------------------------------
\* The task: a stop signal, an ended process or an invalid frame ends its loop.
LinkEnds(s) ==
    /\ session[s] = "up" /\ session' = [session EXCEPT ![s] = "ended"]
    /\ UNCHANGED <<nodeStatus, command, listed, stopSent, bridged, call, lostSeen, started>>

Stopped(s) == s \in stopSent /\ LinkEnds(s)

\* Calls that are registered are answered with the reason.
Drain(s) ==
    /\ session[s] = "ended" /\ session' = [session EXCEPT ![s] = "drained"]
    /\ call' = [call EXCEPT ![s] = IF @ \in {"registered", "sent"} THEN "answered" ELSE @]
    /\ UNCHANGED <<nodeStatus, command, listed, stopSent, bridged, lostSeen, started>>

\* The bridge is told to shut down, and with the task the channel's receiver goes.
TaskReturns(s) ==
    /\ session[s] = "drained" /\ session' = [session EXCEPT ![s] = "gone"]
    /\ UNCHANGED <<nodeStatus, command, listed, stopSent, bridged, call, lostSeen, started>>

\* The bridge's loop ends on "shutdown"; its end of the wire is closed (bridge.rs).
BridgeEnds(s) ==
    /\ s \in bridged /\ session[s] = "gone" /\ bridged' = bridged \ {s}
    /\ UNCHANGED <<nodeStatus, command, listed, session, stopSent, call, lostSeen, started>>
-------------------------------------------------------------------------------
\* rpc(): the answer's place is registered first (fewer than 64 calls wait).
RpcRegister(s) ==
    /\ s = listed /\ session[s] \in {"up", "ended", "drained"}
    /\ call[s] = "none" /\ call' = [call EXCEPT ![s] = "registered"]
    /\ UNCHANGED <<nodeStatus, command, listed, session, stopSent, bridged, lostSeen, started>>

\* Then the frame is sent; that fails only once the receiver is gone.
RpcSend(s) ==
    /\ call[s] = "registered"
    /\ call' = [call EXCEPT ![s] = IF session[s] = "gone" THEN "none" ELSE "sent"]
    /\ UNCHANGED <<nodeStatus, command, listed, session, stopSent, bridged, lostSeen, started>>

\* The connector answers.
RpcAnswer(s) ==
    /\ call[s] = "sent" /\ session[s] = "up" /\ call' = [call EXCEPT ![s] = "answered"]
    /\ UNCHANGED <<nodeStatus, command, listed, session, stopSent, bridged, lostSeen, started>>

RpcReturns(s) ==
    /\ call[s] = "answered" /\ call' = [call EXCEPT ![s] = "none"]
    /\ UNCHANGED <<nodeStatus, command, listed, session, stopSent, bridged, lostSeen, started>>

\* Variant: the limit of 25 s covers sending alone.
RpcTimeoutSending(s) ==
    /\ call[s] = "registered" /\ call' = [call EXCEPT ![s] = "none"]
    /\ UNCHANGED <<nodeStatus, command, listed, session, stopSent, bridged, lostSeen, started>>

\* 25 s for sending and the answer together.
RpcTimeout(s) ==
    /\ call[s] \in {"registered", "sent"} /\ call' = [call EXCEPT ![s] = "none"]
    /\ UNCHANGED <<nodeStatus, command, listed, session, stopSent, bridged, lostSeen, started>>
-------------------------------------------------------------------------------
\* refresh_host_metrics() looks without the environment's lock and records later,
\* whatever has happened in between.
RefreshLooks ==
    /\ ~lostSeen /\ nodeStatus = "Running" /\ ~Connected /\ lostSeen' = TRUE
    /\ UNCHANGED <<nodeStatus, command, listed, session, stopSent, bridged, call, started>>

RefreshRecords ==
    /\ lostSeen /\ lostSeen' = FALSE /\ nodeStatus' = "Error"
    /\ UNCHANGED <<command, listed, session, stopSent, bridged, call, started>>

LinkNext ==
    \/ Connect \/ ConnectDone \/ ConnectFails \/ Disconnect \/ SaveStatus
    \/ RefreshLooks \/ RefreshRecords
    \/ \E s \in Session :
         \/ LinkEnds(s) \/ Drain(s) \/ TaskReturns(s) \/ BridgeEnds(s)
         \/ RpcRegister(s) \/ RpcSend(s) \/ RpcAnswer(s) \/ RpcReturns(s) \/ RpcTimeout(s)

LinkFairness ==
    /\ WF_linkVars(SaveStatus) /\ WF_linkVars(ConnectDone \/ ConnectFails)
    /\ WF_linkVars(RefreshLooks) /\ WF_linkVars(RefreshRecords)
    /\ \A s \in Session :
         /\ WF_linkVars(Stopped(s)) /\ WF_linkVars(Drain(s)) /\ WF_linkVars(TaskReturns(s))
         /\ WF_linkVars(BridgeEnds(s)) /\ WF_linkVars(RpcReturns(s))
         /\ WF_linkVars(RpcTimeout(s))

LinkSpec == LinkInit /\ [][LinkNext]_linkVars /\ LinkFairness
-------------------------------------------------------------------------------
(* A call comes back, also one that was registered after the waiting calls of   *)
(* a lost session were answered and sent before the channel was closed.         *)
CallsEnd == \A s \in Session : call[s] = "sent" ~> call[s] # "sent"

(* A node that is stored as running while its session is gone is soon stored as *)
(* something else, or it has been connected again.                              *)
LostNoticed ==
    (nodeStatus = "Running" /\ (listed = 0 \/ session[listed] = "gone"))
        ~> (nodeStatus # "Running" \/ (listed # 0 /\ session[listed] # "gone"))

(* Once a node is stored as stopped no session of it stays on the private       *)
(* network, unless somebody connects again.                                     *)
StoppedDetached ==
    (nodeStatus = "Stopped" /\ command = "idle")
        ~> (bridged = {} \/ nodeStatus # "Stopped" \/ command # "idle")
===============================================================================
