---------------------------- MODULE MCHostProgress ----------------------------
(* The services of the host whose calls must come to an end, each on an          *)
(* instance of its own: shared folders, automation jobs, published ports, guest  *)
(* sessions and the link to a cloud node. They share no state, so that they are  *)
(* checked side by side: part says which one moves in a behaviour, the others    *)
(* stay as they began.                                                           *)
EXTENDS Naturals

VARIABLE part

VARIABLES serves, socket, asker, work, share, given, clients, written
VARIABLES jobs, underway, writer, cli, count
VARIABLES nodesUp, published, tunnel, publishing, tick, syncing, waiting, lastKey,
          agentPorts, chain, doubtful, missed, lost, restarts
VARIABLES running, terminals, guestTerms, creating, closers, shares, serving,
          attaching, swept, lostCalls, starts
VARIABLES nodeStatus, command, listed, session, stopSent, bridged, call, lostSeen, started

folders  == <<serves, socket, asker, work, share, given, clients, written>>
control  == <<jobs, underway, writer, cli, count>>
ports    == <<nodesUp, published, tunnel, publishing, tick, syncing, waiting, lastKey,
              agentPorts, chain, doubtful, missed, lost, restarts>>
sessions == <<running, terminals, guestTerms, creating, closers, shares, serving,
              attaching, swept, lostCalls, starts>>
link     == <<nodeStatus, command, listed, session, stopSent, bridged, call, lostSeen, started>>
hostVars == <<part, folders, control, ports, sessions, link>>

MCSlot    == {1}
MCMaxJobs == 4
MCMethod  == {[mutating |-> TRUE, confirmation |-> TRUE], [mutating |-> FALSE, confirmation |-> FALSE]}

Folders == INSTANCE FileService
    WITH Slot <- MCSlot, Shared <- {1}, MaxClients <- 2, MaxShares <- 2
Jobs == INSTANCE Automation
    WITH Client <- {"a"}, Method <- MCMethod, Permits <- 2, History <- 3, Budget <- 2, MaxJobs <- MCMaxJobs
Ports == INSTANCE Publishing
    WITH Node <- {"n"}, HostPort <- {1, 2}, Tunnelled <- {2}, MaxLostSyncs <- 1, MaxRestarts <- 2
Sessions == INSTANCE GuestSessions
    WITH Terminal <- {"t"}, Share <- {"s"}, MaxLost <- 1, MaxStarts <- 2
Link == INSTANCE CloudLink WITH MaxConnects <- 2

(* What the theorems about the parts ask of their constants.                   *)
ASSUME PartsAssumption ==
    /\ Folders!FilesConstants /\ Jobs!AutomationConstants
    /\ Ports!PublishConstants /\ Sessions!SessionsConstants

Init ==
    /\ part \in {"folders", "jobs", "ports", "sessions", "link"}
    /\ Folders!FilesInit /\ Jobs!AutomationInit /\ Ports!PublishInit
    /\ Sessions!SessionsInit /\ Link!LinkInit

FoldersStep ==
    part = "folders" /\ Folders!FilesNext /\ UNCHANGED <<part, control, ports, sessions, link>>
JobsStep ==
    part = "jobs" /\ Jobs!AutomationNext /\ UNCHANGED <<part, folders, ports, sessions, link>>
PortsStep ==
    part = "ports" /\ Ports!PublishNext /\ UNCHANGED <<part, folders, control, sessions, link>>
SessionsStep ==
    part = "sessions" /\ Sessions!SessionsNext /\ UNCHANGED <<part, folders, control, ports, link>>
LinkStep ==
    part = "link" /\ Link!LinkNext /\ UNCHANGED <<part, folders, control, ports, sessions>>

Next == FoldersStep \/ JobsStep \/ PortsStep \/ SessionsStep \/ LinkStep

\* The fairness of each component, while it is the one that moves.
Fairness ==
    /\ \A s \in MCSlot : /\ WF_folders(part = "folders" /\ Folders!Reset(s))
                      /\ WF_folders(part = "folders" /\ Folders!Stall(s))
    /\ \A t \in 1..MCMaxJobs : /\ WF_control(part = "jobs" /\ Jobs!Run(t))
                       /\ WF_control(part = "jobs" /\ Jobs!Finish(t))
    /\ WF_ports(part = "ports" /\ Ports!CleanupReads)
    /\ WF_ports(part = "ports" /\ Ports!CleanupDrops)
    /\ WF_ports(part = "ports" /\ Ports!SyncSucceeds)
    /\ \A by \in Ports!Caller :
         SF_ports(part = "ports" /\ (Ports!SyncSkips(by) \/ Ports!SyncSends(by)))
    /\ WF_sessions(part = "sessions" /\ Sessions!SweepReads)
    /\ WF_sessions(part = "sessions" /\ Sessions!Sweep)
    /\ WF_sessions(part = "sessions" /\ Sessions!MountFolder("s"))
    /\ WF_sessions(part = "sessions" /\ Sessions!AttachChecks("s"))
    /\ WF_link(part = "link" /\ Link!SaveStatus)
    /\ WF_link(part = "link" /\ (Link!ConnectDone \/ Link!ConnectFails))
    /\ WF_link(part = "link" /\ Link!RefreshLooks)
    /\ WF_link(part = "link" /\ Link!RefreshRecords)
    /\ \A s \in Link!Session :
         /\ WF_link(part = "link" /\ Link!Stopped(s)) /\ WF_link(part = "link" /\ Link!Drain(s))
         /\ WF_link(part = "link" /\ Link!TaskReturns(s)) /\ WF_link(part = "link" /\ Link!BridgeEnds(s))
         /\ WF_link(part = "link" /\ Link!RpcReturns(s)) /\ WF_link(part = "link" /\ Link!RpcTimeout(s))

Spec == Init /\ [][Next]_hostVars /\ Fairness
-------------------------------------------------------------------------------
(* Shared folders. A client gets answers that were computed for it, also on a  *)
(* slot that another left in the middle of a request; nothing is written       *)
(* through a share by the end that may only read it; no answer comes from a    *)
(* share that was withdrawn or replaced meanwhile; and no client can keep a    *)
(* slot for ever (runtime/fabric/file_service.rs, runtime/connection_files.rs). *)
FoldersServed ==
    /\ [](Folders!FilesType /\ Folders!AnswersOwnClient /\ Folders!WritesPermitted)
    /\ Folders!AnswersFromPresentShare
    /\ Folders!SlotsReturn

(* Automation jobs. One that has not ended is never dropped to make room, the  *)
(* history stays within its limit all the same, never two mutations run at     *)
(* once whoever sent them, and every accepted job ends (automation/mod.rs).    *)
JobsServed ==
    /\ [](Jobs!PendingKept /\ Jobs!OneMutation /\ Jobs!HistoryBounded)
    /\ Jobs!JobsEnd

(* What an environment leaves behind. A tunnel belongs to a publication or to  *)
(* the call that is starting it, a guest's terminal has somebody who knows of  *)
(* it; a stopped container stops being published, a port that is no longer     *)
(* published stops being reachable also when a request to withdraw it is lost, *)
(* unless the request was answered with Ok and passed the container over, and  *)
(* a folder of the host stops being served (workspace.rs).                     *)
WorkspacesReleased ==
    /\ [](Ports!PublishType /\ Ports!TunnelsListed)
    /\ Ports!StoppedUnpublished
    /\ Ports!PortsWithdrawn
    /\ [](Sessions!SessionsType /\ Sessions!NoLostTerminal)
    /\ Sessions!FoldersRevoked

(* Cloud nodes. A call comes back whatever becomes of its session, the stored  *)
(* status follows the end of the session, and a stopped node leaves the        *)
(* private network (runtime/cloud/mod.rs).                                     *)
NodesFollowed ==
    []Link!LinkType /\ Link!CallsEnd /\ Link!LostNoticed /\ Link!StoppedDetached
===============================================================================
