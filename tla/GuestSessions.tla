---------------------------- MODULE GuestSessions ----------------------------
(* Terminals and shared folders of an environment as the workspace manager      *)
(* keeps them (workspace.rs): leases of terminals and host folders served to the *)
(* guest (host_files.rs), against the guest agent that is asked over HTTP.       *)
(* Requests and their answers are separate steps; a call whose answer is lost    *)
(* may have been carried out.                                                    *)
EXTENDS Naturals

CONSTANTS
    Terminal,     \* session identifiers, made anew by the client for each terminal
    Share,        \* attach_host_folder() calls
    MaxLost,      \* bound: requests to the agent without an answer
    MaxStarts     \* bound: starts of the environment

VARIABLES
    running,      \* the stored status is Running
    terminals,    \* WorkspaceManager.terminals: sessions with a lease
    guestTerms,   \* terminals that exist in the guest
    creating,     \* of a terminal's create: "new", "sent", "answered" or "done"
    closers,      \* terminals some caller is about to close in the guest
    shares,       \* shares in the manager's list
    serving,      \* shares whose folder server runs
    attaching,    \* of an attach call: "new", "served", "mounted", "listed" or "done"
    swept,        \* cleanup(): "idle", or what it has read: "running" or "stopped"
    lostCalls, starts

sessionVars == <<running, terminals, guestTerms, creating, closers, shares,
                 serving, attaching, swept, lostCalls, starts>>

SessionsType ==
    /\ running \in BOOLEAN /\ terminals \subseteq Terminal /\ guestTerms \subseteq Terminal
    /\ creating \in [Terminal -> {"new", "sent", "answered", "lost", "done"}]
    /\ closers \subseteq Terminal
    /\ shares \subseteq Share /\ serving \subseteq Share
    /\ attaching \in [Share -> {"new", "served", "listed", "done"}]
    /\ swept \in {"idle", "running", "stopped"}
    /\ lostCalls \in 0..MaxLost /\ starts \in 0..MaxStarts

SessionsConstants == MaxLost \in Nat /\ MaxStarts \in Nat

SessionsInit ==
    /\ running = FALSE /\ terminals = {} /\ guestTerms = {} /\ closers = {}
    /\ creating = [t \in Terminal |-> "new"]
    /\ shares = {} /\ serving = {} /\ attaching = [s \in Share |-> "new"]
    /\ swept = "idle" /\ lostCalls = 0 /\ starts = 0

\* The environment starts and stops; its terminals end with it.
EnvironmentStarts ==
    /\ ~running /\ starts < MaxStarts /\ starts' = starts + 1 /\ running' = TRUE
    /\ UNCHANGED <<terminals, guestTerms, creating, closers, shares, serving,
                   attaching, swept, lostCalls>>

EnvironmentStops ==
    /\ running /\ running' = FALSE /\ guestTerms' = {}
    /\ UNCHANGED <<terminals, creating, closers, shares, serving, attaching, swept,
                   lostCalls, starts>>

\* terminal_action("create"): the lease comes first, the request after it.
CreateTerminal(t) ==
    /\ running /\ creating[t] = "new" /\ terminals' = terminals \cup {t}
    /\ creating' = [creating EXCEPT ![t] = "sent"]
    /\ UNCHANGED <<running, guestTerms, closers, shares, serving, attaching,
                   swept, lostCalls, starts>>

\* The agent makes the terminal, or cannot (the guest is not running).
AgentCreates(t) ==
    /\ creating[t] = "sent"
    /\ IF running THEN /\ guestTerms' = guestTerms \cup {t}
                       /\ creating' = [creating EXCEPT ![t] = "answered"]
                       /\ UNCHANGED terminals
       ELSE /\ creating' = [creating EXCEPT ![t] = "done"]
            /\ terminals' = terminals \ {t} /\ UNCHANGED guestTerms
    /\ UNCHANGED <<running, closers, shares, serving, attaching, swept, lostCalls,
                   starts>>

\* The request failed or its answer was lost: the lease is given up, whatever the agent
\* did.
CreateLost(t) ==
    /\ creating[t] = "sent" /\ lostCalls < MaxLost /\ lostCalls' = lostCalls + 1
    /\ guestTerms' = guestTerms \cup {t} \/ UNCHANGED guestTerms
    /\ creating' = [creating EXCEPT ![t] = "lost"] /\ terminals' = terminals \ {t}
    /\ UNCHANGED <<running, closers, shares, serving, attaching, swept, starts>>

\* Back from the agent: a lease that went in the meantime closes the new terminal.
CreateAnswered(t) ==
    /\ creating[t] = "answered" /\ creating' = [creating EXCEPT ![t] = "done"]
    /\ closers' = IF t \in terminals THEN closers ELSE closers \cup {t}
    /\ UNCHANGED <<running, terminals, guestTerms, shares, serving, attaching,
                   swept, lostCalls, starts>>

\* terminal_action("close") with the lease of its window.
CloseTerminal(t) ==
    /\ running /\ t \in terminals /\ closers' = closers \cup {t}
    /\ UNCHANGED <<running, terminals, guestTerms, creating, shares, serving,
                   attaching, swept, lostCalls, starts>>

\* close_window(): the lease first, then the request.
CloseWindow(t) ==
    /\ t \in terminals /\ terminals' = terminals \ {t} /\ closers' = closers \cup {t}
    /\ UNCHANGED <<running, guestTerms, creating, shares, serving, attaching,
                   swept, lostCalls, starts>>

\* The agent closes the terminal, or is not there; a close removes the lease after it.
\* A lost close is not repeated: the terminal then stays until its guest stops.
AgentCloses(t) ==
    /\ t \in closers /\ closers' = closers \ {t} /\ terminals' = terminals \ {t}
    /\ guestTerms' = guestTerms \ {t}
    /\ UNCHANGED <<running, creating, shares, serving, attaching, swept, lostCalls,
                   starts>>

CloseLost(t) ==
    /\ t \in closers /\ t \in guestTerms /\ lostCalls < MaxLost /\ lostCalls' = lostCalls + 1
    /\ closers' = closers \ {t} /\ terminals' = terminals \ {t}
    /\ creating' = [creating EXCEPT ![t] = IF @ = "done" THEN "lost" ELSE @]
    /\ UNCHANGED <<running, guestTerms, shares, serving, attaching, swept, starts>>

\* attach_folder(): a server for the folder, then the mount in the guest.
AttachFolder(s) ==
    /\ running /\ attaching[s] = "new" /\ \A r \in Share : attaching[r] \in {"new", "done"}
    /\ attaching' = [attaching EXCEPT ![s] = "served"] /\ serving' = serving \cup {s}
    /\ UNCHANGED <<running, terminals, guestTerms, creating, closers, shares,
                   swept, lostCalls, starts>>

\* The guest mounts it and the share is listed; if it cannot, the server is dropped.
MountFolder(s) ==
    /\ attaching[s] = "served"
    /\ \/ /\ running /\ shares' = shares \cup {s} /\ UNCHANGED <<serving, lostCalls>>
          /\ attaching' = [attaching EXCEPT ![s] = "listed"]
       \/ /\ ~running /\ serving' = serving \ {s} /\ UNCHANGED <<shares, lostCalls>>
          /\ attaching' = [attaching EXCEPT ![s] = "done"]
       \/ /\ lostCalls < MaxLost /\ lostCalls' = lostCalls + 1
          /\ serving' = serving \ {s} /\ UNCHANGED shares
          /\ attaching' = [attaching EXCEPT ![s] = "done"]
    /\ UNCHANGED <<running, terminals, guestTerms, creating, closers, swept, starts>>

\* The status is read again; a share of an environment that stopped is removed.
AttachChecks(s) ==
    /\ attaching[s] = "listed" /\ attaching' = [attaching EXCEPT ![s] = "done"]
    /\ IF running THEN UNCHANGED <<shares, serving>>
       ELSE shares' = shares \ {s} /\ serving' = serving \ {s}
    /\ UNCHANGED <<running, terminals, guestTerms, creating, closers, swept,
                   lostCalls, starts>>

\* remove_share(): access to the host ends before the guest is asked to unmount.
DetachFolder(s) ==
    /\ s \in shares /\ shares' = shares \ {s} /\ serving' = serving \ {s}
    /\ UNCHANGED <<running, terminals, guestTerms, creating, closers, attaching,
                   swept, lostCalls, starts>>

\* cleanup(), every two seconds: the status is copied, then leases and shares go.
SweepReads ==
    /\ swept = "idle" /\ swept' = IF running THEN "running" ELSE "stopped"
    /\ UNCHANGED <<running, terminals, guestTerms, creating, closers, shares,
                   serving, attaching, lostCalls, starts>>

Sweep ==
    /\ swept # "idle" /\ swept' = "idle"
    /\ IF swept = "stopped"
       THEN /\ shares' = {} /\ serving' = serving \ shares
            /\ terminals' = {} /\ closers' = closers \cup terminals
       ELSE UNCHANGED <<terminals, closers, shares, serving>>
    /\ UNCHANGED <<running, guestTerms, creating, attaching, lostCalls, starts>>

SessionsNext ==
    \/ EnvironmentStarts \/ EnvironmentStops \/ SweepReads \/ Sweep
    \/ \E t \in Terminal :
         \/ CreateTerminal(t) \/ AgentCreates(t) \/ CreateLost(t) \/ CreateAnswered(t)
         \/ CloseTerminal(t) \/ CloseWindow(t) \/ AgentCloses(t) \/ CloseLost(t)
    \/ \E s \in Share : AttachFolder(s) \/ MountFolder(s) \/ AttachChecks(s) \/ DetachFolder(s)

SessionsFairness ==
    /\ WF_sessionVars(SweepReads) /\ WF_sessionVars(Sweep)
    /\ \A s \in Share : WF_sessionVars(MountFolder(s)) /\ WF_sessionVars(AttachChecks(s))

SessionsSpec == SessionsInit /\ [][SessionsNext]_sessionVars /\ SessionsFairness
-------------------------------------------------------------------------------
(* A terminal in the guest has a lease, a caller that is about to look for its  *)
(* lease or to close it, or a request was lost: whatever order create, close, a *)
(* closed window, the cleanup and a restart of the environment come in.         *)
NoLostTerminal ==
    \A t \in guestTerms : \/ t \in terminals \cup closers
                          \/ creating[t] \in {"sent", "answered", "lost"}

(* The folder of the host stops being served when the environment has stopped,  *)
(* also when it stops while the folder is being attached.                       *)
FoldersRevoked ==
    \A s \in Share : (s \in serving /\ ~running) ~> (s \notin serving \/ running)
===============================================================================
