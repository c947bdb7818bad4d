------------------------------- MODULE Startup -------------------------------
(* Processes of the application: the lock that admits one of them              *)
(* (instance_lock.rs), its start and its end (lib.rs), the socket it answers    *)
(* on (automation/transport.rs) and the client that starts it                   *)
(* (cli/src/client.rs).                                                         *)
EXTENDS Naturals, FiniteSets

CONSTANTS
    Process      \* processes of the application, each started once

VARIABLES
    stage,       \* of a process: "none", "launched", "locked", "loaded", "serving",
                 \* "stopping" or "ended"
    headless,    \* processes started with --headless
    singleton,   \* who has runtime.lock, NoProcess if nobody does
    endpoint,    \* the socket: "absent", "stale", or who listens on it
    starter,     \* yougori-cli app start: "idle", "asks", or the process it waits for
    answered     \* what it reported last: "nothing", "running" or "failed"

startupVars == <<stage, headless, singleton, endpoint, starter, answered>>

NoProcess == "nobody"

\* What the theorems ask of the constants.
StartupConstants == NoProcess \notin Process

StartupInit ==
    /\ stage = [p \in Process |-> "none"] /\ headless = {} /\ singleton = NoProcess
    /\ endpoint = "absent" /\ starter = "idle" /\ answered = "nothing"

\* call_at(): somebody answers on the socket.
Answers == endpoint \in Process

To(p, s) == stage' = [stage EXCEPT ![p] = s]

\* The user opens the application.
Open(p) ==
    /\ stage[p] = "none" /\ To(p, "launched")
    /\ UNCHANGED <<headless, singleton, endpoint, starter, answered>>

\* start() in the client: the engine is asked first, and started if it does not answer.
AskEngine ==
    /\ starter = "idle"
    /\ IF Answers THEN answered' = "running" /\ UNCHANGED starter
       ELSE starter' = "asks" /\ UNCHANGED answered
    /\ UNCHANGED <<stage, headless, singleton, endpoint>>

StartEngine(p) ==
    /\ starter = "asks" /\ stage[p] = "none" /\ To(p, "launched")
    /\ headless' = headless \cup {p} /\ starter' = p
    /\ UNCHANGED <<singleton, endpoint, answered>>

\* It waits for any engine to answer, for its own to end, or for 45 seconds.
StartReports ==
    /\ starter \in Process /\ starter' = "idle"
    /\ \/ Answers /\ answered' = "running"
       \/ ~Answers /\ answered' = "failed"
    /\ UNCHANGED <<stage, headless, singleton, endpoint>>

\* InstanceLock::acquire() comes before anything else; who does not get it asks the other
\* process to show its window and ends.
Acquire(p) ==
    /\ stage[p] = "launched"
    /\ IF singleton = NoProcess THEN singleton' = p /\ To(p, "locked")
       ELSE To(p, "ended") /\ UNCHANGED singleton
    /\ UNCHANGED <<headless, endpoint, starter, answered>>

\* setup(): the state is loaded, mended and saved; an error ends the process.
Load(p) ==
    /\ stage[p] = "locked" /\ To(p, "loaded")
    /\ UNCHANGED <<headless, singleton, endpoint, starter, answered>>

Ends(p) ==
    /\ To(p, "ended")
    /\ singleton' = IF singleton = p THEN NoProcess ELSE singleton
    /\ endpoint' = IF endpoint = p THEN "stale" ELSE endpoint

SetupFails(p) ==
    /\ stage[p] \in {"locked", "loaded"} /\ Ends(p)
    /\ UNCHANGED <<headless, starter, answered>>

\* bind(): a socket that nobody answers on is removed, one that somebody answers on ends
\* the start.
Bind(p) ==
    /\ stage[p] = "loaded"
    /\ IF Answers THEN Ends(p)
       ELSE To(p, "serving") /\ endpoint' = p /\ UNCHANGED singleton
    /\ UNCHANGED <<headless, starter, answered>>

\* The last window closes: a process that was started without one goes on, another one
\* stops its terminals, shares and machines while it keeps the lock.
Exit(p) ==
    /\ stage[p] = "serving" /\ p \notin headless /\ To(p, "stopping")
    /\ UNCHANGED <<headless, singleton, endpoint, starter, answered>>

\* The process ends, after that or because it is killed.
Ended(p) ==
    /\ stage[p] \in {"launched", "locked", "loaded", "serving", "stopping"} /\ Ends(p)
    /\ UNCHANGED <<headless, starter, answered>>

StartupNext ==
    \/ AskEngine \/ StartReports
    \/ \E p \in Process : Open(p) \/ StartEngine(p) \/ Acquire(p) \/ Load(p) \/ SetupFails(p)
                          \/ Bind(p) \/ Exit(p) \/ Ended(p)

StartupSpec == StartupInit /\ [][StartupNext]_startupVars

-----------------------------------------------------------------------------

\* Two processes never have the state and the machines at once, although one is still
\* stopping them while the next one starts (instance_lock.rs, lib.rs).
OneEngine ==
    Cardinality({p \in Process : stage[p] \in {"loaded", "serving", "stopping"}}) <= 1
=============================================================================
