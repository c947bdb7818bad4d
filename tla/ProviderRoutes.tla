---------------------------- MODULE ProviderRoutes ----------------------------
(* Which engine a container belongs to (runtime/cuda.rs, lib.rs, and where      *)
(* commands.rs creates containers): a small file per container, made when the   *)
(* container is created, read before every request, and never rewritten.  The   *)
(* file of a container from before there was a choice may be missing.  Every    *)
(* call on a file can fail; a request whose read fails changes nothing.         *)
EXTENDS Naturals

CONSTANTS
    Id,          \* containers
    MaxCrashes   \* bound: times the application is killed or the routes are lost

VARIABLES
    server,      \* "down", "starting", "up" or "failed"
    file,        \* the file: "absent", "empty", "oci" or "cuda"
    known,       \* environments in the saved state: the engine of each, or "none"
    making,      \* creation under way: "none", or the engine whose route is written
    writing,     \* the container whose file is created and not yet written, "none"
    engine,      \* the engine that has the container's data, or "none"
    crashes,     \* number of such faults
    sent         \* history: engines that were asked about a container

routeVars == <<server, file, known, making, writing, engine, crashes, sent>>

Engines == {"oci", "cuda"}

\* What the theorems ask of the constants.
RoutesConstants == "none" \notin Id /\ MaxCrashes \in Nat

RoutesInit ==
    /\ server = "down" /\ writing = "none" /\ making = [c \in Id |-> "none"]
    /\ file \in [Id -> {"absent"}] /\ crashes = 0 /\ sent = [c \in Id |-> {}]
    /\ known \in [Id -> {"none", "oci"}] /\ engine = known

\* read_route(): "absent" is the engine there was at first; a damaged file is an error.
ReadRoute(c) == IF file[c] = "absent" THEN "oci" ELSE file[c]

\* write_route(): a new file is created and then written and flushed; one that is there
\* must say the same.
OpenNew(c) ==
    /\ writing = "none" /\ file[c] = "absent"
    /\ file' = [file EXCEPT ![c] = "empty"] /\ writing' = c

\* setup() in lib.rs: the routes of all saved environments, or the start fails.
Launch ==
    /\ server \in {"down", "failed"}
    /\ server' = "starting"
    /\ UNCHANGED <<file, known, making, writing, engine, crashes, sent>>

RestoreRoute(c) ==
    /\ server = "starting" /\ known[c] \in Engines /\ OpenNew(c)
    /\ UNCHANGED <<server, known, making, engine, crashes, sent>>

RestoreWritten ==
    /\ server = "starting" /\ writing # "none"
    /\ file' = [file EXCEPT ![writing] = known[writing]] /\ writing' = "none"
    /\ UNCHANGED <<server, known, making, engine, crashes, sent>>

\* A read or a write that fails ends the start; a file stays as far as it was written.
RestoreFails ==
    /\ server = "starting" /\ server' = "failed" /\ writing' = "none"
    /\ \/ UNCHANGED file
       \/ writing # "none" /\ file' = [file EXCEPT ![writing] = known[writing]]
    /\ UNCHANGED <<known, making, engine, crashes, sent>>

Conflict(c) == known[c] \in Engines /\ file[c] # known[c]

Restored ==
    /\ server = "starting" /\ writing = "none"
    /\ \A c \in Id : known[c] \in Engines => file[c] # "absent"
    /\ server' = IF \E c \in Id : Conflict(c) THEN "failed" ELSE "up"
    /\ UNCHANGED <<file, known, making, writing, engine, crashes, sent>>

\* create_environment() and the other ways a container comes to be: the route first, then
\* the engine's part, then the saved state.  An identifier is new.
CreateRoute(c, p) ==
    /\ server = "up" /\ engine[c] = "none" /\ making[c] = "none" /\ OpenNew(c)
    /\ making' = [making EXCEPT ![c] = p]
    /\ UNCHANGED <<server, known, engine, crashes, sent>>

CreateWritten(c) ==
    /\ server = "up" /\ writing = c /\ making[c] \in Engines
    /\ file' = [file EXCEPT ![c] = making[c]] /\ writing' = "none"
    /\ UNCHANGED <<server, known, making, engine, crashes, sent>>

\* The route, the engine's part or the save fails: the route that was begun stays.
CreateFails(c) ==
    /\ server = "up" /\ making[c] \in Engines
    /\ making' = [making EXCEPT ![c] = "none"]
    /\ \/ writing # c /\ UNCHANGED <<file, writing>>
       \/ writing = c /\ writing' = "none" /\ file' \in {file, [file EXCEPT ![c] = making[c]]}
    /\ UNCHANGED <<server, known, engine, crashes, sent>>

\* Every request goes where the file says (request_provider, container_endpoint).
Provision(c) ==
    /\ server = "up" /\ making[c] \in Engines /\ writing # c
    /\ ReadRoute(c) \in Engines
    /\ engine' = [engine EXCEPT ![c] = ReadRoute(c)]
    /\ sent' = [sent EXCEPT ![c] = @ \cup {ReadRoute(c)}]
    /\ UNCHANGED <<server, file, known, making, writing, crashes>>

SaveEnvironment(c) ==
    /\ server = "up" /\ making[c] \in Engines /\ engine[c] = making[c]
    /\ known' = [known EXCEPT ![c] = making[c]] /\ making' = [making EXCEPT ![c] = "none"]
    /\ UNCHANGED <<server, file, writing, engine, crashes, sent>>

RequestAgent(c) ==
    /\ server = "up" /\ known[c] \in Engines /\ ReadRoute(c) \in Engines
    /\ sent' = [sent EXCEPT ![c] = @ \cup {ReadRoute(c)}]
    /\ UNCHANGED <<server, file, known, making, writing, engine, crashes>>

\* External: the application is killed.
CrashServer ==
    /\ server \in {"starting", "up"} /\ crashes < MaxCrashes
    /\ server' = "down" /\ crashes' = crashes + 1
    /\ making' = [c \in Id |-> "none"] /\ writing' = "none"
    /\ UNCHANGED <<file, known, engine, sent>>

\* External: the folder of the routes is lost; the saved state is elsewhere.
LoseRoutes ==
    /\ server = "down" /\ crashes < MaxCrashes
    /\ file' = [c \in Id |-> "absent"] /\ crashes' = crashes + 1
    /\ UNCHANGED <<server, known, making, writing, engine, sent>>

RoutesNext ==
    \/ LoseRoutes \/ Launch \/ RestoreWritten \/ RestoreFails \/ Restored \/ CrashServer
    \/ \E c \in Id :
         \/ RestoreRoute(c) \/ CreateWritten(c) \/ CreateFails(c)
         \/ Provision(c) \/ SaveEnvironment(c) \/ RequestAgent(c)
         \/ \E p \in Engines : CreateRoute(c, p)

RoutesSpec == RoutesInit /\ [][RoutesNext]_routeVars

-----------------------------------------------------------------------------

\* A container is only ever asked for at the engine that has its data, however often the
\* application was killed, or a write failed, while routes were written (write_route,
\* read_route and restore_container_routes in runtime/cuda.rs).
AskedWhereItIs == \A c \in Id : known[c] \in Engines => sent[c] \subseteq {engine[c]}

\* Whatever failed or was lost, the route of a saved container never names the other
\* engine, which would keep the application from starting; and an application that
\* started has the whole route of every saved container.  A torn file keeps it from
\* starting and is never mended (write_route creates the file before it writes it).
RoutesAgree ==
    \A c \in Id : known[c] \in Engines =>
        /\ file[c] \in {"absent", "empty", known[c]}
        /\ server = "up" => file[c] = known[c]
=============================================================================
