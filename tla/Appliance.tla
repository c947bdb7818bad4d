------------------------------ MODULE Appliance ------------------------------
(* The machine in which the containers run: its process, its disk and the     *)
(* leases under which it is used (runtime/appliance.rs,                       *)
(* runtime/storage.rs, runtime/storage_reclaim.rs, runtime/recovery.rs,       *)
(* runtime/mod.rs).                                                           *)
(*                                                                            *)
(* The disk is an overlay over a base that comes with the application.  A     *)
(* marker beside it names the base and the state in which the overlay was     *)
(* left; an update brings another base.  The application may end without      *)
(* warning, and the process of the machine then goes on or goes too.          *)
EXTENDS Naturals, FiniteSets

CONSTANTS
    Container,  \* containers
    MaxBases,   \* bound: versions of the base
    MaxRuns     \* bound: runs of the application

VARIABLES
    app,        \* "down" or "up"
    launches,   \* number of runs of the application
    base,       \* version of the base that is installed
    overlay,    \* the disk: [base, sound], NoDisk if there is none
    marker,     \* appliance-overlay-state.json: [base, fits], NoMarker if missing
    previous,   \* appliance-overlay-state.previous.json, likewise
    prepared,   \* appliance_preparation is done in this run
    own,        \* the process of this run is alive
    died,       \* it has ended by itself, and the application has not looked
    orphan,     \* a process of an earlier run is alive
    boot,       \* how far appliance_endpoint() is
    live,       \* containers that run in the machine
    active,     \* process.active_containers
    lease,      \* commands that hold appliance_operations for reading: "none", "held",
                \* or "sent" when the container has been marked and the guest asked
    reclaim,    \* how far reclaim_container_storage() is, "none" if not under way
    unsure      \* history: an overlay was recorded as fit that its machine had left damaged

applianceVars == <<app, launches, base, overlay, marker, previous, prepared, own, died, orphan,
          boot, live, active, lease, reclaim, unsure>>

NoDisk   == [base |-> 0, sound |-> TRUE]
NoMarker == [base |-> 0, fits |-> FALSE]
NoLease  == [c \in Container |-> "none"]

disk  == <<overlay, marker, previous>>
users == <<live, active, lease, reclaim>>
runs  == <<app, launches, base>>

ApplianceType ==
    /\ app \in {"down", "up"} /\ launches \in 0..MaxRuns /\ base \in 1..MaxBases
    /\ overlay \in [base : 0..MaxBases, sound : BOOLEAN]
    /\ {marker, previous} \subseteq [base : 0..MaxBases, fits : BOOLEAN]
    /\ boot \in {"idle", "external", "prepare", "create", "mark", "commit", "grow", "spawn", "wait"}
    /\ live \subseteq Container /\ active \subseteq Container /\ lease \in [Container -> {"none", "held", "sent"}]
    /\ reclaim \in {"none", "trim", "stop", "replace"}

\* What the theorems ask of the constants.
ApplianceConstants == MaxBases \in Nat \ {0} /\ MaxRuns \in Nat

ApplianceInit ==
    /\ app = "down" /\ launches = 0 /\ base = 1
    /\ overlay = NoDisk /\ marker = NoMarker /\ previous = NoMarker
    /\ prepared = FALSE /\ own = FALSE /\ died = FALSE /\ orphan = FALSE /\ boot = "idle"
    /\ live = {} /\ active = {} /\ lease = NoLease /\ reclaim = "none" /\ unsure = FALSE

-----------------------------------------------------------------------------
(* Runs of the application                                                   *)

LaunchRun ==
    /\ app = "down" /\ launches < MaxRuns
    /\ app' = "up" /\ launches' = launches + 1 /\ prepared' = FALSE
    /\ UNCHANGED <<base, disk, own, died, orphan, boot, users, unsure>>

\* External: an update replaces the base while the application is down.
Update ==
    /\ app = "down" /\ base < MaxBases
    /\ base' = base + 1
    /\ UNCHANGED <<app, launches, disk, prepared, own, died, orphan, boot, users, unsure>>

\* record_appliance_overlay_state(): the disk is recorded as it is, although its machine
\* may have died or been killed in this run: the preparation that checks the disk is done
\* once in a run.
Record ==
    /\ marker' = [base |-> base, fits |-> TRUE] /\ previous' = NoMarker
    /\ unsure' = (unsure \/ ~overlay'.sound)
Unrecorded == UNCHANGED <<marker, previous, unsure>>

\* A machine ends, of itself or not, and leaves its disk well or damaged.
MachineEnded == \E clean \in BOOLEAN : overlay' = [overlay EXCEPT !.sound = clean /\ @]

EndRun == app' = "down" /\ boot' = "idle" /\ lease' = NoLease /\ reclaim' = "none" /\ active' = {}

\* shutdown_all(): the guest is asked to shut down and its process killed after ten
\* seconds.  One that ended before that is recorded, in whatever way it ended.
Shutdown ==
    /\ app = "up" /\ lease = NoLease /\ reclaim = "none" /\ boot = "idle"
    /\ EndRun /\ own' = FALSE /\ died' = FALSE /\ live' = IF own THEN {} ELSE live
    /\ \/ own /\ MachineEnded /\ Record
       \/ own /\ MachineEnded /\ Unrecorded
       \/ died /\ UNCHANGED overlay /\ Record
       \/ ~own /\ ~died /\ Unrecorded /\ UNCHANGED overlay
    /\ UNCHANGED <<launches, base, prepared, orphan>>

\* External: the application is killed.  Its machine goes on by itself or goes too.
Crash ==
    /\ app = "up"
    /\ EndRun /\ own' = FALSE /\ died' = FALSE
    /\ \/ orphan' = (orphan \/ own) /\ UNCHANGED <<overlay, live>>
       \/ own /\ MachineEnded /\ live' = {} /\ UNCHANGED orphan
    /\ UNCHANGED <<launches, base, marker, previous, prepared, unsure>>

\* External: such a machine ends, well or badly.  recover_orphaned_container_runtime()
\* ends it when the user confirms it.
OrphanEnds ==
    /\ orphan
    /\ orphan' = FALSE /\ live' = {}
    /\ MachineEnded
    /\ UNCHANGED <<runs, marker, previous, prepared, own, died, boot, active, lease, reclaim, unsure>>

\* External: the machine of this run ends, and its process is kept in the table.
ProcessDies ==
    /\ own /\ boot = "idle"
    /\ own' = FALSE /\ died' = TRUE /\ live' = {}
    /\ MachineEnded
    /\ UNCHANGED <<runs, marker, previous, prepared, orphan, boot, active, lease, reclaim, unsure>>

-----------------------------------------------------------------------------
(* appliance_endpoint(), under the mutex of the process                      *)

\* Requests to a machine that has gone are answered with an error.
Answered == [c \in Container |-> IF lease[c] = "sent" THEN "none" ELSE lease[c]]

\* A command has its lease and finds no machine that answers.  One that is alive and
\* does not answer within two seconds is killed.
Endpoint ==
    /\ app = "up" /\ boot = "idle" /\ ((\E c \in Container : lease[c] = "held") \/ reclaim = "trim")
    /\ boot' = "external"
    /\ own' = FALSE /\ died' = FALSE /\ active' = {} /\ lease' = Answered
    /\ \/ own /\ live' = {} /\ MachineEnded
       \/ ~own /\ UNCHANGED <<live, overlay>>
    /\ UNCHANGED <<runs, marker, previous, prepared, orphan, reclaim, unsure>>

\* Whoever waits for the machine is told that there is none.
GiveUp == boot' = "idle" /\ lease' = NoLease /\ reclaim' = "none"
Going == UNCHANGED <<lease, reclaim>>

\* check_external_appliance(): a disk that another process has open is left alone.
CheckExternal ==
    /\ boot = "external"
    /\ IF orphan THEN GiveUp ELSE boot' = (IF prepared THEN "grow" ELSE "prepare") /\ Going
    /\ UNCHANGED <<runs, disk, prepared, own, died, orphan, live, active, unsure>>

\* read_appliance_marker(): the marker, else the previous one.
KnownMarker == IF marker # NoMarker THEN marker ELSE previous

BaseChanged == KnownMarker.base # base

\* prepare_appliance_overlay_once(): an overlay of another or an unknown base is put
\* aside, its marker removed.  One that the marker does not fit is checked, and put
\* aside if it is damaged: one archive is kept.
Prepare ==
    /\ boot = "prepare"
    /\ IF overlay = NoDisk THEN boot' = "create" /\ UNCHANGED <<disk, prepared>>
       ELSE IF BaseChanged
       THEN /\ overlay' = NoDisk /\ marker' = NoMarker /\ boot' = "create"
            /\ UNCHANGED <<previous, prepared>>
       ELSE IF KnownMarker.fits THEN boot' = "grow" /\ prepared' = TRUE /\ UNCHANGED disk
       ELSE IF overlay.sound THEN boot' = "mark" /\ UNCHANGED <<disk, prepared>>
       ELSE overlay' = NoDisk /\ boot' = "create" /\ UNCHANGED <<marker, previous, prepared>>
    /\ UNCHANGED <<runs, own, died, orphan, users, unsure>>

\* qemu-img create
Create ==
    /\ boot = "create"
    /\ overlay' = [base |-> base, sound |-> TRUE]
    /\ marker' = [marker EXCEPT !.fits = FALSE] /\ previous' = [previous EXCEPT !.fits = FALSE]
    /\ boot' = "mark"
    /\ UNCHANGED <<runs, prepared, own, died, orphan, users, unsure>>

\* write_appliance_marker(): the marker becomes the previous one, and the new one takes
\* its place, or the old one again if that fails.
Mark ==
    /\ boot = "mark"
    /\ previous' = (IF marker # NoMarker THEN marker ELSE NoMarker)
    /\ marker' = NoMarker
    /\ boot' = "commit"
    /\ UNCHANGED <<runs, overlay, prepared, own, died, orphan, users, unsure>>

Commit ==
    /\ boot = "commit"
    /\ \/ /\ marker' = [base |-> base, fits |-> TRUE] /\ previous' = NoMarker
          /\ boot' = "grow" /\ prepared' = TRUE /\ Going
       \/ /\ marker' = previous /\ previous' = NoMarker
          /\ GiveUp /\ UNCHANGED prepared
    /\ UNCHANGED <<runs, overlay, own, died, orphan, live, active, unsure>>

\* prepare_container_pool_capacity(): a disk that is smaller than the volume now allows
\* grows and is recorded.
GrowDisk ==
    /\ boot = "grow"
    /\ boot' = "spawn"
    /\ UNCHANGED <<runs, overlay, prepared, own, died, orphan, users>>
    /\ Record \/ Unrecorded

\* spawn_appliance(); the machine writes to its disk, which the markers then no longer fit.
Spawn ==
    /\ boot = "spawn"
    /\ \/ /\ own' = TRUE /\ boot' = "wait" /\ Going
          /\ marker' = [marker EXCEPT !.fits = FALSE] /\ previous' = [previous EXCEPT !.fits = FALSE]
       \/ GiveUp /\ UNCHANGED <<own, marker, previous>>
    /\ UNCHANGED <<runs, overlay, prepared, died, orphan, live, active, unsure>>

\* The guest answers.  If it does not in time, or its process ends, the process is killed
\* and another accelerator tried.
Boots ==
    /\ boot = "wait"
    /\ \/ boot' = "idle" /\ Going /\ UNCHANGED <<own, overlay>>
       \/ /\ own' = FALSE /\ MachineEnded
          /\ \/ GiveUp
             \/ boot' = "spawn" /\ Going
    /\ UNCHANGED <<runs, marker, previous, prepared, died, orphan, live, active, unsure>>

-----------------------------------------------------------------------------
(* Commands on containers                                                    *)

\* container_action() takes its lease.
Lease(c) ==
    /\ app = "up" /\ reclaim = "none" /\ lease[c] = "none"
    /\ lease' = [lease EXCEPT ![c] = "held"]
    /\ UNCHANGED <<runs, disk, prepared, own, died, orphan, boot, live, active, reclaim, unsure>>

Ready == own /\ boot = "idle"

\* A container counts as active before it is started: an answer that is lost may have
\* started it.  The lease is held until the guest has answered or is given up.
MarkActive(c) ==
    /\ lease[c] = "held" /\ Ready
    /\ active' = active \cup {c} /\ lease' = [lease EXCEPT ![c] = "sent"]
    /\ UNCHANGED <<runs, disk, prepared, own, died, orphan, boot, live, reclaim, unsure>>

\* The guest starts it or not, and the request is answered; it fails if there is no guest.
StartContainer(c) ==
    /\ lease[c] = "sent"
    /\ lease' = [lease EXCEPT ![c] = "none"]
    /\ \/ UNCHANGED live
       \/ Ready /\ live' = live \cup {c}
    /\ UNCHANGED <<runs, disk, prepared, own, died, orphan, boot, active, reclaim, unsure>>

\* A stop that is answered clears the mark; delete_container() does the same.
StopContainer(c) ==
    /\ lease[c] = "held" /\ Ready
    /\ lease' = [lease EXCEPT ![c] = "none"]
    /\ \/ live' = live \ {c} /\ active' = active \ {c}
       \/ live' = live \ {c} /\ UNCHANGED active
    /\ UNCHANGED <<runs, disk, prepared, own, died, orphan, boot, reclaim, unsure>>

\* External: a container ends by itself.
ContainerExits(c) ==
    /\ c \in live
    /\ live' = live \ {c}
    /\ UNCHANGED <<runs, disk, prepared, own, died, orphan, boot, active, lease, reclaim, unsure>>

-----------------------------------------------------------------------------
(* reclaim_container_storage()                                               *)

\* Variant: the lease is not exclusive.
ReclaimShared ==
    /\ app = "up" /\ reclaim = "none" /\ overlay # NoDisk /\ boot = "idle"
    /\ reclaim' = "trim"
    /\ UNCHANGED <<runs, disk, prepared, own, died, orphan, boot, live, active, lease, unsure>>

\* appliance_operations is held for writing.
Reclaim ==
    /\ app = "up" /\ reclaim = "none" /\ overlay # NoDisk /\ lease = NoLease /\ boot = "idle"
    /\ reclaim' = "trim"
    /\ UNCHANGED <<runs, disk, prepared, own, died, orphan, boot, live, active, lease, unsure>>

\* The agent trims and tells whether a container runs; if none does, marks of those that
\* ended by themselves are cleared, and the disk is compacted.
Trim ==
    /\ reclaim = "trim" /\ Ready
    /\ IF live = {} THEN reclaim' = "stop" /\ active' = {}
       ELSE reclaim' = "none" /\ UNCHANGED active
    /\ UNCHANGED <<runs, disk, prepared, own, died, orphan, boot, live, lease, unsure>>

\* compact_idle_appliance(): the machine ends well by itself, or it is not touched; one
\* that has died before is taken from the table.
StopIdle ==
    /\ reclaim = "stop"
    /\ UNCHANGED <<runs, overlay, prepared, orphan, boot, active, lease>>
    /\ \/ /\ own /\ active = {}
          /\ own' = FALSE /\ live' = {} /\ reclaim' = "replace"
          /\ Record /\ UNCHANGED died
       \/ /\ died /\ active = {}
          /\ died' = FALSE /\ reclaim' = "replace"
          /\ UNCHANGED <<own, live>> /\ Unrecorded
       \/ reclaim' = "none" /\ UNCHANGED <<own, died, live>> /\ Unrecorded

\* The compacted copy has been checked and compared with the disk and takes its place at
\* once; the marker follows, or the disk stays as it is.
Replace ==
    /\ reclaim = "replace"
    /\ reclaim' = "none"
    /\ \/ UNCHANGED <<disk, unsure>>
       \/ /\ overlay' = [overlay EXCEPT !.sound = TRUE]
          /\ \/ Record
             \/ marker' = [marker EXCEPT !.fits = FALSE] /\ previous' = NoMarker /\ UNCHANGED unsure
    /\ UNCHANGED <<runs, prepared, own, died, orphan, boot, live, active, lease>>

Boot == Endpoint \/ CheckExternal \/ Prepare \/ Create \/ Mark \/ Commit \/ GrowDisk \/ Spawn \/ Boots

ApplianceNext ==
    \/ LaunchRun \/ Update \/ Shutdown \/ Crash \/ OrphanEnds \/ ProcessDies \/ Boot
    \/ \E c \in Container : Lease(c) \/ MarkActive(c) \/ StartContainer(c) \/ StopContainer(c) \/ ContainerExits(c)
    \/ Reclaim \/ Trim \/ StopIdle \/ Replace

ApplianceSpec == ApplianceInit /\ [][ApplianceNext]_applianceVars

-----------------------------------------------------------------------------

\* A disk that a process of an earlier run has open is neither started again nor
\* prepared, grown or compacted (check_external_appliance in runtime/recovery.rs and
\* its callers).
OneOwner == orphan => ~own /\ ~died /\ boot \in {"idle", "external"} /\ reclaim # "replace"

\* The machine never runs on an overlay of another base, however the application was
\* killed and updated in between (prepare_appliance_overlay_once and the order in which
\* write_appliance_marker moves its files in runtime/appliance.rs).
BaseMatches == own => overlay.base = base

\* A marker that spares the overlay its check tells the truth, whatever ended the
\* application and whenever: the overlay was left well or has been checked, unless a run
\* recorded it without a look after its machine had died or been killed (shutdown_all in
\* runtime/mod.rs, prepare_appliance_overlay_once in runtime/appliance.rs).
MarkerIsTrue == overlay # NoDisk /\ KnownMarker.fits /\ ~own /\ ~orphan => overlay.sound \/ unsure

\* Reclaiming space never ends a machine in which a container runs (the exclusive lease
\* and active_containers, runtime/storage_reclaim.rs).
ReclaimSparesContainers == [][reclaim = "stop" /\ reclaim' = "replace" => live = {}]_applianceVars
=============================================================================
