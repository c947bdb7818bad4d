----------------------------- MODULE FactoryReset -----------------------------
(***************************************************************************)
(* The storage of one environment from its creation to its deletion:       *)
(* create_on_graph (commands/vm_creation.rs), factory_reset_environment    *)
(* (commands/factory_reset.rs), delete_environment (commands.rs) and what  *)
(* start-up makes of an interrupted one (lib.rs).                          *)
(*                                                                         *)
(* A generation is a runtime_id: the name of one disk or container.  A     *)
(* reset prepares a fresh generation, switches the environment to it and   *)
(* erases the old one, and the journal pending_factory_resets says at any  *)
(* time which inactive generation may be erased.  Generations are numbered *)
(* in the order in which they are named, as no identifier is used twice.   *)
(*                                                                         *)
(* A save of the platform state either happens or fails as a whole (see    *)
(* AtomicStore).  Memory and disk differ only in the status, the one field *)
(* of these that mutate_ephemeral changes; every later save writes it.     *)
(* The environment lock is held by the operations, and a creation keeps    *)
(* the others out by its status, so there is one operation at a time.      *)
(***************************************************************************)
EXTENDS Naturals, FiniteSets

CONSTANTS
    Snap,       \* identifiers of snapshots
    Vm,         \* TRUE for QEMU machines, FALSE for containers
    Fallible,   \* what may go wrong
    MaxGen,     \* bound on the generations named
    MaxFaults   \* bound on the number of faults

None == 0

Faults == {"provision", "erase", "store", "start", "stop", "discard", "crash"}

ASSUME ConstantsAssumption ==
    /\ Vm \in BOOLEAN
    /\ Fallible \subseteq Faults
    /\ MaxGen \in Nat
    /\ MaxFaults \in Nat

VARIABLES
    gen,        \* the runtime_id of the environment, None if there is none
    status,     \* its status in memory
    saved,      \* its status in the state file
    journal,    \* pending_factory_resets
    snaps,      \* the snapshots the state lists
    disks,      \* the generations that take up storage
    images,     \* the snapshot artifacts that take up storage
    guest,      \* the generation that is running, or None
    handle,     \* the runtime manager holds the process of the guest
    taking,     \* the artifact a snapshot has made and not yet listed, as a set
    stray,      \* history: artifacts of snapshots that were broken off
    last,       \* the last generation that was named
    pc,         \* the next step of the operation in progress
    caller,     \* who called cleanup_pending
    todo,       \* the journal entries it has yet to process
    seen,       \* one of them was committed
    fresh,      \* the generation a reset prepares
    owed,       \* history: a reset switched over and was not reported done, and
                \* the disk has been neither used nor given up since
    faults

state   == <<gen, status, saved, journal, snaps>>
storage == <<disks, images, guest, handle>>
taken   == <<taking, stray>>
cleanup == <<caller, todo, seen>>
vars    == <<state, storage, taken, last, pc, cleanup, fresh, owed, faults>>

Status == {"none", "provisioning", "stopped", "running", "error"}
Entry  == [gen : Nat, committed : BOOLEAN, snaps : SUBSET Snap]

CleanupSteps == {"clean", "erase", "retire", "forget"}

TypeOK ==
    /\ gen \in Nat
    /\ status \in Status
    /\ saved \in Status
    /\ journal \in SUBSET Entry
    /\ snaps \in SUBSET Snap
    /\ disks \in SUBSET Nat
    /\ images \in SUBSET Snap
    /\ guest \in Nat
    /\ handle \in BOOLEAN
    /\ taking \in SUBSET Snap
    /\ stray \in SUBSET Snap
    /\ last \in Nat
    /\ pc \in {"down", "idle", "provision", "created", "incomplete", "check", "journal",
               "prepare", "switch", "fail", "finish", "recover", "remove", "drop", "list"}
              \cup CleanupSteps
    /\ caller \in {"none", "reset", "failed", "switched", "delete"}
    /\ todo \in SUBSET Entry
    /\ seen \in BOOLEAN
    /\ fresh \in Nat
    /\ owed \in BOOLEAN
    /\ faults \in Nat

Init ==
    /\ gen = None /\ status = "none" /\ saved = "none"
    /\ journal = {} /\ snaps = {} /\ disks = {} /\ images = {}
    /\ guest = None /\ handle = FALSE
    /\ taking = {} /\ stray = {}
    /\ last = 0
    /\ pc = "down"
    /\ caller = "none" /\ todo = {} /\ seen = FALSE
    /\ fresh = None
    /\ owed = FALSE
    /\ faults = 0

Goto(step) == pc' = step /\ UNCHANGED faults

\* A fault of some kind takes the operation to another step.
FailTo(kind, step) ==
    /\ kind \in Fallible /\ faults < MaxFaults
    /\ faults' = faults + 1
    /\ pc' = step

\* A save writes the status as it is in memory.
Save(s) == status' = s /\ saved' = s

\* Removing a generation ends the guest that runs on it, if the guest is known.
Erase(g) ==
    /\ disks' = disks \ {g}
    /\ IF guest = g /\ (handle \/ ~Vm)
       THEN guest' = None /\ handle' = FALSE
       ELSE UNCHANGED <<guest, handle>>

-----------------------------------------------------------------------------
(* create_on_graph.                                                        *)

Create ==
    /\ pc = "idle" /\ gen = None /\ last < MaxGen
    /\ gen' = last + 1
    /\ last' = last + 1
    /\ Save("provisioning")
    /\ Goto("provision")
    /\ UNCHANGED <<journal, snaps, storage, taken, cleanup, fresh, owed>>

Provision ==
    /\ pc = "provision"
    /\ disks' = disks \cup {gen}
    /\ Goto("created")
    /\ UNCHANGED <<state, images, guest, handle, last, taken, cleanup, fresh, owed>>

\* A provider that fails may leave something behind.
ProvisionFails ==
    /\ pc = "provision" /\ FailTo("provision", "incomplete")
    /\ disks' \in {disks, disks \cup {gen}}
    /\ UNCHANGED <<state, images, guest, handle, last, taken, cleanup, fresh, owed>>

CreateEnds ==
    /\ pc \in {"created", "incomplete"}
    /\ Save(IF pc = "created" THEN "stopped" ELSE "error")
    /\ Goto("idle")
    /\ UNCHANGED <<gen, journal, snaps, storage, last, taken, cleanup, fresh, owed>>

\* Variant of CreateEndsUnsaved that leaves the status as it is.
CreateEndsUnnoticed ==
    /\ pc \in {"created", "incomplete"} /\ FailTo("store", "idle")
    /\ UNCHANGED <<state, storage, last, taken, cleanup, fresh, owed>>

\* The result cannot be saved: the error is shown all the same.
CreateEndsUnsaved ==
    /\ pc \in {"created", "incomplete"} /\ FailTo("store", "idle")
    /\ status' = "error"
    /\ UNCHANGED <<gen, saved, journal, snaps, storage, last, taken, cleanup, fresh, owed>>

-----------------------------------------------------------------------------
(* cleanup_pending, called by a reset at three points and by a deletion.   *)

\* The entries are read once, with whether one of them was committed.
Cleanup(who, entries) ==
    /\ caller' = who
    /\ todo' = entries
    /\ seen' = \E e \in entries : e.committed

AfterCleanup ==
    CASE caller = "reset"    -> IF seen THEN "finish" ELSE "check"
      [] caller = "failed"   -> "fail"
      [] caller = "switched" -> "finish"
      [] caller = "delete"   -> "remove"

\* Where each caller goes with an error.
CleanupError ==
    CASE caller = "reset"                -> "recover"
      [] caller \in {"failed", "switched"} -> "fail"
      [] caller = "delete"               -> "idle"

CleanupDone ==
    /\ pc = "clean" /\ todo = {}
    /\ Goto(AfterCleanup)
    /\ UNCHANGED <<state, storage, last, taken, cleanup, fresh, owed>>

\* The entry in hand: entries are processed one after the other.
Current == CHOOSE e \in todo : TRUE

\* validate_cleanup: the active generation is never erased.
Validate ==
    /\ pc = "clean" /\ todo # {}
    /\ Goto(IF Current.gen = gen THEN CleanupError ELSE "erase")
    /\ UNCHANGED <<state, storage, last, taken, cleanup, fresh, owed>>

EraseSnapshots ==
    /\ pc = "erase"
    /\ images' = images \ Current.snaps
    /\ Goto("retire")
    /\ UNCHANGED <<state, disks, guest, handle, last, taken, cleanup, fresh, owed>>

\* Variant of Retire that erases the environment it was called for.
RetireEnvironment ==
    /\ pc = "retire"
    /\ Erase(gen)
    /\ Goto("forget")
    /\ UNCHANGED <<state, images, last, taken, cleanup, fresh, owed>>

Retire ==
    /\ pc = "retire"
    /\ Erase(Current.gen)
    /\ Goto("forget")
    /\ UNCHANGED <<state, images, last, taken, cleanup, fresh, owed>>

Forget ==
    /\ pc = "forget"
    /\ journal' = {e \in journal : e.gen # Current.gen}
    /\ saved' = status
    /\ todo' = todo \ {Current}
    /\ Goto("clean")
    /\ UNCHANGED <<gen, status, snaps, storage, last, taken, caller, seen, fresh, owed>>

\* A removal fails, some snapshots being gone, or the entry cannot be struck out.
CleanupFails ==
    /\ \/ pc = "erase" /\ FailTo("erase", CleanupError)
          /\ \E gone \in SUBSET Current.snaps : images' = images \ gone
       \/ pc = "retire" /\ FailTo("erase", CleanupError) /\ UNCHANGED images
       \/ pc = "forget" /\ FailTo("store", CleanupError) /\ UNCHANGED images
    /\ UNCHANGED <<state, disks, guest, handle, last, taken, cleanup, fresh, owed>>

-----------------------------------------------------------------------------
(* factory_reset_environment.                                              *)

\* Only a stopped or failed environment, and what an earlier reset left first.
BeginReset ==
    /\ pc = "idle" /\ gen # None /\ status \in {"stopped", "error"}
    /\ last < MaxGen
    /\ Cleanup("reset", journal)
    /\ Goto("clean")
    /\ UNCHANGED <<state, storage, last, taken, fresh, owed>>

\* Variant of CheckGuest that relies on the status alone.
CheckNothing ==
    /\ pc = "check"
    /\ Goto("journal")
    /\ UNCHANGED <<state, storage, last, taken, cleanup, fresh, owed>>

\* A machine whose process is known must not be running, whatever its status says.
CheckGuest ==
    /\ pc = "check"
    /\ Goto(IF Vm /\ handle /\ guest = gen THEN "recover" ELSE "journal")
    /\ UNCHANGED <<state, storage, last, taken, cleanup, fresh, owed>>

\* Variant of JournalFresh that prepares the generation without recording it.
JournalNothing ==
    /\ pc = "journal"
    /\ last' = last + 1
    /\ fresh' = last + 1
    /\ Save("provisioning")
    /\ Goto("prepare")
    /\ UNCHANGED <<gen, journal, snaps, storage, taken, cleanup, owed>>

\* The fresh generation is in the journal before it exists.
JournalFresh ==
    /\ pc = "journal"
    /\ last' = last + 1
    /\ fresh' = last + 1
    /\ journal' = journal \cup {[gen |-> last + 1, committed |-> FALSE, snaps |-> {}]}
    /\ Save("provisioning")
    /\ Goto("prepare")
    /\ UNCHANGED <<gen, snaps, storage, taken, cleanup, owed>>

\* provision_reset_*: from the original image, with the old disk to go by.
Prepare ==
    /\ pc = "prepare" /\ gen \in disks
    /\ disks' = disks \cup {fresh}
    /\ Goto("switch")
    /\ UNCHANGED <<state, images, guest, handle, last, taken, cleanup, fresh, owed>>

\* The preparation fails, or there is no old disk: what there is of it is erased.
PrepareFails ==
    /\ pc = "prepare"
    /\ \/ gen \notin disks /\ Goto("clean") /\ UNCHANGED disks
       \/ FailTo("provision", "clean") /\ disks' \in {disks, disks \cup {fresh}}
    /\ Cleanup("failed", journal)
    /\ UNCHANGED <<state, images, guest, handle, last, taken, fresh, owed>>

\* What the state is after the switch.
Retired == [gen |-> gen, committed |-> TRUE, snaps |-> snaps]

\* One save switches the generation and journals the old one with its snapshots.
Switch ==
    /\ pc = "switch"
    /\ journal' = {Retired}
    /\ snaps' = {}
    /\ gen' = fresh
    /\ saved' = status
    /\ owed' = TRUE
    /\ Cleanup("switched", {Retired})
    /\ Goto("clean")
    /\ UNCHANGED <<status, storage, last, taken, fresh>>

\* finish_state.
Finish ==
    /\ pc = "finish"
    /\ Save("stopped")
    /\ owed' = FALSE
    /\ fresh' = None
    /\ Goto("idle")
    /\ UNCHANGED <<gen, journal, snaps, storage, last, taken, cleanup>>

\* Nothing was replaced, or the old data is not all gone.
Fail ==
    /\ pc = "fail"
    /\ Save("error")
    /\ Goto("recover")
    /\ UNCHANGED <<gen, journal, snaps, storage, last, taken, cleanup, fresh, owed>>

\* One of the saves of a reset fails.
SaveFails ==
    /\ pc \in {"journal", "switch", "fail", "finish"}
    /\ FailTo("store", "recover")
    /\ UNCHANGED <<state, storage, last, taken, cleanup, fresh, owed>>

\* recover_interrupted, and the way out of a status that nothing would change.
Recovered == IF journal # {} \/ status = "provisioning" THEN "error" ELSE status

\* Variant of Recover that leaves the status to the next start.
RecoverNothing ==
    /\ pc = "recover"
    /\ Goto("idle")
    /\ saved' = status
    /\ fresh' = None
    /\ UNCHANGED <<gen, status, journal, snaps, storage, last, taken, cleanup, owed>>

\* What the command does with an error: in the file, or else in memory.
Recover ==
    /\ pc = "recover"
    /\ status' = Recovered
    /\ \/ Goto("idle") /\ saved' = Recovered
       \/ FailTo("store", "idle") /\ UNCHANGED saved
    /\ fresh' = None
    /\ UNCHANGED <<gen, journal, snaps, storage, last, taken, cleanup, owed>>

-----------------------------------------------------------------------------
(* delete_environment.                                                     *)

BeginDelete ==
    /\ pc = "idle" /\ gen # None
    /\ Cleanup("delete", journal)
    /\ owed' = FALSE
    /\ Goto("clean")
    /\ UNCHANGED <<state, storage, last, taken, fresh>>

\* Refused while the environment is being created.
Remove ==
    /\ pc = "remove"
    /\ IF status = "provisioning"
       THEN Goto("idle") /\ UNCHANGED storage
       ELSE Goto("drop") /\ images' = images \ snaps /\ Erase(gen)
    /\ UNCHANGED <<state, last, taken, cleanup, fresh, owed>>

\* A removal fails: the environment is kept for another try.
RemoveFails ==
    /\ pc = "remove" /\ status # "provisioning" /\ FailTo("erase", "idle")
    /\ \E gone \in SUBSET snaps : images' = images \ gone
    /\ UNCHANGED <<state, disks, guest, handle, last, taken, cleanup, fresh, owed>>

Drop ==
    /\ pc = "drop"
    /\ gen' = None
    /\ snaps' = {}
    /\ Save("none")
    /\ Goto("idle")
    /\ UNCHANGED <<journal, storage, last, taken, cleanup, fresh, owed>>

DropFails ==
    /\ pc = "drop" /\ FailTo("store", "idle")
    /\ UNCHANGED <<state, storage, last, taken, cleanup, fresh, owed>>

-----------------------------------------------------------------------------
(* The power state and the snapshots of the environment, as far as they    *)
(* meet its storage, and the application itself.                           *)

\* set_environment_status to Running, of an environment with nothing pending.
Start ==
    /\ pc = "idle" /\ gen # None /\ journal = {}
    /\ status \in {"stopped", "error"}
    /\ \/ /\ gen \in disks /\ guest = None
          /\ guest' = gen /\ handle' = TRUE
          /\ Save("running")
          /\ owed' = FALSE
          /\ Goto("idle")
       \/ /\ gen \notin disks \/ guest # None
          /\ Save("error")
          /\ Goto("idle")
          /\ UNCHANGED <<guest, handle, owed>>
       \/ /\ FailTo("start", "idle")
          /\ Save("error")
          /\ UNCHANGED <<guest, handle, owed>>
    /\ UNCHANGED <<gen, journal, snaps, disks, images, last, taken, cleanup, fresh>>

\* A start that fails, or whose result cannot be saved, leaves its guest behind: a
\* container whose request timed out, or a rollback that failed as well.
StartLeavesGuest ==
    /\ pc = "idle" /\ gen # None /\ journal = {}
    /\ status \in {"stopped", "error"}
    /\ gen \in disks /\ guest = None
    /\ guest' = gen /\ handle' = TRUE
    /\ owed' = FALSE
    /\ \/ ~Vm /\ FailTo("start", "idle") /\ Save("error")
       \/ FailTo("store", "idle") /\ UNCHANGED <<status, saved>>
    /\ UNCHANGED <<gen, journal, snaps, disks, images, last, taken, cleanup, fresh>>

\* set_environment_status to Stopped.  A machine another session left behind
\* cannot be stopped, and the error is recorded.
Stop ==
    /\ pc = "idle" /\ gen # None /\ status \in {"running", "error"}
    /\ IF Vm /\ guest # None /\ ~handle
       THEN Save("error") /\ UNCHANGED <<guest, handle>>
       ELSE Save("stopped") /\ IF guest = gen THEN guest' = None /\ handle' = FALSE
                                              ELSE UNCHANGED <<guest, handle>>
    /\ Goto("idle")
    /\ UNCHANGED <<gen, journal, snaps, disks, images, last, taken, cleanup, fresh, owed>>

\* The guest does not stop, or it does and that cannot be saved.
StopFails ==
    /\ pc = "idle" /\ gen # None /\ status \in {"running", "error"}
    /\ \/ FailTo("stop", "idle") /\ Save("error") /\ UNCHANGED <<guest, handle>>
       \/ /\ FailTo("store", "idle") /\ UNCHANGED <<status, saved>>
          /\ guest = gen /\ guest' = None /\ handle' = FALSE
    /\ UNCHANGED <<gen, journal, snaps, disks, images, last, taken, cleanup, fresh, owed>>

\* The guest shuts down or dies by itself.
GuestExits ==
    /\ guest # None
    /\ guest' = None /\ handle' = FALSE
    /\ UNCHANGED <<state, disks, images, last, taken, pc, cleanup, fresh, owed, faults>>

\* refresh_host_metrics finds the guest gone and says so in memory.  A machine
\* that a backup stops for a while and starts again may be taken for stopped.
Refresh ==
    /\ pc # "down" /\ status = "running"
    /\ \/ Vm /\ status' = "stopped"
       \/ guest = None /\ status' = "error"
    /\ UNCHANGED <<gen, saved, journal, snaps, storage, last, taken, pc, cleanup, fresh, owed, faults>>

\* create_snapshot and run_backup, of an environment with nothing pending: the
\* artifact is written first.
TakeSnapshot(s) ==
    /\ pc = "idle" /\ gen \in disks /\ journal = {} /\ status # "provisioning"
    /\ s \notin images
    /\ images' = images \cup {s}
    /\ taking' = {s}
    /\ Goto("list")
    /\ UNCHANGED <<state, disks, guest, handle, last, stray, cleanup, fresh, owed>>

\* The record of the snapshot is saved.
ListSnapshot ==
    /\ pc = "list"
    /\ snaps' = snaps \cup taking
    /\ taking' = {}
    /\ saved' = status
    /\ Goto("idle")
    /\ UNCHANGED <<gen, status, journal, storage, last, stray, cleanup, fresh, owed>>

\* The save fails and the artifact is taken back, unless that fails as well.
ListFails ==
    /\ pc = "list" /\ FailTo("store", "idle")
    /\ \/ images' = images \ taking /\ UNCHANGED stray
       \/ "discard" \in Fallible /\ stray' = stray \cup taking /\ UNCHANGED images
    /\ taking' = {}
    /\ UNCHANGED <<state, disks, guest, handle, last, cleanup, fresh, owed>>

\* The application ends at any point; a guest may go on without it.
Crash ==
    /\ pc # "down" /\ FailTo("crash", "down")
    /\ guest' \in {None, guest}
    /\ handle' = FALSE
    /\ caller' = "none" /\ todo' = {} /\ seen' = FALSE
    /\ fresh' = None
    /\ status' = saved
    /\ stray' = stray \cup taking /\ taking' = {}
    /\ UNCHANGED <<gen, saved, journal, snaps, disks, images, last, owed>>

\* The application is closed: shutdown_all ends the guests it knows of.
Quit ==
    /\ pc = "idle"
    /\ IF handle THEN guest' = None /\ handle' = FALSE ELSE UNCHANGED <<guest, handle>>
    /\ caller' = "none" /\ todo' = {} /\ seen' = FALSE
    /\ status' = saved
    /\ Goto("down")
    /\ UNCHANGED <<gen, saved, journal, snaps, disks, images, last, taken, fresh, owed>>

\* The interrupted creation and reset are errors, the rest is not running.
Launch ==
    /\ pc = "down"
    /\ Save(IF gen # None /\ (saved = "provisioning" \/ journal # {}) THEN "error"
            ELSE IF saved = "running" THEN "stopped" ELSE saved)
    /\ Goto("idle")
    /\ UNCHANGED <<gen, journal, snaps, storage, last, taken, cleanup, fresh, owed>>

-----------------------------------------------------------------------------

Creation == Provision \/ CreateEnds
CleanUp  == CleanupDone \/ Validate \/ EraseSnapshots \/ Retire \/ Forget
Snapshot == ListSnapshot
Reset    == CheckGuest \/ JournalFresh \/ Prepare \/ Switch \/ Finish \/ Fail \/ Recover
Deletion == Remove \/ Drop

Step  == Creation \/ CleanUp \/ Reset \/ Deletion \/ Snapshot \/ PrepareFails \/ Launch
Fault == ProvisionFails \/ CreateEndsUnsaved \/ CleanupFails \/ SaveFails \/ RemoveFails
         \/ DropFails \/ StartLeavesGuest \/ StopFails \/ ListFails \/ Crash
User  == Create \/ BeginReset \/ BeginDelete \/ Start \/ Stop \/ Quit
         \/ \E s \in Snap : TakeSnapshot(s)

Next == Step \/ Fault \/ User \/ GuestExits \/ Refresh

\* An operation that was begun goes on; users, guests and faults are free.
Spec == Init /\ [][Next]_vars /\ WF_vars(Step)

-----------------------------------------------------------------------------
(* Properties.                                                             *)

\* Every disk and container that takes up storage is that of the environment or
\* is in the journal of what is to be erased, and so is every artifact of a
\* snapshot but one that was broken off before its record was saved: whatever else
\* is interrupted, nothing is left that no retry removes.
NothingLeaks ==
    /\ disks \subseteq {gen} \cup {e.gen : e \in journal}
    /\ images \subseteq snaps \cup (UNION {e.snaps : e \in journal}) \cup taking \cup stray

\* cleanup_pending and a reset never take the storage of the generation that the
\* environment refers to; only the deletion of the environment does.
ActiveKept ==
    [][\A g \in disks \ disks' : g # gen \/ pc = "remove"]_vars

\* A machine that the application knows of runs on the generation its environment
\* refers to, and not while a reset is unfinished.  A container, whose reset looks
\* at the status alone, may have been left running by a failed stop: it is that of
\* the environment or that of a generation which waits to be erased.
RunsOnActive ==
    handle => IF Vm THEN guest = gen /\ journal = {}
                    ELSE guest \in {gen} \cup {e.gen : e \in journal}

\* An environment with nothing going on is not shown as being provisioned.
NoSpinner == pc = "idle" => status # "provisioning"

\* An interrupted or failed operation does not stay "provisioning" for ever.
SpinnerEnds == status = "provisioning" ~> status # "provisioning"

\* Until a reset that switched over has been reported done, or its disk has been
\* used, asking for it again does not replace the fresh disk by another one.
NotResetTwice == [][owed => gen' \in {gen, None}]_vars

-----------------------------------------------------------------------------
(* The inductive invariant behind the safety properties.                   *)

ErasureSteps == {"erase", "retire", "forget"}

\* Generations are named once; the journal holds at most one, an inactive one.
NamesInv ==
    /\ gen <= last /\ fresh <= last
    /\ disks \subseteq 1..last
    /\ \A e \in journal : e.gen \in 1..last /\ e.gen # gen
    /\ \A e, f \in journal : e = f

\* An environment that is not there has nothing, and nothing is done to it.
AbsenceInv ==
    /\ gen = None => status = "none" /\ saved = "none" /\ journal = {} /\ snaps = {}
                     /\ pc \in {"idle", "down"}

\* What the steps of the operations rely on.
StepInv ==
    /\ pc \in CleanupSteps => todo = journal /\ caller # "none"
    /\ pc \in ErasureSteps => journal # {}
    /\ pc \in {"retire", "forget"} => \A e \in journal : images \cap e.snaps = {}
    /\ pc = "forget" => \A e \in journal : e.gen \notin disks
    /\ pc \in {"provision", "created", "incomplete", "check", "journal", "finish", "remove",
               "drop"} => journal = {}
    /\ pc \in {"prepare", "switch"} =>
           fresh # gen /\ journal = {[gen |-> fresh, committed |-> FALSE, snaps |-> {}]}
    /\ pc = "drop" => disks = {} /\ images \subseteq stray

\* The status that each operation finds and leaves.
StatusInv ==
    /\ (pc \in CleanupSteps /\ caller = "reset") => status \in {"stopped", "error"}
    /\ (pc \in CleanupSteps /\ caller = "delete") => status # "provisioning"
    /\ pc \in {"check", "journal"} => status \in {"stopped", "error"}
    /\ pc \in {"idle", "remove", "drop"} => status # "provisioning"
    /\ (pc \in CleanupSteps /\ caller \in {"failed", "switched"}) => status # "running"
    /\ pc \in {"prepare", "switch", "finish", "fail"} => status # "running"

\* Where a guest may be running, and an artifact unlisted.
GuestInv ==
    /\ handle => guest # None
    /\ pc \in {"down", "drop", "provision", "created", "incomplete"} => ~handle
    /\ (pc = "journal" /\ Vm) => ~handle
    /\ (pc = "forget" /\ handle) => \A e \in journal : guest # e.gen
    /\ taking # {} => pc = "list"
    /\ pc = "list" => journal = {} /\ status # "provisioning" /\ gen # None

\* The storage of an environment is accounted for at every step of every
\* operation on it, and the journal never lists the active generation.
ResetInv ==
    /\ TypeOK /\ NamesInv /\ AbsenceInv /\ StepInv /\ StatusInv /\ GuestInv
    /\ NothingLeaks /\ RunsOnActive

\* While every save succeeds: a switch is followed by its erasure alone.
OwedInv ==
    owed =>
        /\ pc \in {"idle", "down", "fail", "recover", "finish", "list"} \cup CleanupSteps
        /\ (pc \in {"idle", "down", "fail", "recover", "list"} \/ journal # {}) =>
               \E e \in journal : e.committed
        /\ pc \in CleanupSteps => caller = "switched" \/ (caller = "reset" /\ seen)
=============================================================================
