------------------------------ MODULE FileImport ------------------------------
(* Copies of host files into an environment: the plan and the copy of a source  *)
(* that other programs may change meanwhile (file_import.rs, file_import/       *)
(* drive.rs, runtime/file_import.rs), and the imported drives of a full virtual *)
(* machine (runtime/import_drive.rs). One source file of one or two units       *)
(* stands for the plan; a drive is a file that is connected (.img) or kept      *)
(* aside (.detached).                                                           *)
EXTENDS Naturals, Sequences, FiniteSets

CONSTANTS
    Drive,        \* transfer identifiers
    MaxDrives,    \* connected drives of one machine: 12 in the code
    MaxChanges,   \* bound: edits of the source
    MaxCrashes    \* bound: crashes of the application

VARIABLES
    origin,       \* the source file: [edit, size]
    plan,         \* what scan_copy() recorded of it
    taken,        \* the edit each copied unit came from
    copying,      \* copy_files(): "idle", "scanned", "reading", "read", "staged" or "done"
    toDrive,      \* the copy is for a full virtual machine
    drive,        \* Drive -> "none", "img" or "detached"
    vm,           \* QEMU: "off", "managed", or "orphan" after a crash of the application
    atWork,       \* the stored status says Running
    using,        \* drives QEMU has open
    vmCrashes

importVars == <<origin, plan, taken, copying, toDrive, drive, vm, atWork, using, vmCrashes>>

Connected == {d \in Drive : drive[d] = "img"}
Version == [edit : 0..MaxChanges, size : 1..2]

ImportType ==
    /\ origin \in Version /\ plan \in Version /\ taken \in Seq(0..MaxChanges)
    /\ copying \in {"idle", "scanned", "reading", "read", "staged", "done"}
    /\ toDrive \in BOOLEAN /\ drive \in [Drive -> {"none", "img", "detached"}]
    /\ vm \in {"off", "managed", "orphan"} /\ atWork \in BOOLEAN /\ using \subseteq Drive
    /\ vmCrashes \in 0..MaxCrashes

ImportInit ==
    /\ origin = [edit |-> 0, size |-> 2] /\ plan = origin /\ taken = <<>>
    /\ copying = "idle" /\ toDrive = FALSE /\ drive = [d \in Drive |-> "none"]
    /\ vm = "off" /\ atWork = FALSE /\ using = {} /\ vmCrashes = 0

Copying(stage) == copying = stage /\ UNCHANGED <<drive, vm, atWork, using, vmCrashes>>

\* Another program writes the source: its length and modification time change with it.
ChangeSource(size) ==
    /\ origin.edit < MaxChanges /\ origin' = [edit |-> origin.edit + 1, size |-> size]
    /\ UNCHANGED <<plan, taken, copying, toDrive, drive, vm, atWork, using, vmCrashes>>

\* copy_files() takes the lock of the environment, which must be running, and scans.
ScanCopy ==
    /\ Copying("idle") /\ atWork /\ copying' = "scanned" /\ plan' = origin /\ taken' = <<>>
    /\ toDrive' \in BOOLEAN /\ UNCHANGED origin

\* open_source(): the file must still be the one of the plan.
OpenSource ==
    /\ Copying("scanned") /\ copying' = IF origin = plan THEN "reading" ELSE "idle"
    /\ UNCHANGED <<origin, plan, taken, toDrive>>

\* The copy reads at most the planned length, and less if the file has become shorter.
ReadSource ==
    /\ Copying("reading")
    /\ IF Len(taken) < plan.size /\ Len(taken) < origin.size
       THEN taken' = Append(taken, origin.edit) /\ UNCHANGED copying
       ELSE copying' = "read" /\ UNCHANGED taken
    /\ UNCHANGED <<origin, plan, toDrive>>

\* write_drive() compares the length itself; an archive is written as it is, what is
\* missing of a block filled with zeros.
Short == Len(taken) < plan.size

WriteCopy ==
    /\ Copying("read") /\ copying' = IF toDrive /\ Short THEN "idle" ELSE "staged"
    /\ UNCHANGED <<origin, plan, taken, toDrive>>

\* import_file_archive(): the guest must confirm the number of bytes that the headers
\* planned.  It does so for a short source too, if what it lacks lies within a padded block,
\* the blocks at the end of the archive or the header of a folder.
DeliverArchive ==
    /\ Copying("staged") /\ ~toDrive
    /\ \/ vm = "managed" /\ copying' = "done"
       \/ (vm # "managed" \/ Short) /\ copying' = "idle"
    /\ UNCHANGED <<origin, plan, taken, toDrive>>

NextCopy ==
    /\ Copying("done") /\ copying' = "idle" /\ UNCHANGED <<origin, plan, taken, toDrive>>

\* attach_import_drive(): the image is moved into place before QEMU is told of it; an
\* unanswered command may have attached it and leaves the image for the next boot.
AttachDrive(d) ==
    /\ copying = "staged" /\ toDrive /\ copying' = "done"
    /\ drive[d] = "none" /\ vm = "managed" /\ Cardinality(Connected) < MaxDrives
    /\ drive' = [drive EXCEPT ![d] = "img"]
    /\ using' = using \cup {d} \/ UNCHANGED using
    /\ UNCHANGED <<origin, plan, taken, toDrive, vm, atWork, vmCrashes>>

AttachRefused ==
    /\ Copying("staged") /\ toDrive /\ copying' = "idle"
    /\ vm # "managed" \/ Cardinality(Connected) >= MaxDrives
    /\ UNCHANGED <<origin, plan, taken, toDrive>>

\* A copy keeps the lock of the environment: starts and changes of drives wait for it.
Free == copying \in {"idle", "done"}
Moves == /\ Free /\ UNCHANGED <<origin, plan, taken, copying, toDrive, vmCrashes>>

\* Variant: only the machines of this process are looked at.
SetAttachedUnchecked(d, attached) ==
    /\ Moves /\ ~atWork /\ vm # "managed"
    /\ drive[d] = IF attached THEN "detached" ELSE "img"
    /\ attached => Cardinality(Connected) < MaxDrives
    /\ drive' = [drive EXCEPT ![d] = IF attached THEN "img" ELSE "detached"]
    /\ UNCHANGED <<vm, atWork, using>>

\* set_import_drive_attached(): the machine is stopped, also by what the recovery finds
\* of another process.
SetAttached(d, attached) ==
    /\ Moves /\ ~atWork /\ vm = "off"
    /\ drive[d] = IF attached THEN "detached" ELSE "img"
    /\ attached => Cardinality(Connected) < MaxDrives
    /\ drive' = [drive EXCEPT ![d] = IF attached THEN "img" ELSE "detached"]
    /\ UNCHANGED <<vm, atWork, using>>

\* drive_arguments(): a boot opens every connected drive.
StartVm ==
    /\ Moves /\ vm = "off" /\ vm' = "managed" /\ atWork' = TRUE /\ using' = Connected
    /\ UNCHANGED drive

StopVm ==
    /\ Moves /\ vm \in {"managed", "off"} /\ atWork /\ vm' = "off" /\ atWork' = FALSE
    /\ using' = {} /\ UNCHANGED drive

\* The guest shuts itself down, with or without the application; the status follows later.
GuestEnds ==
    /\ vm # "off" /\ vm' = "off" /\ using' = {}
    /\ UNCHANGED <<origin, plan, taken, copying, toDrive, drive, atWork, vmCrashes>>

\* The application is killed: QEMU lives on, the start of the next one stores Stopped.
CrashApplication ==
    /\ vmCrashes < MaxCrashes /\ vmCrashes' = vmCrashes + 1 /\ copying' = "idle"
    /\ vm' = IF vm = "managed" THEN "orphan" ELSE vm
    /\ atWork' = FALSE /\ UNCHANGED <<origin, plan, taken, toDrive, drive, using>>

ImportNext ==
    \/ \E size \in 1..2 : ChangeSource(size)
    \/ ScanCopy \/ OpenSource \/ ReadSource \/ WriteCopy \/ DeliverArchive \/ NextCopy
    \/ \E d \in Drive : AttachDrive(d) \/ \E a \in BOOLEAN : SetAttached(d, a)
    \/ AttachRefused \/ StartVm \/ StopVm \/ GuestEnds \/ CrashApplication

ImportSpec == ImportInit /\ [][ImportNext]_importVars

\* There are finitely many drives, and the limits are numbers.
ImportConstants ==
    IsFiniteSet(Drive) /\ MaxDrives \in Nat /\ MaxChanges \in Nat /\ MaxCrashes \in Nat
-------------------------------------------------------------------------------
(* A copy that is reported as done has every planned byte of the source, also    *)
(* when the source became shorter between the plan, the opening and the reading. *)
(* Only an archive can lack some (write_archive() compares nothing), and only    *)
(* if the source was changed after open_source() had compared it with the plan.  *)
CopyWhole == copying = "done" /\ Short => ~toDrive /\ origin # plan

(* No drive is renamed under a QEMU that has it open, be it the machine of this *)
(* process, one that outlived a crash, or one whose attach was never confirmed. *)
InUseKept == using \subseteq Connected

(* A machine never boots with more drives than its controller takes, however    *)
(* copies, unconfirmed attaches, and drives put back were ordered.              *)
DrivesBounded == Cardinality(Connected) <= MaxDrives
===============================================================================
