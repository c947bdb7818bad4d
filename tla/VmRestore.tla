------------------------------ MODULE VmRestore ------------------------------
(***************************************************************************)
(* Replacing the disk of one virtual machine by a backup: the commands     *)
(* restore_snapshot and install_restored_backup (commands.rs), the disk    *)
(* transaction of runtime/vm.rs and its resolution when the application    *)
(* starts (lib.rs).                                                        *)
(*                                                                         *)
(* An Image is the content of a disk together with the TPM identity that   *)
(* belongs to it.  The directory of the machine holds the disk, the disk   *)
(* it had before the restore, the disk being converted, the active         *)
(* security profile and the transaction file.  The durable platform state  *)
(* is reduced to the image it describes and the restore intent.  The       *)
(* environment lock is held by every operation, so they do not overlap;    *)
(* crashes and failed calls fall between any two steps.                    *)
(***************************************************************************)
EXTENDS Naturals

CONSTANTS
    Image,      \* contents a disk can have
    NoFile,     \* a file that is not there
    Partial,    \* a conversion that has not ended
    Secured,    \* whether machines and backups carry a TPM identity
    Fallible,   \* what may go wrong
    MaxFaults   \* bound on the number of faults

\* Faults after which the code still recovers, and those after which it may not.
Tolerated == {"store", "convert", "writeTx", "moveOld", "moveNew", "setup",
              "startup", "crash"}
Hostile   == {"reactivate", "security", "rollback", "discard", "finalize"}

\* VmRestoreTransaction.
Transaction == [had : BOOLEAN, prevSec : Image \cup {NoFile}, nextSec : Image \cup {NoFile}]

ASSUME ConstantsAssumption ==
    /\ NoFile \notin Image
    /\ Partial \notin Image
    /\ NoFile # Partial
    /\ \A t \in Transaction : t # NoFile
    /\ Secured \in BOOLEAN
    /\ Fallible \subseteq Tolerated \cup Hostile
    /\ MaxFaults \in Nat

VARIABLES
    disk, previous, temporary,  \* system, before-restore and restore.part .qcow2
    displaced,  \* the disk a rollback has taken out of the way
    sec,        \* the image the active security profile belongs to
    tx,         \* restore-transaction.json, a record or NoFile
    intent,     \* durable: the machine is in pending_vm_restores
    expected,   \* durable: the image the committed environment describes
    running,    \* the machine runs in a process of this application
    orphan,     \* its process of an earlier run of the application: there is
                \* none, it can be found to hold the disk, or it can not
    up,         \* start-up is complete; FALSE while the application starts
    pc,         \* the next step of the operation in progress
    target,     \* the image being restored
    faults      \* how many tolerated and how many hostile faults there were

files == <<disk, previous, temporary, displaced, sec, tx>>
state == <<intent, expected>>
machine == <<running, orphan>>
vars  == <<files, state, machine, up, pc, target, faults>>

\* ensure_no_pending_vm_restore, and has_pending_vm_backup_install.
Blocked == tx # NoFile \/ previous # NoFile
Pending == Blocked \/ temporary # NoFile

\* The profile that belongs to an image; there is none to NoFile.
SecOf(i) == IF Secured THEN i ELSE NoFile

CallSteps     == {"check", "convert", "verify", "writeTx", "moveOld", "moveNew",
                  "security", "setup", "commit"}
UndoSteps     == {"reactivate", "discardTx", "discardTemp", "clear"}
RollbackSteps == {"displace", "restore", "resecure", "cleanTemp", "cleanTx"}
FinalizeSteps == {"finSecurity", "finTemp", "finPrevious", "finTx"}

TypeOK ==
    /\ disk \in {NoFile} \cup Image
    /\ previous \in {NoFile} \cup Image
    /\ temporary \in {NoFile, Partial} \cup Image
    /\ displaced \in {NoFile} \cup Image
    /\ sec \in {NoFile} \cup Image
    /\ tx \in {NoFile} \cup Transaction
    /\ intent \in BOOLEAN
    /\ expected \in {NoFile} \cup Image
    /\ running \in BOOLEAN
    /\ orphan \in {"none", "holds", "detached"}
    /\ up \in BOOLEAN
    /\ pc \in {"idle", "down", "boot", "replace"} \cup CallSteps \cup UndoSteps
              \cup RollbackSteps \cup FinalizeSteps
    /\ target \in {NoFile} \cup Image
    /\ faults \in [tolerated : Nat, hostile : Nat]
    /\ pc \in {"idle"} \cup CallSteps \cup UndoSteps => up
    /\ pc \in {"down", "boot", "replace"} => ~up
    /\ target = NoFile <=> ~up \/ pc = "idle"

\* A machine with its disk, or no machine yet for a backup of another computer.
Init ==
    /\ expected \in {NoFile} \cup Image
    /\ disk = expected
    /\ sec = SecOf(expected)
    /\ previous = NoFile /\ temporary = NoFile /\ displaced = NoFile /\ tx = NoFile
    /\ intent = FALSE
    /\ running = FALSE
    /\ orphan = "none"
    /\ up = FALSE
    /\ pc = "down"
    /\ target = NoFile
    /\ faults = [tolerated |-> 0, hostile |-> 0]

Goto(step) == pc' = step /\ UNCHANGED <<machine, up, target, faults>>

\* check_external_vm finds the process by its command line or by the file at the
\* path of the disk, as the platform has it: moving that file may hide it.
LosesSight == orphan' \in {orphan} \cup (IF orphan = "holds" THEN {"detached"} ELSE {})

-----------------------------------------------------------------------------
(* install_vm_backup, between the intent and the commit of the state.      *)

\* begin_vm_restore_intent, before anything is looked at.
BeginRestore(i) ==
    /\ pc = "idle"
    /\ i # expected
    /\ intent' = TRUE
    /\ target' = i
    /\ pc' = "check"
    /\ UNCHANGED <<files, expected, machine, up, faults>>

\* A pending transaction or a machine of this application ends the attempt: an
\* orphan is not looked for, and start-up has recorded its machine as stopped.
Check ==
    /\ pc = "check"
    /\ Goto(IF Blocked \/ running THEN "clear" ELSE "convert")
    /\ UNCHANGED <<files, state>>

Convert ==
    /\ pc = "convert"
    /\ temporary' = Partial
    /\ Goto("verify")
    /\ UNCHANGED <<disk, previous, displaced, sec, tx, state>>

Verify ==
    /\ pc = "verify"
    /\ temporary' = target
    /\ Goto("writeTx")
    /\ UNCHANGED <<disk, previous, displaced, sec, tx, state>>

WriteTransaction ==
    /\ pc = "writeTx"
    /\ tx' = [had |-> disk # NoFile, prevSec |-> sec, nextSec |-> SecOf(target)]
    /\ Goto("moveOld")
    /\ UNCHANGED <<disk, previous, temporary, displaced, sec, state>>

MoveOld ==
    /\ pc = "moveOld"
    /\ IF tx.had THEN previous' = disk /\ disk' = NoFile /\ LosesSight
                 ELSE UNCHANGED <<previous, disk, orphan>>
    /\ pc' = "moveNew"
    /\ UNCHANGED <<temporary, displaced, sec, tx, state, running, up, target, faults>>

MoveNew ==
    /\ pc = "moveNew"
    /\ disk' = temporary
    /\ temporary' = NoFile
    /\ Goto("security")
    /\ UNCHANGED <<previous, displaced, sec, tx, state>>

ActivateSecurity ==
    /\ pc = "security"
    /\ sec' = tx.nextSec
    /\ Goto("setup")
    /\ UNCHANGED <<disk, previous, temporary, displaced, tx, state>>

\* What install_restored_backup does with the new disk before it commits.
Setup ==
    /\ pc = "setup"
    /\ Goto("commit")
    /\ UNCHANGED <<files, state>>

\* Variant of Commit that leaves the intent to be cleared later.
CommitKeepingIntent ==
    /\ pc = "commit"
    /\ expected' = target
    /\ Goto("finSecurity")
    /\ UNCHANGED <<files, intent>>

\* One write of the platform state: the environment and the cleared intent.
Commit ==
    /\ pc = "commit"
    /\ expected' = target
    /\ intent' = FALSE
    /\ Goto("finSecurity")
    /\ UNCHANGED files

-----------------------------------------------------------------------------
(* A failed step of install_vm_backup, and what is undone there.           *)

Fails(kind) ==
    /\ kind \in Fallible /\ faults.tolerated + faults.hostile < MaxFaults
    /\ faults' = IF kind \in Hostile THEN [faults EXCEPT !.hostile = @ + 1]
                 ELSE [faults EXCEPT !.tolerated = @ + 1]

\* The conversion or the transaction file fails: the new disk is dropped.
PrepareFails ==
    /\ \/ pc \in {"convert", "verify"} /\ Fails("convert")
       \/ pc = "writeTx" /\ Fails("writeTx")
    /\ pc' = "discardTemp"
    /\ UNCHANGED <<files, state, machine, up, target>>

MoveOldFails ==
    /\ pc = "moveOld" /\ tx.had /\ Fails("moveOld")
    /\ pc' = "discardTx"
    /\ UNCHANGED <<files, state, machine, up, target>>

MoveNewFails ==
    /\ pc = "moveNew" /\ Fails("moveNew")
    /\ pc' = IF tx.had THEN "reactivate" ELSE "discardTx"
    /\ UNCHANGED <<files, state, machine, up, target>>

Reactivate ==
    /\ pc = "reactivate"
    /\ disk' = previous
    /\ previous' = NoFile
    /\ Goto("discardTx")
    /\ UNCHANGED <<temporary, displaced, sec, tx, state>>

\* Both renames failed, or the profile was not activated: the transaction is
\* left in place and the caller goes on to clear the intent.
InstallAbandoned ==
    /\ \/ pc = "reactivate" /\ Fails("reactivate")
       \/ pc = "security" /\ Secured /\ Fails("security")
    /\ pc' = "clear"
    /\ UNCHANGED <<files, state, machine, up, target>>

DiscardTransaction ==
    /\ pc = "discardTx"
    /\ tx' = NoFile
    /\ Goto("discardTemp")
    /\ UNCHANGED <<disk, previous, temporary, displaced, sec, state>>

DiscardTemporary ==
    /\ pc = "discardTemp"
    /\ temporary' = NoFile
    /\ Goto("clear")
    /\ UNCHANGED <<disk, previous, displaced, sec, tx, state>>

\* let _ = remove_file(..): the file stays and the error is not looked at.
DiscardFails ==
    /\ pc \in {"discardTx", "discardTemp"} /\ Fails("discard")
    /\ pc' = IF pc = "discardTx" THEN "discardTemp" ELSE "clear"
    /\ UNCHANGED <<files, state, machine, up, target>>

\* Setup or the write of the state fails: the caller rolls the disk back.
CommitFails ==
    /\ \/ pc = "setup" /\ Fails("setup")
       \/ pc = "commit" /\ Fails("store")
    /\ pc' = "displace"
    /\ UNCHANGED <<files, state, machine, up, target>>

\* clear_vm_restore_intent, whatever became of the disk before.
ClearIntent ==
    /\ pc = "clear"
    /\ intent' = FALSE
    /\ target' = NoFile
    /\ pc' = "idle"
    /\ UNCHANGED <<files, expected, machine, up, faults>>

\* The write that begins or clears the intent fails.
IntentWriteFails ==
    /\ pc \in {"idle", "clear"} /\ Fails("store")
    /\ target' = NoFile
    /\ pc' = "idle"
    /\ UNCHANGED <<files, state, machine, up>>

-----------------------------------------------------------------------------
(* rollback_vm_backup_install, from a command or at start-up.              *)

\* Who asked for it goes on: a command clears the intent, start-up commits.
AfterRollback == IF up THEN "clear" ELSE "replace"

\* had_previous_disk: from the transaction, else from the file itself.
HadPrevious == IF tx # NoFile THEN tx.had ELSE previous # NoFile

\* Without a transaction and a previous disk only the conversion is removed.
Displace ==
    /\ pc = "displace"
    /\ IF ~Blocked
       THEN /\ temporary' = NoFile
            /\ Goto(AfterRollback)
            /\ UNCHANGED <<disk, displaced>>
       ELSE /\ pc' = "restore"
            /\ IF HadPrevious /\ previous # NoFile
               THEN displaced' = disk /\ disk' = NoFile /\ LosesSight
               ELSE UNCHANGED <<disk, displaced, orphan>>
            /\ UNCHANGED <<temporary, running, up, target, faults>>
    /\ UNCHANGED <<previous, sec, tx, state>>

\* The previous disk comes back; a machine that had none loses its disk.
RestorePrevious ==
    /\ pc = "restore"
    /\ IF HadPrevious /\ previous # NoFile
       THEN disk' = previous /\ previous' = NoFile
       ELSE disk' = (IF HadPrevious THEN disk ELSE NoFile) /\ UNCHANGED previous
    /\ displaced' = NoFile
    /\ Goto("resecure")
    /\ UNCHANGED <<temporary, sec, tx, state>>

Resecure ==
    /\ pc = "resecure"
    /\ sec' = IF tx # NoFile THEN tx.prevSec ELSE sec
    /\ Goto("cleanTemp")
    /\ UNCHANGED <<disk, previous, temporary, displaced, tx, state>>

\* The directory of a machine that did not exist goes as a whole.
CleanTemporary ==
    /\ pc = "cleanTemp"
    /\ temporary' = NoFile
    /\ IF tx # NoFile /\ ~tx.had
       THEN tx' = NoFile /\ Goto(AfterRollback)
       ELSE UNCHANGED tx /\ Goto("cleanTx")
    /\ UNCHANGED <<disk, previous, displaced, sec, state>>

CleanTransaction ==
    /\ pc = "cleanTx"
    /\ tx' = NoFile
    /\ Goto(AfterRollback)
    /\ UNCHANGED <<disk, previous, temporary, displaced, sec, state>>

\* A step of a rollback fails.  If the previous disk could not be put back, the
\* one taken out of its way returns, or that fails as well.  A command clears
\* the intent all the same; a start-up ends.
RollbackFails ==
    /\ pc \in RollbackSteps
    /\ Fails(IF up THEN "rollback" ELSE "startup")
    /\ pc' = IF up THEN "clear" ELSE "down"
    /\ disk' \in IF pc = "restore" THEN {disk} \cup ({displaced} \ {NoFile})
                 ELSE {disk}
    /\ displaced' = NoFile
    /\ UNCHANGED <<previous, temporary, sec, tx, state, machine, up, target>>

-----------------------------------------------------------------------------
(* finalize_vm_backup_install, from a command or at start-up.              *)

FinalizeSecurity ==
    /\ pc = "finSecurity"
    /\ sec' = IF tx # NoFile /\ Secured THEN tx.nextSec ELSE sec
    /\ Goto("finTemp")
    /\ UNCHANGED <<disk, previous, temporary, displaced, tx, state>>

FinalizeTemporary ==
    /\ pc = "finTemp"
    /\ temporary' = NoFile
    /\ Goto("finPrevious")
    /\ UNCHANGED <<disk, previous, displaced, sec, tx, state>>

FinalizePrevious ==
    /\ pc = "finPrevious"
    /\ previous' = NoFile
    /\ Goto("finTx")
    /\ UNCHANGED <<disk, temporary, displaced, sec, tx, state>>

FinalizeTransaction ==
    /\ pc = "finTx"
    /\ tx' = NoFile
    /\ pc' = IF up THEN "idle" ELSE "replace"
    /\ target' = NoFile
    /\ UNCHANGED <<disk, previous, temporary, displaced, sec, state, machine, up, faults>>

\* The command reports the error although the restore is committed.
FinalizeFails ==
    /\ pc \in FinalizeSteps
    /\ Fails(IF up THEN "finalize" ELSE "startup")
    /\ pc' = IF up THEN "idle" ELSE "down"
    /\ target' = NoFile
    /\ UNCHANGED <<files, state, machine, up>>

-----------------------------------------------------------------------------
(* Start-up, and the machine itself.                                       *)

Launch ==
    /\ pc = "down"
    /\ pc' = "boot"
    /\ UNCHANGED <<files, state, machine, up, target, faults>>

\* Variant of Resolve that finishes every pending restore.
ResolveByFinalizing ==
    /\ pc = "boot"
    /\ Goto(IF (intent \/ expected # NoFile) /\ Pending THEN "finSecurity" ELSE "replace")
    /\ UNCHANGED <<files, state>>

\* Variant of Resolve that overlooks an interrupted conversion.
ResolveBlockedOnly ==
    /\ pc = "boot"
    /\ Goto(IF intent /\ Blocked THEN "displace"
            ELSE IF expected # NoFile /\ Blocked THEN "finSecurity"
            ELSE "replace")
    /\ UNCHANGED <<files, state>>

\* The loop over restore_candidates: the machines of the state and the intents.
Resolve ==
    /\ pc = "boot"
    /\ Goto(IF intent /\ Pending THEN "displace"
            ELSE IF expected # NoFile /\ Pending THEN "finSecurity"
            ELSE "replace")
    /\ UNCHANGED <<files, state>>

\* store.replace(state) with pending_vm_restores cleared.
StartupCommit ==
    /\ pc = "replace"
    /\ intent' = FALSE
    /\ up' = TRUE
    /\ pc' = "idle"
    /\ UNCHANGED <<files, expected, machine, target, faults>>

StartupFails ==
    /\ pc \in {"boot", "replace"} /\ Fails("startup")
    /\ pc' = "down"
    /\ UNCHANGED <<files, state, machine, up, target>>

\* Variant of StartVm that does not look for a pending restore.
StartVmUnchecked ==
    /\ pc = "idle"
    /\ ~running /\ orphan # "holds" /\ expected # NoFile /\ disk # NoFile
    /\ running' = TRUE
    /\ UNCHANGED <<files, state, orphan, up, pc, target, faults>>

\* start_vm refuses while a restore waits for its resolution, and while it finds
\* that a process of an earlier run holds the disk.
StartVm ==
    /\ pc = "idle"
    /\ ~running /\ orphan # "holds" /\ expected # NoFile /\ disk # NoFile
    /\ ~Blocked
    /\ running' = TRUE
    /\ UNCHANGED <<files, state, orphan, up, pc, target, faults>>

StopVm ==
    /\ running
    /\ running' = FALSE
    /\ UNCHANGED <<files, state, orphan, up, pc, target, faults>>

\* A process of an earlier run ends, by itself, by its guest or by recovery.
OrphanEnds ==
    /\ orphan # "none"
    /\ orphan' = "none"
    /\ UNCHANGED <<files, state, running, up, pc, target, faults>>

\* The application ends at any point; the machine's process may survive it.
Crash ==
    /\ pc # "down" /\ Fails("crash")
    /\ pc' = "down"
    /\ up' = FALSE
    /\ target' = NoFile
    /\ displaced' = NoFile
    /\ running' = FALSE
    /\ orphan' \in {orphan} \cup (IF running THEN {"holds"} ELSE {})
    /\ UNCHANGED <<disk, previous, temporary, sec, tx, state>>

-----------------------------------------------------------------------------

Install == Check \/ Convert \/ Verify \/ WriteTransaction \/ MoveOld \/ MoveNew
           \/ ActivateSecurity \/ Setup \/ Commit
Undo     == Reactivate \/ DiscardTransaction \/ DiscardTemporary \/ ClearIntent
Rollback == Displace \/ RestorePrevious \/ Resecure \/ CleanTemporary
            \/ CleanTransaction
Finalize == FinalizeSecurity \/ FinalizeTemporary \/ FinalizePrevious
            \/ FinalizeTransaction
Startup  == Launch \/ Resolve \/ StartupCommit

Step == Install \/ Undo \/ Rollback \/ Finalize \/ Startup

Fault == PrepareFails \/ MoveOldFails \/ MoveNewFails \/ InstallAbandoned
         \/ DiscardFails \/ CommitFails \/ IntentWriteFails \/ RollbackFails
         \/ FinalizeFails \/ StartupFails \/ Crash

Next == Step \/ Fault \/ StartVm \/ StopVm \/ OrphanEnds \/ \E i \in Image : BeginRestore(i)

\* An operation that was begun goes on; users and faults are free.
Spec == Init /\ [][Next]_vars /\ WF_vars(Step)

-----------------------------------------------------------------------------
(* Properties.                                                             *)

\* None of the failures so far leaves a transaction behind without its intent.
OnlyTolerated == faults.hostile = 0

\* What rollback_vm_backup_install makes of the files.
RolledBack ==
    IF ~Blocked THEN disk
    ELSE IF ~HadPrevious THEN NoFile
    ELSE IF previous # NoFile THEN previous
    ELSE disk
RolledBackSec == IF tx # NoFile THEN tx.prevSec ELSE sec
FinalizedSec  == IF tx # NoFile /\ Secured THEN tx.nextSec ELSE sec

\* If the process stopped now, the next start would leave the machine with the
\* disk and the TPM identity of the image its committed state describes: the
\* old one before the commit of the restore, the restored one after it.
RecoveryRestores ==
    OnlyTolerated =>
        IF intent /\ Pending
        THEN RolledBack = expected /\ RolledBackSec = SecOf(expected)
        ELSE disk = expected /\ FinalizedSec = SecOf(expected)

\* A machine the application runs is never on a disk other than that of its
\* committed state, nor with the identity of another disk, nor in the middle of
\* a restore.  A process that outlived the application (orphan) is not one of them:
\* install_vm_backup does not ask for it, and may replace the disk it uses.
RunsOnItsDisk ==
    OnlyTolerated /\ running => disk = expected /\ sec = SecOf(expected) /\ ~Blocked

\* Whatever goes wrong, a machine of the application does not run while its
\* directory holds a transaction that a finalize or a rollback has yet to resolve.
NeverRunsPending == running => ~Blocked

\* The retained disk disappears only in a step that leaves the machine with the
\* disk of its committed state: it is put back, or the restore was committed.
OldDiskKept ==
    [][OnlyTolerated' /\ previous # NoFile /\ previous' = NoFile => disk' = expected']_vars

\* The same whatever failed: until it is finalized "the old disk remains available
\* for rollback" (finalize_vm_backup_install).
OldDiskNeverLost ==
    [][previous # NoFile /\ previous' = NoFile => disk' = expected']_vars

\* A start-up ends with the restore resolved, one way or the other.
StartupResolves ==
    pc = "down" ~> (pc = "idle" /\ ~intent /\ (expected # NoFile => ~Pending))

-----------------------------------------------------------------------------
(* The inductive invariant behind the safety properties, under tolerated   *)
(* faults: what the files hold in each phase, and where each phase may be. *)

Replacing == {"moveNew", "security", "setup", "commit"}

\* Nothing to resolve, except perhaps a conversion to be dropped.
Settled == disk = expected /\ sec = SecOf(expected)

\* A transaction before its commit describes the way back.
Uncommitted ==
    /\ tx # NoFile
    /\ tx.had <=> expected # NoFile
    /\ tx.prevSec = SecOf(expected)
    /\ tx.had /\ previous = NoFile => disk = expected
    /\ previous # NoFile => tx.had /\ previous = expected
    /\ pc \in {"down", "boot", "moveOld", "reactivate", "discardTx"} \cup Replacing
             \cup RollbackSteps

\* After its commit only the remains are to be removed.
Committed ==
    /\ tx # NoFile
    /\ disk = expected
    /\ expected # NoFile
    /\ tx.nextSec = SecOf(expected)
    /\ pc \in {"down", "boot"} \cup FinalizeSteps

PhaseInv ==
    /\ ~Blocked => Settled
    /\ Blocked /\ intent => Uncommitted
    /\ Blocked /\ ~intent => Committed
    /\ running => ~Blocked
    /\ ~Secured => sec = NoFile

StepInv ==
    /\ pc \in {"convert", "verify", "writeTx"} => ~Blocked /\ ~running
    /\ pc \in CallSteps \cup UndoSteps \cup RollbackSteps => intent
    /\ pc \in {"moveOld", "discardTx", "reactivate", "restore", "resecure",
               "cleanTemp", "cleanTx"} \cup Replacing => Blocked
    /\ pc \in {"writeTx", "moveOld", "moveNew"} => temporary = target
    /\ pc \in {"moveOld"} \cup Replacing => tx.nextSec = SecOf(target)
    /\ pc \in {"moveOld", "discardTx"} => previous = NoFile /\ Settled
    /\ pc \in {"moveNew", "reactivate"} => sec = SecOf(expected)
    /\ pc \in {"moveNew", "reactivate"} => disk = NoFile
    /\ pc = "reactivate" => previous # NoFile
    /\ pc \in {"security", "setup", "commit"} => disk = target
    /\ pc = "displace" => Pending
    /\ pc \in {"resecure", "cleanTemp", "cleanTx"} => previous = NoFile /\ disk = expected
    /\ pc \in {"cleanTemp", "cleanTx"} => sec = SecOf(expected)
    /\ pc \in FinalizeSteps => ~intent
    /\ pc \in FinalizeSteps \ {"finSecurity"} => sec = SecOf(expected)
    /\ pc = "finTx" => previous = NoFile
    /\ displaced # NoFile => pc = "restore" /\ previous # NoFile

RestoreInv == TypeOK /\ PhaseInv /\ StepInv
=============================================================================
