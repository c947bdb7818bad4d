----------------------------- MODULE LocalBackup -----------------------------
(* local_backup.rs: backups to a folder and environments made from them.      *)
(*                                                                            *)
(* A backup is a folder with a payload and a manifest that names the kind and *)
(* the checksum of the payload.  The folder is on a medium of the user's: the *)
(* payload may change at any time, also while it is read.  A payload is the   *)
(* sequence of its two halves, and its checksum is that sequence.             *)
EXTENDS Naturals, Sequences, FiniteSets

CONSTANTS
    MaxFolders, \* bound: backups that are made
    MaxImports, \* bound: backups that are imported
    MaxFailures \* bound: calls that fail, damages of the medium, crashes

\* What the theorems ask of the constants.
BackupConstants == MaxFolders \in Nat /\ MaxImports \in Nat /\ MaxFailures \in Nat

VARIABLES
    folders,    \* backup folders: [kind, payload, manifest, damaged]
    exporting,  \* export_backup() under way
    artifacts,  \* exports whose snapshot, which they copy from, exists
    importing,  \* import_backup_with_provider() under way
    staging,    \* files in the staging directory: [name, kind, data, tagged]
    recorded,   \* environments made from backups: [kind, data, tagged]
    imports,    \* number of imports so far
    failures,   \* number of failures so far
    stranded    \* history: staged files and artifacts that a crash, a removal that failed or
                \* an export that returned early gave up

backupVars == <<folders, exporting, artifacts, importing, staging, recorded, imports, failures, stranded>>

Kinds == {"container", "vm"}
Idle  == [at |-> "idle"]
Disk  == <<"data", "data">>     \* what the environment consists of
Whole(payload) == payload = Disk

BackupType ==
    /\ Len(folders) <= MaxFolders
    /\ \A f \in DOMAIN folders : folders[f].kind \in Kinds /\ Len(folders[f].payload) <= 2
    /\ \A s \in staging : s.name \in 1..(2 * MaxImports) /\ s.kind \in Kinds /\ s.tagged \in BOOLEAN
    /\ imports \in 0..MaxImports /\ failures \in 0..MaxFailures

BackupInit ==
    /\ folders = <<>> /\ exporting = Idle /\ artifacts = {} /\ importing = Idle
    /\ staging = {} /\ recorded = {} /\ imports = 0 /\ failures = 0 /\ stranded = {}

Fail == failures < MaxFailures /\ failures' = failures + 1

importer == <<importing, staging, recorded, imports>>

-----------------------------------------------------------------------------
(* export_backup()                                                           *)

\* A stopped environment is exported to an artifact.  An environment that is not
\* supported or not stopped is refused before that.
Export(kind) ==
    /\ exporting = Idle /\ Len(folders) < MaxFolders
    /\ artifacts' = artifacts \cup {Len(folders) + 1}
    /\ folders' = Append(folders, [kind |-> kind, payload |-> <<>>, manifest |-> FALSE, damaged |-> FALSE])
    /\ exporting' = [at |-> "inspect", f |-> Len(folders) + 1]
    /\ UNCHANGED <<importer, failures, stranded>>

\* The files of a backup that fails are removed; its folder is then of no use to anyone.
Withdrawn(f) == folders' = [folders EXCEPT ![f].payload = <<>>, ![f].manifest = FALSE]
Cleanup(f) == exporting' = [at |-> "cleanup", f |-> f]

\* backup_has_vm_security() looks for the TPM state in the artifact of a machine.  An
\* artifact it cannot read ends the export at once, and nothing removes the artifact.
\* Then the folder is created.
Inspect ==
    LET f == exporting.f IN
    /\ exporting.at = "inspect"
    /\ \/ exporting' = [exporting EXCEPT !.at = "copy"] /\ UNCHANGED <<failures, stranded>>
       \/ Fail /\ Cleanup(f) /\ UNCHANGED stranded
       \/ /\ Fail /\ folders[f].kind = "vm"
          /\ exporting' = Idle
          /\ stranded' = stranded \cup {<<"artifact", f>>}
    /\ UNCHANGED <<folders, artifacts, importer>>

\* copy_checked(): half by half.
CopyOut ==
    LET f == exporting.f IN
    /\ exporting.at = "copy" /\ Len(folders[f].payload) < 2
    /\ \/ /\ folders' = [folders EXCEPT ![f].payload = Append(@, Disk[Len(@) + 1])]
          /\ UNCHANGED <<exporting, failures>>
       \/ Fail /\ Withdrawn(f) /\ Cleanup(f)
    /\ UNCHANGED <<artifacts, importer, stranded>>

\* The payload is complete, verified and flushed, and the manifest is written.
WriteManifest ==
    LET f == exporting.f IN
    /\ exporting.at = "copy" /\ Len(folders[f].payload) = 2
    /\ \/ folders' = [folders EXCEPT ![f].manifest = TRUE] /\ UNCHANGED failures
       \/ Fail /\ Withdrawn(f)
    /\ Cleanup(f)
    /\ UNCHANGED <<artifacts, importer, stranded>>

\* The artifact is removed, whatever became of the copy; whether that worked is
\* reported.
EndExport ==
    /\ exporting.at = "cleanup"
    /\ exporting' = Idle
    /\ \/ artifacts' = artifacts \ {exporting.f} /\ UNCHANGED <<failures, stranded>>
       \/ Fail /\ stranded' = stranded \cup {<<"artifact", exporting.f>>} /\ UNCHANGED artifacts
    /\ UNCHANGED <<folders, importer>>

-----------------------------------------------------------------------------
(* import_backup_with_provider()                                             *)

\* read_backup(): the manifest is decoded and supported, a staged file is created.
Import(f) ==
    /\ importing = Idle /\ imports < MaxImports /\ folders[f].manifest
    /\ imports' = imports + 1
    /\ importing' = [at |-> "copy", f |-> f, name |-> 2 * imports + 1, kind |-> folders[f].kind]
    /\ staging' = staging \cup {[name |-> 2 * imports + 1, kind |-> folders[f].kind,
                                 data |-> <<>>, tagged |-> FALSE]}
    /\ UNCHANGED <<folders, exporting, artifacts, recorded, failures, stranded>>

Staged == CHOOSE s \in staging : s.name = importing.name
Exchange(new) == staging' = (staging \ {Staged}) \cup new
Refuse == Exchange({}) /\ importing' = Idle

\* copy_checked(): the bytes that are read are those that are hashed and written.
CopyIn ==
    LET n == Len(Staged.data) + 1 IN
    /\ importing.at = "copy" /\ n <= 2
    /\ IF n <= Len(folders[importing.f].payload)
       THEN /\ Exchange({[Staged EXCEPT !.data = Append(@, folders[importing.f].payload[n])]})
            /\ UNCHANGED importing
       ELSE Refuse
    /\ UNCHANGED <<folders, exporting, artifacts, recorded, imports, failures, stranded>>

\* A copy whose size or checksum is not that of the manifest is removed.
Verify ==
    /\ importing.at = "copy" /\ Len(Staged.data) = 2
    /\ IF Whole(Staged.data)
       THEN importing' = [importing EXCEPT !.at = "stage"] /\ UNCHANGED staging
       ELSE Refuse
    /\ UNCHANGED <<folders, exporting, artifacts, recorded, imports, failures, stranded>>

\* retag_container() writes a container's file anew, under the tag of the new snapshot.
Retagged(file) == [file EXCEPT !.name = @ + 1, !.tagged = TRUE]

\* validate_standalone_vm() and the check of the TPM state refuse a machine's file, and
\* it is removed.  The first file of a container is removed once there is the second;
\* a conversion that fails leaves neither.
Stage ==
    /\ importing.at = "stage"
    /\ \/ /\ IF importing.kind = "container"
             THEN /\ Exchange({Retagged(Staged)})
                  /\ importing' = [importing EXCEPT !.at = "install", !.name = @ + 1]
             ELSE importing' = [importing EXCEPT !.at = "install"] /\ UNCHANGED staging
          /\ UNCHANGED failures
       \/ Fail /\ Refuse
    /\ UNCHANGED <<folders, exporting, artifacts, recorded, imports, stranded>>

\* The providers are registered and install_restored_backup() is run.  A machine's file
\* becomes that of its first snapshot, a container's is removed.  If the environment
\* was not saved, what there is of it is removed, and the staged file too: whether that
\* works is reported.
InstallImport ==
    /\ importing.at = "install"
    /\ importing' = Idle
    /\ \/ /\ recorded' = recorded \cup {[kind |-> Staged.kind, data |-> Staged.data, tagged |-> Staged.tagged,
                                         file |-> IF Staged.kind = "vm" THEN Staged.name ELSE 0]}
          /\ IF Staged.kind = "vm" THEN UNCHANGED staging ELSE Exchange({})
          /\ UNCHANGED <<failures, stranded>>
       \/ /\ Fail
          /\ \/ Exchange({}) /\ UNCHANGED stranded
             \/ stranded' = stranded \cup {<<"staged", Staged.name>>} /\ UNCHANGED staging
          /\ UNCHANGED recorded
    /\ UNCHANGED <<folders, exporting, artifacts, imports>>

-----------------------------------------------------------------------------
(* The medium and the computer                                               *)

\* A payload is cut short, changes, or is what it was again, whoever reads it.
Damage(f) ==
    /\ Fail /\ folders[f].payload # <<>>
    /\ \E payload \in {<<"data">>, Disk, <<"data", "other">>} :
          folders' = [folders EXCEPT ![f].damaged = TRUE, ![f].payload = payload]
    /\ UNCHANGED <<exporting, artifacts, importer, stranded>>

\* The application ends.  Nothing clears the staging directory when it starts again.
Crash ==
    /\ Fail
    /\ exporting' = Idle /\ importing' = Idle
    /\ stranded' = stranded \cup {<<"staged", s.name>> : s \in staging}
                             \cup {<<"artifact", f>> : f \in artifacts}
    /\ UNCHANGED <<folders, artifacts, staging, recorded, imports>>

BackupNext ==
    \/ \E kind \in Kinds : Export(kind)
    \/ Inspect \/ CopyOut \/ WriteManifest \/ EndExport
    \/ \E f \in DOMAIN folders : Import(f) \/ Damage(f)
    \/ CopyIn \/ Verify \/ Stage \/ InstallImport \/ Crash

BackupSpec == BackupInit /\ [][BackupNext]_backupVars

-----------------------------------------------------------------------------

\* A folder with a manifest has its whole payload, unless the medium changed it: also
\* one whose export broke off at any point (write_backup in local_backup.rs).
ManifestVouches ==
    \A f \in DOMAIN folders : folders[f].manifest /\ ~folders[f].damaged => Whole(folders[f].payload)

\* An environment made from a backup is the one that was exported, and a container's
\* image carries the tag of its own snapshot, whatever the medium did while it was
\* read (copy_checked and retag_container in local_backup.rs).
ImportsWhatWasExported ==
    \A r \in recorded : Whole(r.data) /\ r.tagged = (r.kind = "container")

\* When no import is under way, a staged file is that of a recorded machine, and when no
\* export is, no artifact is left, but for what was left by a crash, by a removal that
\* failed and by an export that could not look for the TPM state in its artifact
\* (read_backup, export_backup and import_backup_with_provider in local_backup.rs).
StagingCleared ==
    /\ importing = Idle => \A s \in staging : \/ <<"staged", s.name>> \in stranded
                                               \/ \E r \in recorded : r.file = s.name
    /\ exporting = Idle => \A f \in artifacts : <<"artifact", f>> \in stranded
=============================================================================
