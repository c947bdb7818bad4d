------------------------------ MODULE Snapshots ------------------------------
(* Snapshots, their retention and backups to a store of objects (commands.rs, *)
(* backup.rs, runtime/snapshot_export.rs, runtime/vm.rs,                      *)
(* runtime/appliance.rs).                                                     *)
(*                                                                            *)
(* A snapshot is a record and what it stands for: a file (containers, secure  *)
(* machines, backups) or a snapshot inside the disk of a machine.  Data is    *)
(* made before it is recorded and erased before the record is dropped.        *)
(* Commands on one environment exclude each other; deleting a snapshot,       *)
(* changing the settings and the download of a backup take no lock, and the   *)
(* retention of any of them works on the snapshots of all environments.       *)
EXTENDS Naturals, Sequences, FiniteSets, FiniteSetsExt, SequencesExt

CONSTANTS
    Env,        \* environments
    Kind,       \* "container", "vm" or "secure" (a machine with a TPM), for each
    Images,     \* what an artifact may consist of: sets of chunks
    Retention,  \* snapshots that are kept
    MaxHistory, \* MAX_BACKUP_HISTORY
    MaxSnaps,   \* bound: snapshots that are taken
    MaxCommands,\* bound: other commands, on destinations, of the settings, deletions, downloads
    MaxFaults   \* bound: calls and saves that fail

\* What the theorems ask of the constants.
SnapshotsConstants ==
    /\ "user" \notin Env /\ Kind \in [Env -> {"container", "vm", "secure"}]
    /\ Retention \in Nat /\ MaxHistory \in Nat
    /\ MaxSnaps \in Nat /\ MaxCommands \in Nat /\ MaxFaults \in Nat

VARIABLES
    snaps,      \* recorded snapshots, the newest first
    stored,     \* files and inner snapshots that exist: <<what, snapshot>>
    image,      \* the chunks of the artifact of each snapshot taken
    runs,       \* recorded backup runs, the newest first
    remote,     \* object store: [chunks, manifests]
    dest,       \* [recorded, vault]: the destination and its credentials
    doing,      \* the command under way of each process
    download,   \* backup that is downloaded and not yet installed: [id, env]
    faulted,    \* number of faults so far
    asked,      \* number of other commands so far
    leaked,     \* history: data that was given up by a failure or superseded
    hollow      \* history: snapshots whose data a failure or a restore took

snapshotVars == <<snaps, stored, image, runs, remote, dest, doing, download, faulted, asked,
          leaked, hollow>>
cloud == <<image, remote, dest, download>>

User == "user"                  \* delete_snapshot() and update_settings()
Process == Env \cup {User}
Available == [do |-> "free"]
Made == Len(image)
Nothing == [id |-> 0, env |-> User]   \* nothing is downloaded

\* The record of snapshot n: its environment, its inner snapshot, its file.
Record(n, e, inner, file) == [id |-> n, env |-> e, inner |-> inner, file |-> file]

\* The records but for that of snapshot n, in their order.
Without(records, n) ==
    LET Kept[i \in 0..Len(records)] ==
            IF i = 0 THEN <<>>
            ELSE IF records[i].id = n THEN Kept[i - 1] ELSE Append(Kept[i - 1], records[i])
    IN  Kept[Len(records)]

\* What a record stands for.
Inner(rec) == IF rec.inner THEN {<<"inner", rec.id>>} ELSE {}
File(rec)  == IF rec.file = "none" THEN {} ELSE {<<rec.file, rec.id>>}
Data(rec)  == Inner(rec) \cup File(rec)

SnapshotsType ==
    /\ \A i \in DOMAIN snaps :
          snaps[i] \in [id : 1..Made, env : Env, inner : BOOLEAN, file : {"none", "local", "restore"}]
    /\ stored \subseteq {"inner", "local", "restore"} \X (1..Made)
    /\ \A i \in DOMAIN runs : runs[i].id \in 1..Made /\ runs[i].status \in {"running", "complete", "failed"}
    /\ Len(runs) <= MaxHistory /\ Made <= MaxSnaps /\ faulted <= MaxFaults /\ asked <= MaxCommands

SnapshotsInit ==
    /\ snaps = <<>> /\ stored = {} /\ image = <<>> /\ runs = <<>>
    /\ remote = [chunks |-> {}, manifests |-> {}]
    /\ dest = [recorded |-> FALSE, vault |-> FALSE]
    /\ doing = [p \in Process |-> Available] /\ download = Nothing
    /\ faulted = 0 /\ asked = 0 /\ leaked = {} /\ hollow = {}

Fault == faulted < MaxFaults /\ faulted' = faulted + 1
Ask   == asked < MaxCommands /\ asked' = asked + 1

-----------------------------------------------------------------------------
(* Taking a snapshot                                                         *)

\* stream_container_snapshot(), create_vm_snapshot(), export_vm_disk(): a backup of a
\* machine takes both an inner snapshot and a file.
NewRecord(n, e, backup) ==
    Record(n, e, Kind[e] = "vm", IF Kind[e] = "vm" /\ ~backup THEN "none" ELSE "local")

\* What may be left when that fails.  The archive of a container is a temporary file
\* until it is complete; the file or the inner snapshot of a machine may stay, since
\* their removal is not insisted upon.
Leftovers(e, rec) == IF Kind[e] = "container" THEN {{}} ELSE SUBSET Data(rec)

\* create_snapshot(), run_backup() up to the record.
Make(e, backup) ==
    LET rec == NewRecord(Made + 1, e, backup)
    IN  /\ doing[e] = Available /\ Made < MaxSnaps
        /\ backup => dest.recorded
        /\ \E img \in Images : image' = Append(image, img)
        /\ \/ /\ stored' = stored \cup Data(rec)
              /\ doing' = [doing EXCEPT ![e] = [do |-> "new", rec |-> rec, backup |-> backup]]
              /\ UNCHANGED <<faulted, leaked>>
           \/ /\ Fault
              /\ \E rest \in Leftovers(e, rec) :
                    /\ stored' = stored \cup rest /\ leaked' = leaked \cup rest
              /\ UNCHANGED doing
    /\ UNCHANGED <<asked, snaps, runs, remote, dest, download, hollow>>

Retain == [do |-> "retain", at |-> "pick"]

\* The record is saved, with a backup its run too; the oldest run leaves the history.
\* If the save fails, what was made is removed as far as that works.
SaveNew(e) ==
    LET rec == doing[e].rec IN
    /\ doing[e].do = "new"
    /\ \/ /\ snaps' = <<rec>> \o snaps
          /\ IF doing[e].backup
             THEN /\ runs' = SubSeq(<<[id |-> rec.id, env |-> e, status |-> "running"]>> \o runs, 1,
                                    IF Len(runs) < MaxHistory THEN Len(runs) + 1 ELSE MaxHistory)
                  /\ doing' = [doing EXCEPT ![e] = [do |-> "backup", at |-> "open", rec |-> rec,
                                                     todo |-> image[rec.id]]]
             ELSE doing' = [doing EXCEPT ![e] = Retain] /\ UNCHANGED runs
          /\ UNCHANGED <<stored, faulted, leaked>>
       \/ /\ Fault
          /\ \E gone \in SUBSET Data(rec) :
                /\ stored' = stored \ gone
                /\ leaked' = leaked \cup (Data(rec) \ gone)
          /\ doing' = [doing EXCEPT ![e] = Available]
          /\ UNCHANGED <<snaps, runs>>
    /\ UNCHANGED <<asked, hollow, cloud>>

-----------------------------------------------------------------------------
(* BackupManager::upload() and what run_backup() records of it                *)

Uploading(e, at) == doing[e].do = "backup" /\ doing[e].at = at
Conclude(e, ok) == doing' = [doing EXCEPT ![e] = [do |-> "backup", at |-> "record", ok |-> ok,
                                                   rec |-> doing[e].rec]]
Giving(e) == Fault /\ Conclude(e, FALSE) /\ UNCHANGED remote

\* The artifact must be there and the destination's credentials in the vault.
Open(e) ==
    /\ Uploading(e, "open")
    /\ IF <<"local", doing[e].rec.id>> \in stored /\ dest.vault
       THEN doing' = [doing EXCEPT ![e].at = "chunks"]
       ELSE Conclude(e, FALSE)
    /\ UNCHANGED <<asked, snaps, stored, runs, cloud, faulted, leaked, hollow>>

\* A chunk is stored under its checksum, unless one with that checksum is there.
PutChunk(e) ==
    /\ Uploading(e, "chunks") /\ doing[e].todo # {}
    /\ \/ /\ remote' = [remote EXCEPT !.chunks = @ \cup {Min(doing[e].todo)}]
          /\ doing' = [doing EXCEPT ![e].todo = @ \ {Min(@)}]
          /\ UNCHANGED faulted
       \/ Giving(e)
    /\ UNCHANGED <<asked, snaps, stored, image, dest, download, runs, leaked, hollow>>

\* The manifest comes last.  That of a machine looks at the artifact once more.
PutManifest(e) ==
    LET n == doing[e].rec.id IN
    /\ Uploading(e, "chunks") /\ doing[e].todo = {}
    /\ \/ /\ Kind[e] = "container" \/ <<"local", n>> \in stored
          /\ remote' = [remote EXCEPT !.manifests = @ \cup {n}]
          /\ Conclude(e, TRUE) /\ UNCHANGED faulted
       \/ /\ Kind[e] # "container" /\ <<"local", n>> \notin stored
          /\ Conclude(e, FALSE) /\ UNCHANGED <<remote, faulted>>
       \/ Giving(e)
    /\ UNCHANGED <<asked, snaps, stored, image, dest, download, runs, leaked, hollow>>

\* The outcome is recorded if the run is still in the history.  A save that fails
\* leaves the run running until the application starts again.
RecordRun(e) ==
    LET status == IF doing[e].ok THEN "complete" ELSE "failed" IN
    /\ Uploading(e, "record")
    /\ \/ /\ runs' = [i \in DOMAIN runs |-> IF runs[i].id = doing[e].rec.id
                                              THEN [runs[i] EXCEPT !.status = status] ELSE runs[i]]
          /\ UNCHANGED faulted
       \/ Fault /\ UNCHANGED runs
    /\ doing' = [doing EXCEPT ![e] = Retain]
    /\ UNCHANGED <<asked, snaps, stored, cloud, leaked, hollow>>

-----------------------------------------------------------------------------
(* Erasing                                                                   *)

\* delete_vm_snapshot(): qemu-img and delvm refuse an inner snapshot that is missing.
Missing(rec) == ~(Inner(rec) \subseteq stored)

\* cleanup_snapshot_resources(): the inner snapshot and the file are tried one after
\* the other, whatever becomes of the first.  A file that is missing is no error.
Erase(p) ==
    LET rec == doing[p].rec
        missing == Missing(rec)
    IN  /\ doing[p].do \in {"retain", "delete"} /\ doing[p].at = "erase"
        /\ \/ /\ stored' = stored \ Data(rec)
              /\ doing' = [doing EXCEPT ![p] = IF missing THEN Available ELSE [@ EXCEPT !.at = "drop"]]
              /\ hollow' = IF missing THEN hollow \cup {rec.id} ELSE hollow
              /\ UNCHANGED faulted
           \/ /\ Fault
              /\ \E gone \in SUBSET Data(rec) : stored' = stored \ gone
              /\ doing' = [doing EXCEPT ![p] = Available]
              /\ hollow' = hollow \cup {rec.id}
        /\ UNCHANGED <<asked, snaps, runs, cloud, leaked>>

Onwards(p) == IF doing[p].do = "retain" THEN Retain ELSE Available

\* What a backup that was restored meanwhile has put under the same record.
Restored(n) == UNION {Data(snaps[i]) : i \in {j \in DOMAIN snaps : snaps[j].id = n}}

\* Variant: the record is removed by the place at which it was found.
DropByPlace(p) ==
    /\ doing[p].do \in {"retain", "delete"} /\ doing[p].at = "drop"
    /\ LET i == IF doing[p].do = "retain" THEN Retention + 1 ELSE 1
       IN  snaps' = IF i \in DOMAIN snaps THEN RemoveAt(snaps, i) ELSE snaps
    /\ doing' = [doing EXCEPT ![p] = Onwards(p)]
    /\ UNCHANGED <<asked, stored, runs, cloud, faulted, leaked, hollow>>

\* The record is dropped, wherever it is by now; if that cannot be saved it stays.  A
\* backup restored since the data was erased loses its record and keeps its file.
Drop(p) ==
    LET rec == doing[p].rec IN
    /\ doing[p].do \in {"retain", "delete"} /\ doing[p].at = "drop"
    /\ \/ /\ snaps' = Without(snaps, rec.id)
          /\ leaked' = leaked \cup (Restored(rec.id) \cap stored)
          /\ doing' = [doing EXCEPT ![p] = Onwards(p)]
          /\ UNCHANGED <<faulted, hollow>>
       \/ /\ Fault
          /\ hollow' = hollow \cup {rec.id}
          /\ doing' = [doing EXCEPT ![p] = Available]
          /\ UNCHANGED <<snaps, leaked>>
    /\ UNCHANGED <<asked, stored, runs, cloud>>

\* enforce_snapshot_retention(): the first snapshot past the limit, of whatever
\* environment, until there is none.
Pick(p) ==
    /\ doing[p] = Retain
    /\ doing' = [doing EXCEPT ![p] = IF Len(snaps) > Retention
                                       THEN [do |-> "retain", at |-> "erase", rec |-> snaps[Retention + 1]]
                                       ELSE Available]
    /\ UNCHANGED <<asked, snaps, stored, runs, cloud, faulted, leaked, hollow>>

\* delete_snapshot()
Delete(i) ==
    /\ Ask /\ doing[User] = Available
    /\ doing' = [doing EXCEPT ![User] = [do |-> "delete", at |-> "erase", rec |-> snaps[i]]]
    /\ UNCHANGED <<snaps, stored, runs, cloud, faulted, leaked, hollow>>

\* update_settings(): the retention is enforced at once.
UpdateSettings ==
    /\ Ask /\ doing[User] = Available /\ Len(snaps) > Retention
    /\ doing' = [doing EXCEPT ![User] = Retain]
    /\ UNCHANGED <<snaps, stored, runs, cloud, faulted, leaked, hollow>>

-----------------------------------------------------------------------------
(* Destinations                                                              *)

\* add_backup_destination(): the credentials are stored once a probe has been written,
\* found and removed, and are removed again if the destination cannot be saved.
AddDestination ==
    /\ Ask /\ ~dest.recorded
    /\ dest' = [recorded |-> TRUE, vault |-> TRUE]
    /\ UNCHANGED <<snaps, stored, image, runs, remote, doing, download, faulted, leaked, hollow>>

\* delete_backup_destination(): credentials first, then the record and its runs.
DeleteDestination ==
    /\ Ask /\ dest.recorded
    /\ \/ /\ dest' = [recorded |-> FALSE, vault |-> FALSE] /\ runs' = <<>>
          /\ UNCHANGED faulted
       \/ Fault /\ dest' = [dest EXCEPT !.vault = FALSE] /\ UNCHANGED runs
    /\ UNCHANGED <<snaps, stored, image, remote, doing, download, leaked, hollow>>

-----------------------------------------------------------------------------
(* Restoring a backup                                                        *)

Downloadable(n) == n \in remote.manifests /\ image[n] \subseteq remote.chunks

\* restore_backup() up to the lock: the artifact is put together aside, verified and
\* put in the place of an earlier one.
Download(i) ==
    LET n == runs[i].id IN
    /\ Ask /\ download = Nothing /\ runs[i].status = "complete"
    /\ dest.recorded /\ dest.vault /\ Downloadable(n)
    /\ stored' = stored \cup {<<"restore", n>>}
    /\ download' = [id |-> n, env |-> runs[i].env]
    /\ UNCHANGED <<snaps, image, runs, remote, dest, doing, faulted, leaked, hollow>>

\* What a failure takes from the recorded snapshots and what it leaves to nobody.
Owned == UNION {Data(snaps[i]) : i \in DOMAIN snaps}
Emptied(records) == {records[i].id : i \in {j \in DOMAIN records : ~(Data(records[j]) \subseteq stored')}}
Abandon(rest) ==
    /\ leaked' = leaked \cup (rest \ Owned)
    /\ hollow' = hollow \cup Emptied(snaps)

\* import_container_snapshot(): the artifact is sent to the engine, which must have
\* received it whole, and copied to the place of snapshots; the download is removed.
\* A refusal removes the download, a failure may leave it, with the copy or, when an
\* earlier copy was to be replaced, without any.
Imported(n) == (stored \ {<<"restore", n>>}) \cup {<<"local", n>>}
ImportFailed(n) == {stored, stored \ {<<"restore", n>>}, stored \cup {<<"local", n>>},
                    stored \ {<<"local", n>>}}

\* install_vm_backup(): the disk of a machine is exchanged for the artifact, which
\* stays where it is.  A failure removes it, as far as that works.
DiskFailed(n) == {stored, stored \ {<<"restore", n>>}}

\* install_restored_backup() under the lock.
Install(e) ==
    LET n == download.id IN
    /\ download # Nothing /\ download.env = e /\ doing[e] = Available
    /\ download' = Nothing
    /\ \/ /\ stored' = IF Kind[e] = "container" THEN Imported(n) ELSE stored
          /\ doing' = [doing EXCEPT ![e] = [do |-> "persist",
                 rec |-> Record(n, e, FALSE, IF Kind[e] = "container" THEN "local" ELSE "restore")]]
          /\ UNCHANGED <<faulted, leaked, hollow>>
       \/ /\ Fault
          /\ stored' \in (IF Kind[e] = "container" THEN ImportFailed(n) ELSE DiskFailed(n))
          /\ Abandon({<<"local", n>>, <<"restore", n>>} \cap stored')
          /\ UNCHANGED doing
    /\ UNCHANGED <<asked, snaps, image, runs, remote, dest>>

\* The inner snapshots of a machine, which its disk takes along.
InnerOf(e) == {<<"inner", s>> : s \in {n \in 1..Made : \E i \in DOMAIN snaps :
                                            snaps[i].id = n /\ snaps[i].env = e}}

\* The record replaces one of the same snapshot.  With the disk of a machine its inner
\* snapshots are gone, and the file of the record that was replaced has no owner any
\* more.  A save that fails undoes the installation and removes what it recorded.
Persist(e) ==
    LET rec == doing[e].rec
    IN  /\ doing[e].do = "persist"
        /\ \/ /\ snaps' = <<rec>> \o Without(snaps, rec.id)
              /\ stored' = IF rec.file = "restore" THEN stored \ InnerOf(e) ELSE stored
              /\ leaked' = leaked \cup (({<<"local", rec.id>>} \cap stored) \ Data(rec))
              /\ hollow' = (hollow \ {rec.id}) \cup Emptied(snaps')
              /\ doing' = [doing EXCEPT ![e] = Retain]
              /\ UNCHANGED faulted
           \/ /\ Fault
              /\ \E gone \in SUBSET Data(rec) :
                    /\ stored' = stored \ gone
                    /\ Abandon(Data(rec) \ gone)
              /\ doing' = [doing EXCEPT ![e] = Available]
              /\ UNCHANGED snaps
        /\ UNCHANGED <<asked, image, runs, remote, dest, download>>

-----------------------------------------------------------------------------
(* Restoring a snapshot in place                                             *)

\* restore_snapshot(): a container and an inner snapshot are restored from where they
\* are and nothing is lost.  A machine without an inner snapshot has its disk exchanged
\* for the file, in the transaction of VmRestore, and the inner snapshots of the disk
\* are gone; their records stay.
RestoreSnapshot(i) ==
    LET rec == snaps[i] IN
    /\ doing[rec.env] = Available
    /\ Kind[rec.env] # "container" /\ ~rec.inner /\ File(rec) \subseteq stored
    /\ stored' = stored \ InnerOf(rec.env)
    /\ hollow' = hollow \cup Emptied(snaps)
    /\ UNCHANGED <<asked, snaps, runs, cloud, doing, faulted, leaked>>

-----------------------------------------------------------------------------
(* The application ends and starts again (lib.rs)                            *)

\* Runs that were under way are recorded as failed.
Restart ==
    /\ Fault
    /\ doing' = [p \in Process |-> Available] /\ download' = Nothing
    /\ runs' = [i \in DOMAIN runs |-> IF runs[i].status = "running"
                                        THEN [runs[i] EXCEPT !.status = "failed"] ELSE runs[i]]
    /\ leaked' = leaked \cup (stored \ Owned)
    /\ hollow' = hollow \cup {doing[p].rec.id : p \in {q \in Process : doing[q].do \in {"retain", "delete"}
                                                                       /\ doing[q].at = "drop"}}
    /\ UNCHANGED <<asked, snaps, stored, image, remote, dest>>

Step(e) ==
    \/ \E backup \in BOOLEAN : Make(e, backup)
    \/ SaveNew(e) \/ Open(e) \/ PutChunk(e) \/ PutManifest(e) \/ RecordRun(e)
    \/ Install(e) \/ Persist(e)

SnapshotsNext ==
    \/ \E e \in Env : Step(e)
    \/ \E p \in Process : Pick(p) \/ Erase(p) \/ Drop(p)
    \/ \E i \in DOMAIN snaps : Delete(i) \/ RestoreSnapshot(i)
    \/ \E i \in DOMAIN runs : Download(i)
    \/ UpdateSettings \/ AddDestination \/ DeleteDestination \/ Restart

SnapshotsSpec == SnapshotsInit /\ [][SnapshotsNext]_snapshotVars

-----------------------------------------------------------------------------

\* A backup that the history calls complete can be downloaded: its manifest is in the
\* store and so is every chunk the manifest names (upload() in backup.rs stores the
\* manifest last, run_backup() records the run after that).
CompleteIsDownloadable ==
    \A i \in DOMAIN runs : runs[i].status = "complete" => Downloadable(runs[i].id)

Quiet == download = Nothing /\ \A p \in Process : doing[p] = Available

\* When no command is under way, every file and every inner snapshot belongs to a
\* record, but for what a failure left behind and the file of a machine's snapshot
\* that a restored backup superseded (create_snapshot, run_backup,
\* install_restored_backup and delete_snapshot in commands.rs).
NoOrphans == Quiet => stored \subseteq Owned \cup leaked

Erasing == {doing[p].rec.id : p \in {q \in Process : doing[q].do \in {"retain", "delete"} /\ doing[q].at = "drop"}}

\* A recorded snapshot has its data, whoever retains and deletes at the same time, but
\* for one that is being dropped, one whose removal broke off, and one inside a disk
\* that a restored backup or a snapshot restored from its file has replaced
\* (cleanup_snapshot_resources, enforce_snapshot_retention, restore_snapshot and
\* install_restored_backup in commands.rs).
RecordsHaveData ==
    \A i \in DOMAIN snaps : snaps[i].id \in hollow \cup Erasing \/ Data(snaps[i]) \subseteq stored
=============================================================================
