------------------------------- MODULE VmBases -------------------------------
(* The shared images under virtual machines (runtime/vm.rs): installers, disks  *)
(* and kernels of the user are imported once into runtime/bases under the hash  *)
(* of their contents, machines are built on them, and images that nothing       *)
(* refers to are swept. One lock, vm_base_operations(), covers an import with   *)
(* the disk made from it, and a sweep; the records of the machines are saved    *)
(* without it (commands/vm_creation.rs), and a sweep is given the images that   *)
(* records name as they were when it was asked for. The user may change a       *)
(* source at any time. A content is the edit of the source it was read from.    *)
EXTENDS Naturals, Sequences

CONSTANTS
    Machine,     \* identifiers of machines, each made once
    MaxEdits,    \* bound: edits of one source; the others keep their contents
    MaxStops     \* bound: ends of the application

VARIABLES
    source,      \* the user's files: Artifact -> edit
    base,        \* images: <<artifact, checksum>> -> what the file holds, NoFile
    cache,       \* source-cache: <<artifact, identity>> -> checksum, NoFile
    record,      \* of a machine: [status, names], the images its runtime names
    storage,     \* of a machine: the images that the files of its directory refer to
    job,         \* its creation: [at, kind, todo, identity, checksum, copy, images]
    holder,      \* who has the lock of the images: a machine, "sweep" or "nobody"
    sweep,       \* garbage_collect_vm_bases(): [at, images]
    stops

basesVars == <<source, base, cache, record, storage, job, holder, sweep, stops>>

Artifact == {"iso", "disk", "kernel"}
Edit     == 0..MaxEdits
NoFile   == MaxEdits + 1
Image    == Artifact \X Edit
Needs    == [iso |-> <<"iso">>, disk |-> <<"disk">>, micro |-> <<"kernel", "disk">>]
NoJob    == [at |-> "new", kind |-> "iso", todo |-> <<>>, identity |-> 0,
             checksum |-> 0, copy |-> 0, images |-> {}]
NoSweep  == [at |-> "idle", images |-> {}]
Exists(i) == base[i] # NoFile
Present   == {i \in Image : Exists(i)}

BasesType ==
    /\ source \in [Artifact -> Edit] /\ base \in [Image -> Edit \cup {NoFile}]
    /\ cache \in [Image -> Edit \cup {NoFile}]
    /\ \A m \in Machine :
         /\ record[m].status \in {"none", "Provisioning", "Stopped", "Error"}
         /\ record[m].names \subseteq Image /\ job[m].images \subseteq Image
         /\ storage[m] \subseteq Image
    /\ holder \in Machine \cup {"nobody", "sweep"} /\ stops \in 0..MaxStops
    /\ sweep.at \in {"idle", "waits", "marked"} /\ sweep.images \subseteq Image

BasesInit ==
    /\ source = [a \in Artifact |-> 0] /\ base = [i \in Image |-> NoFile]
    /\ cache = [i \in Image |-> NoFile]
    /\ record = [m \in Machine |-> [status |-> "none", names |-> {}]]
    /\ storage = [m \in Machine |-> {}] /\ job = [m \in Machine |-> NoJob]
    /\ holder = "nobody" /\ sweep = NoSweep /\ stops = 0

Change(a) ==
    /\ source[a] < MaxEdits /\ \A other \in Artifact \ {a} : source[other] = 0
    /\ source' = [source EXCEPT ![a] = @ + 1]
    /\ UNCHANGED <<base, cache, record, storage, job, holder, sweep, stops>>
-------------------------------------------------------------------------------
\* create_on_graph(): the record is saved first and names the user's own file.
CreateRecord(m, kind) ==
    /\ job[m].at = "new"
    /\ record' = [record EXCEPT ![m] = [status |-> "Provisioning", names |-> {}]]
    /\ job' = [job EXCEPT ![m] = [NoJob EXCEPT !.at = "waits", !.kind = kind, !.todo = Needs[kind]]]
    /\ UNCHANGED <<source, base, cache, storage, holder, sweep, stops>>

\* provision_vm_with_storage() and provision_micro_vm(): the lock, then a directory.
Provision(m) ==
    /\ job[m].at = "waits" /\ holder = "nobody" /\ holder' = m
    /\ storage' = [storage EXCEPT ![m] = {}]
    /\ job' = [job EXCEPT ![m].at = "import"]
    /\ UNCHANGED <<source, base, cache, record, sweep, stops>>

At(m, step) == job[m].at = step /\ UNCHANGED <<source, record, storage, holder, sweep, stops>>
Wanted(m)   == Head(job[m].todo)
Found(m)    == <<Wanted(m), job[m].checksum>>

\* Whatever fails removes the directory and releases the lock; an import may still be
\* kept from being finished by anything.
ProvisionFails(m) ==
    /\ job[m].at \in {"import", "identified", "read", "copied", "placed", "build"}
    /\ job' = [job EXCEPT ![m].at = "failed", ![m].images = {}] /\ holder' = "nobody"
    /\ storage' = [storage EXCEPT ![m] = {}]
    /\ UNCHANGED <<source, base, cache, record, sweep, stops>>

\* The next artifact has its image: the following one, or the machine's disk.
Took(m, i) ==
    [job EXCEPT ![m].at = IF Len(job[m].todo) = 1 THEN "build" ELSE "import",
                ![m].todo = Tail(job[m].todo), ![m].images = @ \cup {i}]

\* inspect_source_identity(), read_cached_source_checksum(): the identity of a source is
\* its path, length, times and samples; an image that was imported from it is taken.
Identify(m) ==
    /\ At(m, "import")
    /\ LET identity == source[Wanted(m)]
           known == <<Wanted(m), cache[<<Wanted(m), identity>>]>>
       IN  job' = IF known[2] # NoFile /\ Exists(known) THEN Took(m, known)
                  ELSE [job EXCEPT ![m].at = "identified", ![m].identity = identity]
    /\ UNCHANGED <<base, cache>>

\* A disk is hashed, and the source must be what it was; then its image may exist. Other
\* files are copied and hashed in one pass.
HashSource(m) ==
    /\ At(m, "identified") /\ Wanted(m) = "disk" /\ source["disk"] = job[m].identity
    /\ LET i == <<"disk", source["disk"]>>
       IN  IF Exists(i)
           THEN job' = [job EXCEPT ![m].at = "placed", ![m].checksum = i[2]]
           ELSE job' = [job EXCEPT ![m].at = "read", ![m].checksum = i[2]]
    /\ UNCHANGED <<base, cache>>

CopyAndHash(m) ==
    /\ At(m, "identified") /\ Wanted(m) # "disk"
    /\ job' = [job EXCEPT ![m].at = "copied", ![m].checksum = source[Wanted(m)],
                          ![m].copy = source[Wanted(m)]]
    /\ UNCHANGED <<base, cache>>

\* qemu-img converts the disk from the source: a second reading of it.
Convert(m) ==
    /\ At(m, "read") /\ job' = [job EXCEPT ![m].at = "copied", ![m].copy = source["disk"]]
    /\ UNCHANGED <<base, cache>>

\* The source must not have changed; the copy takes its name unless the image is there.
FinishImport(m) ==
    /\ At(m, "copied") /\ source[Wanted(m)] = job[m].identity
    /\ job' = [job EXCEPT ![m].at = "placed"]
    /\ base' = [base EXCEPT ![Found(m)] = IF Exists(Found(m)) THEN @ ELSE job[m].copy]
    /\ UNCHANGED cache

\* write_source_checksum_cache(): the checksum of that identity, unless one is known.
LearnChecksum(m) ==
    /\ At(m, "placed") /\ job' = Took(m, Found(m))
    /\ cache' = [cache EXCEPT ![<<Wanted(m), job[m].identity>>] =
                   IF @ = NoFile THEN job[m].checksum ELSE @]
    /\ UNCHANGED base

\* The machine's disk is made: on its image, with the manifest of a microVM naming its
\* kernel, or empty beside an installer.
BuildDisk(m) ==
    /\ job[m].at = "build" /\ job' = [job EXCEPT ![m].at = "built"] /\ holder' = "nobody"
    /\ storage' = [storage EXCEPT ![m] = {i \in job[m].images : i[1] # "iso"}]
    /\ UNCHANGED <<source, base, cache, record, sweep, stops>>

\* create_environment(): the disk of a microVM cannot be enlarged as was asked for, and
\* delete_vm() removes the directory again, without the lock of the images.
GrowFails(m) ==
    /\ job[m].at = "built" /\ job[m].kind = "micro"
    /\ job' = [job EXCEPT ![m].at = "failed", ![m].images = {}]
    /\ storage' = [storage EXCEPT ![m] = {}]
    /\ UNCHANGED <<source, base, cache, record, holder, sweep, stops>>

\* The result is saved. A save that fails is an error in memory; the name of a microVM's
\* runtime is its own manifest.
FinishRecord(m) ==
    /\ job[m].at \in {"built", "failed"} /\ job' = [job EXCEPT ![m].at = "done"]
    /\ record' \in {[record EXCEPT ![m].status = "Error"],
                    IF job[m].at = "failed" THEN [record EXCEPT ![m].status = "Error"]
                    ELSE [record EXCEPT ![m] = [status |-> "Stopped",
                            names |-> IF job[m].kind = "micro" THEN {} ELSE job[m].images]]}
    /\ UNCHANGED <<source, base, cache, storage, holder, sweep, stops>>
-------------------------------------------------------------------------------
\* referenced_vm_sources() of the records as they are saved.
Named(records) == UNION {records[m].names : m \in Machine}

\* delete_environment(): a machine that is not being made loses its files, then its
\* record, and the sweep is asked for with what the other records name. The files may
\* be gone although the record could not be saved.
DeleteMachine(m) ==
    /\ record[m].status \in {"Stopped", "Error"} /\ sweep = NoSweep
    /\ storage' = [storage EXCEPT ![m] = {}]
    /\ \/ /\ record' = [record EXCEPT ![m] = [status |-> "none", names |-> {}]]
          /\ sweep' = [at |-> "waits", images |-> Named(record')]
       \/ UNCHANGED <<record, sweep>>
    /\ UNCHANGED <<source, base, cache, job, holder, stops>>

\* reclaim_storage(). One sweep is asked for at a time.
Reclaim ==
    /\ sweep = NoSweep /\ sweep' = [at |-> "waits", images |-> Named(record)]
    /\ UNCHANGED <<source, base, cache, record, storage, job, holder, stops>>

Referred == UNION {storage[m] : m \in Machine}

\* Variant: the lock is only taken for the removals.
MarkUnlocked ==
    /\ sweep.at = "waits"
    /\ sweep' = [at |-> "marked", images |-> sweep.images \cup Referred]
    /\ UNCHANGED <<source, base, cache, record, storage, job, holder, stops>>

\* Under the lock: what the records named, manifests and backing files of every directory.
\* One that cannot be followed ends the sweep.
Mark ==
    /\ sweep.at = "waits" /\ holder = "nobody"
    /\ IF Referred \subseteq Present
       THEN /\ holder' = "sweep"
            /\ sweep' = [at |-> "marked", images |-> sweep.images \cup Referred]
       ELSE UNCHANGED holder /\ sweep' = NoSweep
    /\ UNCHANGED <<source, base, cache, record, storage, job, stops>>

\* sweep_unreferenced_vm_bases(): the images that were not marked, or those up to the
\* first that cannot be removed.
Sweep ==
    /\ sweep.at = "marked" /\ holder \in {"sweep", "nobody"}
    /\ sweep' = NoSweep /\ holder' = "nobody"
    /\ \E gone \in SUBSET (Present \ sweep.images) :
         base' = [i \in Image |-> IF i \in gone THEN NoFile ELSE base[i]]
    /\ UNCHANGED <<source, cache, record, storage, job, stops>>

\* The application ends; at its next start an unfinished creation is an error.
StopApplication ==
    /\ stops < MaxStops /\ stops' = stops + 1 /\ holder' = "nobody" /\ sweep' = NoSweep
    /\ job' = [m \in Machine |-> IF job[m].at = "new" THEN job[m] ELSE [NoJob EXCEPT !.at = "done"]]
    /\ record' = [m \in Machine |-> IF record[m].status = "Provisioning"
                                    THEN [record[m] EXCEPT !.status = "Error"] ELSE record[m]]
    /\ UNCHANGED <<source, base, cache, storage>>

BasesNext ==
    \/ \E a \in Artifact : Change(a)
    \/ \E m \in Machine :
         \/ \E kind \in DOMAIN Needs : CreateRecord(m, kind)
         \/ Provision(m) \/ ProvisionFails(m) \/ Identify(m) \/ HashSource(m) \/ CopyAndHash(m)
         \/ Convert(m) \/ FinishImport(m) \/ LearnChecksum(m) \/ BuildDisk(m)
         \/ GrowFails(m) \/ FinishRecord(m) \/ DeleteMachine(m)
    \/ Reclaim \/ Mark \/ Sweep \/ StopApplication

BasesSpec == BasesInit /\ [][BasesNext]_basesVars

\* The bounds are numbers, and no machine has the name of another holder of the lock.
BasesConstants ==
    MaxEdits \in Nat /\ MaxStops \in Nat /\ "nobody" \notin Machine /\ "sweep" \notin Machine
-------------------------------------------------------------------------------
(* No image is swept that a disk or a manifest of a machine refers to, whatever *)
(* creations, deletions and sweeps overlap and wherever the application ended.  *)
DisksKept == Referred \subseteq Present

(* An image holds what its name says and what the cache promises for a source,  *)
(* although the source is read twice and may change between the readings: a     *)
(* wrong image would be shared by every later machine.                          *)
ContentAddressed ==
    /\ \A i \in Present : base[i] = i[2]
    /\ \A i \in Image : cache[i] \in {i[2], NoFile}

(* Images are swept only after their last reference has gone: the installer of  *)
(* a machine that was made successfully is there as long as its record is.      *)
InstallersKept ==
    \A m \in Machine : record[m].status = "Stopped" => record[m].names \subseteq Present
===============================================================================
