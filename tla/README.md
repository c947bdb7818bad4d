# A TLA+ development for Yougori

Yougori is a desktop application (Tauri: a Rust backend, a React front end) that runs
containers, microVMs and full virtual machines on one computer. Containers share one Linux
appliance in QEMU, or a WSL distribution when they need CUDA; virtual machines each have a QEMU
of their own. This directory holds TLA+ modules for the parts of the backend in which a mistake
costs a user data or a machine, TLC models that check them on small instances, and TLAPS proofs
that hold for all instances.

All paths below are relative to the repository. `PROJECT.json` lists, for every definition that
models code, the file and lines it stands for.

## 1. Inventory

### Components, their state and their operations

| Component | State | Operations | Module |
|---|---|---|---|
| Platform store (`src-tauri/src/store.rs`) | `state.json` with backup, temporary and recovery file; the state behind a mutex | `load`, `mutate`, `mutate_ephemeral`, `replace`, `write_atomic` | `PlatformStore`, abstractly `AtomicStore` |
| VM disk restore (`runtime/vm.rs`, `commands.rs`, `lib.rs`) | disk, retained disk, partial disk, security profile, transaction file; the durable intent | `restore_snapshot`, `install_restored_backup`, `install_vm_backup`, `rollback_vm_backup_install`, `finalize_vm_backup_install`, resolution at start-up | `VmRestore` |
| Creation, factory reset, deletion (`commands/vm_creation.rs`, `commands/factory_reset.rs`, `commands.rs`) | active generation, status, reset journal, snapshots, what takes up storage | `create_on_graph`, `factory_reset_environment`, `cleanup_pending`, `recover`, `delete_environment` | `FactoryReset` |
| VM power (`commands.rs`, `runtime/vm.rs`, `runtime/recovery.rs`) | status, process map, orphans, a command's progress, what refreshes know | `set_environment_status`, `run_backup`, `recover_vm_runtime`, `refresh_host_metrics` | `VmPower` |
| Scheduler (`scheduler.rs`) | none | `schedule`, `limit_cuda_pool` | `Scheduler` |
| Container limits (`commands.rs`, `runtime/appliance_capacity.rs`) | policies, allocations, real limits, the record of applied limits, appliance size | `set_environment_status`, `save_policy`, `prepare_container_start`, `refresh_host_metrics` | `ResourceLimits` |
| Private network (`runtime/fabric.rs`) | sockets of the environments, rules, flows, offered addresses | attach, detach, apply and remove a rule, forward a frame | `Fabric` |
| Shared folders on it (`runtime/fabric/file_service.rs`, `runtime/connection_files.rs`) | slots, requests in work, shares | publish, withdraw, receive, look up, call, answer, reset | `FileService` |
| Connections (`commands.rs`) | connections and their enforcement, rules and folders in force | create, activate, delete, `reconcile_connections` | `Connections` |
| Snapshots, retention, backups (`commands.rs`, `backup.rs`) | records, files and inner snapshots, runs, objects in the store | create, delete, retention, `run_backup`, restore | `Snapshots` |
| Local backups (`local_backup.rs`) | folders with payload and manifest, staging | export, import | `LocalBackup` |
| Appliance (`runtime/appliance.rs`, `runtime/storage*.rs`, `runtime/mod.rs`) | process, base, overlay, marker, leases, marks | prepare, boot, lease, reclaim, stop | `Appliance` |
| Its memory (`runtime/appliance_capacity.rs`) | plugged and online memory, what is accounted for | `ensure_container_capacity`, `grow_live_appliance` | `ApplianceCapacity` |
| Its agent's locks (`appliance/agent/main.go`) | entries, references, mutexes | `lock`, the unlock it returns | `KeyedLocker`, abstractly `KeyLocks` |
| CUDA engine (`runtime/cuda/host`, `runtime/cuda.rs`) | owner, distribution, daemon, payload; a route file for each container | start, recover, install, compact; create and restore routes | `CudaRuntime`, `ProviderRoutes` |
| Automation jobs, CLI (`automation`, `cli`) | job table, permits, write lock | submit, run, finish, list, get, prune | `Automation` |
| Processes (`instance_lock.rs`, `lib.rs`, `automation/transport.rs`) | instance lock, socket, stage of each process | open, start by a client, set up, bind, exit, kill | `Startup` |
| Agent skill files (`cli/src/skills.rs`) | two files, their marker | install, update | `AgentSkill` |
| Host terminal (`host_terminal.rs`) | sessions, shells, output buffers | create, read, close, close owner | `HostTerminal` |
| Workspaces (`workspace.rs`) | publications, tunnels, ports in guests; terminals, folders | publish, unpublish, sync; create, attach, close; sweep | `Publishing`, `GuestSessions` |
| File import (`file_import.rs`, `runtime/import_drive.rs`) | plan, copy, drives | scan, copy, deliver; attach, detach | `FileImport` |
| Cloud nodes (`runtime/cloud`) | sessions, calls, streams | connect, disconnect, call; open, forward, close | `CloudLink`, `CloudBridge` |
| VM images (`runtime/vm.rs`, `commands/vm_creation.rs`) | sources, images by hash, checksum cache, disks, records | import, create, delete, sweep | `VmBases` |
| The agent's handlers, boot media, native sandbox, GPU, parser, front end, packaging | | | not modelled, see section 7 |

### How they interact

Every command of the user, from a window or from the CLI, is an asynchronous function of the
backend. It reads a copy of the platform state, calls a runtime (a child process, QMP, the agent's
HTTP interface), and then saves what came of it with `store.mutate`. Four things make this hard.

* **Locks cover different things.** The store has a mutex for each save. An environment has an
  asynchronous lock that most of its commands hold. Container policies have one global lock,
  `CONTAINER_POLICY_OPERATIONS`, connections another. The refresh of the host metrics takes the
  policy lock for the containers and none for the virtual machines.
* **Every save can fail and the process can end anywhere.** A command must then take back what the
  runtime did, or leave enough on disk for the next start to decide.
* **The world moves.** Guests exit by themselves, QEMU outlives the application when that is
  killed, and a call that timed out may have had its effect.
* **State is copied.** A command decides from what it read before a long call; a refresh writes
  what it saw some time ago; the limits that need applying are told from a record of those that
  were.

### What makes each component correct

* Store: what a write acknowledged is there after any crash; a start never shows a torn state or one
  whose write had failed, and an older one only if a file was damaged or could not be read; nothing
  else keeps the store from opening.
* Restore: the machine has the old disk with the old TPM identity, or the new with the new; the old
  one is not deleted before the new one is committed; start-up resolves what was interrupted; the
  application runs no machine before that.
* Reset: the active disk is never erased; whatever disk takes up storage is active or in the journal; a
  repeated reset does not erase a fresh disk; no environment is shown as provisioning for ever.
* Power: at most one process holds a disk; Stopped means that it is released; a copy is made of a
  disk nobody writes to; a dead machine is noticed.
* Limits: allocations fit the host and the policies, and respect priorities; a command that fails
  leaves the limits it found; limits come to be what was scheduled.
* Network: an answer passes only while the present rule would let its flow open; the end of an old
  socket leaves its successor alone; no rule outlives its connection unless an engine did not answer;
  what was reconciled is in force.
* Shared folders: an answer is for who asked and from the share there is now; slots come back.
* Backups: what is recorded can be restored, what is stored is recorded; a folder with a manifest
  is whole; what is imported is what was verified.
* Appliance: one process owns the disk, on the base it was made on, checked unless it was closed
  cleanly; compaction spares containers; memory that is counted is there; the agent's locks exclude
  each other and never all wait.
* CUDA: the disk is compacted alone; recovery spares a live instance, as long as its script ends with
  it; no container is looked for in the wrong engine.
* Processes and files: one engine at a time; an interrupted update is repeated, an edit that the
  update has seen kept.
* Jobs, terminals, workspaces, cloud nodes: what was begun ends, what a stopped environment had is
  given up, nobody is told that output is complete when it is not.
* Images: an image is there as long as a disk refers to it, and holds what its name says.

The hazards, each at the line where it bites, are in `PROJECT.json`; section 7 lists those that
no property covers.

## 2. The modules

**`AtomicStore`** is what the store promises: a register whose value changes by a write that
happens or does not, with a crash that keeps the last acknowledged value or takes one whose
acknowledgement was still out. It may hold the value before the present one too (`fallback`), to
which it goes back only by an event of its own, a start that cannot read the present one.

**`PlatformStore`** has one action per file system call of `write_atomic` (create, write and flush
the temporary file, remove the old backup, rename the primary to the backup, rename the temporary
file to the primary, roll back) and of the recovery in `load`. A platform state is the set of facts
it holds; `Volatile` facts are the cloud sessions that `load` resets. Each call can fail, the
process can crash before each, and a state file can be damaged while the store is closed. Reading can
fail too, of either file and without any damage: `load` then takes the backup and sets a primary
aside that was whole, or refuses to open. What `path.exists()` says is taken to be true. The history
variables `acked`, `unsure` and `prior` say what has been promised, `harmed` that a file was damaged
or a whole primary set aside since, `unread` that the last start could not read a file.

**`VmRestore`** follows one machine through a restore. An image is a disk content together with
its TPM identity, so that a disk next to the wrong profile is visible. The steps are those of
`install_vm_backup`; the undoing after each failure, the rollback and the finalization are the
code's own, called by the command or at start-up. Faults are of two kinds: those the code is built
for (`Tolerated`) and those of a call that is itself part of an undoing (`Hostile`). A machine whose
process outlives the application (`orphan`) is one nobody sees here: `install_vm_backup` and the
start-up ask the map of processes, which is that of this run. The properties of the running machine
are therefore about machines the application knows of; for the others see section 6.

**`FactoryReset`** follows the storage of one environment from creation to deletion. A generation is
a `runtime_id`; the journal is `pending_factory_resets`. `cleanup_pending` is called by a reset, by
start-up and by a deletion, and `caller` says what comes after it. `Vm` chooses between QEMU
machines and containers, for which the check of a running guest differs: a container may be left
running by a failed stop or a start that timed out, with its status Error, and a reset looks at the
status alone. A snapshot writes its artifact and saves its record in two steps; what is broken off
between them stays (`stray`), as no start looks for it.

**`VmPower`** has three parties: the command that holds the environment's lock, with the runtime
calls it still has to make in `calls`; the refreshes, which read, probe and report in three steps
without a lock; and the guest with its process. `own` is the entry of the process map, `boot` a
process not yet in it, `orphan` one of an earlier session. `Undo` is
`rollback_runtime_transition`.

**`Scheduler`** translates `scheduler.rs` into operators on integers: the step in
which a resource is handed out (0.05 processors, 0.125 GB) is `Step` = 1000 units, so that every
product with a weight or factor of the code is a whole number and rounding to steps is what the
code does. The loop that serves the environments in the order of their priorities is a recursive
function over the number served so far, so that its loop invariants can be proved.

**`ResourceLimits`** puts the scheduler into its commands. `op` is what holds
`CONTAINER_POLICY_OPERATIONS`: a start, a saved policy or a refresh, with the containers it has yet
to visit and the limits it would return to. `limit` is what a container really runs under, `cache`
is `APPLIED_RESOURCE_LIMITS`. A call to the agent that fails may have had its effect; `doubt`
remembers for which containers.

**`Fabric`** forwards frames between sockets. A frame is the sender it claims, the receiver it
addresses and a segment (protocol, ports, whether it may open a flow); the host knows the socket.
Two of the three environments have the same hash for an address. A socket's task can end after its
environment attached another one.

**`FileService`** is the HTTP service in that network: slots with a socket each, a request that is
looked up, called and checked again while shares are replaced and clients vanish. A share has a
folder server for each end of its connection; which one a request is sent to follows from the end
at which the environment was when the share was looked up.

**`Connections`** puts recorded connections into force. `op` is the command that holds
`connection_operations`; starts, stops, deletions and restores do not hold it. Rules are in engines
that lose them with a guest. An engine may fail before or after a rule took effect, or not answer at
all: a withdrawal then returns with the record still enforced, a creation leaves a rule that no
record names. The host takes the folders of a guest away only when the task of its socket has
noticed the end (`stale`). A reconciliation takes the connections that are due in any order, as the
record they stand in has no order that a property could rely on.

**`Snapshots`** has the records, the data they stand for (a file, or a snapshot inside a disk), the
backup runs and the objects in the remote store, call by call. An artifact is a set of chunks.
Retention and deletion take no lock of the environment. A snapshot that is restored in place
replaces the disk and takes the inner snapshots of other records with it; such records are `hollow`,
like those of a machine restored from a backup. **`LocalBackup`** is the same over a folder
on a medium of the user's, whose payload may change while it is read.

**`Appliance`** follows the disk of the containers' machine over kills, orphans and updates: overlay,
marker, base, leases, reclamation. The machine can die by itself, or be killed when it misses the
deadline of its boot, and leave the overlay unsound; the shutdown does not look at how it ended.
**`ApplianceCapacity`** grows the machine's memory with devices,
QMP calls whose answers may be lost, and a guest that brings memory online later.
**`KeyedLocker`** is the lock of the agent inside: entries that are made for a key and dropped with
their last reference, taken in the order of the keys, and a second call inside the first for the
storage quotas. **`KeyLocks`** is what that is to be: one lock for each key.

**`CudaRuntime`** is the WSL distribution several instances of the application can reach, under a
lock file that the system releases; a PowerShell script that was given up after 45 seconds, or whose
instance was killed, goes on without the lock (`late`, `unattended`) and may still terminate the
distribution. Only daemons count as users of the disk here: a setup script that outlived its instance
does not. **`ProviderRoutes`** has the small files that say which engine has a container, created by
one call and filled by the next, either of which can fail, as can every reading.

**`Startup`** has several processes of the application over the instance lock and the socket, and
the client that starts one. **`AgentSkill`** looks at the files, reads them again for the marker,
writes the marker, then the files, and can be interrupted, overtaken by an edit or outdated at each.
The files of the legacy installer, which had no marker, are left out. **`Automation`** has the jobs
of the command line: permits, the lock of mutations, history and expiry, and clients whose replies
are lost.

**`HostTerminal`** counts output instead of keeping it: a thread fills a bounded buffer, a client
reads by offset, and a session is closed by its tab, its window or the shutdown. **`Publishing`**
and **`GuestSessions`** are the two halves of `workspace.rs`: what is published with its tunnels and
the ports in the guests; and terminals and host folders. Both have the cleanup that works on a copy
of the statuses. A list of ports that is answered with Ok may have passed over a container that
could not be inspected, or the whole engine (`missed`). **`FileImport`** copies a source that changes
meanwhile, and attaches drives over answers that are lost; an archive that came out short is padded
and confirmed. **`CloudLink`** is the session of a cloud node with the calls that wait in it,
**`CloudBridge`** one stream through its bridge, whose opening may be given up after 25 seconds, or
refused as one too many, while the connector goes on with it (`reported`).

**`VmBases`** has the images under machines: import by hash with a cache of checksums, machines
built on them, and the sweep, which takes references of the records read before it waits for the
lock.

An `MC` module gives them their instances. `MCHostServices` and `MCHostProgress` hold several
components that share no state: the variable `part` says which of them moves in a behaviour, so
that one run explores each of them completely, and none of their products. `MCHostProgress` has
the components of which progress is asked and repeats their fairness for the one that moves. A
property there is the conjunction of what its components promise. A `_proofs` module holds the
theorems of a component. The definitions next to an action with a name such as `ExportUnchecked` or
`LockUnsorted`, marked *Variant*, are mistakes one could make in the code; they are not part of any
specification and serve to show that a property would notice them.

`PlatformStore` justifies that `VmRestore`, `FactoryReset` and `VmPower` treat a save as one step
that happens or fails: that is what its refinement of `AtomicStore` states, for starts that can read
the state file. A start that cannot, and goes back a generation, is in the store's modules only. The
modules are not composed further. Within one environment the environment's lock keeps restore, reset
and power commands apart, so that composing them would multiply states and add no interleaving;
where the lock is not held (the refresh against commands, commands on virtual machines against the
container limits) both parties are in one module.

## 3. The runs

| Run | Properties | Instance | Distinct states |
|---|---|---|---|
| `store` | `NothingInvented`, `OpensUnlessDamaged` | two facts, one volatile; every call fails, crash, damage; three faults | 143,461 |
| `store_refines_register` | `Durability`, `NeverForgotten`, `ImplementsAtomicStore` | the same without damage and with a rollback that works | 107,980 |
| `vm_restore` | `RecoveryRestores`, `RunsOnItsDisk`, `NeverRunsPending`, `OldDiskKept`, `StartupResolves` | three images, TPM, every fault, four of them | 28,255 |
| `factory_reset` | `NothingLeaks`, `RunsOnActive`, `NoSpinner`, `ActiveKept`, `SpinnerEnds` | a machine, two snapshots, four generations, three faults | 134,983 |
| `vm_power` | `OneHolder`, `StopConfirmed`, `PauseHonest`, `ExportQuiet`, `DeadNoticed` | two overlapping refreshes, every fault, no bound on steps | 84,655 |
| `resource_limits` | `TypeOK`, `WithinBudget`, `WithinPolicy`, `NoInversion`, `CacheTruthful`, `RollbackRestores`, `LimitsFollow` | three installations of three environments, three commands, one fault, two pressures | 358,015 |
| `host_services` | `NetworkKept`, `BackupsHold`, `ApplianceKept`, `AgentLocks`, `EnginesApart`, `StartupKeeps`, `ImportsWhole`, `StreamsWhole`, `ImagesKept` | fifteen components, below | 1,340,563 |
| `host_progress` | `FoldersServed`, `JobsServed`, `WorkspacesReleased`, `NodesFollowed` | five components with fairness, below | 64,920 |

Four more runs each check one sentence of the repository that the code does not keep; see
section 6.

What the properties of the last two runs say, by component:

| Property | Component | Its part |
|---|---|---|
| `NetworkKept` | `Fabric` | `FlowsPermitted`, `FlowsHaveEnds`, `OneReceiver`, `ReplacementKept` |
| | `Connections` | `NoLeftoverRule`, `ReconciledInForce` |
| `BackupsHold` | `Snapshots` | `CompleteIsDownloadable`, `NoOrphans`, `RecordsHaveData` |
| | `LocalBackup` | `ManifestVouches`, `ImportsWhatWasExported`, `StagingCleared` |
| `ApplianceKept` | `Appliance` | `OneOwner`, `BaseMatches`, `MarkerIsTrue`, `ReclaimSparesContainers` |
| | `ApplianceCapacity` | `CapacityBacked`, `NoDoubleGrowth`, `SlotsSuffice` |
| | `KeyedLocker` | every step is one of `KeyLocks` (`StepAsPromised`) |
| `AgentLocks` | `KeyedLocker` | `EntriesCounted`, `KeysExclusive`, `SomeoneGoesOn` |
| `EnginesApart` | `CudaRuntime` | `CompactionAlone`, `RecoverySparesLive`, `NeverBootsObsolete` |
| | `ProviderRoutes` | `AskedWhereItIs`, `RoutesAgree` |
| `StartupKeeps` | `Startup`, `AgentSkill` | `OneEngine`; `Retryable`, `EditsKept` |
| `ImportsWhole` | `FileImport` | `CopyWhole`, `DrivesBounded`, `InUseKept` |
| `StreamsWhole` | `HostTerminal` | `HolesTold`, `DoneAfterLast`, `NoStrayShell` |
| | `CloudBridge` | `WholeReply`, `WholeRequest` |
| `ImagesKept` | `VmBases` | `DisksKept`, `ContentAddressed` |
| `FoldersServed` | `FileService` | `AnswersOwnClient`, `WritesPermitted`, `AnswersFromPresentShare`, `SlotsReturn` |
| `JobsServed` | `Automation` | `PendingKept`, `OneMutation`, `HistoryBounded`, `JobsEnd` |
| `WorkspacesReleased` | `Publishing` | `TunnelsListed`, `StoppedUnpublished`, `PortsWithdrawn` |
| | `GuestSessions` | `NoLostTerminal`, `FoldersRevoked` |
| `NodesFollowed` | `CloudLink` | `CallsEnd`, `LostNoticed`, `StoppedDetached` |

Each is defined, with the code behaviour it is about, in its component's module, together with
that component's types.

**What the properties set aside.** Some of them hold only apart from a failure that the code admits.
A history variable remembers where that failure was, and the property is silent about that place
alone. The failure is then an action of the model, and what comes of it is visible:

| Property | Silent about | After |
|---|---|---|
| `Durability`, `NothingInvented` | the state given up | a damaged file, or a whole primary that could not be read and was set aside (`harmed`, `prior`) |
| `OpensUnlessDamaged` | that start | a failed read in it (`unread`) |
| `NothingLeaks` | an artifact | a snapshot broken off before its record was saved (`stray`) |
| `RecordsHaveData` | a record | its removal broke off, or a restore replaced the disk its data was in (`hollow`) |
| `NoOrphans`, `StagingCleared` | a file | a removal or a look for its TPM state that failed, a crash (`leaked`, `stranded`) |
| `NoLeftoverRule` | a connection | an engine that did not answer, a restore of its record (`history.leftover`) |
| `ReconciledInForce` | the time until the next reconciliation | a change of an environment, a socket found closed, an unanswered withdrawal (`history.sound`) |
| `MarkerIsTrue` | the disk | a machine recorded without a look after it had died or been killed (`unsure`) |
| `RecoverySparesLive` | a daemon | a script that went on without its lock (`forced`) |
| `EditsKept` | an edit | it was made where an update under way does not look again (`raced`) |
| `CopyWhole` | an archive | a change of the source after it was compared with the plan (`origin`) |
| `WholeReply` | a stream | the request that opens it was given up (`reported`) |
| `PortsWithdrawn` | ports, or a container | a failed request that named the ports (`doubtful`), an accepted one that left the container out (`missed`) |

Where a document, a comment or a message says that this does not happen, section 6 says that
it does.

**Why the bounds are enough.** In the store, two facts make a state, its predecessor and a candidate
all different; three faults allow a failed call or reading, a failed answer to it and a crash during
the recovery from both. In a restore, the third image separates a second restore from the first and
from the original, and four faults let a retry be interrupted as often as the first attempt. A reset
needs an active, a retired and a fresh generation, and a fourth to see the next reset; one snapshot
of the retired and one of the active generation make two. `VmPower` has no counters: every fault may
happen any number of times, and two refreshes are what it takes for one to remove what the other
looks at. For the limits, three commands are a start that changes a neighbour's share, a second that
fails and a third that works on what is left; the host is small enough (2 processors, 4 GB) that the
third environment does not fit with its preferred share. The same instance with four commands for a
single installation has also been checked (1.84 million states).

Of the services, each has two of what can be confused (two environments with one address, two
containers or machines, two instances of the application, two folders, two shares of one
connection, two sessions of one node) and three where the third sees what two leave behind (three
processes, three requests at the agent's locks, three drives for two places, three launches of the
appliance). Limits of the code are scaled down until they are reached: a buffer of two units, one
slot of the folder service, a history of three jobs, one flow in a table, two memory slots, one
pending message. Counters of faults, edits, kills and commands allow one to interrupt the answer to
another; `Connections` has one command at a time over states in which everything or nothing is
enforced (with two commands, 6.83 million states, checked apart from the others). Branches of the
code that these runs never take are the ones they show to be unreachable: a socket that answers
although the instance lock is held, a missing memory slot, an image a disk refers to missing at a
sweep.

The invariants, and all properties of `host_services`, do not rest on these bounds alone: every one of
them is proved for all values of the constants (section 5). `resource_limits`, `host_services` and
`host_progress` do not check deadlock: nothing is left to do once the commands of a bounded behaviour
are used up, an application is closed or its machine is gone. The other runs do.

## 4. Fairness

* `PlatformStore`, `VmRestore`, `FactoryReset`: weak fairness of the operation in progress. A
  function that was called goes on to its next call; all calls there return, with an error if
  need be. The start of an application that is down is part of it, so that "down leads to" reads: if
  the user starts it again. A start that was refused is repeated only if the user likes. No fairness
  is assumed of requests or faults.
* `VmPower`: weak fairness of commands begun, since the waits in them have timeouts
  (`wait_for_registered_vm_exit`, `wait_for_vm_startup`), and of the refreshes, since the dashboard
  polls and a headless engine has its own tick.
* `ResourceLimits`: `HoldingGoesOn` is weak fairness of whatever holds the lock. `RefreshesGoOn` is
  strong fairness of a refresh getting the lock: the lock is a tokio mutex, which is handed over in
  the order of the requests, and refreshes keep coming. It is required only while the CUDA pool
  lets a refresh begin. Both are written without `ENABLED`, as state conditions that are equivalent
  to it, which spares TLC from evaluating the scheduler twice.

* `FileService`: a slot's loop polls its socket and gives up a client after 30 seconds of silence.
* `Automation`: tasks are spawned on the application's runtime and every command ends; the lock of
  mutations is a tokio mutex, and every mutation that holds it finishes.
* `Publishing`, `GuestSessions`: the cleanup runs every two seconds; strong fairness only of a
  synchronization getting its lock (a tokio mutex), weak fairness of a request whose answer arrives
  once no more are lost. Requests and stops of environments have none.
* `CloudLink`: the session's task, the bridge's end, the timeout of a call and the refresh.

Liveness is checked for: a store opens unless damaged (`OpensUnlessDamaged`), an interrupted
restore is resolved (`StartupResolves`), provisioning ends (`SpinnerEnds`), a dead machine stops
being shown as running (`DeadNoticed`), limits become what was scheduled unless the container's
state or the schedule changes again (`LimitsFollow`); a slot is free again (`SlotsReturn`); a job
ends (`JobsEnd`); a stopped container is unpublished, its folders are revoked and its ports
withdrawn (`StoppedUnpublished`, `FoldersRevoked`, `PortsWithdrawn`); a call to a cloud node comes
back, a lost session is noticed and a stopped node detached (`CallsEnd`, `LostNoticed`,
`StoppedDetached`).

## 5. The proofs

No theorem bounds the number of faults, images, snapshots, generations, refreshes or environments;
the bounds in the guards are arbitrary constants.

**Store** (`PlatformStore_proofs`). `TypeCorrect` and `NothingIsInvented` (`NothingInvented`) hold
under every fault: whatever a file holds, or a process has read from one, is a state somebody asked
to save. `StoreInvariant`, `StateSurvives` (`Durability`) and `NotForgotten` (`NeverForgotten`) hold
under the assumption `RollbackReliable` that the rename which rolls a failed write back does not
fail itself; and `Refinement`, that the store implements the register, if in addition no file is
damaged. Failed reads need no assumption: they are steps of the register as well, and `Durability`
ends only where one of them set a whole primary aside. `Durability` alone is not inductive: it says
that the acknowledged state is in the primary or the backup, and whether removing the backup keeps
that depends on what the primary holds at that point of the write. `WriteInv` says it for each step
of a write, `RecoveryInv` for each step of a recovery, `HistoryInv` ties the history to both.

**Restore** (`VmRestore_proofs`). `AllOrNothing` (`RecoveryRestores`), `RunsOnCommittedDisk`
(`RunsOnItsDisk`), `RetainedDiskKept` (`OldDiskKept`), from `RestoreInvariant`, which holds as long
as no hostile fault has happened. `PhaseInv` distinguishes an uncommitted restore, in which the
rollback would produce the committed image, from a committed one, in which the disk already is
that image; `StepInv` says how far the files are for each step. `NeverRunsInBetween`
(`NeverRunsPending`) has an invariant of its own, as it holds under the hostile faults too: no guest
that the application knows of runs between the first change of a restore and its commit or its
undoing.

**Reset** (`FactoryReset_proofs`). `NoStorageLeaks`, `GuestsRunOnActive`, `NoPermanentSpinner`,
`ActiveGenerationKept`, for machines and for containers, from `ResetInvariant`. The strengthening
(`NamesInv`, `AbsenceInv`, `StepInv`, `StatusInv`, `GuestInv`) says that an uncommitted journal
entry names the newest generation and never the active one, that a machine of which the status claims
nothing runs does not run while an operation relies on it, and where a snapshot's artifact may be
unlisted. Of containers the second part is weaker: one that a failed stop left running is that of the
environment or of a generation in the journal. `ResetOnce`: if no save fails and nothing crashes, a
reset is never repeated on the fresh disk; the run `factory_reset_unsaved` shows that the
assumption is needed.

**Power** (`VmPower_proofs`). `SingleHolder` (`OneHolder`), `StoppedMeansReleased`
(`StopConfirmed`), `BackupsAreQuiet` (`ExportQuiet`), for any number of refreshes, from
`PowerInvariant`: `CallInv` ties a process that is starting or being stopped, and a copy being
made, to the call of the command that holds the lock. `PauseIsHonest` needs `PauseInv` in addition,
which follows a pause through the undoing of a command whose save failed.

**Limits** (`ResourceLimits_proofs`). `RecordIsTrue` (`CacheTruthful`) and `GivingUpRestores`
(`RollbackRestores`), for any number of environments, policies and faults, from `LimitInvariant`:
its third part, `Accounted`, says for each container which a command has touched that its old limit
is on the list to be undone, or that the undoing of it failed.

**Scheduling** (the second half of `ResourceLimits_proofs`). `TypeCorrect` (`TypeOK`),
`SharesWithinPolicy` (`WithinPolicy`), `SharesWithinBudget` (`WithinBudget`) and `ServedInOrder`
(`NoInversion`), from `ShareInvariant`. The schedule is proved first, as an algorithm: `Served` and
`Ordered` are the loop invariants of the pass that hands out shares (each share is between the
policy's minimum and maximum, what was handed out and what is left make up the budget, and nobody
got more than its floor while one served before it wants a step more), `Pooled` and `PooledInOrder`
those of the CUDA pool's pass. The state then keeps more than the four invariants say: an
environment can end without a new schedule (a machine that dies, a power command that fails, an
undoing), so that the shares left are those of an older and larger set. `Sound` says what remains
true of them: the floors of those that are left are still at most their shares. `ServedInOrder` has
the hypothesis `WholePolicies`, that policies are whole steps; with policies that are fractions of a
step TLC finds an inversion of less than one step, which is the rounding of the code.
`PolicyAssumption` is what `validate_range` enforces.

**Services.** `Services_proofs` and `Storage_proofs` prove the components of `MCHostServices` one by
one, each from its own specification:

* `LocksKept`: `EntriesCounted`, `KeysExclusive` and `SomeoneGoesOn` of `KeyedLocker`, for any number
  of requests and keys. A reference is counted as long as a request waits for the entry or holds it;
  of those that wait, the one with the largest key in hand waits for nobody who waits.
  `LocksImplementKeyLocks`: `KeyedLocker` implements `KeyLocks`.
* `TerminalWhole` and `BridgeWhole`: the streams of `HostTerminal` and `CloudBridge`. A reply is
  whole unless the request that opened its stream was given up.
* `ImportWhole` (`FileImport`) and `BasesKept` (`VmBases`). A copy that is done and short went into an
  archive, from a source that was changed after it had been compared with the plan.
* `BackupWhole`: `ManifestVouches`, `ImportsWhatWasExported` and `StagingCleared` of `LocalBackup`.
* `SnapshotsWhole`: `CompleteIsDownloadable`, `NoOrphans` and `RecordsHaveData` of `Snapshots`. None
  of the three is inductive. `ShapeInv` says that a snapshot belongs to one environment for ever and
  that what lies inside a disk is a machine's; `RemoteInv` that the manifest comes after the chunks
  and the mark of completeness after the manifest; `UploadInv` how far the present upload is;
  `OwnedInv` that data without a record belongs to an operation in progress or was left behind by a
  failure; `NewInv` that a snapshot being taken is known to nobody else, although retention and
  deletions take no lock.
* `OneEngineAtOnce` (`Startup`): whoever is past the lock is the one it names. `SkillFilesKept`
  (`AgentSkill`): as long as nobody has edited a file, the marker explains what each file holds
  (`Untouched`), so that an interrupted update is recognized and repeated; a text of the user's that
  the marker takes for the application's was written between the two readings of an update
  (`Raced`).
* `CudaEngineKept` (`CudaRuntime`): `InstanceInv` ties the daemon, the owner's lock file and the step
  of each instance together; a daemon's instance is alive and its payload the expected one. A daemon
  that is ended from outside is ended by a script that has no lock any more.
  `RoutesKept` (`ProviderRoutes`): `RouteInv` says which contents the file of a container can have
  for each thing the server knows of it.
* `FabricKept`: `FlowsFit` states `FlowsPermitted` and `FlowsHaveEnds` of each remembered flow at once.
* `ConnectionsKept`: `NoLeftoverRule` needs `RulesInv`, that a rule in force is accounted for by its
  record, by a failure the code admits or by the command that is making it; `ReconciledInForce`
  needs `SoundInv` and `CalmInv`, which say the same of what a reconciliation has done so far and of
  what it has yet to do, as long as no environment changes.
* `ApplianceDiskKept`: `RunInv` (an orphan, the boot and the own process exclude each other),
  `BaseInv` (a marker that names the present base names that of the overlay), `FitInv` (a marker that
  vouches for the disk is true of it, and is void while somebody writes to it) and `LeaseInv`.
* `CapacityKept`: what is plugged in is a recursive sum over the devices; `PluggedAppend` says that a
  device adds its size to it, `ChunkSize` that a chunk is large enough for the slots to last. The
  invariant says that the devices, each at least a chunk, are no more than there is room for unless
  the machine already has all it may have.

`HostServices_proofs` composes them. A step of the composition is a step of the part that moves and
leaves the variables of the others alone, so that the composition implements the specification of
each part, under the constants' assumptions of all (`PartsAssumption`). Hence `AgentLocksHold`,
`StreamsWholeHolds`, `ImportsWholeHolds`, `ImagesKeptHolds` and `BackupsHoldHolds` for its
invariants, and `StartupKeepsHolds`, `EnginesApartHolds`, `NetworkKeptHolds` and
`ApplianceKeptHolds` for the properties that say something of steps as well. With them every property
of `host_services` is a theorem.

The same module proves the safety of components of `MCHostProgress`, each from its own specification:

* `FoldersAnswerRightly` (`FileService`): a slot whose socket listens has no request, and the request
  of an open one is that of the client at it. That no answer comes from a share that was withdrawn
  or replaced is a property of the steps: only `Check` gives one, and compares there. That nobody
  writes who only reads follows from the server that a request was given staying that of its share.
* `JobsKept` (`Automation`): a job is underway until it is completed (`StatusInv`). `Pruned` says what
  `prune()` leaves: all that is not completed, and either there is room for one more or nothing is
  completed; in the second case the permits bound what is left, since there are no more of them than
  places in the history (`AutomationConstants`, 8 and 64 in the code).
* `TunnelsAreListed` (`Publishing`): a failed synchronization takes a publication back, and would
  leave its tunnel behind if it could be one; `CallerWaits` says that only a local publication waits
  for one, and that it waits once. `TerminalsKnown` (`GuestSessions`): before the agent was asked there
  is no terminal.

**Induction over data.** The loop of the scheduler and sums over lists need an induction over numbers.
It is done by the least counterexample: the set of those indices at which the claim fails is a set
of naturals, a non-empty one has a least element (`WFMin`, `FirstExists`), and the step of the loop
before it refutes it. A set stands where an induction rule has a predicate.

**Assumptions.** Those of the `ASSUME`s: constants have their types, the special values differ from
ordinary ones, the faults named are ones the module knows. TLC evaluates them in every run.

**Only model-checked.** All liveness properties, as fairness is out of the prover's reach. These are
`OpensUnlessDamaged`, `StartupResolves`, `SpinnerEnds`, `DeadNoticed` and `LimitsFollow`, and the four
properties of `host_progress`, each of which speaks of progress as well. Their safety parts
(`AnswersOwnClient`, `WritesPermitted`, `AnswersFromPresentShare`; `PendingKept`, `OneMutation`,
`HistoryBounded`; `TunnelsListed`; `NoLostTerminal`) are proved of each component by itself, as above,
except for the types of `CloudLink`, of which nothing but progress is asked. The
container variant of `FactoryReset` (`Vm` = FALSE) is the other way round: its safety is proved, its
`SpinnerEnds` not checked.

## 6. Where code and text disagree

* `vm_restore_abandoned`. `install_vm_backup` promises to preserve the transaction when the old disk
  cannot be put back, but its callers clear the restore intent after any error; the next start then
  takes the restore for committed and deletes the only copy of the old disk.
* `factory_reset_unsaved`. `docs/factory-reset.md` says that a retry after the switch does not wipe
  the fresh disk again. The journal entry is removed by one save, the end of the reset recorded by
  the next; if that one fails, the retry resets again.
* `vm_power_refresh_race`. A refresh takes no lock between reading the status, probing and writing.
  A machine that a command has stopped, or stopped for a backup and started again, is recorded as
  having exited unexpectedly, and is not probed again.
* `vm_base_reclaimed`. A comment says that shared installers and base disks are reclaimed "only after
  the final environment/snapshot reference disappears". The references of the records are read
  before the sweep waits for the lock of the images; an installer that a machine under creation has
  just imported is named by no record and by no backing file yet, and is removed.

Found while modelling and not stated as runs, some of them the steps that the properties set aside
(section 3):

* The documentation promises atomic generations with a durable backup. If the rename that rolls a
  failed write back fails too, nobody notices; the next write then begins by removing the backup,
  the only generation left, and a process that ends there starts empty (`store.rs:195`,
  `docs/technical-reference.md:50`).
* `docs/macos.md` says that the replacement of a disk refuses one that an orphaned QEMU has open. A
  restore asks for processes of its own run only (`vm.rs:1903`, `docs/macos.md:112`).
* A comment says that the overlay of a cleanly stopped appliance needs no check. The shutdown takes
  every process that ended within ten seconds for one, whatever its exit status
  (`runtime/mod.rs:293`).
* The README of the CUDA runtime says that one owned by another live application is never
  force-stopped. The script of a recovery that was given up does not end with it, and may terminate
  the distribution after another instance took it over (`runtime/cuda/host/src/lib.rs:157`,
  `runtime/cuda/README.md:58`).
* An update of the skill files says that personal edits are preserved. One made between its two
  readings goes into the marker as the application's own; if the update ends before it replaces the
  file, the next one finds that edit and replaces it (`cli/src/skills.rs:174`, `206`).
* The documentation says that a container's exception is for the published ports only. A withdrawal
  is answered with Ok, and recorded, though a container or an engine was left out
  (`appliance/agent/workspace.go:441`, `runtime/workspace.rs:22`,
  `docs/technical-reference.md:229`).
* A CUDA container that is paused right after its start keeps an allocation that was scheduled
  without the pool's limit; `limit_cuda_pool` then fails every refresh, for all engines, although
  its comment says that other engines are not affected (`commands.rs:3337`, `scheduler.rs:51`).
* `docs/technical-reference.md:50` says that the local snapshot count is bounded. Once a machine's
  backup was restored, the snapshots inside its old disk are gone and their records cannot be
  deleted: every retention stops at the first of them.
* The rest of the snapshots: a deletion that takes no lock can race a restore of the same snapshot;
  a restored VM backup leaves the older local file, a failed container restore the download; a
  failed second restore removes the artifact the first one uses; a run whose last save fails is
  Running until the next start.
* After `restore_snapshot` connections are recorded as enforced as they were in the snapshot, though
  nothing put them in force again.
* A finished job may be pruned before its client has asked for it
  (`docs/technical-reference.md:175`).
* An empty route file, left by a kill between creation and contents, keeps the application from
  starting (`lib.rs:69`).
* A normal exit terminates an abandoned CUDA runtime, though a comment reserves that to the Stop
  button.
* The archive of a copy whose source became shorter is padded with zeros up to the next block and
  confirmed by the guest with the planned number of bytes (`file_import.rs:368`,
  `appliance/agent/file_import.go:84`); the copy onto a drive compares lengths.
* A cloud stream whose opening took longer than 25 seconds is reported as closed to the client while
  the connector may open it later (`runtime/cloud/mod.rs:225`).
* `export_backup` returns before its cleanup if it cannot look for the TPM state of the artifact
  (`local_backup.rs:447`); the artifact stays.
* The artifact of a snapshot whose record was not saved stays, also when the removal that follows a
  failed save fails (`commands.rs:2297`).
* A connection whose withdrawal an engine did not answer stays recorded as enforced, and a rule whose
  creation was not answered is named by no record (`commands.rs:2068`, `commands.rs:2141`).
* Waiting calls of a lost cloud session are answered before its channel closes; one that registers
  in between is saved only by its timeout of 25 seconds.
* Half-copied images of interrupted imports stay for ever; a source edited without a change of
  length, time and samples is taken for the old one.

## 7. What is not modelled

Inside the modules that exist:

* the contents of states, disks and archives; encryption, checksums and formats;
* `VmPower`: the live limits of virtual machines, the power of containers and of cloud nodes, and
  the record of a backup's snapshot beyond the power state;
* `ResourceLimits`: storage limits, the start and exit of the appliance, the virtual machines' live
  limits, and floating point: the code's numbers are doubles rounded to whole steps, the model's
  are integers with a thousand units per step;
* time: a timeout is a failure that may happen at any moment;
* `Publishing`: the two engines of containers are one, and its agent does not start again;
* the installers that are staged in a guest for a terminal.

* the services: bytes, packets and formats; programs behind an interface (nerdctl, PowerShell,
  Cloudflare, ssh) are steps that succeed, fail, or succeed with a lost answer.

Hazards of this code that no property covers: a failed save of Stopped starts a machine again that
was not running (`commands.rs:789`); a QMP command that times out after QEMU obeyed leaves a machine
frozen with status Error (`runtime/vm.rs:1540`); the appliance keeps the size virtual machines left
it at the start (`commands.rs:490`, exempted in `LimitsFollow`); limits are applied in the order of
the list, so that their sum exceeds the appliance for a moment (`commands.rs:1725`); the VM half of
a refresh can apply an older limit after a save (`commands.rs:3617`); connections after a restore
and the retention's count, see section 6; the create of a terminal that is in flight when its
window is destroyed; the end of a cloud stream that overtakes its opening; messages dropped by a
full channel of a session.

Not modelled: the handlers of the guest agent, sequences of `nerdctl` and mount calls under the
locks that are modelled; boot media, firmware and QEMU's command line; the command line's parser and
catalogue; the native sandbox and Computer Branch, which this version refuses to create or to start;
GPU detection and input translation; the front end; packaging. They are system calls, tables,
formatting or views, with little state that steps of several parties could disagree about.

## 8. Plan

The safety that the runs check is proved. What is left:

1. `VmPower` implements a small register of a machine's power, in which a command's effect is one
   step; a third refinement next to those of `AtomicStore` and `KeyLocks`.
2. More of `runtime/vm.rs`: the order in which a machine's devices and profile are prepared, which
   `VmRestore` and `VmPower` take as one step.
3. The safety in `MCHostProgress` could be composed as that of `MCHostServices` is, if its
   properties are divided into those of safety and those of progress.
