---------------------------- MODULE MCHostServices ----------------------------
(* The services of the host about which safety is asked, each on an instance of  *)
(* its own. They share no state of their models, so that they are checked side   *)
(* by side: part says which one moves in a behaviour, the others stay as they    *)
(* began.                                                                        *)
EXTENDS Naturals, Sequences

VARIABLE part

VARIABLES peers, tasks, rules, flows, leased
VARIABLES status, alive, stale, moving, conn, rule, folder, op, owed, commands, kept, history
VARIABLES snaps, stored, image, runs, remote, dest, doing, download, faulted, asked, leaked, hollow
VARIABLES folders, exporting, artifacts, importing, staging, recorded, imports, failures, stranded
VARIABLES app, launches, base, overlay, marker, previous, prepared, own, died, orphan, boot, live,
          active, lease, reclaim, unsure
VARIABLES machine, basis, limit, dimms, onlined, loose, held, capacity, growing, request, target,
          losses, sought
VARIABLES registry, refs, mutex, locking
VARIABLES up, proc, owner, cuda, daemon, booted, payload, expected, late, unattended, forced
VARIABLES server, file, known, making, writing, engine, crashes, sent
VARIABLES stage, headless, singleton, endpoint, starter, answered
VARIABLES text, directory, journal, version, setup, before, edits, raced
VARIABLES table, opening, shell, owned, buffer, polling, closing, client
VARIABLES origin, plan, taken, copying, toDrive, drive, vm, atWork, using, vmCrashes
VARIABLES inward, reported, sock, received, peerSent, slot, present, events, outbox, opened,
          agentSent, agentGot, peerGot
VARIABLES source, images, cache, record, storage, job, holder, sweep, stops

fabric    == <<peers, tasks, rules, flows, leased>>
links     == <<status, alive, stale, moving, conn, rule, folder, op, owed, commands, kept, history>>
snapshots == <<snaps, stored, image, runs, remote, dest, doing, download, faulted, asked, leaked, hollow>>
backups   == <<folders, exporting, artifacts, importing, staging, recorded, imports, failures, stranded>>
appliance == <<app, launches, base, overlay, marker, previous, prepared, own, died, orphan, boot, live,
               active, lease, reclaim, unsure>>
memory    == <<machine, basis, limit, dimms, onlined, loose, held, capacity, growing, request,
               target, losses, sought>>
locks     == <<registry, refs, mutex, locking>>
distro    == <<up, proc, owner, cuda, daemon, booted, payload, expected, late, unattended, forced>>
routes    == <<server, file, known, making, writing, engine, crashes, sent>>
processes == <<stage, headless, singleton, endpoint, starter, answered>>
skill     == <<text, directory, journal, version, setup, before, edits, raced>>
terminal  == <<table, opening, shell, owned, buffer, polling, closing, client>>
drives    == <<origin, plan, taken, copying, toDrive, drive, vm, atWork, using, vmCrashes>>
bridge    == <<inward, reported, sock, received, peerSent, slot, present, events, outbox, opened,
               agentSent, agentGot, peerGot>>
bases     == <<source, images, cache, record, storage, job, holder, sweep, stops>>
hostVars  == <<part, fabric, links, snapshots, backups, appliance, memory, locks, distro,
               routes, processes, skill, terminal, drives, bridge, bases>>
-------------------------------------------------------------------------------
(* A private network of three environments, two of which hash to one address,  *)
(* and a connection whose policy changes between one port and everything.      *)
MCPolicy ==
    {[source |-> 1, target |-> 2, both |-> FALSE, network |-> FALSE, ports |-> {80}],
     [source |-> 1, target |-> 2, both |-> TRUE, network |-> TRUE, ports |-> {}]}
MCSegment ==
    {[proto |-> "arp", from |-> 0, to |-> 0, opens |-> FALSE],
     [proto |-> "tcp", from |-> 5, to |-> 80, opens |-> TRUE],
     [proto |-> "tcp", from |-> 80, to |-> 5, opens |-> FALSE],
     [proto |-> "udp", from |-> 5, to |-> 5, opens |-> TRUE]}
Net == INSTANCE Fabric
    WITH Peer <- {1, 2, 3}, Conn <- {1}, Policy <- MCPolicy, Address <- <<11, 12, 12>>,
         Segment <- MCSegment, MaxFlows <- 1, MaxSockets <- 2

(* A machine with a container that shares a folder with it over the host, and  *)
(* a second container that is connected to the first within their engine.      *)
Links == INSTANCE Connections
    WITH Env <- {"a", "b", "d"}, Machine <- {"a"}, Link <- {"ab", "bd"},
         Joined <- [ab |-> {"a", "b"}, bd |-> {"b", "d"}], Storage <- {"ab"}, Agent <- {"bd"},
         MaxCommands <- 1

Snaps == INSTANCE Snapshots
    WITH Env <- {"v", "c"}, Kind <- [v |-> "vm", c |-> "container"], Images <- {{1, 2}},
         Retention <- 1, MaxHistory <- 1, MaxSnaps <- 2, MaxCommands <- 2, MaxFaults <- 1

Local == INSTANCE LocalBackup WITH MaxFolders <- 2, MaxImports <- 2, MaxFailures <- 2

Appl == INSTANCE Appliance WITH Container <- {1, 2}, MaxBases <- 2, MaxRuns <- 3

Growth == INSTANCE ApplianceCapacity
    WITH Unit <- 2, Slots <- 2, Floor <- 4, Overhead <- 1, Maximum <- 11,
         Workloads <- {1, 4, 5, 7, 9}, MaxLosses <- 3

(* Keys in their order: two containers and the storage quotas. A reset locks   *)
(* both and the quotas inside, a change of storage one and the quotas, others  *)
(* one.                                                                        *)
MCWork ==
    {[keys |-> {1, 2}, nests |-> TRUE], [keys |-> {1, 3}, nests |-> FALSE],
     [keys |-> {2}, nests |-> FALSE]}
Locks == INSTANCE KeyedLocker
    WITH Request <- {"p", "q", "r"}, Key <- {1, 2, 3}, Quota <- 3, Entry <- {1, 2, 3},
         Work <- MCWork, call <- locking

Distro == INSTANCE CudaRuntime WITH App <- {"a", "b"}, MaxVersions <- 2

Routes == INSTANCE ProviderRoutes WITH Id <- {"c", "d"}, MaxCrashes <- 3

Processes == INSTANCE Startup WITH Process <- {"p", "q", "r"}

Skill == INSTANCE AgentSkill WITH MaxVersion <- 3, MaxEdits <- 2

Shells == INSTANCE HostTerminal
    WITH Tab <- {"a"}, HostOwner <- {"main", "cli"}, MaxShells <- 2, MaxSessions <- 1,
         BufferLimit <- 2, ChunkLimit <- 1, MaxOutput <- 3

Drives == INSTANCE FileImport
    WITH Drive <- {1, 2, 3}, MaxDrives <- 2, MaxChanges <- 2, MaxCrashes <- 2

Bridge == INSTANCE CloudBridge WITH MaxUnits <- 2, ChannelSize <- 2, PendingLimit <- 1

Bases == INSTANCE VmBases
    WITH Machine <- {"m", "n"}, MaxEdits <- 1, MaxStops <- 1, base <- images

(* What the theorems about the parts ask of their constants.                   *)
ASSUME PartsAssumption ==
    /\ Locks!LockerConstants /\ Shells!TerminalConstants /\ Bridge!BridgeConstants
    /\ Drives!ImportConstants /\ Bases!BasesConstants
    /\ Snaps!SnapshotsConstants /\ Local!BackupConstants
    /\ Processes!StartupConstants /\ Skill!SkillConstants
    /\ Distro!CudaConstants /\ Routes!RoutesConstants /\ Net!FabricConstants
    /\ Appl!ApplianceConstants /\ Growth!CapacityConstants /\ Links!ConnectionsConstants
-------------------------------------------------------------------------------
Init ==
    /\ part \in {"fabric", "links", "snapshots", "backups", "appliance", "memory", "locks",
                 "distro", "routes", "processes", "skill", "terminal", "drives", "bridge", "bases"}
    /\ Net!FabricInit /\ Links!LinksInit /\ Snaps!SnapshotsInit /\ Local!BackupInit /\ Appl!ApplianceInit /\ Growth!CapacityInit
    /\ Locks!LockerInit /\ Distro!CudaInit /\ Routes!RoutesInit /\ Processes!StartupInit /\ Skill!SkillInit
    /\ Shells!TerminalInit /\ Drives!ImportInit /\ Bridge!BridgeInit /\ Bases!BasesInit
    /\ part # "links" => \A c \in DOMAIN kept.conn : ~kept.conn[c].active
    /\ part # "routes" => \A id \in DOMAIN known : known[id] = "none"
    /\ part # "bridge" => ~inward

FabricStep ==
    /\ part = "fabric" /\ Net!FabricNext
    /\ UNCHANGED <<part, links, snapshots, backups, appliance, memory, distro>>
    /\ UNCHANGED <<locks, routes, processes, skill, terminal, drives, bridge, bases>>

LinksStep ==
    /\ part = "links" /\ Links!LinksNext
    /\ UNCHANGED <<part, fabric, snapshots, backups, appliance, memory, distro>>
    /\ UNCHANGED <<locks, routes, processes, skill, terminal, drives, bridge, bases>>

SnapshotsStep ==
    /\ part = "snapshots" /\ Snaps!SnapshotsNext
    /\ UNCHANGED <<part, fabric, links, backups, appliance, memory, distro>>
    /\ UNCHANGED <<locks, routes, processes, skill, terminal, drives, bridge, bases>>

BackupsStep ==
    /\ part = "backups" /\ Local!BackupNext
    /\ UNCHANGED <<part, fabric, links, snapshots, appliance, memory, distro>>
    /\ UNCHANGED <<locks, routes, processes, skill, terminal, drives, bridge, bases>>

ApplianceStep ==
    /\ part = "appliance" /\ Appl!ApplianceNext
    /\ UNCHANGED <<part, fabric, links, snapshots, backups, memory, distro>>
    /\ UNCHANGED <<locks, routes, processes, skill, terminal, drives, bridge, bases>>

MemoryStep ==
    /\ part = "memory" /\ Growth!CapacityNext
    /\ UNCHANGED <<part, fabric, links, snapshots, backups, appliance, distro>>
    /\ UNCHANGED <<locks, routes, processes, skill, terminal, drives, bridge, bases>>

LocksStep ==
    /\ part = "locks" /\ Locks!LockerNext
    /\ UNCHANGED <<part, fabric, links, snapshots, backups, appliance, memory, distro>>
    /\ UNCHANGED <<routes, processes, skill, terminal, drives, bridge, bases>>

DistroStep ==
    /\ part = "distro" /\ Distro!CudaNext
    /\ UNCHANGED <<part, fabric, links, snapshots, backups, appliance, memory>>
    /\ UNCHANGED <<locks, routes, processes, skill, terminal, drives, bridge, bases>>

RoutesStep ==
    /\ part = "routes" /\ Routes!RoutesNext
    /\ UNCHANGED <<part, fabric, links, snapshots, backups, appliance, memory>>
    /\ UNCHANGED <<locks, distro, processes, skill, terminal, drives, bridge, bases>>

ProcessesStep ==
    /\ part = "processes" /\ Processes!StartupNext
    /\ UNCHANGED <<part, fabric, links, snapshots, backups, appliance, memory>>
    /\ UNCHANGED <<locks, distro, routes, skill, terminal, drives, bridge, bases>>

SkillStep ==
    /\ part = "skill" /\ Skill!SkillNext
    /\ UNCHANGED <<part, fabric, links, snapshots, backups, appliance, memory>>
    /\ UNCHANGED <<locks, distro, routes, processes, terminal, drives, bridge, bases>>

TerminalStep ==
    /\ part = "terminal" /\ Shells!TerminalNext
    /\ UNCHANGED <<part, fabric, links, snapshots, backups, appliance, memory>>
    /\ UNCHANGED <<locks, distro, routes, processes, skill, drives, bridge, bases>>

DrivesStep ==
    /\ part = "drives" /\ Drives!ImportNext
    /\ UNCHANGED <<part, fabric, links, snapshots, backups, appliance, memory>>
    /\ UNCHANGED <<locks, distro, routes, processes, skill, terminal, bridge, bases>>

BridgeStep ==
    /\ part = "bridge" /\ Bridge!BridgeNext
    /\ UNCHANGED <<part, fabric, links, snapshots, backups, appliance, memory>>
    /\ UNCHANGED <<locks, distro, routes, processes, skill, terminal, drives, bases>>

BasesStep ==
    /\ part = "bases" /\ Bases!BasesNext
    /\ UNCHANGED <<part, fabric, links, snapshots, backups, appliance, memory>>
    /\ UNCHANGED <<locks, distro, routes, processes, skill, terminal, drives, bridge>>

Next ==
    \/ FabricStep \/ LinksStep \/ SnapshotsStep \/ BackupsStep \/ ApplianceStep \/ MemoryStep
    \/ LocksStep \/ DistroStep \/ RoutesStep \/ ProcessesStep \/ SkillStep \/ TerminalStep \/ DrivesStep
    \/ BridgeStep \/ BasesStep

Spec == Init /\ [][Next]_hostVars
-------------------------------------------------------------------------------
(* The private network. A remembered flow is one that the present rule would   *)
(* let open and ends with its environments; a frame has one receiver; the end  *)
(* of an old socket does not detach its successor (runtime/fabric.rs). No rule *)
(* outlives its connection, and what a reconciliation put in force stays so    *)
(* (commands.rs).                                                              *)
NetworkKept ==
    /\ [](part = "fabric" => Net!FlowsPermitted /\ Net!FlowsHaveEnds /\ Net!OneReceiver)
    /\ Net!ReplacementKept
    /\ [](part = "links" => Links!LinksType /\ Links!NoLeftoverRule /\ Links!ReconciledInForce)

(* Backups. A run that is recorded as complete can be downloaded, no data is   *)
(* left without a record, and no record without its data (commands.rs,         *)
(* backup.rs). A folder with a manifest holds the whole payload, an import     *)
(* takes what was exported, and nothing staged stays behind (local_backup.rs). *)
BackupsHold ==
    /\ part = "snapshots" => /\ Snaps!SnapshotsType /\ Snaps!CompleteIsDownloadable
                             /\ Snaps!NoOrphans /\ Snaps!RecordsHaveData
    /\ part = "backups" => /\ Local!BackupType /\ Local!ManifestVouches
                           /\ Local!ImportsWhatWasExported /\ Local!StagingCleared

(* The appliance. Its disk has one owner, the base it was made on, and a check *)
(* whenever it was not closed cleanly; space is not reclaimed under running    *)
(* containers (runtime/appliance.rs, runtime/storage_reclaim.rs). Memory that  *)
(* is accounted for is there, a lost answer never grows it twice, and the      *)
(* slots suffice (runtime/appliance_capacity.rs). The locks of its agent, which *)
(* come and go with their users, are one lock for each key                     *)
(* (appliance/agent/main.go).                                                  *)
ApplianceKept ==
    /\ [](part = "appliance" => /\ Appl!ApplianceType /\ Appl!OneOwner
                                /\ Appl!BaseMatches /\ Appl!MarkerIsTrue)
    /\ Appl!ReclaimSparesContainers
    /\ [](part = "memory" => /\ Growth!CapacityBacked /\ Growth!NoDoubleGrowth
                             /\ Growth!SlotsSuffice)
    /\ Locks!Promised!KeysFree /\ [][part = "locks" => Locks!StepAsPromised]_hostVars

(* The agent's locks. Nobody shares a key with another, an entry stays exactly *)
(* as long as somebody refers to its key, and never everyone waits, although   *)
(* requests lock several keys and lock again inside (appliance/agent/main.go,  *)
(* container_quota.go).                                                        *)
AgentLocks ==
    part = "locks" => /\ Locks!LockerType /\ Locks!EntriesCounted
                      /\ Locks!KeysExclusive /\ Locks!SomeoneGoesOn

(* The CUDA engine. Its disk is compacted while no daemon has it, only a       *)
(* script that was given up or lost its instance ends a daemon somebody uses,  *)
(* no obsolete payload is booted (runtime/cuda/host), and a container is asked *)
(* for where it is, whatever a kill or a failure left of its route             *)
(* (runtime/cuda.rs).                                                          *)
EnginesApart ==
    /\ [](Distro!CompactionAlone /\ Distro!RecoverySparesLive) /\ Distro!NeverBootsObsolete
    /\ [](Routes!AskedWhereItIs /\ Routes!RoutesAgree)

(* At most one process has the state and the machines (instance_lock.rs,       *)
(* lib.rs), and its update of the agent's skill files can be repeated after an *)
(* interruption and overwrites no edit of the user but one made where an       *)
(* update under way does not look again (skills.rs).                           *)
StartupKeeps == []Processes!OneEngine /\ []Skill!Retryable /\ Skill!EditsKept

(* Files that are imported are copied whole unless they change under the copy  *)
(* of an archive, drives stay within the number that a machine takes, and none *)
(* is renamed under it (file_import.rs, runtime/import_drive.rs).              *)
ImportsWhole ==
    part = "drives" =>
        Drives!ImportType /\ Drives!CopyWhole /\ Drives!DrivesBounded /\ Drives!InUseKept

(* Streams. A reader of the host terminal is told of holes in the output and   *)
(* of its end only after the last of it, and no shell runs without a session   *)
(* (host_terminal.rs); a stream to or from a cloud node ends only after all    *)
(* that was sent on it, unless the request that opens it was given up          *)
(* (runtime/cloud/bridge.rs).                                                  *)
StreamsWhole ==
    /\ part = "terminal" => /\ Shells!HostTerminalType /\ Shells!HolesTold
                            /\ Shells!DoneAfterLast /\ Shells!NoStrayShell
    /\ part = "bridge" => Bridge!BridgeType /\ Bridge!WholeReply /\ Bridge!WholeRequest

(* The images under machines are there as long as a disk refers to them, and   *)
(* hold what their names say (runtime/vm.rs).                                  *)
ImagesKept ==
    part = "bases" => Bases!BasesType /\ Bases!DisksKept /\ Bases!ContentAddressed
===============================================================================
