-------------------------- MODULE HostServices_proofs --------------------------
(* The theorems of the parts, read for the host's services side by side: what is *)
(* proved of a part alone (Services_proofs, Storage_proofs) holds of the whole,  *)
(* for a step of another part leaves it as it was. Then the safety of the        *)
(* services whose calls must come to an end, each alone: shared folders,         *)
(* automation jobs, publications and the sessions of a guest.                    *)
EXTENDS MCHostServices, FileService, Automation, Publishing, GuestSessions, FiniteSetTheorems,
        TLAPS

P == INSTANCE Services_proofs
    WITH Request <- {"p", "q", "r"}, Key <- {1, 2, 3}, Quota <- 3, Entry <- {1, 2, 3},
         Work <- MCWork, call <- locking,
         Tab <- {"a"}, HostOwner <- {"main", "cli"}, MaxShells <- 2, MaxSessions <- 1,
         BufferLimit <- 2, ChunkLimit <- 1, MaxOutput <- 3,
         MaxUnits <- 2, ChannelSize <- 2, PendingLimit <- 1,
         Process <- {"p", "q", "r"}, MaxVersion <- 3, MaxEdits <- 2,
         App <- {"a", "b"}, MaxVersions <- 2, Id <- {"c", "d"}, MaxCrashes <- 3,
         Peer <- {1, 2, 3}, Conn <- {1}, Policy <- MCPolicy, Address <- <<11, 12, 12>>,
         Segment <- MCSegment, MaxFlows <- 1, MaxSockets <- 2,
         Env <- {"a", "b", "d"}, Machine <- {"a"}, Link <- {"ab", "bd"},
         Joined <- [ab |-> {"a", "b"}, bd |-> {"b", "d"}], Storage <- {"ab"}, Agent <- {"bd"},
         MaxCommands <- 1,
         Container <- {1, 2}, MaxBases <- 2, MaxRuns <- 3,
         Unit <- 2, Slots <- 2, Floor <- 4, Overhead <- 1, Maximum <- 11,
         Workloads <- {1, 4, 5, 7, 9}, MaxLosses <- 3
Q == INSTANCE Storage_proofs
    WITH Drive <- {1, 2, 3}, MaxDrives <- 2, MaxChanges <- 2, MaxCrashes <- 2,
         Machine <- {"m", "n"}, MaxEdits <- 1, MaxStops <- 1, base <- images,
         MaxFolders <- 2, MaxImports <- 2, MaxFailures <- 2,
         Env <- {"v", "c"}, Kind <- [v |-> "vm", c |-> "container"], Images <- {{1, 2}},
         Retention <- 1, MaxHistory <- 1, MaxSnaps <- 2, MaxCommands <- 2, MaxFaults <- 1

LEMMA OthersStay ==
  ASSUME [Next]_hostVars
  PROVE  /\ LocksStep \/ UNCHANGED locks
         /\ TerminalStep \/ UNCHANGED terminal
         /\ BridgeStep \/ UNCHANGED bridge
         /\ DrivesStep \/ UNCHANGED drives
         /\ BasesStep \/ UNCHANGED bases
         /\ SnapshotsStep \/ UNCHANGED snapshots
         /\ BackupsStep \/ UNCHANGED backups
         /\ ProcessesStep \/ UNCHANGED processes
         /\ SkillStep \/ UNCHANGED skill
         /\ DistroStep \/ UNCHANGED distro
         /\ RoutesStep \/ UNCHANGED routes
         /\ FabricStep \/ UNCHANGED fabric
         /\ LinksStep \/ UNCHANGED links
         /\ ApplianceStep \/ UNCHANGED appliance
         /\ MemoryStep \/ UNCHANGED memory
  BY SMTT(60) DEF Next, hostVars, FabricStep, LinksStep, SnapshotsStep, BackupsStep, ApplianceStep,
     MemoryStep, LocksStep, DistroStep, RoutesStep, ProcessesStep, SkillStep, TerminalStep,
     DrivesStep, BridgeStep, BasesStep

LEMMA LocksSame ==
  /\ Init => P!LockerInit
  /\ LocksStep => P!LockerNext
  /\ P!LockerConstants
  /\ P!LockerType /\ P!EntriesCounted /\ P!KeysExclusive /\ P!SomeoneGoesOn =>
       Locks!LockerType /\ Locks!EntriesCounted /\ Locks!KeysExclusive /\ Locks!SomeoneGoesOn
<1> USE DEF
     Locks!NoEntry, Locks!Nobody, Locks!NoCall, Locks!Outer, Locks!Inner, Locks!Call,
     Locks!Keys, Locks!Refer, Locks!Least, Locks!Last, Locks!LockerInit, Locks!Unused,
     Locks!Register, Locks!Begin, Locks!Nest, Locks!Lock, Locks!Return, Locks!Unlock,
     Locks!Release, Locks!LockerNext, Locks!LockerConstants, Locks!LockerType,
     Locks!EntriesCounted, Locks!KeysExclusive, Locks!Waiting, Locks!SomeoneGoesOn,
     Locks!Cardinality, Locks!IsFiniteSet, P!NoEntry, P!Nobody, P!NoCall, P!Outer,
     P!Inner, P!Call, P!Keys, P!Refer, P!Least, P!Last, P!LockerInit, P!Unused,
     P!Register, P!Begin, P!Nest, P!Lock, P!Return, P!Unlock, P!Release, P!LockerNext,
     P!LockerConstants, P!LockerType, P!EntriesCounted, P!KeysExclusive, P!Waiting,
     P!SomeoneGoesOn, P!Cardinality, P!IsFiniteSet
<1>1. Init => P!LockerInit
  BY DEF Init
<1>2. LocksStep => P!LockerNext
  BY Zenon DEF LocksStep
<1>3. P!LockerConstants
  BY PartsAssumption
<1>4. P!LockerType /\ P!EntriesCounted /\ P!KeysExclusive /\ P!SomeoneGoesOn =>
        Locks!LockerType /\ Locks!EntriesCounted /\ Locks!KeysExclusive /\ Locks!SomeoneGoesOn
  OBVIOUS
<1> QED BY <1>1, <1>2, <1>3, <1>4, Zenon

LEMMA LocksBehave == Spec => P!LockerSpec
<1>1. [Next]_hostVars => [P!LockerNext]_(P!lockerVars)
  BY LocksSame, OthersStay, SMTT(60) DEF locks, P!lockerVars
<1> QED BY <1>1, LocksSame, PTL DEF Spec, P!LockerSpec

LEMMA TerminalSame ==
  /\ Init => P!TerminalInit
  /\ TerminalStep => P!TerminalNext
  /\ P!TerminalConstants
  /\ P!HostTerminalType /\ P!HolesTold /\ P!DoneAfterLast /\ P!NoStrayShell =>
       Shells!HostTerminalType /\ Shells!HolesTold /\ Shells!DoneAfterLast /\ Shells!NoStrayShell
<1> USE DEF
     Shells!Shell, Shells!NoOpening, Shells!Listed, Shells!HostTerminalType,
     Shells!TerminalInit, Shells!Unlocked, Shells!CloseSession, Shells!CreateSession,
     Shells!Initialized, Shells!NotInitialized, Shells!Written, Shells!ShellWrites,
     Shells!ShellExits, Shells!Push, Shells!Drained, Shells!BeginRead, Shells!Base,
     Shells!From, Shells!Following, Shells!Truncated, Shells!Finished, Shells!EndRead,
     Shells!TakeOut, Shells!CloseTab, Shells!OwnedBy, Shells!CloseOwner,
     Shells!CloseTaken, Shells!ShutdownTerminals, Shells!TerminalNext,
     Shells!TerminalConstants, Shells!HolesTold, Shells!DoneAfterLast,
     Shells!NoStrayShell, Shells!Cardinality, Shells!IsFiniteSet, P!Shell, P!NoOpening,
     P!Listed, P!HostTerminalType, P!TerminalInit, P!Unlocked, P!CloseSession,
     P!CreateSession, P!Initialized, P!NotInitialized, P!Written, P!ShellWrites,
     P!ShellExits, P!Push, P!Drained, P!BeginRead, P!Base, P!From, P!Following,
     P!Truncated, P!Finished, P!EndRead, P!TakeOut, P!CloseTab, P!OwnedBy,
     P!CloseOwner, P!CloseTaken, P!ShutdownTerminals, P!TerminalNext,
     P!TerminalConstants, P!HolesTold, P!DoneAfterLast, P!NoStrayShell, P!Cardinality,
     P!IsFiniteSet
<1>1. Init => P!TerminalInit
  BY DEF Init
<1>2. TerminalStep => P!TerminalNext
  BY Zenon DEF TerminalStep
<1>3. P!TerminalConstants
  BY PartsAssumption
<1>4. P!HostTerminalType /\ P!HolesTold /\ P!DoneAfterLast /\ P!NoStrayShell =>
        Shells!HostTerminalType /\ Shells!HolesTold /\ Shells!DoneAfterLast /\ Shells!NoStrayShell
  OBVIOUS
<1> QED BY <1>1, <1>2, <1>3, <1>4

LEMMA TerminalBehaves == Spec => P!TerminalSpec
<1>1. [Next]_hostVars => [P!TerminalNext]_(P!terminalVars)
  BY TerminalSame, OthersStay DEF terminal, P!terminalVars
<1> QED BY <1>1, TerminalSame, PTL DEF Spec, P!TerminalSpec

LEMMA BridgeSame ==
  /\ Init => P!BridgeInit
  /\ BridgeStep => P!BridgeNext
  /\ P!BridgeConstants
  /\ P!BridgeType /\ P!WholeReply /\ P!WholeRequest =>
       Bridge!BridgeType /\ Bridge!WholeReply /\ Bridge!WholeRequest
<1> USE DEF
     Bridge!Units, Bridge!Kind, Bridge!Established, Bridge!BridgeType,
     Bridge!BridgeInit, Bridge!Room, Bridge!Establish, Bridge!PeerSends,
     Bridge!PeerCloses, Bridge!ForwardBytes, Bridge!ForwardEof, Bridge!Deliver,
     Bridge!CloseHalf, Bridge!Abort, Bridge!RemoveSlot, Bridge!TakeEvent,
     Bridge!AgentOpens, Bridge!AnswerArrives, Bridge!OpenGivenUp, Bridge!AgentSends, Bridge!AgentEnds,
     Bridge!AgentTakes, Bridge!BridgeNext, Bridge!BridgeConstants, Bridge!WholeReply,
     Bridge!WholeRequest, P!Units, P!Kind, P!Established, P!BridgeType, P!BridgeInit,
     P!Room, P!Establish, P!PeerSends, P!PeerCloses, P!ForwardBytes, P!ForwardEof,
     P!Deliver, P!CloseHalf, P!Abort, P!RemoveSlot, P!TakeEvent, P!AgentOpens,
     P!AnswerArrives, P!OpenGivenUp, P!AgentSends, P!AgentEnds, P!AgentTakes, P!BridgeNext,
     P!BridgeConstants, P!WholeReply, P!WholeRequest
<1>1. Init => P!BridgeInit
  BY DEF Init
<1>2. BridgeStep => P!BridgeNext
  BY DEF BridgeStep
<1>3. P!BridgeConstants
  BY PartsAssumption
<1>4. P!BridgeType /\ P!WholeReply /\ P!WholeRequest =>
        Bridge!BridgeType /\ Bridge!WholeReply /\ Bridge!WholeRequest
  OBVIOUS
<1> QED BY <1>1, <1>2, <1>3, <1>4

LEMMA BridgeBehaves == Spec => P!BridgeSpec
<1>1. [Next]_hostVars => [P!BridgeNext]_(P!bridgeVars)
  BY BridgeSame, OthersStay DEF bridge, P!bridgeVars
<1> QED BY <1>1, BridgeSame, PTL DEF Spec, P!BridgeSpec

LEMMA DrivesSame ==
  /\ Init => Q!ImportInit
  /\ DrivesStep => Q!ImportNext
  /\ Q!ImportConstants
  /\ Q!ImportType /\ Q!CopyWhole /\ Q!DrivesBounded /\ Q!InUseKept =>
       Drives!ImportType /\ Drives!CopyWhole /\ Drives!DrivesBounded /\ Drives!InUseKept
<1> USE DEF
     Drives!Connected, Drives!Version, Drives!ImportType, Drives!ImportInit,
     Drives!Copying, Drives!ChangeSource, Drives!ScanCopy, Drives!OpenSource,
     Drives!ReadSource, Drives!Short, Drives!WriteCopy, Drives!DeliverArchive,
     Drives!NextCopy, Drives!AttachDrive, Drives!AttachRefused, Drives!Free,
     Drives!Moves, Drives!SetAttached, Drives!StartVm, Drives!StopVm, Drives!GuestEnds,
     Drives!CrashApplication, Drives!ImportNext, Drives!ImportConstants,
     Drives!CopyWhole, Drives!InUseKept, Drives!DrivesBounded, Drives!Cardinality,
     Drives!IsFiniteSet, Q!Connected, Q!Version, Q!ImportType, Q!ImportInit, Q!Copying,
     Q!ChangeSource, Q!ScanCopy, Q!OpenSource, Q!ReadSource, Q!Short, Q!WriteCopy,
     Q!DeliverArchive, Q!NextCopy, Q!AttachDrive, Q!AttachRefused, Q!Free, Q!Moves,
     Q!SetAttached, Q!StartVm, Q!StopVm, Q!GuestEnds, Q!CrashApplication, Q!ImportNext,
     Q!ImportConstants, Q!CopyWhole, Q!InUseKept, Q!DrivesBounded, Q!Cardinality,
     Q!IsFiniteSet
<1>1. Init => Q!ImportInit
  BY DEF Init
<1>2. DrivesStep => Q!ImportNext
  BY DEF DrivesStep
<1>3. Q!ImportConstants
  BY PartsAssumption
<1>4. Q!ImportType /\ Q!CopyWhole /\ Q!DrivesBounded /\ Q!InUseKept =>
        Drives!ImportType /\ Drives!CopyWhole /\ Drives!DrivesBounded /\ Drives!InUseKept
  OBVIOUS
<1> QED BY <1>1, <1>2, <1>3, <1>4

LEMMA DrivesBehave == Spec => Q!ImportSpec
<1>1. [Next]_hostVars => [Q!ImportNext]_(Q!importVars)
  BY DrivesSame, OthersStay, SMTT(60) DEF drives, Q!importVars
<1> QED BY <1>1, DrivesSame, PTL DEF Spec, Q!ImportSpec

LEMMA BasesSame ==
  /\ Init => Q!BasesInit
  /\ BasesStep => Q!BasesNext
  /\ Q!BasesConstants
  /\ Q!BasesType /\ Q!DisksKept /\ Q!ContentAddressed =>
       Bases!BasesType /\ Bases!DisksKept /\ Bases!ContentAddressed
<1> USE DEF
     Bases!Artifact, Bases!Edit, Bases!NoFile, Bases!Image, Bases!Needs, Bases!NoJob,
     Bases!NoSweep, Bases!Exists, Bases!Present, Bases!BasesType, Bases!BasesInit,
     Bases!Change, Bases!CreateRecord, Bases!Provision, Bases!At, Bases!Wanted,
     Bases!Found, Bases!ProvisionFails, Bases!Took, Bases!Identify, Bases!HashSource,
     Bases!CopyAndHash, Bases!Convert, Bases!FinishImport, Bases!LearnChecksum,
     Bases!BuildDisk, Bases!GrowFails, Bases!FinishRecord, Bases!Named,
     Bases!DeleteMachine, Bases!Reclaim, Bases!Referred, Bases!Mark, Bases!Sweep,
     Bases!StopApplication, Bases!BasesNext, Bases!BasesConstants, Bases!DisksKept,
     Bases!ContentAddressed, Q!Artifact, Q!Edit, Q!NoFile, Q!Image, Q!Needs, Q!NoJob,
     Q!NoSweep, Q!Exists, Q!Present, Q!BasesType, Q!BasesInit, Q!Change,
     Q!CreateRecord, Q!Provision, Q!At, Q!Wanted, Q!Found, Q!ProvisionFails, Q!Took,
     Q!Identify, Q!HashSource, Q!CopyAndHash, Q!Convert, Q!FinishImport,
     Q!LearnChecksum, Q!BuildDisk, Q!GrowFails, Q!FinishRecord, Q!Named,
     Q!DeleteMachine, Q!Reclaim, Q!Referred, Q!Mark, Q!Sweep, Q!StopApplication,
     Q!BasesNext, Q!BasesConstants, Q!DisksKept, Q!ContentAddressed
<1>1. Init => Q!BasesInit
  BY DEF Init
<1>2. BasesStep => Q!BasesNext
  BY Zenon DEF BasesStep
<1>3. Q!BasesConstants
  BY PartsAssumption
<1>4. Q!BasesType /\ Q!DisksKept /\ Q!ContentAddressed =>
        Bases!BasesType /\ Bases!DisksKept /\ Bases!ContentAddressed
  OBVIOUS
<1> QED BY <1>1, <1>2, <1>3, <1>4, Zenon

LEMMA BasesBehave == Spec => Q!BasesSpec
<1>1. [Next]_hostVars => [Q!BasesNext]_(Q!basesVars)
  BY BasesSame, OthersStay, SMTT(60) DEF bases, Q!basesVars
<1> QED BY <1>1, BasesSame, PTL DEF Spec, Q!BasesSpec

LEMMA LocalSame ==
  /\ Init => Q!BackupInit
  /\ BackupsStep => Q!BackupNext
  /\ Q!BackupConstants
  /\ Q!BackupType /\ Q!ManifestVouches /\ Q!ImportsWhatWasExported /\ Q!StagingCleared =>
       Local!BackupType /\ Local!ManifestVouches /\ Local!ImportsWhatWasExported /\ Local!StagingCleared
<1> USE DEF
     Local!BackupConstants, Local!Kinds, Local!Idle, Local!Disk, Local!Whole,
     Local!BackupType, Local!BackupInit, Local!Fail, Local!importer, Local!Export,
     Local!Withdrawn, Local!Cleanup, Local!CopyOut, Local!WriteManifest,
     Local!EndExport, Local!Import, Local!Staged, Local!Exchange, Local!Refuse,
     Local!CopyIn, Local!Verify, Local!Retagged, Local!Stage, Local!InstallImport,
     Local!Damage, Local!Crash, Local!BackupNext, Local!ManifestVouches,
     Local!ImportsWhatWasExported, Local!StagingCleared, Q!BackupConstants,
     Q!Kinds, Q!Idle, Q!Disk, Q!Whole, Q!BackupType, Q!BackupInit, Q!Fail,
     Q!importer, Q!Export, Q!Inspect, Local!Inspect, Q!Withdrawn, Q!Cleanup, Q!CopyOut, Q!WriteManifest,
     Q!EndExport, Q!Import, Q!Staged, Q!Exchange, Q!Refuse, Q!CopyIn, Q!Verify,
     Q!Retagged, Q!Stage, Q!InstallImport, Q!Damage, Q!Crash, Q!BackupNext,
     Q!ManifestVouches, Q!ImportsWhatWasExported, Q!StagingCleared
<1>1. Init => Q!BackupInit
  BY DEF Init
<1>2. BackupsStep => Q!BackupNext
  BY Zenon DEF BackupsStep
<1>3. Q!BackupConstants
  BY PartsAssumption
<1>4. Q!BackupType /\ Q!ManifestVouches /\ Q!ImportsWhatWasExported /\ Q!StagingCleared =>
        Local!BackupType /\ Local!ManifestVouches /\ Local!ImportsWhatWasExported /\ Local!StagingCleared
  OBVIOUS
<1> QED BY <1>1, <1>2, <1>3, <1>4

LEMMA LocalBehaves == Spec => Q!BackupSpec
<1>1. [Next]_hostVars => [Q!BackupNext]_(Q!backupVars)
  BY LocalSame, OthersStay DEF backups, Q!backupVars
<1> QED BY <1>1, LocalSame, PTL DEF Spec, Q!BackupSpec

LEMMA SnapsSame ==
  /\ Init => Q!SnapshotsInit
  /\ SnapshotsStep => Q!SnapshotsNext
  /\ Q!SnapshotsConstants
  /\ Q!SnapshotsType /\ Q!CompleteIsDownloadable /\ Q!NoOrphans /\ Q!RecordsHaveData =>
       Snaps!SnapshotsType /\ Snaps!CompleteIsDownloadable /\ Snaps!NoOrphans /\ Snaps!RecordsHaveData
<1> USE DEF
     Snaps!SnapshotsConstants, Snaps!cloud, Snaps!User, Snaps!Process,
     Snaps!Available, Snaps!Made, Snaps!Nothing, Snaps!Record, Snaps!Without,
     Snaps!Inner, Snaps!File, Snaps!Data, Snaps!SnapshotsType,
     Snaps!SnapshotsInit, Snaps!Fault, Snaps!Ask, Snaps!NewRecord,
     Snaps!Leftovers, Snaps!Make, Snaps!Retain, Snaps!SaveNew, Snaps!Uploading,
     Snaps!Conclude, Snaps!Giving, Snaps!Open, Snaps!PutChunk, Snaps!PutManifest,
     Snaps!RecordRun, Snaps!Missing, Snaps!Erase, Snaps!Onwards, Snaps!Restored,
     Snaps!Drop, Snaps!Pick, Snaps!Delete, Snaps!UpdateSettings,
     Snaps!AddDestination, Snaps!DeleteDestination, Snaps!Downloadable,
     Snaps!Download, Snaps!Owned, Snaps!Emptied, Snaps!Abandon, Snaps!Imported,
     Snaps!ImportFailed, Snaps!DiskFailed, Snaps!Install, Snaps!Persist,
     Snaps!InnerOf, Snaps!RestoreSnapshot, Q!InnerOf, Q!RestoreSnapshot,
     Snaps!Restart, Snaps!Step, Snaps!SnapshotsNext, Snaps!CompleteIsDownloadable,
     Snaps!Quiet, Snaps!NoOrphans, Snaps!Erasing, Snaps!RecordsHaveData,
     Snaps!Min, Q!SnapshotsConstants, Q!cloud, Q!User, Q!Process, Q!Available,
     Q!Made, Q!Nothing, Q!Record, Q!Without, Q!Inner, Q!File, Q!Data,
     Q!SnapshotsType, Q!SnapshotsInit, Q!Fault, Q!Ask, Q!NewRecord, Q!Leftovers,
     Q!Make, Q!Retain, Q!SaveNew, Q!Uploading, Q!Conclude, Q!Giving, Q!Open,
     Q!PutChunk, Q!PutManifest, Q!RecordRun, Q!Missing, Q!Erase, Q!Onwards,
     Q!Restored, Q!Drop, Q!Pick, Q!Delete, Q!UpdateSettings, Q!AddDestination,
     Q!DeleteDestination, Q!Downloadable, Q!Download, Q!Owned, Q!Emptied,
     Q!Abandon, Q!Imported, Q!ImportFailed, Q!DiskFailed, Q!Install, Q!Persist,
     Q!Restart, Q!Step, Q!SnapshotsNext, Q!CompleteIsDownloadable, Q!Quiet,
     Q!NoOrphans, Q!Erasing, Q!RecordsHaveData, Q!Min
<1>1. Init => Q!SnapshotsInit
  BY DEF Init
<1>2. SnapshotsStep => Q!SnapshotsNext
  BY Zenon DEF SnapshotsStep
<1>3. Q!SnapshotsConstants
  BY PartsAssumption
<1>4. Q!SnapshotsType /\ Q!CompleteIsDownloadable /\ Q!NoOrphans /\ Q!RecordsHaveData =>
        Snaps!SnapshotsType /\ Snaps!CompleteIsDownloadable /\ Snaps!NoOrphans /\ Snaps!RecordsHaveData
  OBVIOUS
<1> QED BY <1>1, <1>2, <1>3, <1>4, Zenon

LEMMA SnapsBehave == Spec => Q!SnapshotsSpec
<1>1. [Next]_hostVars => [Q!SnapshotsNext]_(Q!snapshotVars)
  BY SnapsSame, OthersStay DEF snapshots, Q!snapshotVars
<1> QED BY <1>1, SnapsSame, PTL DEF Spec, Q!SnapshotsSpec

LEMMA StartupSame ==
  /\ Init => P!StartupInit
  /\ ProcessesStep => P!StartupNext
  /\ P!StartupConstants
  /\ P!OneEngine => Processes!OneEngine
<1> USE DEF
     Processes!NoProcess, Processes!StartupConstants, Processes!StartupInit,
     Processes!Answers, Processes!To, Processes!Open, Processes!AskEngine,
     Processes!StartEngine, Processes!StartReports, Processes!Acquire, Processes!Load,
     Processes!Ends, Processes!SetupFails, Processes!Bind, Processes!Exit, Processes!Ended,
     Processes!StartupNext, Processes!OneEngine, Processes!Cardinality, Processes!IsFiniteSet,
     P!NoProcess, P!StartupConstants, P!StartupInit, P!Answers, P!To, P!Open, P!AskEngine,
     P!StartEngine, P!StartReports, P!Acquire, P!Load, P!Ends, P!SetupFails, P!Bind, P!Exit,
     P!Ended, P!StartupNext, P!OneEngine, P!Cardinality, P!IsFiniteSet
<1>1. Init => P!StartupInit
  BY DEF Init
<1>2. ProcessesStep => P!StartupNext
  BY Zenon DEF ProcessesStep
<1>3. P!StartupConstants
  BY PartsAssumption
<1>4. P!OneEngine => Processes!OneEngine
  OBVIOUS
<1> QED BY <1>1, <1>2, <1>3, <1>4, Zenon

LEMMA StartupBehaves == Spec => P!StartupSpec
<1>1. [Next]_hostVars => [P!StartupNext]_(P!startupVars)
  BY StartupSame, OthersStay DEF processes, P!startupVars
<1> QED BY <1>1, StartupSame, PTL DEF Spec, P!StartupSpec

LEMMA SkillSame ==
  /\ Init => P!SkillInit
  /\ SkillStep => P!SkillNext
  /\ P!SkillConstants
  /\ P!Retryable => Skill!Retryable
<1> USE DEF
     Skill!File, Skill!Mine, Skill!Missing, P!File, P!Mine, P!Missing, Skill!NoJournal,
     Skill!SkillConstants, Skill!SkillInit, Skill!Generated, Skill!Known, Skill!Unseen, P!Unseen,
     Skill!Status, Skill!BeginSetup, Skill!ReadFiles, P!ReadFiles, Skill!MakeFolder, Skill!WriteJournal, Skill!WriteFile,
     Skill!ClearJournal, Skill!Interrupt, Skill!Edit, Skill!SkillNext, Skill!Retryable,
     P!NoJournal, P!SkillConstants, P!SkillInit, P!Generated, P!Known, P!Status, P!BeginSetup,
     P!MakeFolder, P!WriteJournal, P!WriteFile, P!ClearJournal, P!Interrupt, P!Edit,
     P!SkillNext, P!Retryable
<1>1. Init => P!SkillInit
  BY DEF Init
<1>2. SkillStep => P!SkillNext
  BY Zenon DEF SkillStep
<1>3. P!SkillConstants
  BY PartsAssumption
<1>4. P!Retryable => Skill!Retryable
  OBVIOUS
<1> QED BY <1>1, <1>2, <1>3, <1>4, Zenon

LEMMA SkillBehaves == Spec => P!SkillSpec
<1>1. [Next]_hostVars => [P!SkillNext]_(P!skillVars)
  BY SkillSame, OthersStay DEF skill, P!skillVars
<1> QED BY <1>1, SkillSame, PTL DEF Spec, P!SkillSpec

LEMMA CudaSame ==
  /\ Init => P!CudaInit
  /\ DistroStep => P!CudaNext
  /\ P!CudaConstants
  /\ P!CompactionAlone /\ P!RecoverySparesLive =>
       Distro!CompactionAlone /\ Distro!RecoverySparesLive
<1> USE DEF
     Distro!NoApp, Distro!OwnerWithout, Distro!Takes, Distro!CudaConstants, Distro!CudaInit,
     Distro!Idle, Distro!LaunchApp, Distro!UpdateApp, Distro!CrashApp, Distro!BeginOwned,
     Distro!Done, Distro!EnsureStarted, Distro!SpawnWsl, Distro!DaemonStarts,
     Distro!DaemonEnds, Distro!WslEnds, Distro!AskShutdown, Distro!Terminate, Distro!Recover,
     Distro!Recovered, Distro!Install, Distro!Installed, Distro!CompactIdle,
     Distro!CompactStopped, Distro!VerifyStopped, Distro!Compacted, Distro!CudaNext,
     Distro!Kill, Distro!Killed, Distro!LateTerminate, Distro!LateSetup, Distro!versions,
     Distro!scripts, Distro!RecoverySparesLive, Distro!CompactionAlone, P!NoApp, P!OwnerWithout, P!Takes, P!CudaConstants, P!CudaInit,
     P!Idle, P!LaunchApp, P!UpdateApp, P!CrashApp, P!BeginOwned, P!Done, P!EnsureStarted,
     P!SpawnWsl, P!DaemonStarts, P!DaemonEnds, P!WslEnds, P!AskShutdown, P!Terminate,
     P!Recover, P!Recovered, P!Install, P!Installed, P!CompactIdle, P!CompactStopped,
     P!VerifyStopped, P!Compacted, P!CudaNext, P!CompactionAlone, P!RecoverySparesLive,
     P!Kill, P!Killed, P!LateTerminate, P!LateSetup, P!versions, P!scripts
<1>1. Init => P!CudaInit
  BY DEF Init
<1>2. DistroStep => P!CudaNext
  BY Zenon DEF DistroStep
<1>3. P!CudaConstants
  BY PartsAssumption
<1>4. P!CompactionAlone /\ P!RecoverySparesLive =>
        Distro!CompactionAlone /\ Distro!RecoverySparesLive
  OBVIOUS
<1> QED BY <1>1, <1>2, <1>3, <1>4, Zenon

LEMMA CudaBehaves == Spec => P!CudaSpec
<1>1. [Next]_hostVars => [P!CudaNext]_(P!cudaVars)
  BY CudaSame, OthersStay DEF distro, P!cudaVars
<1> QED BY <1>1, CudaSame, PTL DEF Spec, P!CudaSpec

LEMMA RoutesSame ==
  /\ Init => P!RoutesInit
  /\ RoutesStep => P!RoutesNext
  /\ P!RoutesConstants
  /\ P!AskedWhereItIs /\ P!RoutesAgree => Routes!AskedWhereItIs /\ Routes!RoutesAgree
<1> USE DEF
     Routes!Engines, Routes!RoutesConstants, Routes!RoutesInit, Routes!ReadRoute,
     Routes!OpenNew, Routes!Launch, Routes!RestoreRoute, Routes!RestoreWritten,
     Routes!Conflict, Routes!Restored, Routes!CreateRoute, Routes!CreateWritten, Routes!CreateFails, Routes!RestoreFails,
     Routes!Provision, Routes!SaveEnvironment, Routes!RequestAgent, Routes!CrashServer,
     Routes!LoseRoutes, Routes!RoutesNext, Routes!AskedWhereItIs, Routes!RoutesAgree,
     P!Engines, P!RoutesConstants, P!RoutesInit, P!ReadRoute, P!OpenNew, P!Launch,
     P!RestoreRoute, P!RestoreWritten, P!Conflict, P!Restored, P!CreateRoute, P!CreateWritten, P!CreateFails, P!RestoreFails,
     P!Provision, P!SaveEnvironment, P!RequestAgent, P!CrashServer, P!LoseRoutes,
     P!RoutesNext, P!AskedWhereItIs, P!RoutesAgree
<1>1. Init => P!RoutesInit
  BY DEF Init
<1>2. RoutesStep => P!RoutesNext
  BY Zenon DEF RoutesStep
<1>3. P!RoutesConstants
  BY PartsAssumption
<1>4. P!AskedWhereItIs /\ P!RoutesAgree => Routes!AskedWhereItIs /\ Routes!RoutesAgree
  OBVIOUS
<1> QED BY <1>1, <1>2, <1>3, <1>4, Zenon

LEMMA RoutesBehave == Spec => P!RoutesSpec
<1>1. [Next]_hostVars => [P!RoutesNext]_(P!routeVars)
  BY RoutesSame, OthersStay DEF routes, P!routeVars
<1> QED BY <1>1, RoutesSame, PTL DEF Spec, P!RoutesSpec

LEMMA FabricSame ==
  /\ Init => P!FabricInit
  /\ FabricStep => P!FabricNext
  /\ P!FabricConstants
  /\ P!FlowsPermitted /\ P!FlowsHaveEnds /\ P!OneReceiver =>
       Net!FlowsPermitted /\ Net!FlowsHaveEnds /\ Net!OneReceiver
<1> USE DEF
     Net!NoRule, Net!Applied, Net!FlowOf, Net!Reverse, Net!FabricConstants, Net!FabricInit,
     Net!Connected, Net!Sends, Net!Attach, Net!Leave, Net!Touches, Net!Forget, Net!Detach, Net!Apply,
     Net!RemoveRule, Net!Age, Net!Forward, Net!Backward, Net!MayOpen, Net!Live, Net!Verdict,
     Net!Swept, Net!Route, Net!Refuse, Net!Dhcp, Net!FabricNext, Net!FlowsPermitted,
     Net!FlowsHaveEnds, Net!OneReceiver, Net!Cardinality, Net!IsFiniteSet, P!NoRule,
     P!Applied, P!FlowOf, P!Reverse, P!FabricConstants, P!FabricInit, P!Connected, P!Sends, P!Attach,
     P!Leave, P!Touches, P!Forget, P!Detach, P!Apply, P!RemoveRule, P!Age, P!Forward,
     P!Backward, P!MayOpen, P!Live, P!Verdict, P!Swept, P!Route, P!Refuse, P!Dhcp,
     P!FabricNext, P!FlowsPermitted, P!FlowsHaveEnds, P!OneReceiver, P!Cardinality,
     P!IsFiniteSet
<1>1. Init => P!FabricInit
  BY DEF Init
<1>2. FabricStep => P!FabricNext
  BY Zenon DEF FabricStep
<1>3. P!FabricConstants
  BY PartsAssumption
<1>4. P!FlowsPermitted /\ P!FlowsHaveEnds /\ P!OneReceiver =>
        Net!FlowsPermitted /\ Net!FlowsHaveEnds /\ Net!OneReceiver
  OBVIOUS
<1> QED BY <1>1, <1>2, <1>3, <1>4, Zenon

LEMMA FabricBehaves == Spec => P!FabricSpec
<1>1. [Next]_hostVars => [P!FabricNext]_(P!fabricVars)
  BY FabricSame, OthersStay DEF fabric, P!fabricVars
<1> QED BY <1>1, FabricSame, PTL DEF Spec, P!FabricSpec

LEMMA LinksSame ==
  /\ Init => P!LinksInit
  /\ LinksStep => P!LinksNext
  /\ P!ConnectionsConstants
  /\ P!LinksType /\ P!NoLeftoverRule /\ P!ReconciledInForce =>
       Links!LinksType /\ Links!NoLeftoverRule /\ Links!ReconciledInForce
<1> USE DEF
     Links!engines, Links!machines, Links!None, Links!Free, Links!Touching, Links!HasRecord,
     Links!LinksType, Links!ConnectionsConstants, Links!LinksInit, Links!Disturb,
     Links!Running, Links!Todo, Links!Reconciling, Links!BeginReconcile, Links!Reconcile,
     Links!ApplyRule, Links!ApplyAgentRule, Links!ApplyFolder, Links!ReconcileSave,
     Links!Left, Links!CreateConnection, Links!CreateSave, Links!WithdrawFails, Links!GuestEnds, Links!Up, Links!Notice, Links!Removed,
     Links!Withdraw,
     Links!RecordWithdrawn, Links!Activate, Links!Down, Links!NextCommand, Links!Busy,
     Links!Pending, Links!Start, Links!StartSave, Links!Stop, Links!StopSave,
     Links!CrashGuest, Links!Refresh, Links!DeleteRules, Links!DeleteEngine,
     Links!DeleteSave, Links!TakeSnapshot, Links!RestoredLinks, Links!InWork,
     Links!Unaccounted, Links!RestoreSnapshot, Links!RestoreRules, Links!RestoreSave,
     Links!Restart, Links!LinksNext, Links!Quiet, Links!InForce, Links!NoLeftoverRule,
     Links!ReconciledInForce, P!engines, P!machines, P!None, P!Free, P!Touching,
     P!HasRecord, P!LinksType, P!ConnectionsConstants, P!LinksInit, P!Disturb, P!Running,
     P!Todo, P!Reconciling, P!BeginReconcile, P!Reconcile, P!ApplyRule, P!ApplyAgentRule,
     P!ApplyFolder, P!ReconcileSave, P!Left, P!CreateConnection, P!CreateSave, P!WithdrawFails, P!GuestEnds, P!Up, P!Notice, P!Removed,
     P!Withdraw,
     P!RecordWithdrawn, P!Activate, P!Down, P!NextCommand, P!Busy, P!Pending, P!Start,
     P!StartSave, P!Stop, P!StopSave, P!CrashGuest, P!Refresh, P!DeleteRules,
     P!DeleteEngine, P!DeleteSave, P!TakeSnapshot, P!RestoredLinks, P!InWork, P!Unaccounted,
     P!RestoreSnapshot, P!RestoreRules, P!RestoreSave, P!Restart, P!LinksNext, P!Quiet,
     P!InForce, P!NoLeftoverRule, P!ReconciledInForce
<1>1. Init => P!LinksInit
  BY DEF Init
<1>2. LinksStep => P!LinksNext
  BY Zenon DEF LinksStep
<1>3. P!ConnectionsConstants
  BY PartsAssumption
<1>4. P!LinksType /\ P!NoLeftoverRule /\ P!ReconciledInForce =>
        Links!LinksType /\ Links!NoLeftoverRule /\ Links!ReconciledInForce
  OBVIOUS
<1> QED BY <1>1, <1>2, <1>3, <1>4, Zenon

LEMMA LinksBehave == Spec => P!LinksSpec
<1>1. [Next]_hostVars => [P!LinksNext]_(P!linksVars)
  BY LinksSame, OthersStay DEF links, P!linksVars
<1> QED BY <1>1, LinksSame, PTL DEF Spec, P!LinksSpec

LEMMA ApplianceSame ==
  /\ Init => P!ApplianceInit
  /\ ApplianceStep => P!ApplianceNext
  /\ P!ApplianceConstants
  /\ P!ApplianceType /\ P!OneOwner /\ P!BaseMatches /\ P!MarkerIsTrue =>
       Appl!ApplianceType /\ Appl!OneOwner /\ Appl!BaseMatches /\ Appl!MarkerIsTrue
<1> USE DEF
     Appl!NoDisk, Appl!NoMarker, Appl!NoLease, Appl!disk, Appl!users, Appl!runs,
     Appl!ApplianceType, Appl!ApplianceConstants, Appl!ApplianceInit, Appl!LaunchRun,
     Appl!Update, Appl!Record, Appl!Unrecorded, Appl!MachineEnded, Appl!ProcessDies, Appl!Answered,
     Appl!Boots, Appl!EndRun, Appl!Shutdown, Appl!Crash, Appl!OrphanEnds,
     Appl!Endpoint, Appl!GiveUp, Appl!Going, Appl!CheckExternal, Appl!KnownMarker,
     Appl!BaseChanged, Appl!Prepare, Appl!Create, Appl!Mark, Appl!Commit, Appl!GrowDisk,
     Appl!Spawn, Appl!Lease, Appl!Ready, Appl!MarkActive, Appl!StartContainer,
     Appl!StopContainer, Appl!ContainerExits, Appl!Reclaim, Appl!Trim, Appl!StopIdle,
     Appl!Replace, Appl!Boot, Appl!ApplianceNext, Appl!OneOwner, Appl!BaseMatches,
     Appl!MarkerIsTrue, P!NoDisk, P!NoMarker, P!NoLease, P!disk, P!users, P!runs,
     P!ApplianceType, P!ApplianceConstants, P!ApplianceInit, P!LaunchRun, P!Update,
     P!Record, P!Unrecorded, P!MachineEnded, P!ProcessDies, P!Answered, P!Boots, P!EndRun, P!Shutdown, P!Crash, P!OrphanEnds, P!Endpoint, P!GiveUp, P!Going,
     P!CheckExternal, P!KnownMarker, P!BaseChanged, P!Prepare, P!Create, P!Mark, P!Commit,
     P!GrowDisk, P!Spawn, P!Lease, P!Ready, P!MarkActive, P!StartContainer, P!StopContainer,
     P!ContainerExits, P!Reclaim, P!Trim, P!StopIdle, P!Replace, P!Boot, P!ApplianceNext,
     P!OneOwner, P!BaseMatches, P!MarkerIsTrue
<1>1. Init => P!ApplianceInit
  BY DEF Init
<1>2. ApplianceStep => P!ApplianceNext
  BY Zenon DEF ApplianceStep
<1>3. P!ApplianceConstants
  BY PartsAssumption
<1>4. P!ApplianceType /\ P!OneOwner /\ P!BaseMatches /\ P!MarkerIsTrue =>
        Appl!ApplianceType /\ Appl!OneOwner /\ Appl!BaseMatches /\ Appl!MarkerIsTrue
  OBVIOUS
<1> QED BY <1>1, <1>2, <1>3, <1>4, Zenon

LEMMA ApplianceBehaves == Spec => P!ApplianceSpec
<1>1. [Next]_hostVars => [P!ApplianceNext]_(P!applianceVars)
  BY ApplianceSame, OthersStay DEF appliance, P!applianceVars
<1> QED BY <1>1, ApplianceSame, PTL DEF Spec, P!ApplianceSpec

LEMMA CapacitySame ==
  /\ Init => P!CapacityInit
  /\ MemoryStep => P!CapacityNext
  /\ P!CapacityConstants
  /\ P!CapacityBacked /\ P!NoDoubleGrowth /\ P!SlotsSuffice =>
       Growth!CapacityBacked /\ Growth!NoDoubleGrowth /\ Growth!SlotsSuffice
<1> USE DEF
     Growth!hardware, Growth!Plugged, Growth!Devices, Growth!Total, Growth!CeilDiv,
     Growth!Saturating, Growth!Larger, Growth!Smaller, Growth!ForWorkloads, Growth!Chunk,
     Growth!GrowthTarget, Growth!CapacityConstants, Growth!CapacityInit, Growth!BootWith,
     Growth!BootKept, Growth!BootRequested, Growth!Grow, Growth!Query, Growth!Fails,
     Growth!Refused, Growth!ObjectAdd, Growth!DeviceAdd, Growth!GuestOnline, Growth!Verify,
     Growth!VerifyTimeout, Growth!MachineEnds, Growth!CapacityNext, Growth!CapacityBacked,
     Growth!SlotsSuffice, Growth!NoDoubleGrowth, P!hardware, P!Plugged, P!Devices, P!Total,
     P!CeilDiv, P!Saturating, P!Larger, P!Smaller, P!ForWorkloads, P!Chunk, P!GrowthTarget,
     P!CapacityConstants, P!CapacityInit, P!BootWith, P!BootKept, P!BootRequested, P!Grow,
     P!Query, P!Fails, P!Refused, P!ObjectAdd, P!DeviceAdd, P!GuestOnline, P!Verify,
     P!VerifyTimeout, P!MachineEnds, P!CapacityNext, P!CapacityBacked, P!SlotsSuffice,
     P!NoDoubleGrowth
<1>1. Init => P!CapacityInit
  BY DEF Init
<1>2. MemoryStep => P!CapacityNext
  BY Zenon DEF MemoryStep
<1>3. P!CapacityConstants
  BY PartsAssumption
<1>4. P!CapacityBacked /\ P!NoDoubleGrowth /\ P!SlotsSuffice =>
        Growth!CapacityBacked /\ Growth!NoDoubleGrowth /\ Growth!SlotsSuffice
  OBVIOUS
<1> QED BY <1>1, <1>2, <1>3, <1>4, Zenon

LEMMA CapacityBehaves == Spec => P!CapacitySpec
<1>1. [Next]_hostVars => [P!CapacityNext]_(P!capacityVars)
  BY CapacitySame, OthersStay DEF memory, P!capacityVars
<1> QED BY <1>1, CapacitySame, PTL DEF Spec, P!CapacitySpec

(* Of the requests that the agent in the appliance serves at once no two hold a  *)
(* key, an entry stays exactly as long as it is referred to, and never everyone  *)
(* waits (appliance/agent/main.go, container_quota.go).                          *)
THEOREM AgentLocksHold == Spec => []AgentLocks
<1>1. P!LockerSpec => [](P!LockerType /\ P!EntriesCounted /\ P!KeysExclusive /\ P!SomeoneGoesOn)
  BY LocksSame, P!LocksKept
<1>2. P!LockerType /\ P!EntriesCounted /\ P!KeysExclusive /\ P!SomeoneGoesOn => AgentLocks
  BY LocksSame DEF AgentLocks
<1> QED BY <1>1, <1>2, LocksBehave, PTL

(* A reader of the host terminal learns of every hole and of the end only after  *)
(* the last output, and no shell runs without a session (host_terminal.rs); the  *)
(* ends of a stream over the bridge come after all that was sent before them,    *)
(* unless the request that opens it was given up (runtime/cloud/bridge.rs).      *)
THEOREM StreamsWholeHolds == Spec => []StreamsWhole
<1>1. P!TerminalSpec => [](P!HostTerminalType /\ P!HolesTold /\ P!DoneAfterLast /\ P!NoStrayShell)
  BY TerminalSame, P!TerminalWhole
<1>2. P!BridgeSpec => [](P!BridgeType /\ P!WholeReply /\ P!WholeRequest)
  BY BridgeSame, P!BridgeWhole
<1>3. /\ P!HostTerminalType /\ P!HolesTold /\ P!DoneAfterLast /\ P!NoStrayShell
      /\ P!BridgeType /\ P!WholeReply /\ P!WholeRequest
      => StreamsWhole
  BY TerminalSame, BridgeSame DEF StreamsWhole
<1> QED BY <1>1, <1>2, <1>3, TerminalBehaves, BridgeBehaves, PTL

(* A drive that is handed on is whole, an archive unless its source was changed   *)
(* under the copy, a machine has no more drives than it takes, and no drive that  *)
(* is in use is renamed (file_import.rs, runtime/import_drive.rs).                *)
THEOREM ImportsWholeHolds == Spec => []ImportsWhole
<1>1. Q!ImportSpec => [](Q!ImportType /\ Q!CopyWhole /\ Q!DrivesBounded /\ Q!InUseKept)
  BY DrivesSame, Q!ImportWhole
<1>2. Q!ImportType /\ Q!CopyWhole /\ Q!DrivesBounded /\ Q!InUseKept => ImportsWhole
  BY DrivesSame DEF ImportsWhole
<1> QED BY <1>1, <1>2, DrivesBehave, PTL

(* Images that a disk is built on stay, and hold what they are named after, while *)
(* machines are made and deleted and images are swept (runtime/vm.rs).            *)
THEOREM ImagesKeptHolds == Spec => []ImagesKept
<1>1. Q!BasesSpec => [](Q!BasesType /\ Q!DisksKept /\ Q!ContentAddressed)
  BY BasesSame, Q!BasesKept
<1>2. Q!BasesType /\ Q!DisksKept /\ Q!ContentAddressed => ImagesKept
  BY BasesSame DEF ImagesKept
<1> QED BY <1>1, <1>2, BasesBehave, PTL

(* A run that is recorded as complete can be downloaded, no data is left without  *)
(* a record and no record without its data (commands.rs, backup.rs); a folder     *)
(* with a manifest holds the whole payload, an import takes what was exported,    *)
(* and nothing staged stays behind (local_backup.rs).                             *)
THEOREM BackupsHoldHolds == Spec => []BackupsHold
<1>1. Q!SnapshotsSpec => [](Q!SnapshotsType /\ Q!CompleteIsDownloadable /\ Q!NoOrphans /\ Q!RecordsHaveData)
  BY SnapsSame, Q!SnapshotsWhole
<1>2. Q!BackupSpec => [](Q!BackupType /\ Q!ManifestVouches /\ Q!ImportsWhatWasExported /\ Q!StagingCleared)
  BY LocalSame, Q!BackupWhole
<1>3. /\ Q!SnapshotsType /\ Q!CompleteIsDownloadable /\ Q!NoOrphans /\ Q!RecordsHaveData
      /\ Q!BackupType /\ Q!ManifestVouches /\ Q!ImportsWhatWasExported /\ Q!StagingCleared
      => BackupsHold
  BY SnapsSame, LocalSame DEF BackupsHold
<1> QED BY <1>1, <1>2, <1>3, SnapsBehave, LocalBehaves, PTL

(* At most one process of the application has the state and the machines         *)
(* (instance_lock.rs, lib.rs); an update of the agent's skill files can be       *)
(* repeated and replaces only what the user writes behind its last look          *)
(* (skills.rs).                                                                  *)
THEOREM StartupKeepsHolds == Spec => StartupKeeps
<1>1. P!StartupSpec => []P!OneEngine
  BY StartupSame, P!OneEngineAtOnce
<1>2. P!SkillSpec => []P!Retryable /\ P!EditsKept
  BY SkillSame, P!SkillFilesKept
<1>3. [\A f \in P!File : P!ByUser(text[f]) /\ ~P!ByUser(text'[f]) => text[f] \in raced]_(P!skillVars)
      => [\A f \in Skill!File : Skill!ByUser(text[f]) /\ ~Skill!ByUser(text'[f])
                                => text[f] \in raced]_(Skill!skillVars)
  BY Zenon DEF P!File, P!ByUser, P!skillVars, Skill!File, Skill!ByUser, Skill!skillVars
<1> QED
  BY <1>1, <1>2, <1>3, StartupSame, SkillSame, StartupBehaves, SkillBehaves, PTL
  DEF StartupKeeps, P!EditsKept, Skill!EditsKept

(* The disk of the CUDA engine is compacted alone, recovery spares what a live   *)
(* instance uses, no obsolete payload is booted (runtime/cuda/host), and a       *)
(* container is asked for where it is (runtime/cuda.rs).                         *)
THEOREM EnginesApartHolds == Spec => EnginesApart
<1>1. P!CudaSpec => [](P!CompactionAlone /\ P!RecoverySparesLive) /\ P!NeverBootsObsolete
  BY CudaSame, P!CudaEngineKept
<1>2. P!RoutesSpec => [](P!AskedWhereItIs /\ P!RoutesAgree)
  BY RoutesSame, P!RoutesKept
<1>3. [\A i \in {"a", "b"} : daemon # i /\ daemon' = i => booted' = expected]_(P!cudaVars)
      => [\A i \in {"a", "b"} : daemon # i /\ daemon' = i => booted' = expected]_(Distro!cudaVars)
  BY Zenon DEF P!cudaVars, Distro!cudaVars
<1> QED
  BY <1>1, <1>2, <1>3, CudaSame, RoutesSame, CudaBehaves, RoutesBehave, PTL
  DEF EnginesApart, P!NeverBootsObsolete, Distro!NeverBootsObsolete

(* A remembered flow is one that the present rule would let open and goes with   *)
(* its environments, a frame has one receiver, and a replaced socket takes none  *)
(* with it (runtime/fabric.rs); no rule outlives its connection, and what a      *)
(* reconciliation put in force stays so (commands.rs).                           *)
THEOREM NetworkKeptHolds == Spec => NetworkKept
<1>1. P!FabricSpec => [](P!FlowsPermitted /\ P!FlowsHaveEnds /\ P!OneReceiver) /\ P!ReplacementKept
  BY FabricSame, P!FabricKept
<1>2. P!LinksSpec => [](P!LinksType /\ P!NoLeftoverRule /\ P!ReconciledInForce)
  BY LinksSame, P!ConnectionsKept
<1>3. [\A e \in {1, 2, 3} : P!Sends(e) => peers'[e] # 0]_(P!fabricVars)
      => [\A e \in {1, 2, 3} : Net!Sends(e) => peers'[e] # 0]_(Net!fabricVars)
  BY Zenon DEF P!fabricVars, Net!fabricVars, P!Connected, Net!Connected, P!Sends, Net!Sends
<1> QED
  BY <1>1, <1>2, <1>3, FabricSame, LinksSame, FabricBehaves, LinksBehave, PTL
  DEF NetworkKept, P!ReplacementKept, Net!ReplacementKept

(* The overlay of the appliance has one owner, is of the base that runs on it    *)
(* and is checked unless it was left well, and reclamation spares containers     *)
(* (runtime/appliance.rs, runtime/storage_reclaim.rs); memory that is accounted  *)
(* for is there, once, and the slots suffice (runtime/appliance_capacity.rs);    *)
(* the agent's locks are one lock for each key (appliance/agent/main.go).        *)
THEOREM ApplianceKeptHolds == Spec => ApplianceKept
<1>1. P!ApplianceSpec => [](P!ApplianceType /\ P!OneOwner /\ P!BaseMatches /\ P!MarkerIsTrue)
                         /\ P!ReclaimSparesContainers
  BY ApplianceSame, P!ApplianceDiskKept
<1>2. P!CapacitySpec => [](P!CapacityBacked /\ P!NoDoubleGrowth /\ P!SlotsSuffice)
  BY CapacitySame, P!CapacityKept
<1>3. P!LockerSpec => P!OneLockPerKey
  BY LocksSame, P!LocksImplementKeyLocks
<1>4. [reclaim = "stop" /\ reclaim' = "replace" => live = {}]_(P!applianceVars)
      => [reclaim = "stop" /\ reclaim' = "replace" => live = {}]_(Appl!applianceVars)
  BY Zenon DEF P!applianceVars, Appl!applianceVars
<1>5. P!Promised!KeysFree => Locks!Promised!KeysFree
  BY DEF P!Promised!KeysFree, Locks!Promised!KeysFree, P!Hold, Locks!Hold, P!Holder, Locks!Holder,
     P!Nobody, Locks!Nobody, P!Call, Locks!Call
<1>6. [P!Promised!KeysNext]_(P!Hold) => [part = "locks" => Locks!StepAsPromised]_hostVars
  BY Zenon DEF Locks!StepAsPromised, P!Promised!KeysNext, Locks!Promised!KeysNext, P!Promised!Take,
     Locks!Promised!Take, P!Promised!Give, Locks!Promised!Give, P!Hold, Locks!Hold, P!Holder,
     Locks!Holder, P!Nobody, Locks!Nobody, P!Call, Locks!Call, P!Outer, Locks!Outer, P!Inner, Locks!Inner
<1> QED
  BY <1>1, <1>2, <1>3, <1>4, <1>5, <1>6, ApplianceSame, CapacitySame, ApplianceBehaves, CapacityBehaves,
     LocksBehave, PTL
  DEF ApplianceKept, P!ReclaimSparesContainers, Appl!ReclaimSparesContainers, P!OneLockPerKey,
      P!Promised!KeysSpec
-------------------------------------------------------------------------------
(* The folder service (FileService). A slot whose socket listens has no request; *)
(* the request of an open one is that of the client at it, and what was looked   *)
(* up stays with it.                                                             *)
ShareShape == [id : Nat, end : {"source", "target", "none"}, both : BOOLEAN]
Asked    == [step : {"lookup"}, for : 0..MaxClients, request : FileRequest]
Reaching == [step : {"call", "check"}, for : 0..MaxClients, request : FileRequest,
             share : ShareShape, server : {"source", "target"}]
Replied  == [step : {"done", "respond", "closing"}, for : 0..MaxClients,
             answer : {"ok", "refused"}, request : FileRequest, of : ShareShape]
FilesShape ==
    /\ FilesType /\ serves \in BOOLEAN /\ share \in [Shared -> ShareShape]
    /\ work \in [Slot -> {NoWork} \cup Asked \cup Reaching \cup Replied]
SlotInv(s) ==
    /\ socket[s] = "listen" => work[s] = NoWork
    /\ socket[s] = "open" /\ work[s] # NoWork => work[s].for = asker[s]
    /\ work[s] \in Reaching => work[s].server = work[s].share.end
FilesInv == FilesShape /\ (\A s \in Slot : SlotInv(s)) /\ WritesPermitted

LEMMA Apart == Replied \cap Reaching = {} /\ Asked \cap Reaching = {} /\ NoWork \notin Reaching
  BY DEF NoWork, Asked, Reaching, Replied

LEMMA FilesInitial == ASSUME FilesConstants, FilesInit PROVE FilesInv
<1>1. NoWork \notin Reaching
  BY Apart
<1>2. \A s \in Slot : SlotInv(s)
  BY <1>1 DEF FilesInit, SlotInv
<1>3. FilesShape /\ WritesPermitted
  BY DEF FilesConstants, FilesInit, FilesShape, FilesType, WritesPermitted, NoWork, NoShare, ShareShape
<1> QED BY <1>2, <1>3 DEF FilesInv

LEMMA StepsOf ==
  ASSUME NEW w \in {NoWork} \cup Asked \cup Reaching \cup Replied
  PROVE  /\ w.step = "receive" => w = NoWork
         /\ w.step = "lookup" => w \in Asked
         /\ w.step \in {"call", "check"} => w \in Reaching
         /\ w.step \in {"done", "respond", "closing"} => w \in Replied
         /\ w.step \in {"receive", "lookup", "call", "check", "done", "respond", "closing"}
  BY DEF NoWork, Asked, Reaching, Replied

LEMMA AnsweredIs ==
  ASSUME NEW w \in Asked \cup Reaching, NEW a \in {"ok", "refused"}
  PROVE  /\ Answered(w, a) \in Replied
         /\ Answered(w, a).step = "done" /\ Answered(w, a).answer = a
         /\ Answered(w, a).for = w.for /\ Answered(w, a).request = w.request
         /\ w \in Reaching => Answered(w, a).of = w.share
<1>1. CASE w \in Asked
  <2>1. "share" \notin DOMAIN w
    BY <1>1 DEF Asked
  <2>2. w \notin Reaching
    BY <1>1 DEF Asked, Reaching
  <2> QED BY <1>1, <2>1, <2>2 DEF Answered, Replied, NoShare, ShareShape, Asked
<1>2. CASE w \in Reaching
  <2>1. "share" \in DOMAIN w
    BY <1>2 DEF Reaching
  <2> QED BY <1>2, <2>1 DEF Answered, Replied, Reaching
<1> QED BY <1>1, <1>2

\* A step that puts w into slot s and leaves its socket alone.
LEMMA WorkKeeps ==
  ASSUME FilesConstants, FilesInv, NEW s \in Slot,
         NEW w \in {NoWork} \cup Asked \cup Reaching \cup Replied,
         socket[s] = "listen" => w = NoWork,
         socket[s] = "open" /\ w # NoWork => w.for = asker[s],
         w \in Reaching => w.server = w.share.end,
         work' = [work EXCEPT ![s] = w],
         UNCHANGED <<serves, socket, asker, clients, shareVars>>, WritesPermitted'
  PROVE  FilesInv'
<1>1. FilesShape'
  <2>1. work' \in [Slot -> {NoWork} \cup Asked \cup Reaching \cup Replied]
    BY DEF FilesInv, FilesShape
  <2>2. \A t \in Slot : work'[t].step \in
          {"receive", "lookup", "call", "check", "done", "respond", "closing"}
    BY <2>1, StepsOf
  <2> QED BY <2>1, <2>2 DEF FilesInv, FilesShape, FilesType, shareVars
<1>2. ASSUME NEW t \in Slot PROVE SlotInv(t)'
  BY DEF FilesInv, FilesShape, SlotInv
<1> QED BY <1>1, <1>2 DEF FilesInv

LEMMA TaskKeeps ==
  ASSUME FilesConstants, FilesInv, NEW s \in Slot, Task(s)
  PROVE  FilesInv'
<1> DEFINE w == work[s]
<1>0. /\ w \in {NoWork} \cup Asked \cup Reaching \cup Replied
      /\ w # NoWork => socket[s] # "listen" /\ (socket[s] = "open" => w.for = asker[s])
      /\ w \in Reaching => w.server = w.share.end
  BY DEF FilesInv, FilesShape, SlotInv
<1>1. CASE Lookup(s)
  <2>1. w \in Asked /\ w # NoWork
    BY <1>0, <1>1, StepsOf DEF Lookup, NoWork
  <2>2. share[w.request.conn] \in ShareShape
    BY <2>1 DEF Asked, FileRequest, FilesInv, FilesShape
  <2> DEFINE now == share[w.request.conn]
             v == IF now.id = 0 \/ now.end = "none" THEN Answered(w, "refused")
                  ELSE [step |-> "call", for |-> w.for, request |-> w.request, share |-> now,
                        server |-> now.end]
  <2>3. /\ v \in Replied \cup Reaching /\ v.for = w.for
        /\ v \in Reaching => v.server = v.share.end
    <3>1. CASE now.id = 0 \/ now.end = "none"
      BY <2>1, <3>1, AnsweredIs, Apart
    <3>2. CASE ~(now.id = 0 \/ now.end = "none")
      BY <2>1, <2>2, <3>2 DEF Asked, Reaching, ShareShape
    <3> QED BY <3>1, <3>2
  <2>4. work' = [work EXCEPT ![s] = v]
    BY <1>1 DEF Lookup
  <2> HIDE DEF v
  <2>5. WritesPermitted' /\ UNCHANGED <<serves, socket, asker, clients, shareVars>>
    BY <1>1 DEF Lookup, FilesInv, WritesPermitted
  <2> QED BY <1>0, <2>1, <2>3, <2>4, <2>5, WorkKeeps
<1>2. CASE AskServer(s)
  <2>1. w \in Reaching /\ w # NoWork
    BY <1>0, <1>2, StepsOf DEF AskServer, NoWork
  <2> DEFINE v == [w EXCEPT !.step = "check"]
  <2>2. v \in Reaching /\ v.for = w.for /\ v.server = v.share.end
    BY <1>0, <2>1 DEF Reaching
  <2>3. work' = [work EXCEPT ![s] = v]
    BY <1>2 DEF AskServer
  <2> HIDE DEF v
  <2>4. WritesPermitted' /\ UNCHANGED <<serves, socket, asker, clients, shareVars>>
    BY <1>0, <1>2, <2>1 DEF AskServer, FilesInv, WritesPermitted, ServerWrites, Reaching
  <2> QED BY <1>0, <2>1, <2>2, <2>3, <2>4, WorkKeeps
<1>3. CASE ServerFails(s)
  <2>1. w \in Reaching /\ w # NoWork
    BY <1>0, <1>3, StepsOf DEF ServerFails, NoWork
  <2>2. Answered(w, "refused") \in Replied \ Reaching /\ Answered(w, "refused").for = w.for
    BY <2>1, AnsweredIs, Apart
  <2>3. work' = [work EXCEPT ![s] = Answered(w, "refused")]
    BY <1>3 DEF ServerFails
  <2>4. WritesPermitted' /\ UNCHANGED <<serves, socket, asker, clients, shareVars>>
    BY <1>3 DEF ServerFails, FilesInv, WritesPermitted
  <2> QED BY <1>0, <2>1, <2>2, <2>3, <2>4, WorkKeeps
<1>4. CASE Check(s)
  <2>1. w \in Reaching /\ w # NoWork
    BY <1>0, <1>4, StepsOf DEF Check, NoWork
  <2> DEFINE a == IF share[w.request.conn] = w.share THEN "ok" ELSE "refused"
  <2>2. Answered(w, a) \in Replied \ Reaching /\ Answered(w, a).for = w.for
    BY <2>1, AnsweredIs, Apart
  <2>3. work' = [work EXCEPT ![s] = Answered(w, a)]
    BY <1>4 DEF Check
  <2> HIDE DEF a
  <2>4. WritesPermitted' /\ UNCHANGED <<serves, socket, asker, clients, shareVars>>
    BY <1>4 DEF Check, FilesInv, WritesPermitted
  <2> QED BY <1>0, <2>1, <2>2, <2>3, <2>4, WorkKeeps
<1> QED BY <1>1, <1>2, <1>3, <1>4 DEF Task

\* Shares come and go without the slots.
LEMMA SharesKeep ==
  ASSUME FilesConstants, FilesInv, NEW c \in Shared,
         \/ WithdrawShare(c)
         \/ \E end \in {"source", "target", "none"}, both \in BOOLEAN : PublishShare(c, end, both)
  PROVE  FilesInv'
<1>0. share \in [Shared -> ShareShape] /\ given \in 0..MaxShares
  BY DEF FilesInv, FilesShape, FilesType
<1>1. share' \in [Shared -> ShareShape] /\ given' \in 0..MaxShares
  <2>1. CASE WithdrawShare(c)
    <3>1. NoShare \in ShareShape
      BY DEF NoShare, ShareShape
    <3> QED BY <1>0, <2>1, <3>1 DEF WithdrawShare
  <2>2. ASSUME NEW end \in {"source", "target", "none"}, NEW both \in BOOLEAN,
               PublishShare(c, end, both)
        PROVE  share' \in [Shared -> ShareShape] /\ given' \in 0..MaxShares
    <3>1. [id |-> given + 1, end |-> end, both |-> both] \in ShareShape
      BY <1>0 DEF ShareShape
    <3> QED BY <1>0, <2>2, <3>1 DEF PublishShare, FilesConstants
  <2> QED BY <2>1, <2>2
<1>2. UNCHANGED <<serves, socket, asker, work, clients, written>>
  BY DEF WithdrawShare, PublishShare
<1> QED BY <1>1, <1>2 DEF FilesInv, FilesShape, FilesType, SlotInv, WritesPermitted

\* What happens to the socket of a slot, a request that arrives or is given up, and what
\* the loop does with an answer.
LEMMA SocketKeeps ==
  ASSUME FilesConstants, FilesInv, NEW s \in Slot,
         ConnectSlot(s) \/ Gone(s) \/ Stall(s) \/ Malformed(s)
  PROVE  FilesInv'
<1>1. CASE ConnectSlot(s)
  <2>1. work[s] = NoWork
    BY <1>1 DEF ConnectSlot, FilesInv, SlotInv
  <2>2. FilesShape' /\ WritesPermitted'
    BY <1>1 DEF ConnectSlot, FilesConstants, FilesInv, FilesShape, FilesType, shareVars,
                WritesPermitted
  <2>3. ASSUME NEW t \in Slot PROVE SlotInv(t)'
    BY <1>1, <2>1 DEF ConnectSlot, FilesInv, FilesShape, FilesType, SlotInv
  <2> QED BY <2>2, <2>3 DEF FilesInv
<1>2. CASE Gone(s) \/ Stall(s) \/ Malformed(s)
  <2>1. /\ socket' = [socket EXCEPT ![s] = "closed"]
        /\ UNCHANGED <<serves, asker, work, clients, written, share, given>>
    BY <1>2 DEF Gone, Stall, Malformed, shareVars
  <2> QED BY <2>1 DEF FilesInv, FilesShape, FilesType, SlotInv, WritesPermitted
<1> QED BY <1>1, <1>2

LEMMA LoopKeeps ==
  ASSUME FilesConstants, FilesInv, NEW s \in Slot,
         Loop(s) \/ \E r \in FileRequest : Receive(s, r)
  PROVE  FilesInv'
<1> DEFINE w == work[s]
<1>0. /\ w \in {NoWork} \cup Asked \cup Reaching \cup Replied
      /\ w # NoWork => socket[s] # "listen" /\ (socket[s] = "open" => w.for = asker[s])
  BY DEF FilesInv, FilesShape, SlotInv
<1>1. CASE Reset(s)
  <2>1. NoWork \notin Reaching
    BY Apart
  <2>2. \A t \in Slot : SlotInv(t)'
    BY <1>1, <2>1 DEF Reset, FilesInv, FilesShape, FilesType, SlotInv
  <2>3. FilesShape' /\ WritesPermitted'
    BY <1>1 DEF Reset, FilesInv, FilesShape, FilesType, WritesPermitted, shareVars, NoWork
  <2> QED BY <2>2, <2>3 DEF FilesInv
<1>2. CASE Collect(s) \/ Close(s)
  <2>1. w \in Replied /\ w # NoWork
    BY <1>0, <1>2, StepsOf DEF Collect, Close, NoWork
  <2>2. PICK step \in {"respond", "closing"} : work' = [work EXCEPT ![s] = [w EXCEPT !.step = step]]
    BY <1>2 DEF Collect, Close
  <2>3. [w EXCEPT !.step = step] \in Replied /\ [w EXCEPT !.step = step].for = w.for
    BY <2>1 DEF Replied
  <2>4. WritesPermitted' /\ UNCHANGED <<serves, socket, asker, clients, shareVars>>
    BY <1>2 DEF Collect, Close, FilesInv, WritesPermitted
  <2> QED BY <1>0, <2>1, <2>2, <2>3, <2>4, Apart, WorkKeeps
<1>3. ASSUME NEW r \in FileRequest, Receive(s, r) PROVE FilesInv'
  <2> DEFINE v == [step |-> "lookup", for |-> asker[s], request |-> r]
  <2>1. v \in Asked /\ v.for = asker[s]
    BY DEF Asked, FilesInv, FilesShape, FilesType
  <2>2. work' = [work EXCEPT ![s] = v] /\ socket[s] = "open"
    BY <1>3 DEF Receive
  <2> HIDE DEF v
  <2>3. WritesPermitted' /\ UNCHANGED <<serves, socket, asker, clients, shareVars>>
    BY <1>3 DEF Receive, FilesInv, WritesPermitted
  <2> QED BY <2>1, <2>2, <2>3, Apart, WorkKeeps
<1> QED BY <1>1, <1>2, <1>3 DEF Loop

LEMMA FilesStep ==
  ASSUME FilesConstants, FilesInv, [FilesNext]_filesVars
  PROVE  FilesInv'
<1>1. CASE End
  <2>1. NoWork \notin Reaching
    BY Apart
  <2>2. \A t \in Slot : SlotInv(t)'
    BY <1>1, <2>1 DEF End, SlotInv
  <2>3. FilesShape' /\ WritesPermitted'
    BY <1>1 DEF End, FilesInv, FilesShape, FilesType, WritesPermitted, NoWork, NoShare, ShareShape
  <2> QED BY <2>2, <2>3 DEF FilesInv
<1>2. CASE UNCHANGED filesVars
  BY <1>2 DEF filesVars, FilesInv, FilesShape, FilesType, SlotInv, WritesPermitted
<1> QED BY <1>1, <1>2, SharesKeep, SocketKeeps, LoopKeeps, TaskKeeps DEF FilesNext

\* An answer with the contents of a share is given in one step only.
LEMMA PresentAnswers ==
  ASSUME FilesInv, [FilesNext]_filesVars, NEW s \in Slot,
         work[s].step # "done", work'[s].step = "done", work'[s].answer = "ok"
  PROVE  share[work[s].request.conn] = work'[s].of
<1> DEFINE w == work[s]
<1>0. work \in [Slot -> {NoWork} \cup Asked \cup Reaching \cup Replied]
  BY DEF FilesInv, FilesShape
<1>1. ASSUME NEW t \in Slot, Task(t) PROVE t = s
  BY <1>0, <1>1 DEF Task, Lookup, AskServer, ServerFails, Check
<1>2. CASE Lookup(s)
  <2>1. w \in Asked
    BY <1>0, <1>2, StepsOf DEF Lookup
  <2>2. work'[s].step = "done" => work'[s] = Answered(w, "refused")
    BY <1>0, <1>2 DEF Lookup
  <2> QED BY <2>1, <2>2, AnsweredIs
<1>3. CASE AskServer(s)
  <2>1. w \in Reaching
    BY <1>0, <1>3, StepsOf DEF AskServer
  <2>2. work'[s] = [w EXCEPT !.step = "check"]
    BY <1>0, <1>3 DEF AskServer
  <2> QED BY <2>1, <2>2 DEF Reaching
<1>4. CASE ServerFails(s)
  <2>1. w \in Reaching
    BY <1>0, <1>4, StepsOf DEF ServerFails
  <2>2. work'[s] = Answered(w, "refused")
    BY <1>0, <1>4 DEF ServerFails
  <2> QED BY <2>1, <2>2, AnsweredIs
<1>5. CASE Check(s)
  <2>1. w \in Reaching
    BY <1>0, <1>5, StepsOf DEF Check
  <2> DEFINE a == IF share[w.request.conn] = w.share THEN "ok" ELSE "refused"
  <2>2. work'[s] = Answered(w, a)
    BY <1>0, <1>5 DEF Check
  <2>3. Answered(w, a).answer = a /\ Answered(w, a).of = w.share
    BY <2>1, AnsweredIs
  <2> QED BY <2>2, <2>3
<1>6. ASSUME NEW t \in Slot, Loop(t) \/ \E r \in FileRequest : Receive(t, r) PROVE FALSE
  <2>1. CASE Reset(t)
    BY <1>0, <2>1 DEF Reset, NoWork
  <2>2. CASE Collect(t) \/ Close(t)
    <3>1. PICK step \in {"respond", "closing"} :
            work' = [work EXCEPT ![t] = [work[t] EXCEPT !.step = step]]
      BY <2>2 DEF Collect, Close
    <3>2. work[t].step \in {"done", "respond"} /\ work[t] \in Replied
      BY <1>0, <2>2, StepsOf DEF Collect, Close
    <3> QED BY <1>0, <3>1, <3>2 DEF Replied
  <2>3. CASE \E r \in FileRequest : Receive(t, r)
    BY <1>0, <2>3 DEF Receive
  <2> QED BY <1>6, <2>1, <2>2, <2>3 DEF Loop
<1>7. ASSUME UNCHANGED work PROVE FALSE
  BY <1>7
<1>8. ASSUME End PROVE FALSE
  BY <1>8 DEF End, NoWork
<1> QED
  BY <1>1, <1>2, <1>3, <1>4, <1>5, <1>6, <1>7, <1>8
  DEF FilesNext, filesVars, Task, WithdrawShare, PublishShare, ConnectSlot, Gone, Stall, Malformed

(* What goes through a socket was computed for the client at it, nothing is       *)
(* written through a share by the end that may only read it, and no answer comes  *)
(* from a share that was withdrawn or replaced meanwhile, for any number of slots *)
(* and connections (file_service.rs, connection_files.rs).                        *)
THEOREM FoldersAnswerRightly ==
  ASSUME FilesConstants
  PROVE  FilesSpec => [](FilesType /\ AnswersOwnClient /\ WritesPermitted) /\ AnswersFromPresentShare
<1>1. FilesInv => FilesType /\ AnswersOwnClient /\ WritesPermitted
  BY DEF FilesInv, FilesShape, SlotInv, AnswersOwnClient, NoWork
<1>2. FilesInv /\ [FilesNext]_filesVars =>
        [\A s \in Slot : (work[s].step # "done" /\ work'[s].step = "done"
                          /\ work'[s].answer = "ok")
           => share[work[s].request.conn] = work'[s].of]_filesVars
  BY PresentAnswers
<1> QED BY <1>1, <1>2, FilesInitial, FilesStep, PTL DEF FilesSpec, AnswersFromPresentShare
-------------------------------------------------------------------------------
(* Automation jobs (Automation). A job is underway until it is completed, and    *)
(* only a completed one grows old; the lock of mutations is that of the one that *)
(* was dispatched.                                                               *)
Job    == [status : {"queued", "running", "complete", "failed"}, old : BOOLEAN]
Numbered == UNION {[S -> Job] : S \in SUBSET (1..MaxJobs)}
JobsShape ==
    /\ jobs \in Numbered /\ count \in 0..MaxJobs
    /\ DOMAIN jobs \subseteq 1..count /\ DOMAIN underway \subseteq DOMAIN jobs
    /\ underway \in [DOMAIN underway -> [method : Method, step : {"spawned", "dispatched"}]]
    /\ Cardinality(DOMAIN underway) <= Permits
StatusInv ==
    \A t \in DOMAIN jobs : /\ t \in DOMAIN underway <=> ~Completed(jobs[t])
                           /\ jobs[t].old => Completed(jobs[t])
WriterInv ==
    \A t \in DOMAIN underway :
        underway[t].step = "dispatched" /\ underway[t].method.mutating => writer = t
JobsInv == JobsShape /\ StatusInv /\ WriterInv /\ HistoryBounded

Complete(js) == {t \in DOMAIN js : js[t].status = "complete"}

LEMMA NumberedIs ==
  ASSUME AutomationConstants, NEW js \in Numbered
  PROVE  /\ IsFiniteSet(DOMAIN js) /\ DOMAIN js \subseteq 1..MaxJobs /\ DOMAIN js \in SUBSET Nat
         /\ js \in [DOMAIN js -> Job]
<1>1. DOMAIN js \subseteq 1..MaxJobs /\ js \in [DOMAIN js -> Job]
  BY DEF Numbered
<1>2. IsFiniteSet(1..MaxJobs)
  BY FS_Interval DEF AutomationConstants
<1> QED BY <1>1, <1>2, FS_Subset DEF AutomationConstants

\* What prune() leaves: all that is not completed, nothing that is old, and either there
\* is room for one more or nothing is completed.
LEMMA Pruned ==
  ASSUME AutomationConstants, NEW js \in Numbered
  PROVE  /\ Prune(js) \in Numbered /\ DOMAIN Prune(js) \subseteq DOMAIN js
         /\ \A t \in DOMAIN Prune(js) : Prune(js)[t] = js[t]
         /\ \A t \in DOMAIN js : ~js[t].old /\ ~Completed(js[t]) => t \in DOMAIN Prune(js)
         /\ \/ \A t \in DOMAIN Prune(js) : ~Completed(js[t])
            \/ /\ Cardinality(DOMAIN Prune(js)) < History
               /\ Cardinality(Complete(Prune(js))) <= Budget
<1> DEFINE current == {t \in DOMAIN js : ~js[t].old}
           done == {t \in current : Completed(js[t])}
           After(n) == {t \in current : t \in done => t > n}
           CompleteAfter(n) == {t \in After(n) : js[t].status = "complete"}
           Suffices(n) == Cardinality(After(n)) < History /\ Cardinality(CompleteAfter(n)) <= Budget
           rest == {u \in current : u \in done => \E n \in done \cup {0} : n < u /\ Suffices(n)}
<1>1. IsFiniteSet(DOMAIN js) /\ DOMAIN js \subseteq 1..MaxJobs /\ DOMAIN js \in SUBSET Nat
      /\ js \in [DOMAIN js -> Job]
  BY NumberedIs
<1>2. Prune(js) = [t \in rest |-> js[t]]
  BY DEF Prune
<1>3. rest \subseteq DOMAIN js /\ current \subseteq DOMAIN js /\ done \subseteq current
  OBVIOUS
<1>4. DOMAIN Prune(js) = rest /\ \A t \in rest : Prune(js)[t] = js[t]
  BY <1>2
<1>5. Prune(js) \in Numbered
  <2>1. Prune(js) \in [rest -> Job]
    BY <1>1, <1>2, <1>3
  <2>2. rest \in SUBSET (1..MaxJobs)
    BY <1>1, <1>3
  <2> QED BY <2>1, <2>2 DEF Numbered
<1>6. CASE \E n \in done \cup {0} : Suffices(n)
  <2> DEFINE T == {n \in done \cup {0} : Suffices(n)}
  <2>1. T \in SUBSET Nat /\ T # {}
    <3>1. done \cup {0} \subseteq Nat
      BY <1>1, <1>3
    <3>2. T \subseteq done \cup {0}
      OBVIOUS
    <3>3. T # {}
      BY <1>6
    <3> QED BY <3>1, <3>2, <3>3
  <2>2. PICK n \in T : \A m \in T : n <= m
    BY <2>1, P!LeastExists
  <2>3. rest \subseteq After(n)
    <3> SUFFICES ASSUME NEW u \in rest PROVE u \in After(n)
      OBVIOUS
    <3>1. CASE u \in done
      <4>1. PICK m \in done \cup {0} : m < u /\ Suffices(m)
        BY <3>1
      <4>2. n <= m
        BY <2>2, <4>1
      <4>3. u \in Nat /\ m \in Nat /\ n \in Nat
        BY <1>1, <1>3, <2>1, <2>2
      <4> QED BY <4>1, <4>2, <4>3
    <3> QED BY <3>1
  <2>4. IsFiniteSet(After(n)) /\ IsFiniteSet(CompleteAfter(n))
    BY <1>1, FS_Subset
  <2>5. Complete(Prune(js)) \subseteq CompleteAfter(n)
    BY <1>4, <2>3 DEF Complete
  <2>6. Cardinality(rest) <= Cardinality(After(n)) /\ IsFiniteSet(rest)
    BY <2>3, <2>4, FS_Subset
  <2>7. Cardinality(Complete(Prune(js))) <= Cardinality(CompleteAfter(n))
        /\ IsFiniteSet(Complete(Prune(js)))
    BY <2>4, <2>5, FS_Subset
  <2>8. Cardinality(After(n)) \in Nat /\ Cardinality(CompleteAfter(n)) \in Nat
        /\ Cardinality(rest) \in Nat /\ Cardinality(Complete(Prune(js))) \in Nat
    BY <2>4, <2>6, <2>7, FS_CardinalityType
  <2>9. Suffices(n)
    BY <2>2
  <2>10. Cardinality(rest) < History /\ Cardinality(Complete(Prune(js))) <= Budget
    BY <2>6, <2>7, <2>8, <2>9 DEF AutomationConstants
  <2> QED BY <1>3, <1>4, <1>5, <2>10
<1>7. CASE ~ \E n \in done \cup {0} : Suffices(n)
  <2>1. \A t \in rest : ~Completed(js[t])
    BY <1>7
  <2> QED BY <1>3, <1>4, <1>5, <2>1
<1> QED BY <1>6, <1>7

\* The same of a state in which U are underway.
LEMMA PrunedState ==
  ASSUME AutomationConstants, NEW js \in Numbered, NEW U \in SUBSET DOMAIN js,
         Cardinality(U) <= Permits,
         \A t \in DOMAIN js : /\ t \in U <=> ~Completed(js[t])
                              /\ js[t].old => Completed(js[t])
  PROVE  /\ U \subseteq DOMAIN Prune(js)
         /\ Cardinality(DOMAIN Prune(js)) <= History
         /\ Cardinality(U) < History => Cardinality(DOMAIN Prune(js)) < History
         /\ Cardinality(Complete(Prune(js))) <= Budget
<1>1. U \subseteq DOMAIN Prune(js)
  BY Pruned
<1>2. IsFiniteSet(DOMAIN js) /\ DOMAIN Prune(js) \subseteq DOMAIN js
  BY Pruned, NumberedIs
<1>3. IsFiniteSet(DOMAIN Prune(js)) /\ IsFiniteSet(U)
  BY <1>2, FS_Subset
<1>4. Cardinality(DOMAIN Prune(js)) \in Nat /\ Cardinality(U) \in Nat
  BY <1>3, FS_CardinalityType
<1>5. CASE \A t \in DOMAIN Prune(js) : ~Completed(js[t])
  <2>1. DOMAIN Prune(js) \subseteq U
    BY <1>2, <1>5
  <2>2. Cardinality(DOMAIN Prune(js)) <= Cardinality(U)
    BY <1>3, <2>1, FS_Subset
  <2>3. Complete(Prune(js)) = {}
    BY <1>5, Pruned DEF Complete, Completed
  <2>4. Cardinality(Complete(Prune(js))) = 0
    BY <2>3, FS_EmptySet
  <2> QED BY <1>1, <1>4, <2>2, <2>4 DEF AutomationConstants
<1>6. CASE /\ Cardinality(DOMAIN Prune(js)) < History
           /\ Cardinality(Complete(Prune(js))) <= Budget
  BY <1>1, <1>4, <1>6 DEF AutomationConstants
<1> QED BY <1>5, <1>6, Pruned

LEMMA JobsInitial == ASSUME AutomationConstants, AutomationInit PROVE JobsInv
<1>1. jobs = [t \in {} |-> 0] /\ DOMAIN jobs = {} /\ DOMAIN underway = {}
  BY DEF AutomationInit
<1>2. Cardinality({}) = 0
  BY FS_EmptySet
<1>3. jobs \in [{} -> Job]
  BY <1>1
<1>4. jobs \in Numbered
  BY <1>3 DEF Numbered
<1>5. JobsShape
  BY <1>1, <1>2, <1>4 DEF JobsShape, AutomationInit, AutomationConstants
<1>6. StatusInv /\ WriterInv
  BY <1>1 DEF StatusInv, WriterInv
<1>7. HistoryBounded
  <2>1. {t \in DOMAIN jobs : jobs[t].status = "complete"} = {}
    BY <1>1
  <2> QED BY <1>1, <1>2, <2>1 DEF HistoryBounded, AutomationConstants
<1> QED BY <1>5, <1>6, <1>7 DEF JobsInv

\* jobs_list and jobs_get prune, and nothing else.
LEMMA ListKeeps ==
  ASSUME AutomationConstants, JobsInv, jobs' = Prune(jobs), UNCHANGED <<underway, writer, count>>
  PROVE  JobsInv'
<1>1. jobs \in Numbered /\ DOMAIN underway \in SUBSET DOMAIN jobs
  BY DEF JobsInv, JobsShape
<1>2. /\ DOMAIN underway \subseteq DOMAIN Prune(jobs)
      /\ Cardinality(DOMAIN Prune(jobs)) <= History
      /\ Cardinality(Complete(Prune(jobs))) <= Budget
  BY <1>1, PrunedState DEF JobsInv, JobsShape, StatusInv
<1>3. /\ Prune(jobs) \in Numbered /\ DOMAIN Prune(jobs) \subseteq DOMAIN jobs
      /\ \A t \in DOMAIN Prune(jobs) : Prune(jobs)[t] = jobs[t]
  BY <1>1, Pruned
<1>4. JobsShape'
  BY <1>1, <1>2, <1>3 DEF JobsInv, JobsShape
<1>5. StatusInv' /\ WriterInv'
  BY <1>1, <1>3 DEF JobsInv, StatusInv, WriterInv
<1>6. HistoryBounded'
  BY <1>2 DEF HistoryBounded, Complete
<1> QED BY <1>4, <1>5, <1>6 DEF JobsInv

\* submit(): a permit was free, so that there is room for the job.
LEMMA SubmitKeeps ==
  ASSUME AutomationConstants, JobsInv, NEW c \in Client, NEW m \in Method,
         NEW yes \in BOOLEAN, NEW dry \in BOOLEAN, Submit(c, m, yes, dry)
  PROVE  JobsInv'
<1> DEFINE id == count + 1
           new == [status |-> "queued", old |-> FALSE]
           ps == Prune(jobs)
<1>1. CASE UNCHANGED <<jobs, underway, count, writer>>
  BY <1>1 DEF JobsInv, JobsShape, StatusInv, WriterInv, HistoryBounded
<1>2. CASE /\ ~(Cardinality(DOMAIN underway) >= Permits) /\ count < MaxJobs
           /\ count' = id /\ writer' = writer /\ jobs' = With(ps, id, new)
           /\ underway' = With(underway, id, [method |-> m, step |-> "spawned"])
  <2>1. jobs \in Numbered /\ DOMAIN underway \in SUBSET DOMAIN jobs /\ count \in 0..MaxJobs
        /\ DOMAIN jobs \subseteq 1..count
    BY DEF JobsInv, JobsShape
  <2>2. IsFiniteSet(DOMAIN jobs) /\ IsFiniteSet(DOMAIN underway)
        /\ Cardinality(DOMAIN underway) \in Nat
    BY <2>1, NumberedIs, FS_Subset, FS_CardinalityType
  <2>3. Cardinality(DOMAIN underway) < Permits /\ Cardinality(DOMAIN underway) < History
    BY <1>2, <2>2 DEF AutomationConstants
  <2>4. /\ DOMAIN underway \subseteq DOMAIN ps /\ Cardinality(DOMAIN ps) < History
        /\ Cardinality(Complete(ps)) <= Budget
    BY <2>1, <2>3, PrunedState DEF JobsInv, JobsShape, StatusInv
  <2>5. /\ ps \in Numbered /\ DOMAIN ps \subseteq DOMAIN jobs
        /\ \A t \in DOMAIN ps : ps[t] = jobs[t]
    BY <2>1, Pruned
  <2>6. IsFiniteSet(DOMAIN ps) /\ ps \in [DOMAIN ps -> Job] /\ DOMAIN ps \subseteq 1..MaxJobs
        /\ Cardinality(DOMAIN ps) \in Nat
    BY <2>5, NumberedIs, FS_CardinalityType
  <2> HIDE DEF ps
  <2>7. id \notin DOMAIN jobs /\ id \notin DOMAIN ps /\ id \notin DOMAIN underway /\ id \in 1..MaxJobs
        /\ id \in 1..id
    BY <1>2, <2>1, <2>5 DEF AutomationConstants
  <2>8. /\ DOMAIN jobs' = DOMAIN ps \cup {id} /\ jobs'[id] = new
        /\ \A t \in DOMAIN ps : jobs'[t] = jobs[t]
    BY <1>2, <2>5, <2>7 DEF With
  <2>9. /\ DOMAIN underway' = DOMAIN underway \cup {id}
        /\ underway'[id] = [method |-> m, step |-> "spawned"]
        /\ \A t \in DOMAIN underway : underway'[t] = underway[t]
    BY <1>2, <2>7 DEF With
  <2>10. /\ Cardinality(DOMAIN jobs') <= History /\ Cardinality(DOMAIN underway') <= Permits
    <3>1. Cardinality(DOMAIN jobs') = Cardinality(DOMAIN ps) + 1
      BY <2>6, <2>7, <2>8, FS_AddElement
    <3>2. Cardinality(DOMAIN underway') = Cardinality(DOMAIN underway) + 1
      BY <2>2, <2>7, <2>9, FS_AddElement
    <3> QED BY <2>2, <2>3, <2>4, <2>6, <3>1, <3>2 DEF AutomationConstants
  <2>11. JobsShape'
    <3>1. jobs' \in [DOMAIN ps \cup {id} -> Job]
      <4>1. new \in Job
        BY DEF Job
      <4> HIDE DEF new
      <4> QED BY <1>2, <2>6, <4>1 DEF With
    <3>2. jobs' \in Numbered
      BY <2>6, <2>7, <3>1 DEF Numbered
    <3>3. underway' \in [DOMAIN underway' -> [method : Method, step : {"spawned", "dispatched"}]]
      BY <1>2, <2>9 DEF With, JobsInv, JobsShape
    <3>4. DOMAIN jobs' \subseteq 1..count' /\ count' \in 0..MaxJobs
      BY <1>2, <2>1, <2>5, <2>7, <2>8 DEF AutomationConstants
    <3> QED BY <2>4, <2>8, <2>9, <2>10, <3>2, <3>3, <3>4 DEF JobsShape
  <2>12. StatusInv'
    <3>1. ~Completed(new) /\ ~new.old
      BY DEF Completed
    <3> HIDE DEF new
    <3> QED BY <2>5, <2>7, <2>8, <2>9, <3>1 DEF JobsInv, StatusInv
  <2>13. WriterInv'
    BY <1>2, <2>7, <2>9 DEF JobsInv, WriterInv
  <2>14. HistoryBounded'
    <3>1. {t \in DOMAIN jobs' : jobs'[t].status = "complete"} = Complete(ps)
      BY <2>5, <2>7, <2>8 DEF Complete
    <3> QED BY <2>4, <2>10, <3>1 DEF HistoryBounded
  <2> QED BY <2>11, <2>12, <2>13, <2>14 DEF JobsInv
<1> QED BY <1>1, <1>2 DEF Submit

\* A job whose status or age changes alone.
LEMMA StatusIs ==
  ASSUME JobsInv, NEW t \in DOMAIN jobs, NEW st \in {"queued", "running", "complete", "failed"}
  PROVE  /\ SetStatus(t, st) \in Numbered /\ DOMAIN SetStatus(t, st) = DOMAIN jobs
         /\ SetStatus(t, st)[t].status = st /\ SetStatus(t, st)[t].old = jobs[t].old
         /\ \A u \in DOMAIN jobs \ {t} : SetStatus(t, st)[u] = jobs[u]
<1>1. jobs \in [DOMAIN jobs -> Job] /\ DOMAIN jobs \subseteq 1..MaxJobs
  BY DEF JobsInv, JobsShape, Numbered
<1>2. SetStatus(t, st) = [jobs EXCEPT ![t] = [jobs[t] EXCEPT !.status = st]]
  BY <1>1 DEF SetStatus
<1>3. [jobs[t] EXCEPT !.status = st] \in Job
  BY <1>1 DEF Job
<1>4. SetStatus(t, st) \in [DOMAIN jobs -> Job]
  BY <1>1, <1>2, <1>3
<1>5. SetStatus(t, st) \in Numbered
  BY <1>1, <1>4 DEF Numbered
<1>6. SetStatus(t, st)[t] = [jobs[t] EXCEPT !.status = st] /\ jobs[t] \in Job
  BY <1>1, <1>2
<1> QED BY <1>2, <1>4, <1>5, <1>6 DEF Job

LEMMA RunKeeps ==
  ASSUME AutomationConstants, JobsInv, NEW t \in 1..MaxJobs, Run(t)
  PROVE  JobsInv'
<1>1. t \in DOMAIN underway /\ t \in DOMAIN jobs /\ underway[t].step = "spawned"
  BY DEF Run, JobsInv, JobsShape
<1>2. /\ jobs' \in Numbered /\ DOMAIN jobs' = DOMAIN jobs
      /\ jobs'[t].status = "running" /\ jobs'[t].old = jobs[t].old
      /\ \A u \in DOMAIN jobs \ {t} : jobs'[u] = jobs[u]
  BY <1>1, StatusIs DEF Run
<1>3. /\ DOMAIN underway' = DOMAIN underway
      /\ underway' \in [DOMAIN underway -> [method : Method, step : {"spawned", "dispatched"}]]
      /\ underway'[t].step = "dispatched" /\ underway'[t].method = underway[t].method
      /\ \A u \in DOMAIN underway \ {t} : underway'[u] = underway[u]
  BY <1>1 DEF Run, JobsInv, JobsShape
<1>4. ~Completed(jobs[t]) /\ ~Completed(jobs'[t])
  BY <1>1, <1>2 DEF JobsInv, StatusInv, Completed
<1>5. JobsShape'
  BY <1>2, <1>3 DEF Run, JobsInv, JobsShape
<1>6. StatusInv'
  BY <1>1, <1>2, <1>3, <1>4 DEF JobsInv, StatusInv
<1>7. WriterInv'
  <2> SUFFICES ASSUME NEW u \in DOMAIN underway, underway'[u].step = "dispatched",
                      underway'[u].method.mutating
               PROVE  writer' = u
    BY <1>3 DEF WriterInv
  <2>1. CASE u = t
    BY <1>3, <2>1 DEF Run
  <2>2. CASE u # t
    <3>1. writer = u
      BY <1>3, <2>2 DEF JobsInv, WriterInv
    <3>2. u \in Nat \ {0}
      BY DEF JobsInv, JobsShape
    <3> QED BY <3>1, <3>2 DEF Run
  <2> QED BY <2>1, <2>2
<1>8. HistoryBounded'
  <2>1. {u \in DOMAIN jobs' : jobs'[u].status = "complete"}
          = {u \in DOMAIN jobs : jobs[u].status = "complete"}
    BY <1>2, <1>4 DEF Completed
  <2> QED BY <1>2, <2>1 DEF JobsInv, HistoryBounded
<1> QED BY <1>5, <1>6, <1>7, <1>8 DEF JobsInv

LEMMA FinishKeeps ==
  ASSUME AutomationConstants, JobsInv, NEW t \in 1..MaxJobs, Finish(t)
  PROVE  JobsInv'
<1>1. t \in DOMAIN underway /\ t \in DOMAIN jobs
  BY DEF Finish, JobsInv, JobsShape
<1>2. PICK r \in Dispatch : jobs' = Prune(SetStatus(t, r))
  BY DEF Finish
<1> DEFINE js == SetStatus(t, r)
           U  == DOMAIN underway \ {t}
<1>3. /\ js \in Numbered /\ DOMAIN js = DOMAIN jobs /\ js[t].status = r
      /\ js[t].old = jobs[t].old /\ \A u \in DOMAIN jobs \ {t} : js[u] = jobs[u]
  BY <1>1, StatusIs DEF Dispatch
<1>14. jobs' = Prune(js)
  BY <1>2
<1> HIDE DEF js
<1>4. Completed(js[t])
  BY <1>3 DEF Completed, Dispatch
<1>5. /\ U \in SUBSET DOMAIN js
      /\ \A u \in DOMAIN js : (u \in U <=> ~Completed(js[u])) /\ (js[u].old => Completed(js[u]))
  BY <1>3, <1>4 DEF JobsInv, JobsShape, StatusInv
<1>6. Cardinality(U) <= Permits /\ Cardinality(U) \in Nat
  <2>1. IsFiniteSet(DOMAIN underway)
    BY NumberedIs, FS_Subset DEF JobsInv, JobsShape
  <2>2. Cardinality(U) <= Cardinality(DOMAIN underway) /\ IsFiniteSet(U)
    BY <2>1, FS_Subset
  <2>3. Cardinality(U) \in Nat /\ Cardinality(DOMAIN underway) \in Nat
    BY <2>1, <2>2, FS_CardinalityType
  <2> QED BY <2>2, <2>3 DEF JobsInv, JobsShape, AutomationConstants
<1>9. DOMAIN underway' = U /\ \A u \in U : underway'[u] = underway[u]
  BY DEF Finish
<1>15. \A u \in U : u \in DOMAIN underway /\ u # t
  OBVIOUS
<1>16. underway' \in [U -> [method : Method, step : {"spawned", "dispatched"}]]
  BY DEF Finish, JobsInv, JobsShape
<1> HIDE DEF U
<1>7. /\ U \subseteq DOMAIN jobs' /\ Cardinality(DOMAIN jobs') <= History
      /\ Cardinality(Complete(jobs')) <= Budget
  BY <1>14, <1>3, <1>5, <1>6, PrunedState
<1>8. /\ jobs' \in Numbered /\ DOMAIN jobs' \subseteq DOMAIN jobs
      /\ \A u \in DOMAIN jobs' : jobs'[u] = js[u]
  BY <1>14, <1>3, Pruned
<1>10. JobsShape'
  BY <1>6, <1>7, <1>8, <1>9, <1>16 DEF Finish, JobsInv, JobsShape
<1>11. StatusInv'
  <2> SUFFICES ASSUME NEW u \in DOMAIN jobs'
               PROVE  /\ u \in DOMAIN underway' <=> ~Completed(jobs'[u])
                      /\ jobs'[u].old => Completed(jobs'[u])
    BY DEF StatusInv
  <2>1. u \in DOMAIN js /\ jobs'[u] = js[u]
    BY <1>3, <1>8
  <2> QED BY <1>5, <1>9, <2>1
<1>12. WriterInv'
  BY <1>9, <1>15 DEF Finish, JobsInv, WriterInv
<1>13. HistoryBounded'
  BY <1>7 DEF HistoryBounded, Complete
<1> QED BY <1>10, <1>11, <1>12, <1>13 DEF JobsInv

LEMMA GrowOldKeeps ==
  ASSUME AutomationConstants, JobsInv, NEW t \in 1..MaxJobs, GrowOld(t)
  PROVE  JobsInv'
<1>1. jobs \in [DOMAIN jobs -> Job] /\ DOMAIN jobs \subseteq 1..MaxJobs /\ t \in DOMAIN jobs
  BY DEF GrowOld, JobsInv, JobsShape, Numbered
<1>2. jobs' = [jobs EXCEPT ![t] = [jobs[t] EXCEPT !.old = TRUE]]
  BY <1>1 DEF GrowOld
<1>3. [jobs[t] EXCEPT !.old = TRUE] \in Job /\ [jobs[t] EXCEPT !.old = TRUE].status = jobs[t].status
  BY <1>1 DEF Job
<1>4. /\ jobs' \in [DOMAIN jobs -> Job] /\ jobs'[t].status = jobs[t].status
      /\ \A u \in DOMAIN jobs \ {t} : jobs'[u] = jobs[u]
  BY <1>1, <1>2, <1>3
<1>5. jobs' \in Numbered /\ DOMAIN jobs' = DOMAIN jobs
  BY <1>1, <1>4 DEF Numbered
<1>6. JobsShape' /\ WriterInv'
  BY <1>5 DEF GrowOld, JobsInv, JobsShape, WriterInv
<1>7. StatusInv'
  BY <1>1, <1>4, <1>5 DEF GrowOld, JobsInv, StatusInv, Completed
<1>8. HistoryBounded'
  <2>1. {u \in DOMAIN jobs' : jobs'[u].status = "complete"}
          = {u \in DOMAIN jobs : jobs[u].status = "complete"}
    BY <1>4, <1>5
  <2> QED BY <1>5, <2>1 DEF JobsInv, HistoryBounded
<1> QED BY <1>6, <1>7, <1>8 DEF JobsInv

LEMMA JobsStep ==
  ASSUME AutomationConstants, JobsInv, [AutomationNext]_automationVars
  PROVE  JobsInv'
<1>1. ASSUME ListJobs \/ \E c \in Client : Poll(c) PROVE JobsInv'
  BY <1>1, ListKeeps DEF ListJobs, Poll
<1>2. CASE UNCHANGED automationVars
  BY <1>2 DEF automationVars, JobsInv, JobsShape, StatusInv, WriterInv, HistoryBounded
<1> QED BY <1>1, <1>2, SubmitKeeps, RunKeeps, FinishKeeps, GrowOldKeeps DEF AutomationNext

(* A job that has not ended is never dropped, the history stays within its limits *)
(* all the same, and two mutations never run at once, for any limits with no more *)
(* permits than places in the history (prune and submit in automation/mod.rs).    *)
THEOREM JobsKept ==
  ASSUME AutomationConstants
  PROVE  AutomationSpec => [](PendingKept /\ OneMutation /\ HistoryBounded)
<1>1. JobsInv => PendingKept /\ OneMutation /\ HistoryBounded
  BY DEF JobsInv, JobsShape, WriterInv, PendingKept, OneMutation
<1> QED BY <1>1, JobsInitial, JobsStep, PTL DEF AutomationSpec
-------------------------------------------------------------------------------
(* Publications (Publishing). A tunnel without a publication is that of the call *)
(* that has started it; a caller waits for the list of ports once, and only for  *)
(* one that is published locally.                                                *)
PublishShape ==
    /\ PublishType
    /\ publishing = NotPublishing \/ publishing \in
         [at : {"starting", "started", "syncing"}, port : HostPort, node : Node]
    /\ tick \in [at : {"idle", "read", "synced"}, seen : SUBSET Node]
    /\ syncing \in [by : {"nobody", "publish", "unpublish", "cleanup"}, ports : SUBSET LocalPort,
                    ids : SUBSET Node]
TunnelsKept ==
    \A p \in tunnel : \/ published[p] # NoNode
                      \/ publishing.at = "started" /\ publishing.port = p
CallerWaits ==
    /\ "publish" \in waiting => publishing.at = "syncing" /\ syncing.by # "publish"
    /\ syncing.by = "publish" => publishing.at = "syncing"
    /\ publishing.at = "syncing" => publishing.port \in LocalPort
PublishInv == PublishShape /\ TunnelsKept /\ CallerWaits

LEMMA PublishInitial == ASSUME PublishConstants, PublishInit PROVE PublishInv
<1>1. lost \in 0..MaxLostSyncs /\ restarts \in 0..MaxRestarts
  BY DEF PublishConstants, PublishInit
<1>2. PublishShape
  BY <1>1 DEF PublishInit, PublishShape, PublishType, NotPublishing, Rests, NoSync
<1>3. TunnelsKept /\ CallerWaits
  BY DEF PublishInit, TunnelsKept, CallerWaits, NotPublishing, NoSync
<1> QED BY <1>2, <1>3 DEF PublishInv

LEMMA PublishStep ==
  ASSUME PublishConstants, PublishInv, [PublishNext]_publishVars
  PROVE  PublishInv'
<1> USE DEF PublishConstants, PublishInv, PublishShape, PublishType, TunnelsKept, CallerWaits
<1>1. ASSUME NEW n \in Node, NodeStarts(n) PROVE PublishInv'
  BY <1>1 DEF NodeStarts
<1>2. ASSUME NEW n \in Node, NodeStops(n) PROVE PublishInv'
  BY <1>2 DEF NodeStops
<1>3. ASSUME NEW p \in HostPort, NEW n \in Node, Publish(p, n) PROVE PublishInv'
  BY <1>3 DEF Publish, NotPublishing
<1>4. CASE PublishStarted
  BY <1>4 DEF PublishStarted, NotPublishing
<1>5. CASE PublishFails
  BY <1>5 DEF PublishFails, NotPublishing
<1>6. CASE PublishListed
  BY <1>6 DEF PublishListed, NotPublishing, LocalPort
<1>7. ASSUME NEW p \in HostPort, Unpublish(p) PROVE PublishInv'
  BY <1>7 DEF Unpublish
<1>8. CASE CleanupReads
  BY <1>8 DEF CleanupReads
<1>9. CASE CleanupDrops
  BY <1>9 DEF CleanupDrops, Stale
<1>10. CASE SyncSucceeds \/ SyncLeavesOut
  <2>1. ASSUME NEW left \in SUBSET (syncing.ids \cap nodesUp), AgentTakes(left)
        PROVE  /\ agentPorts' \subseteq LocalPort /\ chain' \in [Node -> SUBSET LocalPort]
               /\ doubtful' \subseteq LocalPort /\ missed' \subseteq Node \cup {NoNode}
    BY <2>1 DEF AgentTakes, Granted
  <2>2. {} \in SUBSET (syncing.ids \cap nodesUp)
    OBVIOUS
  <2>3. lost' \in 0..MaxLostSyncs
    BY <1>10 DEF SyncSucceeds, SyncLeavesOut
  <2>4. /\ agentPorts' \subseteq LocalPort /\ chain' \in [Node -> SUBSET LocalPort]
        /\ doubtful' \subseteq LocalPort /\ missed' \subseteq Node \cup {NoNode}
    BY <1>10, <2>1, <2>2 DEF SyncSucceeds, SyncLeavesOut
  <2>5. SyncOk
    BY <1>10 DEF SyncSucceeds, SyncLeavesOut
  <2> QED BY <2>3, <2>4, <2>5 DEF SyncOk, Resume, NoSync, Rests, NotPublishing
<1>11. CASE SyncFails
  <2>1. ASSUME NEW left \in SUBSET Node, chain' = Granted(left)
        PROVE  chain' \in [Node -> SUBSET LocalPort]
    BY <2>1 DEF Granted
  <2> QED BY <1>11, <2>1 DEF SyncFails, Failed, Resume, NoSync, Rests, NotPublishing, LocalPort
<1>12. ASSUME NEW by \in Caller, SyncSkips(by) PROVE PublishInv'
  BY <1>12 DEF SyncSkips, Resume, NoSync, Rests, NotPublishing, LocalPort, Caller
<1>13. ASSUME NEW by \in Caller, SyncSends(by) PROVE PublishInv'
  BY <1>13 DEF SyncSends, NoSync, LocalPorts, Caller
<1>14. CASE UNCHANGED publishVars
  BY <1>14 DEF publishVars
<1> QED
  BY <1>1, <1>2, <1>3, <1>4, <1>5, <1>6, <1>7, <1>8, <1>9, <1>10, <1>11, <1>12, <1>13, <1>14
  DEF PublishNext

(* A tunnel is that of a publication or of the call that is starting it, for any *)
(* number of ports, tunnels and containers (publish_service, cleanup and         *)
(* unpublish_environment_service in workspace.rs).                               *)
THEOREM TunnelsAreListed ==
  ASSUME PublishConstants
  PROVE  PublishSpec => [](PublishType /\ TunnelsListed)
<1>1. PublishInv => PublishType /\ TunnelsListed
  BY DEF PublishInv, PublishShape, TunnelsKept, TunnelsListed
<1> QED BY <1>1, PublishInitial, PublishStep, PTL DEF PublishSpec
-------------------------------------------------------------------------------
(* Terminals and folders of a guest (GuestSessions). Before the agent was asked  *)
(* there is no terminal.                                                         *)
SessionsInv ==
    /\ SessionsType /\ NoLostTerminal
    /\ \A t \in Terminal : creating[t] \in {"new", "sent"} => t \notin guestTerms

LEMMA SessionsInitial == ASSUME SessionsConstants, SessionsInit PROVE SessionsInv
<1>1. running \in BOOLEAN
  BY DEF SessionsInit
<1>2. lostCalls \in 0..MaxLost /\ starts \in 0..MaxStarts
  BY DEF SessionsConstants, SessionsInit
<1>3. SessionsType
  BY <1>1, <1>2 DEF SessionsInit, SessionsType
<1>4. NoLostTerminal /\ \A t \in Terminal : creating[t] \in {"new", "sent"} => t \notin guestTerms
  BY DEF SessionsInit, NoLostTerminal
<1> QED BY <1>3, <1>4 DEF SessionsInv

LEMMA SessionsStep ==
  ASSUME SessionsConstants, SessionsInv, [SessionsNext]_sessionVars
  PROVE  SessionsInv'
<1> USE DEF SessionsConstants, SessionsInv, SessionsType, NoLostTerminal
<1>1. CASE EnvironmentStarts
  BY <1>1 DEF EnvironmentStarts
<1>2. CASE EnvironmentStops
  BY <1>2 DEF EnvironmentStops
<1>3. CASE SweepReads \/ Sweep
  BY <1>3 DEF SweepReads, Sweep
<1>4. ASSUME NEW t \in Terminal, CreateTerminal(t) PROVE SessionsInv'
  BY <1>4 DEF CreateTerminal
<1>5. ASSUME NEW t \in Terminal, AgentCreates(t) PROVE SessionsInv'
  BY <1>5 DEF AgentCreates
<1>6. ASSUME NEW t \in Terminal, CreateLost(t) PROVE SessionsInv'
  BY <1>6 DEF CreateLost
<1>7. ASSUME NEW t \in Terminal, CreateAnswered(t) PROVE SessionsInv'
  BY <1>7 DEF CreateAnswered
<1>8. ASSUME NEW t \in Terminal, CloseTerminal(t) \/ CloseWindow(t) PROVE SessionsInv'
  BY <1>8 DEF CloseTerminal, CloseWindow
<1>9. ASSUME NEW t \in Terminal, AgentCloses(t) PROVE SessionsInv'
  BY <1>9 DEF AgentCloses
<1>10. ASSUME NEW t \in Terminal, CloseLost(t) PROVE SessionsInv'
  BY <1>10 DEF CloseLost
<1>11. ASSUME NEW s \in Share, AttachFolder(s) \/ MountFolder(s) \/ AttachChecks(s) \/ DetachFolder(s)
       PROVE  SessionsInv'
  BY <1>11 DEF AttachFolder, MountFolder, AttachChecks, DetachFolder
<1>12. CASE UNCHANGED sessionVars
  BY <1>12 DEF sessionVars
<1> QED
  BY <1>1, <1>2, <1>3, <1>4, <1>5, <1>6, <1>7, <1>8, <1>9, <1>10, <1>11, <1>12
  DEF SessionsNext

(* A terminal in the guest has a lease or somebody who is about to look for its  *)
(* lease or to close it, unless a request was lost, for any number of terminals  *)
(* (terminal_action, close_window and cleanup in workspace.rs).                  *)
THEOREM TerminalsKnown ==
  ASSUME SessionsConstants
  PROVE  SessionsSpec => [](SessionsType /\ NoLostTerminal)
<1>1. SessionsInv => SessionsType /\ NoLostTerminal
  BY DEF SessionsInv
<1> QED BY <1>1, SessionsInitial, SessionsStep, PTL DEF SessionsSpec
===============================================================================
