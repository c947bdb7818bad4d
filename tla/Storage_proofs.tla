---------------------------- MODULE Storage_proofs ----------------------------
(* What the services that keep files promise, proved of each alone and for every *)
(* value of its constants: imported files and drives, the images under machines, *)
(* backups to a folder, and snapshots with their backups to a store of objects.  *)
(* Each part has an inductive invariant, a lemma for each action, and the        *)
(* theorem at the end.                                                           *)
EXTENDS FileImport, VmBases, LocalBackup, Snapshots, Integers, FiniteSetTheorems,
        SequenceTheorems, NaturalsInduction, WellFoundedInduction, TLAPS

-------------------------------------------------------------------------------
(* Imported files and drives (FileImport).                                       *)
\* What is handed to a machine as a drive is whole, what was read short was changed since the
\* plan, and a machine that is off uses no drive.
SourceMoves ==
    /\ plan.edit <= origin.edit /\ (plan.edit = origin.edit => plan = origin)
    /\ copying \in {"read", "staged", "done"} /\ Short => plan # origin
CopyInv ==
    /\ SourceMoves
    /\ copying \in {"staged", "done"} /\ toDrive => ~Short
    /\ vm = "off" => using = {}

ImportInv == ImportType /\ CopyInv /\ InUseKept /\ DrivesBounded

LEMMA ImportInitial ==
  ASSUME ImportConstants, ImportInit
  PROVE  ImportInv
<1>1. ImportType
  <2>1. origin \in Version /\ plan \in Version
    BY DEF ImportInit, ImportConstants, Version
  <2>2. taken \in Seq(0..MaxChanges)
    BY DEF ImportInit
  <2>3. toDrive \in BOOLEAN /\ atWork \in BOOLEAN
    BY Zenon DEF ImportInit
  <2>4. drive \in [Drive -> {"none", "img", "detached"}] /\ vmCrashes \in 0..MaxCrashes
    BY DEF ImportInit, ImportConstants
  <2> QED BY <2>1, <2>2, <2>3, <2>4 DEF ImportInit, ImportType
<1>2. Connected = {}
  BY DEF ImportInit, Connected
<1>3. DrivesBounded
  BY <1>2, FS_EmptySet DEF DrivesBounded, ImportConstants
<1>4. SourceMoves
  BY <1>1 DEF ImportInit, SourceMoves, ImportType, Version
<1> QED BY <1>1, <1>3, <1>4 DEF ImportInit, ImportInv, CopyInv, InUseKept

\* A step of the copy that leaves the drives and the machine alone.
LEMMA CopyStepKeeps ==
  ASSUME ImportInv, UNCHANGED <<drive, vm, atWork, using, vmCrashes>>,
         origin' \in Version, plan' \in Version, taken' \in Seq(0..MaxChanges),
         copying' \in {"idle", "scanned", "reading", "read", "staged", "done"}, toDrive' \in BOOLEAN,
         SourceMoves', copying' \in {"staged", "done"} /\ toDrive' => ~Short'
  PROVE  ImportInv'
<1>1. ImportType'
  BY DEF ImportInv, ImportType
<1>2. CopyInv' /\ InUseKept' /\ DrivesBounded'
  BY DEF ImportInv, CopyInv, InUseKept, DrivesBounded, Connected
<1> QED BY <1>1, <1>2 DEF ImportInv

LEMMA ImportCopySteps ==
  ASSUME ImportConstants, ImportInv,
         \/ \E size \in 1..2 : ChangeSource(size)
         \/ ScanCopy \/ OpenSource \/ ReadSource \/ WriteCopy \/ DeliverArchive \/ NextCopy
         \/ AttachRefused
  PROVE  ImportInv'
<1>0. /\ origin \in Version /\ plan \in Version /\ taken \in Seq(0..MaxChanges)
      /\ toDrive \in BOOLEAN /\ atWork \in BOOLEAN
      /\ copying \in {"idle", "scanned", "reading", "read", "staged", "done"}
      /\ SourceMoves /\ (copying \in {"staged", "done"} /\ toDrive => ~Short)
  BY DEF ImportInv, ImportType, CopyInv
<1>1. ASSUME NEW size \in 1..2, ChangeSource(size) PROVE ImportInv'
  <2>1. origin' \in Version
    BY <1>0, <1>1 DEF ChangeSource, Version, ImportConstants
  <2>2. UNCHANGED <<plan, taken, copying, toDrive, drive, vm, atWork, using, vmCrashes>>
    BY <1>1 DEF ChangeSource
  <2>3. SourceMoves' /\ (copying' \in {"staged", "done"} /\ toDrive' => ~Short')
    BY <1>0, <1>1, <2>2 DEF ChangeSource, SourceMoves, Short, Version
  <2> QED BY <1>0, <2>1, <2>2, <2>3, CopyStepKeeps
<1>2. ASSUME ScanCopy PROVE ImportInv'
  <2>1. SourceMoves'
    BY <1>0, <1>2 DEF ScanCopy, SourceMoves, Version
  <2> QED BY <1>0, <1>2, <2>1, CopyStepKeeps DEF ScanCopy, Copying
<1>3. ASSUME OpenSource PROVE ImportInv'
  BY <1>0, <1>3, CopyStepKeeps DEF OpenSource, Copying, SourceMoves
<1>4. ASSUME ReadSource PROVE ImportInv'
  <2>1. taken' \in Seq(0..MaxChanges)
    <3>1. origin.edit \in 0..MaxChanges
      BY <1>0 DEF Version
    <3>2. taken' = taken \/ taken' = Append(taken, origin.edit)
      BY <1>4 DEF ReadSource
    <3> DEFINE Edits == 0..MaxChanges
    <3>3. taken \in Seq(Edits) /\ origin.edit \in Edits
      BY <1>0, <3>1
    <3> HIDE DEF Edits
    <3>4. taken' \in Seq(Edits)
      BY <3>2, <3>3
    <3> QED BY <3>4 DEF Edits
  <2>2. SourceMoves'
    BY <1>0, <1>4 DEF ReadSource, Copying, SourceMoves, Short, Version
  <2> QED BY <1>0, <1>4, <2>1, <2>2, CopyStepKeeps DEF ReadSource, Copying
<1>5. ASSUME WriteCopy PROVE ImportInv'
  BY <1>0, <1>5, CopyStepKeeps DEF WriteCopy, Copying, Short, SourceMoves
<1>6. ASSUME DeliverArchive PROVE ImportInv'
  BY <1>0, <1>6, CopyStepKeeps DEF DeliverArchive, Copying, Short, SourceMoves
<1>7. ASSUME NextCopy PROVE ImportInv'
  BY <1>0, <1>7, CopyStepKeeps DEF NextCopy, Copying, SourceMoves, Short
<1>8. ASSUME AttachRefused PROVE ImportInv'
  BY <1>0, <1>8, CopyStepKeeps DEF AttachRefused, Copying, SourceMoves, Short
<1> QED BY <1>1, <1>2, <1>3, <1>4, <1>5, <1>6, <1>7, <1>8

\* Connecting one drive more while there is room for it.
LEMMA OneMore ==
  ASSUME ImportConstants, ImportInv, NEW d \in Drive, drive' = [drive EXCEPT ![d] = "img"],
         Cardinality(Connected) < MaxDrives
  PROVE  DrivesBounded' /\ Connected' = Connected \cup {d}
<1>1. Connected' = Connected \cup {d}
  BY DEF ImportInv, ImportType, Connected
<1>2. IsFiniteSet(Connected)
  <2>1. Connected \in SUBSET Drive /\ IsFiniteSet(Drive)
    BY DEF Connected, ImportConstants
  <2> QED BY <2>1, FS_Subset
<1>3. Cardinality(Connected') \in {Cardinality(Connected), Cardinality(Connected) + 1}
  BY <1>1, <1>2, FS_AddElement
<1>4. Cardinality(Connected) \in Nat
  BY <1>2, FS_CardinalityType
<1> QED BY <1>1, <1>3, <1>4 DEF DrivesBounded, ImportConstants

LEMMA AttachKeeps ==
  ASSUME ImportConstants, ImportInv, NEW d \in Drive, AttachDrive(d)
  PROVE  ImportInv'
<1>1. /\ copying = "staged" /\ toDrive /\ copying' = "done" /\ vm = "managed"
      /\ Cardinality(Connected) < MaxDrives /\ drive' = [drive EXCEPT ![d] = "img"]
      /\ using' = using \cup {d} \/ using' = using
      /\ UNCHANGED <<origin, plan, taken, toDrive, vm, atWork, vmCrashes>>
  BY DEF AttachDrive
<1>2. DrivesBounded' /\ Connected' = Connected \cup {d}
  BY <1>1, OneMore
<1>3. ImportType'
  BY <1>1 DEF ImportInv, ImportType
<1>4. CopyInv' /\ InUseKept'
  BY <1>1, <1>2 DEF ImportInv, CopyInv, SourceMoves, InUseKept, Short
<1> QED BY <1>2, <1>3, <1>4 DEF ImportInv

LEMMA SetAttachedKeeps ==
  ASSUME ImportConstants, ImportInv, NEW d \in Drive, NEW a \in BOOLEAN, SetAttached(d, a)
  PROVE  ImportInv'
<1>1. /\ UNCHANGED <<origin, plan, taken, copying, toDrive, vmCrashes, vm, atWork, using>>
      /\ vm = "off" /\ a => Cardinality(Connected) < MaxDrives
      /\ drive' = [drive EXCEPT ![d] = IF a THEN "img" ELSE "detached"]
  BY DEF SetAttached, Moves
<1>2. using = {} /\ using' = {}
  BY <1>1 DEF ImportInv, CopyInv, SetAttached
<1>3. DrivesBounded'
  <2>1. CASE a
    <3>1. drive' = [drive EXCEPT ![d] = "img"] /\ Cardinality(Connected) < MaxDrives
      BY <1>1, <2>1 DEF SetAttached
    <3> QED BY <3>1, OneMore
  <2>2. CASE ~a
    <3>1. Connected' \in SUBSET Connected
      BY <1>1, <2>2 DEF ImportInv, ImportType, Connected, SetAttached
    <3>2. IsFiniteSet(Connected)
      <4>1. Connected \in SUBSET Drive /\ IsFiniteSet(Drive)
        BY DEF Connected, ImportConstants
      <4> QED BY <4>1, FS_Subset
    <3>3. IsFiniteSet(Connected') /\ Cardinality(Connected') <= Cardinality(Connected)
      BY <3>1, <3>2, FS_Subset
    <3>4. Cardinality(Connected) \in Nat /\ Cardinality(Connected') \in Nat
      BY <3>2, <3>3, FS_CardinalityType
    <3> QED BY <3>3, <3>4 DEF ImportInv, DrivesBounded, ImportConstants
  <2> QED BY <2>1, <2>2
<1>4. ImportType'
  <2>1. drive' \in [Drive -> {"none", "img", "detached"}]
    BY DEF SetAttached, ImportInv, ImportType
  <2>2. UNCHANGED <<origin, plan, taken, copying, toDrive, vmCrashes, vm, atWork, using>>
    BY DEF SetAttached, Moves
  <2> QED BY <2>1, <2>2 DEF ImportInv, ImportType
<1>5. CopyInv' /\ InUseKept'
  BY <1>2 DEF SetAttached, Moves, ImportInv, CopyInv, SourceMoves, InUseKept, Short
<1> QED BY <1>3, <1>4, <1>5 DEF ImportInv

LEMMA ImportVmSteps ==
  ASSUME ImportConstants, ImportInv, StartVm \/ StopVm \/ GuestEnds \/ CrashApplication
  PROVE  ImportInv'
<1>1. /\ UNCHANGED <<origin, plan, taken, toDrive, drive>>
      /\ copying' = copying \/ copying' = "idle"
      /\ vm' \in {"off", "managed", "orphan"} /\ atWork' \in BOOLEAN
      /\ using' = {} \/ (using' \in {using, Connected} /\ (vm' = "off" => using' = {}))
  BY DEF StartVm, StopVm, GuestEnds, CrashApplication, Moves, ImportInv, ImportType, CopyInv
<1>2. vmCrashes' \in 0..MaxCrashes
  BY DEF StartVm, StopVm, GuestEnds, CrashApplication, Moves, ImportInv, ImportType, ImportConstants
<1>3. ImportType'
  BY <1>1, <1>2 DEF ImportInv, ImportType, Connected
<1>4. CopyInv' /\ InUseKept' /\ DrivesBounded'
  BY <1>1 DEF ImportInv, CopyInv, SourceMoves, InUseKept, DrivesBounded, Connected, Short
<1> QED BY <1>3, <1>4 DEF ImportInv

LEMMA ImportStep ==
  ASSUME ImportConstants, ImportInv, [ImportNext]_importVars
  PROVE  ImportInv'
<1>1. CASE UNCHANGED importVars
  BY <1>1 DEF ImportInv, ImportType, CopyInv, SourceMoves, Short, InUseKept, DrivesBounded, Connected,
              importVars
<1> QED BY <1>1, ImportCopySteps, AttachKeeps, SetAttachedKeeps, ImportVmSteps DEF ImportNext

\* For any number of drives and changes: a drive that is handed on has every byte of its plan
\* and an archive every byte unless its source was changed after it was opened, a machine has
\* no more drives than it takes, and a drive in use keeps its name
\* (file_import.rs, runtime/import_drive.rs).
THEOREM ImportWhole ==
  ASSUME ImportConstants
  PROVE  ImportSpec => [](ImportType /\ CopyWhole /\ DrivesBounded /\ InUseKept)
<1>1. ImportInit => ImportInv
  BY ImportInitial
<1>2. ImportInv /\ [ImportNext]_importVars => ImportInv'
  BY ImportStep
<1>3. ImportInv => ImportType /\ CopyWhole /\ DrivesBounded /\ InUseKept
  BY DEF ImportInv, CopyInv, SourceMoves, CopyWhole
<1> QED BY <1>1, <1>2, <1>3, PTL DEF ImportSpec

-------------------------------------------------------------------------------
(* The images under machines (VmBases). Who works on images has the lock; what   *)
(* it means to use is there, and a sweep spares all that is referred to.         *)
InLock == {"import", "identified", "read", "copied", "placed", "build"}
Fetching == InLock \ {"build"}
JobShape ==
    [at : {"new", "waits", "built", "failed", "done"} \cup InLock, kind : {"iso", "disk", "micro"},
     todo : Seq(Artifact), identity : Edit, checksum : Edit, copy : Edit, images : SUBSET Image]

BasesShape ==
    /\ source \in [Artifact -> Edit] /\ base \in [Image -> Edit \cup {NoFile}]
    /\ cache \in [Image -> Edit \cup {NoFile}]
    /\ record \in [Machine -> [status : {"none", "Provisioning", "Stopped", "Error"},
                               names : SUBSET Image]]
    /\ storage \in [Machine -> SUBSET Image] /\ job \in [Machine -> JobShape]
    /\ holder \in Machine \cup {"nobody", "sweep"} /\ stops \in 0..MaxStops
    /\ sweep \in [at : {"idle", "waits", "marked"}, images : SUBSET Image]

\* A creation works on images under the lock, and knows of its source what it has read.
JobInv(m) ==
    /\ job[m].at \in InLock => holder = m /\ job[m].images \subseteq Present
    /\ job[m].at \in Fetching \cup {"waits"} => job[m].todo # <<>>
    /\ job[m].at = "waits" => job[m].images = {}
    /\ job[m].at \in {"identified", "read", "copied", "placed"} =>
         job[m].identity <= source[Wanted(m)]
    /\ job[m].at = "read" => Wanted(m) = "disk" /\ job[m].checksum = job[m].identity
    /\ job[m].at = "copied" => /\ job[m].identity <= job[m].checksum
                               /\ job[m].checksum <= job[m].copy
                               /\ job[m].copy <= source[Wanted(m)]
    /\ job[m].at = "placed" => job[m].checksum = job[m].identity /\ Exists(Found(m))

\* A sweep that has marked keeps the lock, so that no disk gets an image meanwhile.
SweepInv == sweep.at = "marked" => holder = "sweep" /\ Referred \subseteq sweep.images

BasesInv ==
    /\ BasesShape /\ (\A m \in Machine : JobInv(m)) /\ SweepInv /\ DisksKept /\ ContentAddressed

LEMMA BasesInitial ==
  ASSUME BasesConstants, BasesInit
  PROVE  BasesInv
<1>1. NoJob \in JobShape /\ NoJob.at = "new" /\ 0 \in Edit /\ {} \in SUBSET Image
  BY DEF NoJob, JobShape, Edit, BasesConstants
<1>2. Present = {}
  BY DEF BasesInit, Present, Exists
<1>3. BasesShape
  BY <1>1 DEF BasesInit, BasesShape, NoSweep, BasesConstants
<1>4. \A m \in Machine : JobInv(m)
  BY <1>1 DEF BasesInit, JobInv, InLock, Fetching
<1>5. SweepInv /\ DisksKept
  BY DEF BasesInit, SweepInv, NoSweep, DisksKept, Referred
<1>6. ContentAddressed
  BY <1>2 DEF BasesInit, ContentAddressed
<1> QED BY <1>3, <1>4, <1>5, <1>6 DEF BasesInv

\* One creation is written.
LEMMA JobSet ==
  ASSUME BasesShape, NEW m \in Machine, NEW j \in JobShape, job' = [job EXCEPT ![m] = j]
  PROVE  /\ job' \in [Machine -> JobShape] /\ job'[m] = j
         /\ \A n \in Machine : n # m => job'[n] = job[n]
BY DEF BasesShape

\* A creation that is not in the lock depends on nothing else.
LEMMA Outside ==
  ASSUME NEW n \in Machine, JobInv(n), job'[n] = job[n], job[n].at \notin InLock
  PROVE  JobInv(n)'
BY DEF JobInv, InLock, Fetching

LEMMA OneInLock ==
  ASSUME BasesInv, NEW m \in Machine, NEW n \in Machine, n # m, holder # n
  PROVE  job[n].at \notin InLock
BY DEF BasesInv, JobInv

\* A step of the creation that has the lock, which changes nothing but itself, the images
\* and the cache.
LEMMA LockedStep ==
  ASSUME BasesConstants, BasesInv, NEW m \in Machine, NEW j \in JobShape, holder = m,
         job' = [job EXCEPT ![m] = j], UNCHANGED <<source, record, storage, holder, sweep, stops>>,
         base' \in [Image -> Edit \cup {NoFile}], cache' \in [Image -> Edit \cup {NoFile}],
         Present \subseteq Present', ContentAddressed', JobInv(m)'
  PROVE  BasesInv'
<1>1. BasesShape'
  BY JobSet DEF BasesInv, BasesShape
<1>2. ASSUME NEW n \in Machine PROVE JobInv(n)'
  <2>1. CASE n # m
    <3>1. job'[n] = job[n] /\ job[n].at \notin InLock /\ JobInv(n)
      BY <2>1, JobSet, OneInLock DEF BasesInv
    <3> QED BY <3>1, Outside
  <2> QED BY <2>1
<1>3. SweepInv'
  BY DEF BasesInv, SweepInv, Referred
<1>4. DisksKept'
  BY DEF BasesInv, DisksKept, Referred
<1> QED BY <1>1, <1>2, <1>3, <1>4 DEF BasesInv

LEMMA ChangeKeeps ==
  ASSUME BasesConstants, BasesInv, NEW a \in Artifact, Change(a)
  PROVE  BasesInv'
<1>1. /\ source[a] < MaxEdits /\ source' = [source EXCEPT ![a] = @ + 1]
      /\ UNCHANGED <<base, cache, record, storage, job, holder, sweep, stops>>
  BY DEF Change
<1>2. source' \in [Artifact -> Edit] /\ \A b \in Artifact : source[b] <= source'[b] /\ source[b] \in Int /\ source'[b] \in Int
  BY <1>1 DEF BasesInv, BasesShape, Edit, BasesConstants
<1>3. BasesShape'
  BY <1>1, <1>2 DEF BasesInv, BasesShape
<1>4. ASSUME NEW m \in Machine PROVE JobInv(m)'
  <2>1. job[m] \in JobShape
    BY DEF BasesInv, BasesShape
  <2>2. job[m].at \in Fetching => Wanted(m) \in Artifact
    BY <2>1 DEF BasesInv, JobInv, Wanted, JobShape
  <2>3. job[m].identity \in Int /\ job[m].copy \in Int /\ job[m].checksum \in Int
    BY <2>1 DEF JobShape, Edit
  <2>4. JobInv(m)
    BY DEF BasesInv
  <2>5. UNCHANGED <<Wanted(m), Present, Found(m), Exists(Found(m))>>
    BY <1>1 DEF Wanted, Present, Found, Exists
  <2>6. job[m].at \in {"identified", "read", "copied", "placed"} =>
          job[m].identity <= source'[Wanted(m)]
    BY <1>2, <2>2, <2>3, <2>4 DEF JobInv, Fetching, InLock
  <2>7. job[m].at = "copied" => job[m].copy <= source'[Wanted(m)]
    BY <1>2, <2>2, <2>3, <2>4 DEF JobInv, Fetching, InLock
  <2> QED BY <1>1, <2>4, <2>5, <2>6, <2>7 DEF JobInv
<1>5. SweepInv' /\ DisksKept' /\ ContentAddressed'
  BY <1>1 DEF BasesInv, SweepInv, DisksKept, ContentAddressed, Referred, Present, Exists
<1> QED BY <1>3, <1>4, <1>5 DEF BasesInv

\* A step that changes a creation outside the lock, the records, and files only by removing
\* them.
LEMMA UnlockedStep ==
  ASSUME BasesConstants, BasesInv, NEW m \in Machine, NEW j \in JobShape,
         j.at \notin InLock, j.at = "waits" => j.todo # <<>> /\ j.images = {},
         job' = [job EXCEPT ![m] = j], job[m].at \in InLock => holder' = "nobody",
         job[m].at \notin InLock => holder' = holder,
         UNCHANGED <<source, base, cache, sweep, stops>>,
         record' \in [Machine -> [status : {"none", "Provisioning", "Stopped", "Error"},
                                  names : SUBSET Image]],
         storage' \in [Machine -> SUBSET Image], Referred' \subseteq Present,
         sweep.at = "marked" => Referred' \subseteq Referred
  PROVE  BasesInv'
<1>1. job[m].at \in InLock => holder = m
  BY DEF BasesInv, JobInv
<1>2. /\ job' \in [Machine -> JobShape] /\ job'[m] = j
      /\ \A n \in Machine : n # m => job'[n] = job[n]
  BY JobSet DEF BasesInv
<1>3. BasesShape'
  BY <1>2 DEF BasesInv, BasesShape
<1>4. ASSUME NEW n \in Machine PROVE JobInv(n)'
  <2>1. CASE n = m
    BY <1>2, <2>1 DEF JobInv, InLock, Fetching
  <2>2. CASE n # m /\ job[m].at \in InLock
    <3>1. JobInv(n) /\ job[n].at \notin InLock /\ job'[n] = job[n]
      BY <1>1, <1>2, <2>2, OneInLock DEF BasesInv
    <3> QED BY <3>1, Outside
  <2>3. CASE n # m /\ job[m].at \notin InLock
    <3>1. JobInv(n) /\ job'[n] = job[n]
      BY <1>2, <2>3 DEF BasesInv
    <3> QED BY <2>3, <3>1 DEF JobInv, Wanted, Present, Found, Exists
  <2> QED BY <2>1, <2>2, <2>3
<1>5. SweepInv'
  <2> SUFFICES ASSUME sweep.at = "marked" PROVE holder' = "sweep" /\ Referred' \subseteq sweep.images
    BY DEF SweepInv
  <2>1. holder = "sweep" /\ Referred \subseteq sweep.images
    BY DEF BasesInv, SweepInv
  <2>2. job[m].at \notin InLock
    BY <1>1, <2>1 DEF BasesConstants
  <2> QED BY <2>1, <2>2
<1>6. DisksKept'
  BY DEF DisksKept, Present, Exists
<1>7. ContentAddressed'
  BY DEF BasesInv, ContentAddressed, Present, Exists
<1> QED BY <1>3, <1>4, <1>5, <1>6, <1>7 DEF BasesInv

\* Removing what one directory refers to.
LEMMA FewerFiles ==
  ASSUME BasesInv, NEW m \in Machine, storage' = [storage EXCEPT ![m] = {}] \/ storage' = storage
  PROVE  /\ storage' \in [Machine -> SUBSET Image]
         /\ Referred' \subseteq Referred /\ Referred' \subseteq Present
<1>1. storage' \in [Machine -> SUBSET Image] /\ \A n \in Machine : storage'[n] \subseteq storage[n]
  BY DEF BasesInv, BasesShape
<1>2. Referred' \subseteq Referred
  BY <1>1 DEF Referred
<1> QED BY <1>1, <1>2 DEF BasesInv, DisksKept

LEMMA CreateRecordKeeps ==
  ASSUME BasesConstants, BasesInv, NEW m \in Machine, NEW kind \in DOMAIN Needs,
         CreateRecord(m, kind)
  PROVE  BasesInv'
<1> DEFINE j == [NoJob EXCEPT !.at = "waits", !.kind = kind, !.todo = Needs[kind]]
<1>1. kind \in {"iso", "disk", "micro"} /\ Needs[kind] \in Seq(Artifact) /\ Needs[kind] # <<>>
  <2>1. DOMAIN Needs = {"iso", "disk", "micro"}
    BY DEF Needs
  <2>2. /\ <<"iso">> \in Seq(Artifact) /\ <<"disk">> \in Seq(Artifact)
        /\ <<"kernel", "disk">> \in Seq(Artifact)
    BY DEF Artifact
  <2>3. Needs.iso = <<"iso">> /\ Needs.disk = <<"disk">> /\ Needs.micro = <<"kernel", "disk">>
    BY DEF Needs
  <2>4. <<"iso">> # <<>> /\ <<"disk">> # <<>> /\ <<"kernel", "disk">> # <<>>
    OBVIOUS
  <2> QED BY <2>1, <2>2, <2>3, <2>4
<1>2. j \in JobShape /\ j.at = "waits" /\ j.todo = Needs[kind] /\ j.images = {}
  <2>1. NoJob \in JobShape /\ NoJob.images = {}
    BY DEF NoJob, JobShape, Edit, BasesConstants
  <2> QED BY <1>1, <2>1 DEF JobShape
<1>3. /\ job[m].at = "new" /\ job' = [job EXCEPT ![m] = j]
      /\ record' = [record EXCEPT ![m] = [status |-> "Provisioning", names |-> {}]]
      /\ UNCHANGED <<source, base, cache, storage, holder, sweep, stops>>
  BY DEF CreateRecord
<1> HIDE DEF j
<1>4. record' \in [Machine -> [status : {"none", "Provisioning", "Stopped", "Error"},
                               names : SUBSET Image]]
  BY <1>3 DEF BasesInv, BasesShape
<1>5. storage' \in [Machine -> SUBSET Image] /\ Referred' \subseteq Referred /\ Referred' \subseteq Present
  BY <1>3, FewerFiles
<1>6. job[m].at \notin InLock /\ j.at \notin InLock
  BY <1>2, <1>3 DEF InLock
<1> QED BY <1>1, <1>2, <1>3, <1>4, <1>5, <1>6, UnlockedStep

LEMMA ProvisionKeeps ==
  ASSUME BasesConstants, BasesInv, NEW m \in Machine, Provision(m)
  PROVE  BasesInv'
<1> DEFINE j == [job[m] EXCEPT !.at = "import"]
<1>1. /\ job[m].at = "waits" /\ holder = "nobody" /\ holder' = m
      /\ storage' = [storage EXCEPT ![m] = {}] /\ job' = [job EXCEPT ![m] = j]
      /\ UNCHANGED <<source, base, cache, record, sweep, stops>>
  BY DEF Provision
<1>2. job[m] \in JobShape /\ JobInv(m)
  BY DEF BasesInv, BasesShape
<1>3. j \in JobShape /\ j.at = "import" /\ j.todo = job[m].todo /\ j.images = job[m].images
  BY <1>2 DEF JobShape, InLock
<1> HIDE DEF j
<1>4. /\ job' \in [Machine -> JobShape] /\ job'[m] = j
      /\ \A n \in Machine : n # m => job'[n] = job[n]
  BY <1>1, <1>3, JobSet DEF BasesInv
<1>5. storage' \in [Machine -> SUBSET Image] /\ Referred' \subseteq Referred /\ Referred' \subseteq Present
  BY <1>1, FewerFiles
<1>6. BasesShape'
  BY <1>1, <1>4, <1>5 DEF BasesInv, BasesShape
<1>7. ASSUME NEW n \in Machine PROVE JobInv(n)'
  <2>1. CASE n = m
    BY <1>1, <1>2, <1>3, <1>4, <2>1 DEF JobInv, InLock, Fetching
  <2>2. CASE n # m
    <3>1. holder # n
      BY <1>1 DEF BasesConstants
    <3>2. job[n].at \notin InLock /\ JobInv(n) /\ job'[n] = job[n]
      BY <1>4, <2>2, <3>1, OneInLock DEF BasesInv
    <3> QED BY <3>2, Outside
  <2> QED BY <2>1, <2>2
<1>8. SweepInv'
  BY <1>1 DEF BasesInv, SweepInv
<1>9. DisksKept' /\ ContentAddressed'
  BY <1>1, <1>5 DEF BasesInv, DisksKept, ContentAddressed, Present, Exists
<1> QED BY <1>6, <1>7, <1>8, <1>9 DEF BasesInv

LEMMA ProvisionFailsKeeps ==
  ASSUME BasesConstants, BasesInv, NEW m \in Machine, ProvisionFails(m)
  PROVE  BasesInv'
<1> DEFINE j == [job[m] EXCEPT !.at = "failed", !.images = {}]
<1>1. /\ job[m].at \in InLock /\ job' = [job EXCEPT ![m] = j] /\ holder' = "nobody"
      /\ storage' = [storage EXCEPT ![m] = {}]
      /\ UNCHANGED <<source, base, cache, record, sweep, stops>>
  BY DEF ProvisionFails, InLock
<1>2. job[m] \in JobShape
  BY DEF BasesInv, BasesShape
<1>3. j \in JobShape /\ j.at = "failed"
  BY <1>2 DEF JobShape
<1> HIDE DEF j
<1>4. storage' \in [Machine -> SUBSET Image] /\ Referred' \subseteq Referred /\ Referred' \subseteq Present
  BY <1>1, FewerFiles
<1>5. j.at \notin InLock
  BY <1>3 DEF InLock
<1>6. record' \in [Machine -> [status : {"none", "Provisioning", "Stopped", "Error"},
                               names : SUBSET Image]]
  BY <1>1 DEF BasesInv, BasesShape
<1> QED BY <1>1, <1>3, <1>4, <1>5, <1>6, UnlockedStep

LEMMA GrowFailsKeeps ==
  ASSUME BasesConstants, BasesInv, NEW m \in Machine, GrowFails(m)
  PROVE  BasesInv'
<1> DEFINE j == [job[m] EXCEPT !.at = "failed", !.images = {}]
<1>1. /\ job[m].at = "built" /\ job' = [job EXCEPT ![m] = j]
      /\ storage' = [storage EXCEPT ![m] = {}]
      /\ UNCHANGED <<source, base, cache, record, holder, sweep, stops>>
  BY DEF GrowFails
<1>2. job[m] \in JobShape
  BY DEF BasesInv, BasesShape
<1>3. j \in JobShape /\ j.at = "failed"
  BY <1>2 DEF JobShape
<1> HIDE DEF j
<1>4. storage' \in [Machine -> SUBSET Image] /\ Referred' \subseteq Referred /\ Referred' \subseteq Present
  BY <1>1, FewerFiles
<1>5. j.at \notin InLock /\ job[m].at \notin InLock
  BY <1>1, <1>3 DEF InLock
<1>6. record' \in [Machine -> [status : {"none", "Provisioning", "Stopped", "Error"},
                               names : SUBSET Image]]
  BY <1>1 DEF BasesInv, BasesShape
<1> QED BY <1>1, <1>3, <1>4, <1>5, <1>6, UnlockedStep

LEMMA BuildDiskKeeps ==
  ASSUME BasesConstants, BasesInv, NEW m \in Machine, BuildDisk(m)
  PROVE  BasesInv'
<1> DEFINE j == [job[m] EXCEPT !.at = "built"]
           Files == {i \in job[m].images : i[1] # "iso"}
<1>1. /\ job[m].at = "build" /\ job' = [job EXCEPT ![m] = j] /\ holder' = "nobody"
      /\ storage' = [storage EXCEPT ![m] = Files]
      /\ UNCHANGED <<source, base, cache, record, sweep, stops>>
  BY DEF BuildDisk
<1>2. job[m] \in JobShape /\ JobInv(m) /\ job[m].at \in InLock
  BY <1>1 DEF BasesInv, BasesShape, InLock
<1>3. j \in JobShape /\ j.at = "built"
  BY <1>2 DEF JobShape
<1>4. holder = m /\ Files \subseteq Present /\ Files \subseteq Image
  BY <1>2 DEF JobInv, JobShape
<1> HIDE DEF j, Files
<1>5. storage' \in [Machine -> SUBSET Image]
  BY <1>1, <1>4 DEF BasesInv, BasesShape
<1>6. Referred' \subseteq Present
  <2>1. \A n \in Machine : storage'[n] \in {storage[n], Files}
    BY <1>1 DEF BasesInv, BasesShape
  <2>2. \A n \in Machine : storage[n] \subseteq Present
    BY DEF BasesInv, DisksKept, Referred
  <2> QED BY <1>4, <2>1, <2>2 DEF Referred
<1>7. j.at \notin InLock
  BY <1>3 DEF InLock
<1>8. record' \in [Machine -> [status : {"none", "Provisioning", "Stopped", "Error"},
                               names : SUBSET Image]]
  BY <1>1 DEF BasesInv, BasesShape
<1>9. sweep.at # "marked"
  BY <1>4 DEF BasesInv, SweepInv, BasesConstants
<1> QED BY <1>1, <1>2, <1>3, <1>5, <1>6, <1>7, <1>8, <1>9, UnlockedStep

LEMMA FinishRecordKeeps ==
  ASSUME BasesConstants, BasesInv, NEW m \in Machine, FinishRecord(m)
  PROVE  BasesInv'
<1> DEFINE j == [job[m] EXCEPT !.at = "done"]
           Names == IF job[m].kind = "micro" THEN {} ELSE job[m].images
<1>1. /\ job[m].at \in {"built", "failed"} /\ job' = [job EXCEPT ![m] = j]
      /\ \/ record' = [record EXCEPT ![m] = [record[m] EXCEPT !.status = "Error"]]
         \/ record' = [record EXCEPT ![m] = [status |-> "Stopped", names |-> Names]]
      /\ UNCHANGED <<source, base, cache, storage, holder, sweep, stops>>
  BY DEF FinishRecord
<1>2. job[m] \in JobShape
  BY DEF BasesInv, BasesShape
<1>3. j \in JobShape /\ j.at = "done" /\ Names \subseteq Image
  BY <1>2 DEF JobShape
<1> HIDE DEF j, Names
<1>4. storage' \in [Machine -> SUBSET Image] /\ Referred' \subseteq Referred /\ Referred' \subseteq Present
  BY <1>1, FewerFiles
<1>5. j.at \notin InLock /\ job[m].at \notin InLock
  BY <1>1, <1>3 DEF InLock
<1>6. record' \in [Machine -> [status : {"none", "Provisioning", "Stopped", "Error"},
                               names : SUBSET Image]]
  <2>1. [record[m] EXCEPT !.status = "Error"] \in
          [status : {"none", "Provisioning", "Stopped", "Error"}, names : SUBSET Image]
    BY DEF BasesInv, BasesShape
  <2>2. [status |-> "Stopped", names |-> Names] \in
          [status : {"none", "Provisioning", "Stopped", "Error"}, names : SUBSET Image]
    BY <1>3
  <2> QED BY <1>1, <2>1, <2>2 DEF BasesInv, BasesShape
<1> QED BY <1>1, <1>3, <1>4, <1>5, <1>6, UnlockedStep

\* What is known of the artifact that is being fetched.
LEMMA FetchingIs ==
  ASSUME BasesConstants, BasesInv, NEW m \in Machine, job[m].at \in Fetching
  PROVE  /\ job[m] \in JobShape /\ JobInv(m) /\ holder = m /\ job[m].todo \in Seq(Artifact)
         /\ job[m].todo # <<>> /\ Wanted(m) \in Artifact /\ source[Wanted(m)] \in Edit
         /\ job[m].identity \in Edit /\ job[m].checksum \in Edit /\ job[m].copy \in Edit
         /\ job[m].images \subseteq Present /\ Found(m) \in Image
<1>1. job[m] \in JobShape /\ JobInv(m)
  BY DEF BasesInv, BasesShape
<1>2. /\ holder = m /\ job[m].todo \in Seq(Artifact) /\ job[m].todo # <<>>
      /\ job[m].identity \in Edit /\ job[m].checksum \in Edit /\ job[m].copy \in Edit
      /\ job[m].images \subseteq Present
  BY <1>1 DEF JobInv, JobShape, Fetching
<1>3. Wanted(m) \in Artifact
  BY <1>2 DEF Wanted
<1>4. source[Wanted(m)] \in Edit /\ Found(m) \in Image
  BY <1>2, <1>3 DEF BasesInv, BasesShape, Found, Image
<1> QED BY <1>1, <1>2, <1>3, <1>4

LEMMA TailRest ==
  ASSUME NEW S, NEW t \in Seq(S), t # <<>>
  PROVE  Tail(t) \in Seq(S) /\ (Len(t) # 1 => Tail(t) # <<>>)
<1>1. Tail(t) \in Seq(S) /\ Len(t) \in Nat \ {0} /\ Len(Tail(t)) = Len(t) - 1
  OBVIOUS
<1>2. ASSUME Len(t) # 1, Tail(t) = <<>> PROVE FALSE
  <2>1. Len(<<>>) = 0 /\ \A n \in Nat \ {0} : n # 1 => n - 1 # 0
    OBVIOUS
  <2>2. Len(Tail(t)) = 0
    BY <1>2, <2>1, Zenon
  <2> QED BY <1>1, <1>2, <2>1, <2>2, Zenon
<1> QED BY <1>1, <1>2

\* An artifact has its image.
LEMMA TookKeeps ==
  ASSUME BasesConstants, BasesInv, NEW m \in Machine, job[m].at \in Fetching,
         NEW i \in Present, job' = Took(m, i),
         UNCHANGED <<source, base, record, storage, holder, sweep, stops>>,
         cache' \in [Image -> Edit \cup {NoFile}], \A c \in Image : cache'[c] \in {c[2], NoFile}
  PROVE  BasesInv'
<1> DEFINE a == IF Len(job[m].todo) = 1 THEN "build" ELSE "import"
           j == [job[m] EXCEPT !.at = a, !.todo = Tail(job[m].todo), !.images = @ \cup {i}]
<1>1. job' = [job EXCEPT ![m] = j]
  BY DEF Took
<1>2. /\ job[m] \in JobShape /\ holder = m /\ job[m].todo \in Seq(Artifact) /\ job[m].todo # <<>>
      /\ job[m].images \subseteq Present
  BY FetchingIs
<1>3. /\ a \in {"build", "import"} /\ Tail(job[m].todo) \in Seq(Artifact)
      /\ a = "import" => Tail(job[m].todo) # <<>>
  BY <1>2, TailRest
<1> HIDE DEF a
<1>4. j \in JobShape /\ j.at = a /\ j.todo = Tail(job[m].todo) /\ j.images = job[m].images \cup {i}
  BY <1>2, <1>3 DEF JobShape, InLock, Present
<1> HIDE DEF j
<1>5. UNCHANGED Present
  BY DEF Present, Exists
<1>6. job'[m] = j
  BY <1>1, <1>4, JobSet DEF BasesInv
<1>7. JobInv(m)'
  BY <1>2, <1>3, <1>4, <1>5, <1>6 DEF JobInv, InLock, Fetching
<1>8. ContentAddressed' /\ Present \subseteq Present' /\ base' \in [Image -> Edit \cup {NoFile}]
  BY <1>5 DEF BasesInv, BasesShape, ContentAddressed
<1> QED BY <1>1, <1>2, <1>4, <1>7, <1>8, LockedStep

LEMMA IdentifyKeeps ==
  ASSUME BasesConstants, BasesInv, NEW m \in Machine, Identify(m)
  PROVE  BasesInv'
<1> DEFINE identity == source[Wanted(m)]
           known == <<Wanted(m), cache[<<Wanted(m), identity>>]>>
           j == [job[m] EXCEPT !.at = "identified", !.identity = identity]
<1>1. /\ job[m].at = "import" /\ UNCHANGED <<source, record, storage, holder, sweep, stops>>
      /\ UNCHANGED <<base, cache>>
      /\ \/ known[2] # NoFile /\ Exists(known) /\ job' = Took(m, known)
         \/ job' = [job EXCEPT ![m] = j]
  BY DEF Identify, At
<1>2. job[m].at \in Fetching
  BY <1>1 DEF Fetching, InLock
<1>3. /\ job[m] \in JobShape /\ JobInv(m) /\ holder = m /\ job[m].todo # <<>>
      /\ Wanted(m) \in Artifact /\ identity \in Edit /\ job[m].images \subseteq Present
  BY <1>2, FetchingIs
<1>4. /\ cache \in [Image -> Edit \cup {NoFile}] /\ \A c \in Image : cache[c] \in {c[2], NoFile}
      /\ base \in [Image -> Edit \cup {NoFile}]
  BY DEF BasesInv, BasesShape, ContentAddressed
<1>5. CASE known[2] # NoFile /\ Exists(known) /\ job' = Took(m, known)
  <2>1. cache[<<Wanted(m), identity>>] \in Edit
    BY <1>3, <1>4, <1>5 DEF Image
  <2>2. known \in Image
    BY <1>3, <2>1 DEF Image
  <2>3. known \in Present
    BY <1>5, <2>2 DEF Present
  <2> HIDE DEF known
  <2> QED BY <1>1, <1>2, <1>4, <1>5, <2>3, TookKeeps
<1>6. CASE job' = [job EXCEPT ![m] = j]
  <2>1. /\ j \in JobShape /\ j.at = "identified" /\ j.identity = identity /\ j.todo = job[m].todo
        /\ j.images = job[m].images
    BY <1>3 DEF JobShape, InLock
  <2> HIDE DEF j
  <2>2. job'[m] = j
    BY <1>6, <2>1, JobSet DEF BasesInv
  <2>3. UNCHANGED <<Present, ContentAddressed>>
    BY <1>1 DEF Present, Exists, ContentAddressed
  <2>4. Wanted(m)' = Wanted(m) /\ identity <= source'[Wanted(m)]
    BY <1>1, <1>3, <2>1, <2>2 DEF Wanted, Edit, BasesConstants
  <2>5. JobInv(m)'
    BY <1>1, <1>3, <2>1, <2>2, <2>3, <2>4 DEF JobInv, InLock, Fetching
  <2>6. ContentAddressed'
    BY <2>3 DEF BasesInv
  <2> QED BY <1>1, <1>3, <1>4, <1>6, <2>1, <2>3, <2>5, <2>6, LockedStep
<1> QED BY <1>1, <1>5, <1>6

\* A step of the creation that touches neither images nor cache.
LEMMA FetchStep ==
  ASSUME BasesConstants, BasesInv, NEW m \in Machine, NEW j \in JobShape, job[m].at \in Fetching,
         job' = [job EXCEPT ![m] = j], UNCHANGED <<source, record, storage, holder, sweep, stops>>,
         UNCHANGED <<base, cache>>, j.at \in Fetching, j.todo = job[m].todo,
         j.images = job[m].images,
         j.at \in {"identified", "read", "copied", "placed"} => j.identity <= source[Wanted(m)],
         j.at = "read" => Wanted(m) = "disk" /\ j.checksum = j.identity,
         j.at = "copied" => /\ j.identity <= j.checksum /\ j.checksum <= j.copy
                            /\ j.copy <= source[Wanted(m)],
         j.at = "placed" => j.checksum = j.identity /\ Exists(<<Wanted(m), j.checksum>>)
  PROVE  BasesInv'
<1>1. job'[m] = j
  BY JobSet DEF BasesInv
<1>2. UNCHANGED <<Present, ContentAddressed>> /\ \A i : Exists(i)' = Exists(i)
  BY DEF Present, Exists, ContentAddressed
<1>3. Wanted(m)' = Wanted(m) /\ Found(m)' = <<Wanted(m), j.checksum>>
  BY <1>1 DEF Wanted, Found
<1>4. holder = m /\ job[m].todo # <<>> /\ job[m].images \subseteq Present
  BY FetchingIs
<1>5. JobInv(m)'
  BY <1>1, <1>2, <1>3, <1>4 DEF JobInv, InLock, Fetching
<1>6. ContentAddressed' /\ Present \subseteq Present'
  BY <1>2 DEF BasesInv
<1>7. base' \in [Image -> Edit \cup {NoFile}] /\ cache' \in [Image -> Edit \cup {NoFile}]
  BY DEF BasesInv, BasesShape
<1> QED BY <1>4, <1>5, <1>6, <1>7, LockedStep

LEMMA HashSourceKeeps ==
  ASSUME BasesConstants, BasesInv, NEW m \in Machine, HashSource(m)
  PROVE  BasesInv'
<1> DEFINE c == source["disk"]
           i == <<"disk", c>>
           a == IF Exists(i) THEN "placed" ELSE "read"
           j == [job[m] EXCEPT !.at = a, !.checksum = c]
<1>1. /\ job[m].at = "identified" /\ UNCHANGED <<source, record, storage, holder, sweep, stops>>
      /\ UNCHANGED <<base, cache>> /\ Wanted(m) = "disk" /\ c = job[m].identity
      /\ job' = [job EXCEPT ![m] = j]
  BY DEF HashSource, At
<1>2. job[m].at \in Fetching
  BY <1>1 DEF Fetching, InLock
<1>3. job[m] \in JobShape /\ JobInv(m) /\ c \in Edit
  BY <1>1, <1>2, FetchingIs
<1>4. a \in Fetching /\ (a = "placed" => Exists(<<Wanted(m), c>>)) /\ a # "copied"
  BY <1>1 DEF Fetching, InLock
<1> HIDE DEF a, c
<1>5. /\ j \in JobShape /\ j.at = a /\ j.checksum = c /\ j.identity = c
      /\ j.todo = job[m].todo /\ j.images = job[m].images
  BY <1>1, <1>3, <1>4 DEF JobShape, InLock, Fetching
<1> HIDE DEF j
<1>6. j.identity <= source[Wanted(m)]
  BY <1>1, <1>3, <1>5 DEF c, Edit, BasesConstants
<1> QED BY <1>1, <1>2, <1>4, <1>5, <1>6, FetchStep

LEMMA CopyAndHashKeeps ==
  ASSUME BasesConstants, BasesInv, NEW m \in Machine, CopyAndHash(m)
  PROVE  BasesInv'
<1> DEFINE c == source[Wanted(m)]
           j == [job[m] EXCEPT !.at = "copied", !.checksum = c, !.copy = c]
<1>1. /\ job[m].at = "identified" /\ UNCHANGED <<source, record, storage, holder, sweep, stops>>
      /\ UNCHANGED <<base, cache>> /\ job' = [job EXCEPT ![m] = j]
  BY DEF CopyAndHash, At
<1>2. job[m].at \in Fetching /\ "copied" \in Fetching
  BY <1>1 DEF Fetching, InLock
<1>3. job[m] \in JobShape /\ JobInv(m) /\ c \in Edit
  BY <1>2, FetchingIs
<1>4. /\ j \in JobShape /\ j.at = "copied" /\ j.checksum = c /\ j.copy = c
      /\ j.identity = job[m].identity /\ j.todo = job[m].todo /\ j.images = job[m].images
  BY <1>3 DEF JobShape, InLock
<1>5. job[m].identity <= c
  BY <1>1, <1>3 DEF JobInv
<1> HIDE DEF j
<1>6. j.identity <= j.checksum /\ j.checksum <= j.copy /\ j.copy <= source[Wanted(m)]
  BY <1>3, <1>4, <1>5 DEF Edit, BasesConstants
<1> QED BY <1>1, <1>2, <1>4, <1>5, <1>6, FetchStep

LEMMA ConvertKeeps ==
  ASSUME BasesConstants, BasesInv, NEW m \in Machine, Convert(m)
  PROVE  BasesInv'
<1> DEFINE c == source["disk"]
           j == [job[m] EXCEPT !.at = "copied", !.copy = c]
<1>1. /\ job[m].at = "read" /\ UNCHANGED <<source, record, storage, holder, sweep, stops>>
      /\ UNCHANGED <<base, cache>> /\ job' = [job EXCEPT ![m] = j]
  BY DEF Convert, At
<1>2. job[m].at \in Fetching /\ "copied" \in Fetching
  BY <1>1 DEF Fetching, InLock
<1>3. /\ job[m] \in JobShape /\ JobInv(m) /\ Wanted(m) = "disk" /\ source[Wanted(m)] \in Edit
      /\ job[m].identity \in Edit /\ job[m].checksum = job[m].identity
      /\ job[m].identity <= source[Wanted(m)]
  BY <1>1, <1>2, FetchingIs DEF JobInv
<1>4. /\ j \in JobShape /\ j.at = "copied" /\ j.checksum = job[m].checksum /\ j.copy = c
      /\ j.identity = job[m].identity /\ j.todo = job[m].todo /\ j.images = job[m].images
  BY <1>3 DEF JobShape, InLock
<1> HIDE DEF j
<1>6. j.identity <= j.checksum /\ j.checksum <= j.copy /\ j.copy <= source[Wanted(m)]
  BY <1>3, <1>4 DEF Edit, BasesConstants
<1> QED BY <1>1, <1>2, <1>3, <1>4, <1>6, FetchStep

LEMMA FinishImportKeeps ==
  ASSUME BasesConstants, BasesInv, NEW m \in Machine, FinishImport(m)
  PROVE  BasesInv'
<1> DEFINE j == [job[m] EXCEPT !.at = "placed"]
           b == IF Exists(Found(m)) THEN base[Found(m)] ELSE job[m].copy
<1>1. /\ job[m].at = "copied" /\ UNCHANGED <<source, record, storage, holder, sweep, stops>>
      /\ source[Wanted(m)] = job[m].identity /\ job' = [job EXCEPT ![m] = j]
      /\ base' = [base EXCEPT ![Found(m)] = b] /\ UNCHANGED cache
  BY DEF FinishImport, At
<1>2. job[m].at \in Fetching
  BY <1>1 DEF Fetching, InLock
<1>3. /\ job[m] \in JobShape /\ JobInv(m) /\ holder = m /\ job[m].todo # <<>>
      /\ job[m].identity \in Edit /\ job[m].checksum \in Edit /\ job[m].copy \in Edit
      /\ job[m].images \subseteq Present /\ Found(m) \in Image
  BY <1>2, FetchingIs
<1>4. job[m].checksum = job[m].identity /\ job[m].copy = job[m].identity
  BY <1>1, <1>3 DEF JobInv, Edit, BasesConstants
<1>5. /\ j \in JobShape /\ j.at = "placed" /\ j.checksum = job[m].checksum
      /\ j.identity = job[m].identity /\ j.todo = job[m].todo /\ j.images = job[m].images
  BY <1>3 DEF JobShape, InLock
<1> HIDE DEF j
<1>6. job'[m] = j
  BY <1>1, <1>5, JobSet DEF BasesInv
<1>7. base \in [Image -> Edit \cup {NoFile}] /\ \A i \in Image : base[i] # NoFile => base[i] = i[2]
  BY DEF BasesInv, BasesShape, ContentAddressed, Present, Exists
<1>8. b \in Edit /\ b = Found(m)[2]
  BY <1>3, <1>4, <1>7 DEF Found, Exists
<1> HIDE DEF b
<1>9. /\ base' \in [Image -> Edit \cup {NoFile}] /\ base'[Found(m)] = b
      /\ \A i \in Image : i # Found(m) => base'[i] = base[i]
  BY <1>1, <1>3, <1>7, <1>8
<1>10. b # NoFile
  BY <1>8 DEF NoFile, Edit, BasesConstants
<1>11. Present \subseteq Present'
  BY <1>9, <1>10 DEF Present, Exists
<1>12. ContentAddressed'
  BY <1>1, <1>7, <1>8, <1>9 DEF BasesInv, ContentAddressed, Present, Exists
<1>13. Wanted(m)' = Wanted(m) /\ Found(m)' = Found(m) /\ Exists(Found(m))'
  BY <1>5, <1>6, <1>9, <1>10 DEF Wanted, Found, Exists
<1>14. JobInv(m)'
  <2>1. job[m].identity <= source[Wanted(m)]
    BY <1>1, <1>3 DEF JobInv
  <2> QED BY <1>1, <1>3, <1>4, <1>5, <1>6, <1>11, <1>13, <2>1 DEF JobInv, InLock, Fetching
<1>15. cache' \in [Image -> Edit \cup {NoFile}]
  BY <1>1 DEF BasesInv, BasesShape
<1> QED BY <1>1, <1>3, <1>5, <1>9, <1>11, <1>12, <1>14, <1>15, LockedStep

LEMMA LearnChecksumKeeps ==
  ASSUME BasesConstants, BasesInv, NEW m \in Machine, LearnChecksum(m)
  PROVE  BasesInv'
<1> DEFINE c == <<Wanted(m), job[m].identity>>
           v == IF cache[c] = NoFile THEN job[m].checksum ELSE cache[c]
<1>1. /\ job[m].at = "placed" /\ UNCHANGED <<source, record, storage, holder, sweep, stops>>
      /\ job' = Took(m, Found(m)) /\ cache' = [cache EXCEPT ![c] = v] /\ UNCHANGED base
  BY DEF LearnChecksum, At
<1>2. job[m].at \in Fetching
  BY <1>1 DEF Fetching, InLock
<1>3. /\ JobInv(m) /\ job[m].identity \in Edit /\ job[m].checksum \in Edit
      /\ Wanted(m) \in Artifact /\ Found(m) \in Image
  BY <1>2, FetchingIs
<1>4. job[m].checksum = job[m].identity /\ Found(m) \in Present
  BY <1>1, <1>3 DEF JobInv, Present
<1>5. c \in Image /\ c[2] = job[m].identity
  BY <1>3 DEF Image
<1>6. cache \in [Image -> Edit \cup {NoFile}] /\ \A i \in Image : cache[i] \in {i[2], NoFile}
  BY DEF BasesInv, BasesShape, ContentAddressed
<1> HIDE DEF c
<1>7. v \in Edit \cup {NoFile} /\ v = c[2]
  BY <1>3, <1>4, <1>5, <1>6
<1> HIDE DEF v
<1>8. cache' \in [Image -> Edit \cup {NoFile}] /\ \A i \in Image : cache'[i] \in {i[2], NoFile}
  BY <1>1, <1>5, <1>6, <1>7
<1> QED BY <1>1, <1>2, <1>4, <1>8, TookKeeps

\* What the records name are images.
LEMMA NamedImages ==
  ASSUME BasesInv, NEW r \in [Machine -> [status : {"none", "Provisioning", "Stopped", "Error"},
                                          names : SUBSET Image]]
  PROVE  Named(r) \subseteq Image
BY DEF Named

LEMMA DeleteMachineKeeps ==
  ASSUME BasesConstants, BasesInv, NEW m \in Machine, DeleteMachine(m)
  PROVE  BasesInv'
<1>1. /\ sweep = NoSweep /\ storage' = [storage EXCEPT ![m] = {}]
      /\ \/ /\ record' = [record EXCEPT ![m] = [status |-> "none", names |-> {}]]
            /\ sweep' = [at |-> "waits", images |-> Named(record')]
         \/ UNCHANGED <<record, sweep>>
      /\ UNCHANGED <<source, base, cache, job, holder, stops>>
  BY DEF DeleteMachine
<1>2. storage' \in [Machine -> SUBSET Image] /\ Referred' \subseteq Referred /\ Referred' \subseteq Present
  BY <1>1, FewerFiles
<1>3. record' \in [Machine -> [status : {"none", "Provisioning", "Stopped", "Error"},
                               names : SUBSET Image]]
  BY <1>1 DEF BasesInv, BasesShape
<1>4. sweep' \in [at : {"idle", "waits", "marked"}, images : SUBSET Image] /\ sweep'.at # "marked"
  <2>1. Named(record') \subseteq Image
    BY <1>3, NamedImages
  <2> QED BY <1>1, <2>1 DEF BasesInv, BasesShape, NoSweep
<1>5. BasesShape'
  BY <1>1, <1>2, <1>3, <1>4 DEF BasesInv, BasesShape
<1>6. \A n \in Machine : JobInv(n)'
  BY <1>1 DEF BasesInv, JobInv, Wanted, Found, Present, Exists
<1>7. SweepInv' /\ DisksKept' /\ ContentAddressed'
  BY <1>1, <1>2, <1>4 DEF BasesInv, SweepInv, DisksKept, ContentAddressed, Present, Exists
<1> QED BY <1>5, <1>6, <1>7 DEF BasesInv

LEMMA ReclaimKeeps ==
  ASSUME BasesConstants, BasesInv, Reclaim
  PROVE  BasesInv'
<1>1. /\ sweep' = [at |-> "waits", images |-> Named(record)]
      /\ UNCHANGED <<source, base, cache, record, storage, job, holder, stops>>
  BY DEF Reclaim
<1>2. sweep' \in [at : {"idle", "waits", "marked"}, images : SUBSET Image] /\ sweep'.at # "marked"
  <2>1. Named(record) \subseteq Image
    BY NamedImages DEF BasesInv, BasesShape
  <2> QED BY <1>1, <2>1
<1>3. BasesShape'
  BY <1>1, <1>2 DEF BasesInv, BasesShape
<1>4. \A n \in Machine : JobInv(n)'
  BY <1>1 DEF BasesInv, JobInv, Wanted, Found, Present, Exists
<1>5. SweepInv' /\ DisksKept' /\ ContentAddressed'
  BY <1>1, <1>2 DEF BasesInv, SweepInv, DisksKept, ContentAddressed, Referred, Present, Exists
<1> QED BY <1>3, <1>4, <1>5 DEF BasesInv

LEMMA MarkKeeps ==
  ASSUME BasesConstants, BasesInv, Mark
  PROVE  BasesInv'
<1>1. /\ sweep.at = "waits" /\ holder = "nobody"
      /\ \/ holder' = "sweep" /\ sweep' = [at |-> "marked", images |-> sweep.images \cup Referred]
         \/ UNCHANGED holder /\ sweep' = NoSweep
      /\ UNCHANGED <<source, base, cache, record, storage, job, stops>>
  BY DEF Mark
<1>2. UNCHANGED <<Referred, Present>>
  BY <1>1 DEF Referred, Present, Exists
<1>3. /\ sweep' \in [at : {"idle", "waits", "marked"}, images : SUBSET Image]
      /\ sweep'.at = "marked" => holder' = "sweep" /\ Referred \subseteq sweep'.images
  <2>1. sweep.images \cup Referred \subseteq Image
    BY DEF BasesInv, BasesShape, Referred
  <2>2. CASE holder' = "sweep" /\ sweep' = [at |-> "marked", images |-> sweep.images \cup Referred]
    BY <2>1, <2>2
  <2>3. CASE sweep' = NoSweep
    BY <2>3 DEF NoSweep
  <2> QED BY <1>1, <2>2, <2>3
<1>4. BasesShape'
  BY <1>1, <1>3 DEF BasesInv, BasesShape
<1>5. ASSUME NEW n \in Machine PROVE JobInv(n)'
  <2>1. JobInv(n) /\ job[n].at \notin InLock /\ job'[n] = job[n]
    BY <1>1 DEF BasesInv, JobInv, BasesConstants
  <2> QED BY <2>1, Outside
<1>6. SweepInv' /\ DisksKept' /\ ContentAddressed'
  BY <1>1, <1>2, <1>3 DEF BasesInv, SweepInv, DisksKept, ContentAddressed
<1> QED BY <1>4, <1>5, <1>6 DEF BasesInv

LEMMA SweepKeeps ==
  ASSUME BasesConstants, BasesInv, Sweep
  PROVE  BasesInv'
<1>1. PICK gone \in SUBSET (Present \ sweep.images) :
        base' = [i \in Image |-> IF i \in gone THEN NoFile ELSE base[i]]
  BY DEF Sweep
<1>2. /\ sweep.at = "marked" /\ sweep' = NoSweep /\ holder' = "nobody"
      /\ UNCHANGED <<source, cache, record, storage, job, stops>>
  BY DEF Sweep
<1>3. holder = "sweep" /\ Referred \subseteq sweep.images
  BY <1>2 DEF BasesInv, SweepInv
<1>4. /\ base' \in [Image -> Edit \cup {NoFile}] /\ Present' \subseteq Present
      /\ \A i \in Present' : base'[i] = base[i]
      /\ Present \cap sweep.images \subseteq Present'
  BY <1>1 DEF BasesInv, BasesShape, Present, Exists
<1>5. BasesShape'
  <2>1. sweep' \in [at : {"idle", "waits", "marked"}, images : SUBSET Image]
    BY <1>2 DEF NoSweep
  <2> QED BY <1>2, <1>4, <2>1 DEF BasesInv, BasesShape
<1>6. ASSUME NEW n \in Machine PROVE JobInv(n)'
  <2>1. JobInv(n) /\ job[n].at \notin InLock /\ job'[n] = job[n]
    BY <1>2, <1>3 DEF BasesInv, JobInv, BasesConstants
  <2> QED BY <2>1, Outside
<1>7. SweepInv'
  BY <1>2 DEF SweepInv, NoSweep
<1>8. DisksKept'
  <2>1. Referred' = Referred
    BY <1>2 DEF Referred
  <2> QED BY <1>3, <1>4, <2>1 DEF BasesInv, DisksKept
<1>9. ContentAddressed'
  BY <1>2, <1>4 DEF BasesInv, ContentAddressed
<1> QED BY <1>5, <1>6, <1>7, <1>8, <1>9 DEF BasesInv

LEMMA StopKeeps ==
  ASSUME BasesConstants, BasesInv, StopApplication
  PROVE  BasesInv'
<1> DEFINE j == [NoJob EXCEPT !.at = "done"]
<1>1. /\ stops < MaxStops /\ stops' = stops + 1 /\ holder' = "nobody" /\ sweep' = NoSweep
      /\ job' = [m \in Machine |-> IF job[m].at = "new" THEN job[m] ELSE j]
      /\ record' = [m \in Machine |-> IF record[m].status = "Provisioning"
                                      THEN [record[m] EXCEPT !.status = "Error"] ELSE record[m]]
      /\ UNCHANGED <<source, base, cache, storage>>
  BY DEF StopApplication
<1>2. j \in JobShape /\ j.at = "done"
  <2>1. NoJob \in JobShape
    BY DEF NoJob, JobShape, Edit, BasesConstants
  <2> QED BY <2>1 DEF JobShape
<1> HIDE DEF j
<1>3. job' \in [Machine -> JobShape] /\ \A m \in Machine : job'[m].at \in {"new", "done"}
  BY <1>1, <1>2 DEF BasesInv, BasesShape
<1>4. BasesShape'
  <2>1. sweep' \in [at : {"idle", "waits", "marked"}, images : SUBSET Image]
    BY <1>1 DEF NoSweep
  <2>2. record' \in [Machine -> [status : {"none", "Provisioning", "Stopped", "Error"},
                                 names : SUBSET Image]]
    BY <1>1, SMTT(30) DEF BasesInv, BasesShape
  <2>3. stops' \in 0..MaxStops
    BY <1>1 DEF BasesInv, BasesShape, BasesConstants
  <2> QED BY <1>1, <1>3, <2>1, <2>2, <2>3 DEF BasesInv, BasesShape
<1>5. \A m \in Machine : JobInv(m)'
  BY <1>3 DEF JobInv, InLock, Fetching
<1>6. SweepInv'
  BY <1>1 DEF SweepInv, NoSweep
<1>7. DisksKept' /\ ContentAddressed'
  BY <1>1 DEF BasesInv, DisksKept, ContentAddressed, Referred, Present, Exists
<1> QED BY <1>4, <1>5, <1>6, <1>7 DEF BasesInv

LEMMA BasesStep ==
  ASSUME BasesConstants, BasesInv, [BasesNext]_basesVars
  PROVE  BasesInv'
<1>1. CASE UNCHANGED basesVars
  <2>1. BasesShape'
    BY <1>1 DEF BasesInv, BasesShape, basesVars
  <2>2. \A m \in Machine : JobInv(m)'
    BY <1>1 DEF BasesInv, JobInv, Wanted, Found, Present, Exists, basesVars
  <2>3. SweepInv' /\ DisksKept' /\ ContentAddressed'
    BY <1>1 DEF BasesInv, SweepInv, DisksKept, ContentAddressed, Referred, Present, Exists, basesVars
  <2> QED BY <2>1, <2>2, <2>3 DEF BasesInv
<1> QED
  BY <1>1, ChangeKeeps, CreateRecordKeeps, ProvisionKeeps, ProvisionFailsKeeps, IdentifyKeeps,
     HashSourceKeeps, CopyAndHashKeeps, ConvertKeeps, FinishImportKeeps, LearnChecksumKeeps,
     BuildDiskKeeps, GrowFailsKeeps, FinishRecordKeeps, DeleteMachineKeeps, ReclaimKeeps,
     MarkKeeps, SweepKeeps, StopKeeps
  DEF BasesNext

\* For any machines: an image that a disk is built on is there, and every image holds what
\* its name says, while sources change, creations fail, machines are deleted, images are swept
\* and the application is stopped in between (runtime/vm.rs).
THEOREM BasesKept ==
  ASSUME BasesConstants
  PROVE  BasesSpec => [](BasesType /\ DisksKept /\ ContentAddressed)
<1>1. BasesInit => BasesInv
  BY BasesInitial
<1>2. BasesInv /\ [BasesNext]_basesVars => BasesInv'
  BY BasesStep
<1>3. BasesInv => BasesType /\ DisksKept /\ ContentAddressed
  BY DEF BasesInv, BasesShape, BasesType, JobShape
<1> QED BY <1>1, <1>2, <1>3, PTL DEF BasesSpec

-------------------------------------------------------------------------------
(* Backups to a folder (LocalBackup).                                            *)
Payload == {<<>>, <<"data">>, Disk, <<"data", "other">>}
Folder == [kind : Kinds, payload : Payload, manifest : BOOLEAN, damaged : BOOLEAN]
StagedFile == [name : Nat, kind : Kinds, data : Seq({"data", "other"}), tagged : BOOLEAN]

BackupShape ==
    /\ folders \in Seq(Folder) /\ Len(folders) <= MaxFolders
    /\ staging \subseteq StagedFile
    /\ imports \in 0..MaxImports /\ failures \in 0..MaxFailures
    /\ \/ exporting = Idle
       \/ exporting \in [at : {"inspect", "copy", "cleanup"}, f : DOMAIN folders]
    /\ \/ importing = Idle
       \/ importing \in [at : {"copy", "stage", "install"}, f : DOMAIN folders, name : Nat, kind : Kinds]

\* A payload that nobody damaged is what was written of it.
FoldersInv ==
    /\ ManifestVouches
    /\ \A f \in DOMAIN folders : ~folders[f].damaged => folders[f].payload # <<"data", "other">>

\* The staged file s is the one the import is about, and as far as the import.
Own(s) ==
    /\ importing # Idle /\ s.name = importing.name /\ s.kind = importing.kind
    /\ importing.at \in {"copy", "stage"} => s.name = 2 * imports - 1 /\ ~s.tagged
    /\ importing.at \in {"stage", "install"} => Whole(s.data)
    /\ importing.at = "install" => s.tagged = (s.kind = "container")

\* Every staged file has a name of its own, and belongs to somebody or is given up.
StagingInv ==
    /\ importing # Idle => \E s \in staging : Own(s)
    /\ \A s, t \in staging : s.name = t.name => s = t
    /\ \A s \in staging :
         /\ 1 <= s.name /\ s.name <= 2 * imports
         /\ importing # Idle /\ s.name # importing.name => s.name <= 2 * imports - 2
         /\ \/ <<"staged", s.name>> \in stranded
            \/ \E r \in recorded : r.file = s.name
            \/ importing # Idle /\ s.name = importing.name

ArtifactsInv ==
    \A f \in artifacts : <<"artifact", f>> \in stranded \/ (exporting # Idle /\ f = exporting.f)

BackupInv == BackupShape /\ FoldersInv /\ StagingInv /\ ArtifactsInv /\ ImportsWhatWasExported

LEMMA BackupInitial ==
  ASSUME BackupConstants, BackupInit
  PROVE  BackupInv
  BY DEF BackupConstants, BackupInit, BackupInv, BackupShape, FoldersInv, StagingInv, ArtifactsInv,
         ManifestVouches, ImportsWhatWasExported

\* The file of the import that is under way.
LEMMA StagedIs ==
  ASSUME BackupInv, importing # Idle
  PROVE  Staged \in staging /\ Own(Staged) /\ Staged \in StagedFile
<1>1. PICK s \in staging : Own(s)
  BY DEF BackupInv, StagingInv
<1>2. Staged = s
  BY <1>1 DEF Staged, Own, BackupInv, StagingInv
<1> QED BY <1>1, <1>2 DEF BackupInv, BackupShape

\* A step of an export, or of the medium.
LEMMA FoldersStep ==
  ASSUME BackupInv, UNCHANGED importer, failures' \in 0..MaxFailures, stranded \subseteq stranded',
         folders' \in Seq(Folder), Len(folders') <= MaxFolders, Len(folders) <= Len(folders'),
         FoldersInv', ArtifactsInv',
         exporting' = Idle \/ exporting' \in [at : {"inspect", "copy", "cleanup"}, f : DOMAIN folders']
  PROVE  BackupInv'
<1>1. DOMAIN folders \subseteq DOMAIN folders'
  BY DEF BackupInv, BackupShape
<1>2. BackupShape'
  BY <1>1 DEF BackupInv, BackupShape, importer
<1>3. StagingInv'
  BY DEF BackupInv, StagingInv, Own, importer
<1>4. ImportsWhatWasExported'
  BY DEF BackupInv, ImportsWhatWasExported, importer
<1> QED BY <1>2, <1>3, <1>4 DEF BackupInv

\* A step of an import.
LEMMA StagingStep ==
  ASSUME BackupInv, UNCHANGED <<folders, exporting, artifacts>>, failures' \in 0..MaxFailures,
         imports' \in 0..MaxImports, stranded \subseteq stranded',
         staging' \subseteq StagedFile, StagingInv', ImportsWhatWasExported',
         \/ importing' = Idle
         \/ importing' \in [at : {"copy", "stage", "install"}, f : DOMAIN folders, name : Nat, kind : Kinds]
  PROVE  BackupInv'
<1>1. BackupShape'
  BY DEF BackupInv, BackupShape
<1>2. FoldersInv'
  BY DEF BackupInv, FoldersInv, ManifestVouches
<1>3. ArtifactsInv'
  BY DEF BackupInv, ArtifactsInv
<1> QED BY <1>1, <1>2, <1>3 DEF BackupInv

\* Copying the disk half by half: what a payload can be.
LEMMA Halves ==
  /\ Append(<<>>, "data") = <<"data">> /\ Append(<<"data">>, "data") = Disk
  /\ Disk # <<>> /\ Disk # <<"data">> /\ Disk # <<"data", "other">> /\ <<"data">> # <<"data", "other">>
<1> DEFINE s == Append(<<"data">>, "data")
           t == <<"data", "data">>
<1>1. <<"data">> \in Seq({"data"}) /\ Len(<<"data">>) = 1 /\ <<"data">>[1] = "data"
  OBVIOUS
<1>2. s \in Seq({"data"}) /\ Len(s) = 2 /\ s[1] = "data" /\ s[2] = "data"
  BY <1>1
<1>3. t \in Seq({"data"}) /\ Len(t) = 2 /\ t[1] = "data" /\ t[2] = "data"
  OBVIOUS
<1>4. s = t
  <2> HIDE DEF s, t
  <2>1. \A i \in 1..2 : s[i] = t[i]
    BY <1>2, <1>3
  <2> QED BY <1>2, <1>3, <2>1, SeqEqual
<1>5. t # <<>> /\ t # <<"data">>
  <2>1. Len(<<>>) = 0 /\ Len(<<"data">>) = 1
    OBVIOUS
  <2> QED BY <1>3, <2>1
<1>6. t # <<"data", "other">>
  BY <1>3
<1>7. <<"data">> # <<"data", "other">> /\ Append(<<>>, "data") = <<"data">>
  OBVIOUS
<1> QED BY <1>4, <1>5, <1>6, <1>7 DEF Disk

LEMMA PayloadIs == \A payload \in Payload : payload \in Seq({"data", "other"}) /\ Len(payload) <= 2
<1>1. <<>> \in Seq({"data", "other"}) /\ Len(<<>>) <= 2
  OBVIOUS
<1>2. <<"data">> \in Seq({"data", "other"}) /\ Len(<<"data">>) <= 2
  OBVIOUS
<1>3. Disk \in Seq({"data", "other"}) /\ Len(Disk) <= 2
  BY DEF Disk
<1>4. <<"data", "other">> \in Seq({"data", "other"}) /\ Len(<<"data", "other">>) <= 2
  OBVIOUS
<1> QED BY <1>1, <1>2, <1>3, <1>4, Zenon DEF Payload

LEMMA FailCounts ==
  ASSUME BackupConstants, BackupInv, failures' = failures \/ Fail
  PROVE  failures' \in 0..MaxFailures
  BY DEF Fail, BackupConstants, BackupInv, BackupShape

\* What belongs to the export that goes on, or is given up.
LEMMA ArtifactsStep ==
  ASSUME ArtifactsInv, stranded \subseteq stranded', NEW f, exporting' # Idle, exporting'.f = f,
         exporting = Idle \/ exporting.f = f, artifacts' \subseteq artifacts \cup {f}
  PROVE  ArtifactsInv'
<1> SUFFICES ASSUME NEW a \in artifacts'
             PROVE  <<"artifact", a>> \in stranded' \/ a = f
  BY DEF ArtifactsInv
<1>1. CASE a = f
  BY <1>1
<1>2. CASE a # f /\ a \in artifacts
  BY <1>2 DEF ArtifactsInv
<1> QED BY <1>1, <1>2

LEMMA ExportKeeps ==
  ASSUME BackupConstants, BackupInv, NEW kind \in Kinds, Export(kind)
  PROVE  BackupInv'
<1> DEFINE new == [kind |-> kind, payload |-> <<>>, manifest |-> FALSE, damaged |-> FALSE]
<1>1. /\ folders \in Seq(Folder) /\ Len(folders) < MaxFolders /\ MaxFolders \in Int
      /\ folders' = Append(folders, new) /\ exporting' = [at |-> "inspect", f |-> Len(folders) + 1]
      /\ artifacts' = artifacts \cup {Len(folders) + 1}
      /\ UNCHANGED <<importer, failures, stranded>> /\ exporting = Idle
  BY DEF Export, BackupInv, BackupShape, BackupConstants
<1>2. new \in Folder
  BY DEF Folder, Payload
<1>3. folders' \in Seq(Folder) /\ Len(folders') = Len(folders) + 1
  BY <1>1, <1>2
<1>4. exporting' \in [at : {"inspect", "copy", "cleanup"}, f : DOMAIN folders']
  BY <1>1, <1>3
<1>5. ASSUME NEW f \in DOMAIN folders'
      PROVE  (f \in DOMAIN folders /\ folders'[f] = folders[f]) \/ folders'[f] = new
  BY <1>1, <1>3
<1>6. FoldersInv'
  BY <1>5 DEF BackupInv, FoldersInv, ManifestVouches
<1>7. exporting' # Idle /\ exporting'.f = Len(folders) + 1
  BY <1>1 DEF Idle
<1>8. ArtifactsInv'
  BY <1>1, <1>7, ArtifactsStep DEF BackupInv
<1>9. Len(folders') <= MaxFolders /\ Len(folders) <= Len(folders')
  BY <1>1, <1>3
<1> QED BY <1>1, <1>3, <1>4, <1>6, <1>8, <1>9, FoldersStep, FailCounts

\* The folder of an export or of a damage is written to.
LEMMA OneFolder ==
  ASSUME BackupInv, NEW f \in DOMAIN folders, NEW new \in Folder,
         folders' = [folders EXCEPT ![f] = new],
         new.manifest /\ ~new.damaged => Whole(new.payload),
         ~new.damaged => new.payload # <<"data", "other">>
  PROVE  /\ folders' \in Seq(Folder) /\ Len(folders') = Len(folders) /\ Len(folders') <= MaxFolders
         /\ Len(folders) <= Len(folders')
         /\ DOMAIN folders' = DOMAIN folders /\ FoldersInv'
<1>1. folders \in Seq(Folder) /\ Len(folders) <= MaxFolders
  BY DEF BackupInv, BackupShape
<1>2. /\ folders' \in Seq(Folder) /\ Len(folders') = Len(folders) /\ DOMAIN folders' = DOMAIN folders
      /\ \A g \in DOMAIN folders : folders'[g] = IF g = f THEN new ELSE folders[g]
  BY <1>1
<1>3. ManifestVouches /\ \A g \in DOMAIN folders : ~folders[g].damaged => folders[g].payload # <<"data", "other">>
  BY DEF BackupInv, FoldersInv
<1>4. ManifestVouches'
  BY <1>2, <1>3 DEF ManifestVouches, Whole
<1>5. \A g \in DOMAIN folders' : ~folders'[g].damaged => folders'[g].payload # <<"data", "other">>
  BY <1>2, <1>3
<1> QED BY <1>1, <1>2, <1>4, <1>5 DEF FoldersInv

\* The payload, checked in parts: what a folder holds.
LEMMA FolderIs ==
  ASSUME BackupInv, NEW f \in DOMAIN folders
  PROVE  /\ folders[f] \in Folder /\ folders[f].payload \in Payload
         /\ folders[f].manifest \in BOOLEAN /\ folders[f].damaged \in BOOLEAN /\ folders[f].kind \in Kinds
         /\ folders[f].manifest /\ ~folders[f].damaged => folders[f].payload = Disk
         /\ ~folders[f].damaged => folders[f].payload # <<"data", "other">>
<1>1. folders \in Seq(Folder) /\ f \in 1..Len(folders)
  BY DEF BackupInv, BackupShape
<1>2. folders[f] \in Folder
  BY <1>1
<1>3. /\ folders[f].payload \in Payload /\ folders[f].manifest \in BOOLEAN
      /\ folders[f].damaged \in BOOLEAN /\ folders[f].kind \in Kinds
  BY <1>2 DEF Folder
<1> QED BY <1>2, <1>3 DEF BackupInv, FoldersInv, ManifestVouches, Whole

\* What an export does to its folder.
LEMMA WithdrawnIs ==
  ASSUME BackupInv, NEW f \in DOMAIN folders, Withdrawn(f)
  PROVE  \E new \in Folder :
        /\ folders' = [folders EXCEPT ![f] = new]
        /\ new.manifest /\ ~new.damaged => Whole(new.payload)
        /\ ~new.damaged => new.payload # <<"data", "other">>
<1> DEFINE new == [folders[f] EXCEPT !.payload = <<>>, !.manifest = FALSE]
<1>1. new \in Folder /\ ~new.manifest /\ new.payload = <<>>
  BY FolderIs DEF Folder, Payload
<1>2. folders' = [folders EXCEPT ![f] = new]
  BY DEF Withdrawn
<1>3. new.payload # <<"data", "other">>
  BY <1>1
<1> HIDE DEF new
<1> QED BY <1>1, <1>2, <1>3
LEMMA CopiedIs ==
  ASSUME BackupInv, NEW f \in DOMAIN folders, Len(folders[f].payload) < 2,
         folders' = [folders EXCEPT ![f].payload = Append(@, Disk[Len(@) + 1])]
  PROVE  \E new \in Folder :
        /\ folders' = [folders EXCEPT ![f] = new]
        /\ new.manifest /\ ~new.damaged => Whole(new.payload)
        /\ ~new.damaged => new.payload # <<"data", "other">>
<1> DEFINE old == folders[f]
           more == Append(old.payload, Disk[Len(old.payload) + 1])
           new == [old EXCEPT !.payload = more]
<1>1. old.payload = <<>> \/ old.payload = <<"data">>
  BY FolderIs DEF Payload, Disk
<1>0. Disk[1] = "data" /\ Disk[2] = "data" /\ Len(Disk) = 2
  BY DEF Disk
<1>2. more = <<"data">> \/ more = Disk
  <2>1. CASE old.payload = <<>>
    <3>1. Len(<<>>) + 1 = 1
      OBVIOUS
    <3> QED BY <1>0, <2>1, <3>1, Halves, Zenon
  <2>2. CASE old.payload = <<"data">>
    <3>1. Len(<<"data">>) + 1 = 2
      OBVIOUS
    <3> QED BY <1>0, <2>2, <3>1, Halves, Zenon
  <2> QED BY <1>1, <2>1, <2>2
<1>3. old.payload # Disk /\ Disk # <<"data", "other">> /\ <<"data">> # <<"data", "other">>
  BY <1>1, Halves
<1>4. ~old.manifest \/ old.damaged
  BY <1>3, FolderIs
<1>5. folders' = [folders EXCEPT ![f] = new]
  OBVIOUS
<1>6. more \in Payload
  BY <1>2 DEF Payload
<1> HIDE DEF more
<1>7. new \in Folder /\ new.payload = more /\ new.manifest = old.manifest /\ new.damaged = old.damaged
  BY <1>6, FolderIs DEF Folder
<1> HIDE DEF new, old
<1> QED BY <1>2, <1>3, <1>4, <1>5, <1>7
LEMMA ManifestIs ==
  ASSUME BackupInv, NEW f \in DOMAIN folders, Len(folders[f].payload) = 2,
         folders' = [folders EXCEPT ![f].manifest = TRUE]
  PROVE  \E new \in Folder :
        /\ folders' = [folders EXCEPT ![f] = new]
        /\ new.manifest /\ ~new.damaged => Whole(new.payload)
        /\ ~new.damaged => new.payload # <<"data", "other">>
<1> DEFINE old == folders[f]
           new == [old EXCEPT !.manifest = TRUE]
<1>1. new \in Folder /\ new.payload = old.payload /\ new.damaged = old.damaged
  BY FolderIs DEF Folder
<1>2. folders' = [folders EXCEPT ![f] = new]
  OBVIOUS
<1>3. old.payload = Disk \/ old.payload = <<"data", "other">>
  BY FolderIs DEF Payload
<1>4. ~old.damaged => old.payload = Disk
  BY <1>3, FolderIs
<1>5. Disk # <<"data", "other">>
  BY DEF Disk
<1> HIDE DEF new, old
<1> QED BY <1>1, <1>2, <1>4, <1>5 DEF Whole

LEMMA CopyOutKeeps ==
  ASSUME BackupConstants, BackupInv, CopyOut \/ WriteManifest
  PROVE  BackupInv'
<1>1. exporting.at = "copy"
  BY DEF CopyOut, WriteManifest
<1>2. exporting # Idle
  BY <1>1 DEF Idle
<1>3. exporting \in [at : {"inspect", "copy", "cleanup"}, f : DOMAIN folders]
  BY <1>2 DEF BackupInv, BackupShape
<1>4. PICK f \in DOMAIN folders : f = exporting.f
  BY <1>3
<1>5. /\ UNCHANGED <<artifacts, importer, stranded>> /\ (failures' = failures \/ Fail)
      /\ exporting' = exporting \/ exporting' = [at |-> "cleanup", f |-> f]
  BY <1>4 DEF CopyOut, WriteManifest, Cleanup
<1>6. \/ Withdrawn(f)
      \/ /\ Len(folders[f].payload) < 2
         /\ folders' = [folders EXCEPT ![f].payload = Append(@, Disk[Len(@) + 1])]
      \/ Len(folders[f].payload) = 2 /\ folders' = [folders EXCEPT ![f].manifest = TRUE]
  BY <1>4 DEF CopyOut, WriteManifest
<1>7. PICK new \in Folder :
        /\ folders' = [folders EXCEPT ![f] = new]
        /\ new.manifest /\ ~new.damaged => Whole(new.payload)
        /\ ~new.damaged => new.payload # <<"data", "other">>
  BY <1>6, WithdrawnIs, CopiedIs, ManifestIs
<1>8. /\ folders' \in Seq(Folder) /\ Len(folders') = Len(folders) /\ Len(folders') <= MaxFolders
      /\ Len(folders) <= Len(folders')
      /\ DOMAIN folders' = DOMAIN folders /\ FoldersInv'
  BY <1>7, OneFolder
<1>9. exporting' # Idle /\ exporting'.f = f /\ exporting' \in [at : {"inspect", "copy", "cleanup"}, f : DOMAIN folders']
  BY <1>2, <1>3, <1>4, <1>5, <1>8 DEF Idle
<1>10. ArtifactsInv'
  BY <1>4, <1>5, <1>9, ArtifactsStep DEF BackupInv
<1> QED BY <1>5, <1>8, <1>9, <1>10, FoldersStep, FailCounts

LEMMA InspectKeeps ==
  ASSUME BackupConstants, BackupInv, Inspect
  PROVE  BackupInv'
<1>1. /\ folders' = folders /\ artifacts' = artifacts /\ UNCHANGED importer
      /\ (failures' = failures \/ Fail) /\ stranded \subseteq stranded'
      /\ folders \in Seq(Folder) /\ Len(folders) <= MaxFolders /\ FoldersInv
      /\ exporting # Idle /\ exporting \in [at : {"inspect", "copy", "cleanup"}, f : DOMAIN folders]
  BY DEF Inspect, Idle, BackupInv, BackupShape
<1>2. FoldersInv'
  BY <1>1 DEF FoldersInv, ManifestVouches
<1>3. CASE exporting' = Idle /\ <<"artifact", exporting.f>> \in stranded'
  <2>1. ArtifactsInv'
    BY <1>1, <1>3 DEF BackupInv, ArtifactsInv
  <2> QED BY <1>1, <1>2, <1>3, <2>1, FoldersStep, FailCounts
<1>4. CASE \E at \in {"copy", "cleanup"} : exporting' = [at |-> at, f |-> exporting.f]
  <2>1. exporting' \in [at : {"inspect", "copy", "cleanup"}, f : DOMAIN folders'] /\ exporting'.f = exporting.f
    BY <1>1, <1>4
  <2>2. exporting' # Idle
    BY <1>4 DEF Idle
  <2>3. ArtifactsInv'
    BY <1>1, <2>1, <2>2, ArtifactsStep DEF BackupInv
  <2> QED BY <1>1, <1>2, <2>1, <2>3, FoldersStep, FailCounts
<1>5. [exporting EXCEPT !.at = "copy"] = [at |-> "copy", f |-> exporting.f]
  BY <1>1
<1> QED BY <1>3, <1>4, <1>5 DEF Inspect, Cleanup

LEMMA EndExportKeeps ==
  ASSUME BackupConstants, BackupInv, EndExport
  PROVE  BackupInv'
<1>1. /\ folders' = folders /\ folders \in Seq(Folder) /\ Len(folders) <= MaxFolders
      /\ exporting' = Idle /\ UNCHANGED importer /\ (failures' = failures \/ Fail)
      /\ stranded \subseteq stranded' /\ FoldersInv
  BY DEF EndExport, BackupInv, BackupShape
<1>2. FoldersInv'
  BY <1>1 DEF FoldersInv, ManifestVouches
<1>3. ASSUME NEW a \in artifacts'
      PROVE  <<"artifact", a>> \in stranded'
  <2>1. a \in artifacts /\ (a # exporting.f \/ <<"artifact", exporting.f>> \in stranded')
    BY <1>3 DEF EndExport
  <2> QED BY <2>1, <1>1 DEF BackupInv, ArtifactsInv
<1>4. ArtifactsInv'
  BY <1>3 DEF ArtifactsInv
<1>5. Len(folders) <= Len(folders') /\ Len(folders') <= MaxFolders /\ folders' \in Seq(Folder)
  BY <1>1
<1> QED BY <1>1, <1>2, <1>4, <1>5, FoldersStep, FailCounts

LEMMA DamageKeeps ==
  ASSUME BackupConstants, BackupInv, NEW f \in DOMAIN folders, Damage(f)
  PROVE  BackupInv'
<1>2. PICK payload \in {<<"data">>, Disk, <<"data", "other">>} :
        folders' = [folders EXCEPT ![f].damaged = TRUE, ![f].payload = payload]
  BY DEF Damage
<1> DEFINE new == [folders[f] EXCEPT !.damaged = TRUE, !.payload = payload]
<1>0. payload \in Payload
  BY DEF Payload
<1>3. new \in Folder /\ new.damaged
  BY <1>0, FolderIs DEF Folder
<1>4. folders' = [folders EXCEPT ![f] = new]
  BY <1>2
<1> HIDE DEF new
<1>5. /\ folders' \in Seq(Folder) /\ Len(folders') = Len(folders) /\ Len(folders') <= MaxFolders
      /\ Len(folders) <= Len(folders')
      /\ DOMAIN folders' = DOMAIN folders /\ FoldersInv'
  BY <1>3, <1>4, OneFolder
<1>6. UNCHANGED <<exporting, artifacts, importer, stranded>> /\ Fail
  BY DEF Damage
<1>7. ArtifactsInv'
  BY <1>6 DEF BackupInv, ArtifactsInv
<1>8. exporting' = Idle \/ exporting' \in [at : {"inspect", "copy", "cleanup"}, f : DOMAIN folders']
  BY <1>5, <1>6 DEF BackupInv, BackupShape
<1>9. stranded \subseteq stranded' /\ UNCHANGED importer
  BY <1>6
<1> QED BY <1>5, <1>6, <1>7, <1>8, <1>9, FoldersStep, FailCounts

\* An import begins with an empty file under a new name.
LEMMA ImportKeeps ==
  ASSUME BackupConstants, BackupInv, NEW f \in DOMAIN folders, Import(f)
  PROVE  BackupInv'
<1>0. PICK file : file = [name |-> 2 * imports + 1, kind |-> folders[f].kind, data |-> <<>>, tagged |-> FALSE]
  OBVIOUS
<1>1. /\ importing = Idle /\ imports < MaxImports /\ imports' = imports + 1
      /\ importing' = [at |-> "copy", f |-> f, name |-> 2 * imports + 1, kind |-> folders[f].kind]
      /\ staging' = staging \cup {file}
      /\ UNCHANGED <<folders, exporting, artifacts, recorded, failures, stranded>>
  BY <1>0 DEF Import
<1>2. imports \in Nat /\ MaxImports \in Nat /\ failures \in 0..MaxFailures /\ folders[f].kind \in Kinds
  BY FolderIs DEF BackupInv, BackupShape, BackupConstants
<1>3. file \in StagedFile /\ file.name = 2 * imports + 1 /\ file.kind = folders[f].kind /\ ~file.tagged
  BY <1>0, <1>2 DEF StagedFile
<1>4. /\ importing' # Idle /\ importing'.at = "copy" /\ importing'.name = 2 * imports + 1
      /\ importing'.kind = folders[f].kind
      /\ importing' \in [at : {"copy", "stage", "install"}, f : DOMAIN folders, name : Nat, kind : Kinds]
  BY <1>1, <1>2 DEF Idle
<1>5. \A s \in staging : s.name \in Nat /\ 1 <= s.name /\ s.name <= 2 * imports
  BY DEF BackupInv, BackupShape, StagingInv, StagedFile
<1>6. StagingInv'
  <2>1. Own(file)'
    BY <1>1, <1>2, <1>3, <1>4 DEF Own
  <2>2. \A s, t \in staging' : s.name = t.name => s = t
    BY <1>1, <1>2, <1>3, <1>5 DEF BackupInv, StagingInv
  <2>3. ASSUME NEW s \in staging'
        PROVE  /\ 1 <= s.name /\ s.name <= 2 * imports'
               /\ s.name # importing'.name => s.name <= 2 * imports' - 2
    BY <1>1, <1>2, <1>3, <1>4, <1>5
  <2>4. ASSUME NEW s \in staging'
        PROVE  \/ <<"staged", s.name>> \in stranded'
               \/ \E r \in recorded' : r.file = s.name
               \/ s.name = importing'.name
    BY <1>1, <1>3, <1>4 DEF BackupInv, StagingInv
  <2>5. file \in staging'
    BY <1>1
  <2> QED BY <1>4, <2>1, <2>2, <2>3, <2>4, <2>5 DEF StagingInv
<1>7. ImportsWhatWasExported'
  BY <1>1 DEF BackupInv, ImportsWhatWasExported
<1>8. staging' \subseteq StagedFile /\ imports' \in 0..MaxImports
  BY <1>1, <1>2, <1>3 DEF BackupInv, BackupShape
<1> QED BY <1>1, <1>2, <1>4, <1>6, <1>7, <1>8, StagingStep

\* The import goes on with its file, or with the one that takes its place.
LEMMA GoesOn ==
  ASSUME BackupConstants, BackupInv, importing # Idle, NEW file \in StagedFile,
         UNCHANGED <<folders, exporting, artifacts, recorded, imports, stranded>>,
         failures' = failures,
         staging' = (staging \ {Staged}) \cup {file}, importing' # Idle, importing'.name = file.name,
         importing' \in [at : {"copy", "stage", "install"}, f : DOMAIN folders, name : Nat, kind : Kinds],
         file.name = importing.name \/ (file.name = 2 * imports /\ importing.name = 2 * imports - 1),
         Own(file)'
  PROVE  BackupInv'
<1>1. /\ Staged \in staging /\ Staged.name = importing.name /\ imports \in Nat
      /\ failures' \in 0..MaxFailures
  BY StagedIs DEF Own, BackupInv, BackupShape
<1>2. \A s \in staging : s.name \in Nat /\ 1 <= s.name /\ s.name <= 2 * imports
  BY DEF BackupInv, BackupShape, StagingInv, StagedFile
<1>3. \A s \in staging \ {Staged} : s.name # importing.name /\ s.name <= 2 * imports - 2
  BY <1>1 DEF BackupInv, StagingInv
<1>4. file.name \in Nat /\ 1 <= file.name /\ file.name <= 2 * imports /\ file.name >= importing.name
  BY <1>1, <1>2
<1>5. \A s \in staging \ {Staged} : s.name # file.name
  BY <1>1, <1>2, <1>3, <1>4
<1>6. StagingInv'
  <2>1. \A s, t \in staging' : s.name = t.name => s = t
    BY <1>5 DEF BackupInv, StagingInv
  <2>2. ASSUME NEW s \in staging'
        PROVE  /\ 1 <= s.name /\ s.name <= 2 * imports'
               /\ s.name # importing'.name => s.name <= 2 * imports' - 2
    BY <1>2, <1>3, <1>4
  <2>3. ASSUME NEW s \in staging'
        PROVE  \/ <<"staged", s.name>> \in stranded'
               \/ \E r \in recorded' : r.file = s.name
               \/ s.name = importing'.name
    BY <1>3 DEF BackupInv, StagingInv
  <2>4. file \in staging'
    OBVIOUS
  <2> QED BY <2>1, <2>2, <2>3, <2>4 DEF StagingInv
<1>7. ImportsWhatWasExported'
  BY DEF BackupInv, ImportsWhatWasExported
<1>8. staging' \subseteq StagedFile /\ imports' \in 0..MaxImports
  BY DEF BackupInv, BackupShape
<1> QED BY <1>1, <1>6, <1>7, <1>8, StagingStep

\* The import ends: its file is gone, or it is recorded or given up.
LEMMA Ends ==
  ASSUME BackupConstants, BackupInv, importing # Idle,
         UNCHANGED <<folders, exporting, artifacts, imports>>, failures' = failures \/ Fail,
         importing' = Idle, stranded \subseteq stranded', recorded \subseteq recorded',
         ImportsWhatWasExported',
         \/ staging' = staging \ {Staged}
         \/ /\ staging' = staging
            /\ <<"staged", Staged.name>> \in stranded' \/ \E r \in recorded' : r.file = Staged.name
  PROVE  BackupInv'
<1>1. /\ Staged \in staging /\ Staged.name = importing.name
      /\ imports \in Nat /\ imports' \in 0..MaxImports /\ failures' \in 0..MaxFailures
  BY StagedIs, FailCounts DEF Own, BackupInv, BackupShape
<1>2. \A s \in staging : s.name = importing.name => s = Staged
  BY <1>1 DEF BackupInv, StagingInv
<1>3. staging' \subseteq staging /\ staging' \subseteq StagedFile
  BY DEF BackupInv, BackupShape
<1>4. ASSUME NEW s \in staging'
      PROVE  <<"staged", s.name>> \in stranded' \/ \E r \in recorded' : r.file = s.name
  <2>1. CASE s = Staged
    BY <2>1
  <2>2. CASE s # Staged
    <3>1. s.name # importing.name /\ s \in staging
      BY <1>2, <1>3, <2>2
    <3>2. <<"staged", s.name>> \in stranded \/ \E r \in recorded : r.file = s.name
      BY <3>1 DEF BackupInv, StagingInv
    <3> QED BY <3>2
  <2> QED BY <2>1, <2>2
<1>5. StagingInv'
  BY <1>1, <1>3, <1>4 DEF BackupInv, StagingInv
<1> QED BY <1>1, <1>3, <1>5, StagingStep

\* What the file of an import is: copy, verified, and staged.
LEMMA CopyInKeeps ==
  ASSUME BackupConstants, BackupInv, CopyIn
  PROVE  BackupInv'
<1>1. importing.at = "copy"
  BY DEF CopyIn
<1>2. importing # Idle
  BY <1>1 DEF Idle
<1>3. /\ Staged \in staging /\ Own(Staged) /\ Staged \in StagedFile
      /\ importing \in [at : {"copy", "stage", "install"}, f : DOMAIN folders, name : Nat, kind : Kinds]
  BY <1>2, StagedIs DEF BackupInv, BackupShape
<1>4. UNCHANGED <<folders, exporting, artifacts, recorded, imports, failures, stranded>>
  BY DEF CopyIn
<1>5. CASE Refuse
  <2>1. staging' = staging \ {Staged} /\ importing' = Idle
    BY <1>5 DEF Refuse, Exchange
  <2>2. ImportsWhatWasExported'
    BY <1>4 DEF BackupInv, ImportsWhatWasExported
  <2> QED BY <1>2, <1>4, <2>1, <2>2, Ends
<1>6. CASE ~Refuse
  <2> DEFINE n == Len(Staged.data) + 1
             payload == folders[importing.f].payload
  <2>1. /\ n <= Len(payload) /\ importing' = importing
        /\ Exchange({[Staged EXCEPT !.data = Append(@, payload[n])]})
    BY <1>6 DEF CopyIn
  <2>2. PICK file : file = [Staged EXCEPT !.data = Append(Staged.data, payload[n])]
    OBVIOUS
  <2>3. payload[n] \in {"data", "other"}
    <3>1. payload \in Payload
      BY <1>3, FolderIs
    <3>2. payload \in Seq({"data", "other"})
      BY <3>1, PayloadIs
    <3>3. n \in 1..Len(payload)
      BY <1>3, <2>1, <3>2 DEF StagedFile
    <3> HIDE DEF payload, n
    <3> QED BY <3>2, <3>3
  <2>4. Append(Staged.data, payload[n]) \in Seq({"data", "other"})
    <3> HIDE DEF payload, n
    <3> QED BY <1>3, <2>3 DEF StagedFile
  <2>5. /\ file \in StagedFile /\ file.name = Staged.name /\ file.kind = Staged.kind
        /\ file.tagged = Staged.tagged
    <3> HIDE DEF payload, n
    <3> QED BY <1>3, <2>2, <2>4 DEF StagedFile
  <2>6. staging' = (staging \ {Staged}) \cup {file}
    BY <2>1, <2>2 DEF Exchange
  <2>7. Own(file)'
    BY <1>1, <1>3, <1>4, <2>1, <2>5 DEF Own
  <2>8. file.name = importing.name
    BY <1>3, <2>5 DEF Own
  <2> QED BY <1>2, <1>3, <1>4, <2>1, <2>5, <2>6, <2>7, <2>8, GoesOn
<1> QED BY <1>5, <1>6

LEMMA VerifyKeeps ==
  ASSUME BackupConstants, BackupInv, Verify
  PROVE  BackupInv'
<1>1. importing.at = "copy"
  BY DEF Verify
<1>2. importing # Idle
  BY <1>1 DEF Idle
<1>3. /\ Staged \in staging /\ Own(Staged) /\ Staged \in StagedFile
      /\ importing \in [at : {"copy", "stage", "install"}, f : DOMAIN folders, name : Nat, kind : Kinds]
  BY <1>2, StagedIs DEF BackupInv, BackupShape
<1>4. UNCHANGED <<folders, exporting, artifacts, recorded, imports, failures, stranded>>
  BY DEF Verify
<1>5. CASE Refuse
  <2>1. staging' = staging \ {Staged} /\ importing' = Idle
    BY <1>5 DEF Refuse, Exchange
  <2>2. ImportsWhatWasExported'
    BY <1>4 DEF BackupInv, ImportsWhatWasExported
  <2> QED BY <1>2, <1>4, <2>1, <2>2, Ends
<1>6. CASE ~Refuse
  <2>1. Whole(Staged.data) /\ importing' = [importing EXCEPT !.at = "stage"] /\ staging' = staging
    BY <1>6 DEF Verify
  <2>2. PICK file : file = Staged
    OBVIOUS
  <2>3. /\ importing'.at = "stage" /\ importing'.name = importing.name /\ importing'.kind = importing.kind
        /\ importing' \in [at : {"copy", "stage", "install"}, f : DOMAIN folders, name : Nat, kind : Kinds]
        /\ importing' # Idle
    BY <1>3, <2>1 DEF Idle
  <2>4. staging' = (staging \ {Staged}) \cup {file}
    BY <1>3, <2>1, <2>2
  <2>5. Own(file)'
    BY <1>1, <1>3, <1>4, <2>1, <2>2, <2>3 DEF Own, Whole
  <2>6. file.name = importing.name
    BY <1>3, <2>2 DEF Own
  <2> QED BY <1>2, <1>3, <1>4, <2>2, <2>3, <2>4, <2>5, <2>6, GoesOn
<1> QED BY <1>5, <1>6

LEMMA StageKeeps ==
  ASSUME BackupConstants, BackupInv, Stage
  PROVE  BackupInv'
<1>1. importing.at = "stage"
  BY DEF Stage
<1>2. importing # Idle
  BY <1>1 DEF Idle
<1>3. /\ Staged \in staging /\ Own(Staged) /\ Staged \in StagedFile
      /\ importing \in [at : {"copy", "stage", "install"}, f : DOMAIN folders, name : Nat, kind : Kinds]
  BY <1>2, StagedIs DEF BackupInv, BackupShape
<1>4. UNCHANGED <<folders, exporting, artifacts, recorded, imports, stranded>>
  BY DEF Stage
<1>5. /\ Staged.name = 2 * imports - 1 /\ Staged.name = importing.name /\ Staged.kind = importing.kind
      /\ ~Staged.tagged /\ Whole(Staged.data) /\ imports \in Nat
  BY <1>1, <1>3 DEF Own, BackupInv, BackupShape
<1>6. CASE Fail /\ Refuse
  <2>1. staging' = staging \ {Staged} /\ importing' = Idle
    BY <1>6 DEF Refuse, Exchange
  <2>2. ImportsWhatWasExported'
    BY <1>4 DEF BackupInv, ImportsWhatWasExported
  <2> QED BY <1>2, <1>4, <1>6, <2>1, <2>2, Ends
<1>7. CASE /\ importing.kind = "container" /\ failures' = failures
           /\ Exchange({Retagged(Staged)})
           /\ importing' = [importing EXCEPT !.at = "install", !.name = @ + 1]
  <2>1. PICK file : file = Retagged(Staged)
    OBVIOUS
  <2>2. /\ file \in StagedFile /\ file.name = Staged.name + 1 /\ file.tagged = TRUE
        /\ file.kind = Staged.kind /\ file.data = Staged.data
    <3>1. Staged.name + 1 \in Nat /\ TRUE \in BOOLEAN
      BY <1>3 DEF StagedFile
    <3>2. file = [Staged EXCEPT !.name = Staged.name + 1, !.tagged = TRUE]
      BY <2>1 DEF Retagged
    <3> QED BY <1>3, <3>1, <3>2 DEF StagedFile
  <2>3. /\ importing'.at = "install" /\ importing'.name = importing.name + 1
        /\ importing'.kind = importing.kind /\ importing' # Idle
        /\ importing' \in [at : {"copy", "stage", "install"}, f : DOMAIN folders, name : Nat, kind : Kinds]
    <3>1. importing.name + 1 \in Nat
      BY <1>3
    <3>2. importing' = [importing EXCEPT !.at = "install", !.name = importing.name + 1]
      BY <1>7
    <3> QED BY <1>3, <3>1, <3>2 DEF Idle
  <2>4. staging' = (staging \ {Staged}) \cup {file}
    BY <1>7, <2>1 DEF Exchange
  <2>5. Own(file)'
    BY <1>4, <1>5, <1>7, <2>2, <2>3 DEF Own, Whole
  <2>6. file.name = 2 * imports /\ importing.name = 2 * imports - 1 /\ importing'.name = file.name
    BY <1>5, <2>2, <2>3
  <2> QED BY <1>2, <1>4, <1>7, <2>2, <2>3, <2>4, <2>5, <2>6, GoesOn
<1>8. CASE /\ importing.kind # "container" /\ failures' = failures
           /\ importing' = [importing EXCEPT !.at = "install"] /\ staging' = staging
  <2>1. PICK file : file = Staged
    OBVIOUS
  <2>2. /\ importing'.at = "install" /\ importing'.name = importing.name
        /\ importing'.kind = importing.kind /\ importing' # Idle
        /\ importing' \in [at : {"copy", "stage", "install"}, f : DOMAIN folders, name : Nat, kind : Kinds]
    BY <1>3, <1>8 DEF Idle
  <2>3. staging' = (staging \ {Staged}) \cup {file}
    BY <1>3, <1>8, <2>1
  <2>4. Staged.tagged = (Staged.kind = "container")
    BY <1>3, <1>5, <1>8 DEF StagedFile
  <2>5. Own(file)'
    BY <1>4, <1>5, <2>1, <2>2, <2>4 DEF Own, Whole
  <2> QED BY <1>2, <1>3, <1>4, <1>5, <1>8, <2>1, <2>2, <2>3, <2>5, GoesOn
<1> QED BY <1>6, <1>7, <1>8 DEF Stage

LEMMA InstallImportKeeps ==
  ASSUME BackupConstants, BackupInv, InstallImport
  PROVE  BackupInv'
<1>1. importing.at = "install" /\ importing' = Idle
  BY DEF InstallImport
<1>2. importing # Idle
  BY <1>1 DEF Idle
<1>3. Staged \in staging /\ Own(Staged) /\ Staged \in StagedFile
  BY <1>2, StagedIs
<1>4. Whole(Staged.data) /\ Staged.tagged = (Staged.kind = "container")
  BY <1>1, <1>3 DEF Own
<1>5. UNCHANGED <<folders, exporting, artifacts, imports>>
  BY DEF InstallImport
<1> DEFINE new == [kind |-> Staged.kind, data |-> Staged.data, tagged |-> Staged.tagged,
                   file |-> IF Staged.kind = "vm" THEN Staged.name ELSE 0]
<1>6. CASE /\ recorded' = recorded \cup {new}
           /\ IF Staged.kind = "vm" THEN UNCHANGED staging ELSE Exchange({})
           /\ UNCHANGED <<failures, stranded>>
  <2>1. ImportsWhatWasExported'
    BY <1>4, <1>6 DEF BackupInv, ImportsWhatWasExported, Whole
  <2>2. CASE Staged.kind = "vm"
    <3>1. new.file = Staged.name /\ new \in recorded' /\ staging' = staging
      BY <1>6, <2>2
    <3> HIDE DEF new
    <3>2. \E r \in recorded' : r.file = Staged.name
      BY <3>1
    <3> QED BY <1>1, <1>2, <1>5, <1>6, <2>1, <3>1, <3>2, Ends
  <2>3. CASE Staged.kind # "vm"
    <3>1. staging' = staging \ {Staged}
      BY <1>6, <2>3 DEF Exchange
    <3> HIDE DEF new
    <3> QED BY <1>1, <1>2, <1>5, <1>6, <2>1, <3>1, Ends
  <2> QED BY <2>2, <2>3
<1>7. CASE /\ Fail /\ UNCHANGED recorded
           /\ \/ Exchange({}) /\ UNCHANGED stranded
              \/ stranded' = stranded \cup {<<"staged", Staged.name>>} /\ UNCHANGED staging
  <2>1. ImportsWhatWasExported'
    BY <1>7 DEF BackupInv, ImportsWhatWasExported
  <2>2. /\ stranded \subseteq stranded' /\ recorded \subseteq recorded'
        /\ \/ staging' = staging \ {Staged}
           \/ staging' = staging /\ <<"staged", Staged.name>> \in stranded'
    BY <1>7 DEF Exchange
  <2> QED BY <1>1, <1>2, <1>5, <1>7, <2>1, <2>2, Ends
<1> QED BY <1>6, <1>7 DEF InstallImport

LEMMA CrashKeeps ==
  ASSUME BackupConstants, BackupInv, Crash
  PROVE  BackupInv'
<1>1. /\ exporting' = Idle /\ importing' = Idle /\ Fail
      /\ UNCHANGED <<folders, artifacts, staging, recorded, imports>>
      /\ stranded \subseteq stranded'
      /\ \A s \in staging : <<"staged", s.name>> \in stranded'
      /\ \A f \in artifacts : <<"artifact", f>> \in stranded'
  BY DEF Crash
<1>2. failures' \in 0..MaxFailures
  BY <1>1, FailCounts
<1>3. BackupShape'
  BY <1>1, <1>2 DEF BackupInv, BackupShape
<1>4. FoldersInv'
  BY <1>1 DEF BackupInv, FoldersInv, ManifestVouches
<1>5. StagingInv'
  BY <1>1 DEF BackupInv, BackupShape, StagingInv
<1>6. ArtifactsInv'
  BY <1>1 DEF ArtifactsInv
<1>7. ImportsWhatWasExported'
  BY <1>1 DEF BackupInv, ImportsWhatWasExported
<1> QED BY <1>3, <1>4, <1>5, <1>6, <1>7 DEF BackupInv

\* For any number of backups, imports and failures: a folder with a manifest that nobody has
\* damaged holds the whole payload, an import takes only what was exported, and nothing staged
\* stays behind but what was left by a crash, a removal that failed or an export that could not
\* look for the TPM state in its artifact (local_backup.rs).
THEOREM BackupWhole ==
  ASSUME BackupConstants
  PROVE  BackupSpec => [](BackupType /\ ManifestVouches /\ ImportsWhatWasExported /\ StagingCleared)
<1>1. BackupInit => BackupInv
  BY BackupInitial
<1>2. BackupInv /\ [BackupNext]_backupVars => BackupInv'
  <2> SUFFICES ASSUME BackupInv, [BackupNext]_backupVars PROVE BackupInv'
    OBVIOUS
  <2>1. CASE UNCHANGED backupVars
    BY <2>1 DEF backupVars, BackupInv, BackupShape, FoldersInv, StagingInv, Own, ArtifactsInv,
       ManifestVouches, ImportsWhatWasExported
  <2>2. CASE BackupNext
    BY <2>2, ExportKeeps, InspectKeeps, CopyOutKeeps, EndExportKeeps, ImportKeeps, DamageKeeps, CopyInKeeps,
       VerifyKeeps, StageKeeps, InstallImportKeeps, CrashKeeps DEF BackupNext
  <2> QED BY <2>1, <2>2
<1>3. BackupInv => BackupType /\ ManifestVouches /\ ImportsWhatWasExported /\ StagingCleared
  <2> SUFFICES ASSUME BackupInv PROVE BackupType /\ ManifestVouches /\ ImportsWhatWasExported /\ StagingCleared
    OBVIOUS
  <2>1. ManifestVouches /\ ImportsWhatWasExported
    BY DEF BackupInv, FoldersInv
  <2>2. StagingCleared
    BY DEF BackupInv, StagingInv, ArtifactsInv, StagingCleared
  <2>3. BackupType
    <3>1. \A f \in DOMAIN folders : folders[f].kind \in Kinds /\ Len(folders[f].payload) <= 2
      BY PayloadIs, FolderIs
    <3>2. \A s \in staging : s.name \in 1..(2 * MaxImports) /\ s.kind \in Kinds /\ s.tagged \in BOOLEAN
      <4> SUFFICES ASSUME NEW s \in staging
                   PROVE  s.name \in 1..(2 * MaxImports) /\ s.kind \in Kinds /\ s.tagged \in BOOLEAN
        OBVIOUS
      <4>1. s.name \in Nat /\ s.kind \in Kinds /\ s.tagged \in BOOLEAN
        BY DEF BackupInv, BackupShape, StagedFile
      <4>2. 1 <= s.name /\ s.name <= 2 * imports
        BY DEF BackupInv, StagingInv
      <4>3. imports \in Nat /\ imports <= MaxImports /\ MaxImports \in Nat
        BY DEF BackupInv, BackupShape, BackupConstants
      <4> QED BY <4>1, <4>2, <4>3
    <3> QED BY <3>1, <3>2 DEF BackupInv, BackupShape, BackupType
  <2> QED BY <2>1, <2>2, <2>3
<1> QED BY <1>1, <1>2, <1>3, PTL DEF BackupSpec

-------------------------------------------------------------------------------
(* Snapshots, their retention and their backups (Snapshots).                     *)
FileKind == {"none", "local", "restore"}

\* The environment of each snapshot never changes; own says which it is.
Owners == [1..MaxSnaps -> Process]
RecordOf(own) ==
    {r \in [id : 1..Made, env : Env, inner : BOOLEAN, file : FileKind] :
        own[r.id] = r.env /\ (Kind[r.env] = "container" => r.file = "local" /\ ~r.inner)}
RunOf(own) ==
    {r \in [id : 1..Made, env : Env, status : {"running", "complete", "failed"}] : own[r.id] = r.env}
OwnRecord(own, p) == {r \in RecordOf(own) : r.env = p}

NewJob(own, p)    == [do : {"new"}, rec : OwnRecord(own, p), backup : BOOLEAN]
UploadJob(own, p) == [do : {"backup"}, at : {"open", "chunks"}, rec : OwnRecord(own, p),
                      todo : SUBSET (UNION Images)]
ResultJob(own, p) == [do : {"backup"}, at : {"record"}, ok : BOOLEAN, rec : OwnRecord(own, p)]
EraseJob(own)     == [do : {"retain", "delete"}, at : {"erase", "drop"}, rec : RecordOf(own)]
PersistJob(own, p) ==
    {d \in [do : {"persist"}, rec : OwnRecord(own, p)] :
        ~d.rec.inner /\ d.rec.file = IF Kind[p] = "container" THEN "local" ELSE "restore"}
Job(own, p) ==
    {Available, Retain} \cup EraseJob(own)
      \cup (IF p \in Env THEN NewJob(own, p) \cup UploadJob(own, p) \cup ResultJob(own, p)
                              \cup PersistJob(own, p)
            ELSE {})

SnapshotsShape(own) ==
    /\ image \in Seq(Images) /\ Made <= MaxSnaps
    /\ snaps \in Seq(RecordOf(own)) /\ runs \in Seq(RunOf(own)) /\ Len(runs) <= MaxHistory
    /\ stored \subseteq {"inner", "local", "restore"} \X (1..Made)
    /\ download = Nothing \/ (download \in [id : 1..Made, env : Env] /\ own[download.id] = download.env)
    /\ DOMAIN doing = Process /\ \A p \in Process : doing[p] \in Job(own, p)
    /\ faulted \in 0..MaxFaults /\ asked \in 0..MaxCommands
ShapeInv == \E own \in Owners : SnapshotsShape(own)

\* A manifest is there after its chunks, and a run is complete after its manifest.
RemoteInv ==
    /\ remote = [chunks |-> remote.chunks, manifests |-> remote.manifests]
    /\ remote.manifests \subseteq 1..Made
    /\ \A n \in remote.manifests : image[n] \subseteq remote.chunks
    /\ \A i \in DOMAIN runs : runs[i].status = "complete" => runs[i].id \in remote.manifests
UploadInv ==
    \A e \in Env : doing[e].do = "backup" =>
       /\ doing[e].at # "record" => image[doing[e].rec.id] \ doing[e].todo \subseteq remote.chunks
       /\ doing[e].at = "record" /\ doing[e].ok => doing[e].rec.id \in remote.manifests

\* What is stored and not yet recorded is what a command is about.
HasRecord(p) == doing[p].do # "free" /\ doing[p] # Retain
InFlight(x) ==
    \/ \E p \in Process : doing[p].do \in {"new", "persist"} /\ x \in Data(doing[p].rec)
    \/ download # Nothing /\ x = <<"restore", download.id>>
IsOwned(x) == \E i \in DOMAIN snaps : x \in Data(snaps[i])
OwnedInv == \A x \in stored : IsOwned(x) \/ x \in leaked \/ InFlight(x)

\* A snapshot that is being taken has its data, and nobody else knows of it.
NewInv ==
    \A e \in Env : doing[e].do = "new" =>
       LET rec == doing[e].rec IN
       /\ Data(rec) \subseteq stored
       /\ \A i \in DOMAIN snaps : snaps[i].id # rec.id
       /\ \A i \in DOMAIN runs : runs[i].id # rec.id
       /\ download # Nothing => download.id # rec.id
       /\ \A p \in Process \ {e} : HasRecord(p) => doing[p].rec.id # rec.id

SnapshotsInv == ShapeInv /\ RemoteInv /\ UploadInv /\ OwnedInv /\ NewInv /\ RecordsHaveData

-----------------------------------------------------------------------------
\* < as a relation.
Below == {p \in Nat \X Nat : p[1] < p[2]}

\* A set of natural numbers that is not empty has a least element.
LEMMA FirstExists ==
  ASSUME NEW T \in SUBSET Nat, T # {}
  PROVE  \E x \in T : \A y \in T : x <= y
<1>1. OpToRel(<,Nat) = Below
  BY Zenon DEF OpToRel, Below
<1>2. IsWellFoundedOn(Below, Nat)
  BY <1>1, NatLessThanWellFounded, Zenon
<1>3. PICK x \in T : \A y \in T : ~(<<y, x>> \in Below)
  BY <1>2, WFMin
<1>4. ASSUME NEW y \in T PROVE x <= y
  <2>1. ~(<<y, x>> \in Below)
    BY <1>3
  <2> QED BY <2>1 DEF Below
<1> QED BY <1>4

\* The recursive function in Without exists.
LEMMA KeptIs ==
  ASSUME NEW R, NEW s \in Seq(R), NEW n
  PROVE  \E g : /\ g[0] = <<>> /\ Without(s, n) = g[Len(s)]
                /\ \A i \in 1..Len(s) : g[i] = IF s[i].id = n THEN g[i - 1] ELSE Append(g[i - 1], s[i])
<1> DEFINE L == Len(s)
           Next1(g, i) == IF i = 0 THEN <<>> ELSE IF s[i].id = n THEN g[i - 1] ELSE Append(g[i - 1], s[i])
           Rec(g, m) == g = [i \in 0..m |-> Next1(g, i)]
           bad == {m \in 0..L : ~ \E g : Rec(g, m)}
<1>0. L \in Nat
  OBVIOUS
<1>1. bad = {}
  <2> SUFFICES ASSUME bad # {} PROVE FALSE
    OBVIOUS
  <2>1. PICK m \in bad : \A k \in bad : m <= k
    <3>1. bad \in SUBSET Nat
      BY <1>0
    <3> HIDE DEF bad
    <3> QED BY <3>1, FirstExists
  <2>2. m # 0
    <3> DEFINE g == [i \in 0..0 |-> <<>>]
    <3>1. Rec(g, 0)
      OBVIOUS
    <3> QED BY <3>1, <2>1
  <2>3. m \in 0..L
    OBVIOUS
  <2>4. PICK g : Rec(g, m - 1)
    <3>1. m - 1 \in 0..L /\ m - 1 \notin bad
      <4> HIDE DEF bad, L
      <4> QED BY <1>0, <2>1, <2>2, <2>3
    <3> HIDE DEF Rec
    <3> QED BY <3>1
  <2> DEFINE h == [i \in 0..m |-> Next1(g, i)]
  <2>5. \A i \in 0..(m - 1) : h[i] = g[i]
    <3>1. \A i \in 0..(m - 1) : g[i] = Next1(g, i) /\ i \in 0..m
      <4> HIDE DEF Next1, L
      <4> QED BY <1>0, <2>3, <2>4
    <3> HIDE DEF Next1
    <3> QED BY <3>1
  <2>6. \A i \in 0..m : i # 0 => i - 1 \in 0..(m - 1)
    BY <2>1, <1>0
  <2>7. Rec(h, m)
    <3>1. \A i \in 0..m : Next1(g, i) = Next1(h, i)
      <4> HIDE DEF h
      <4> QED BY <2>5, <2>6
    <3> HIDE DEF Next1
    <3> QED BY <3>1
  <2> QED BY <2>7, <2>1
<1>2. \E g : Rec(g, L)
  <2>1. L \in 0..L
    BY <1>0
  <2> HIDE DEF Rec, L
  <2> QED BY <1>1, <2>1
<1> DEFINE g == CHOOSE g : Rec(g, L)
<1>3. Rec(g, L) /\ Without(s, n) = g[L]
  BY <1>2, Zenon DEF Without
<1> HIDE DEF g
<1>4. g[0] = <<>> /\ \A i \in 1..L : g[i] = IF s[i].id = n THEN g[i - 1] ELSE Append(g[i - 1], s[i])
  <2>1. \A i \in 0..L : g[i] = Next1(g, i)
    <3> HIDE DEF Next1, L
    <3> QED BY <1>3
  <2>2. 0 \in 0..L /\ \A i \in 1..L : i \in 0..L /\ i # 0
    BY <1>0
  <2> QED BY <2>1, <2>2
<1> QED BY <1>3, <1>4

\* w is s without the records of snapshot n.
Leaves(s, n, w) ==
    /\ \A j \in 1..Len(w) : \E i \in 1..Len(s) : w[j] = s[i] /\ s[i].id # n
    /\ \A i \in 1..Len(s) : s[i].id # n => \E j \in 1..Len(w) : w[j] = s[i]

\* The elements that are left, and only those.
LEMMA WithoutIs ==
  ASSUME NEW R, NEW s \in Seq(R), NEW n
  PROVE  Without(s, n) \in Seq(R) /\ Leaves(s, n, Without(s, n))
<1>1. PICK g : /\ g[0] = <<>> /\ Without(s, n) = g[Len(s)]
               /\ \A i \in 1..Len(s) : g[i] = IF s[i].id = n THEN g[i - 1] ELSE Append(g[i - 1], s[i])
  BY KeptIs
<1> DEFINE Good(m) ==
      /\ g[m] \in Seq(R)
      /\ \A j \in 1..Len(g[m]) : \E i \in 1..m : g[m][j] = s[i] /\ s[i].id # n
      /\ \A i \in 1..m : s[i].id # n => \E j \in 1..Len(g[m]) : g[m][j] = s[i]
           bad == {m \in 0..Len(s) : ~Good(m)}
<1>2. bad = {}
  <2> SUFFICES ASSUME bad # {} PROVE FALSE
    OBVIOUS
  <2>1. PICK m \in bad : \A k \in bad : m <= k
    <3>1. bad \in SUBSET Nat
      OBVIOUS
    <3> HIDE DEF bad
    <3> QED BY <3>1, FirstExists
  <2>2. m # 0
    <3>1. Good(0)
      BY <1>1
    <3> QED BY <3>1, <2>1
  <2>3. m \in 1..Len(s) /\ m - 1 \in 0..Len(s) /\ m - 1 \notin bad
    BY <2>1, <2>2
  <2>4. Good(m - 1) /\ s[m] \in R
    BY <2>3
  <2>5. CASE s[m].id = n
    <3>1. g[m] = g[m - 1]
      BY <1>1, <2>3, <2>5
    <3>2. \A i \in 1..m : i # m => i \in 1..(m - 1)
      BY <2>3
    <3>3. g[m] \in Seq(R)
      BY <2>4, <3>1
    <3>4. ASSUME NEW j \in 1..Len(g[m]) PROVE \E i \in 1..m : g[m][j] = s[i] /\ s[i].id # n
      <4>1. PICK i \in 1..(m - 1) : g[m][j] = s[i] /\ s[i].id # n
        BY <2>4, <3>1
      <4>2. i \in 1..m
        BY <2>3
      <4> QED BY <4>1, <4>2
    <3>5. ASSUME NEW i \in 1..m, s[i].id # n PROVE \E j \in 1..Len(g[m]) : g[m][j] = s[i]
      <4>1. i \in 1..(m - 1)
        BY <2>5, <3>2, <3>5
      <4> QED BY <2>4, <3>1, <3>5, <4>1
    <3>6. Good(m)
      BY <3>3, <3>4, <3>5
    <3> QED BY <3>6, <2>1
  <2>6. CASE s[m].id # n
    <3> DEFINE old == g[m - 1]
    <3>1. g[m] = Append(old, s[m])
      BY <1>1, <2>3, <2>6
    <3>2. /\ g[m] \in Seq(R) /\ Len(g[m]) = Len(old) + 1 /\ g[m][Len(old) + 1] = s[m] /\ Len(old) \in Nat
          /\ \A j \in 1..Len(old) : g[m][j] = old[j]
      BY <3>1, <2>4, SMTT(30)
    <3>3. ASSUME NEW j \in 1..Len(g[m]) PROVE \E i \in 1..m : g[m][j] = s[i] /\ s[i].id # n
      <4>1. CASE j = Len(old) + 1
        BY <2>3, <2>6, <3>2, <4>1
      <4>2. CASE j \in 1..Len(old)
        <5>1. PICK i \in 1..(m - 1) : old[j] = s[i] /\ s[i].id # n
          BY <2>4, <4>2
        <5>2. i \in 1..m
          BY <2>3
        <5> QED BY <3>2, <4>2, <5>1, <5>2
      <4> QED BY <3>2, <4>1, <4>2
    <3>4. ASSUME NEW i \in 1..m, s[i].id # n PROVE \E j \in 1..Len(g[m]) : g[m][j] = s[i]
      <4>1. CASE i = m
        <5>1. Len(old) + 1 \in 1..Len(g[m])
          BY <3>2
        <5> QED BY <3>2, <4>1, <5>1
      <4>2. CASE i # m
        <5>1. i \in 1..(m - 1)
          BY <2>3, <4>2
        <5>2. PICK j \in 1..Len(old) : old[j] = s[i]
          BY <2>4, <3>4, <5>1
        <5>3. j \in 1..Len(g[m])
          BY <3>2
        <5> QED BY <3>2, <5>2, <5>3
      <4> QED BY <4>1, <4>2
    <3>5. Good(m)
      BY <3>2, <3>3, <3>4
    <3> QED BY <3>5, <2>1
  <2> QED BY <2>5, <2>6
<1>3. Good(Len(s))
  <2>1. Len(s) \in 0..Len(s)
    OBVIOUS
  <2> HIDE DEF Good
  <2> QED BY <1>2, <2>1
<1> QED BY <1>1, <1>3 DEF Leaves

-----------------------------------------------------------------------------
LEMMA DataIs ==
  ASSUME NEW rec, NEW x
  PROVE  x \in Data(rec) <=> \/ rec.inner /\ x = <<"inner", rec.id>>
                             \/ rec.file # "none" /\ x = <<rec.file, rec.id>>
  BY DEF Data, Inner, File

LEMMA DataApart ==
  ASSUME NEW r, NEW t, r.id # t.id, NEW x \in Data(r)
  PROVE  x \notin Data(t)
<1>1. x = <<"inner", r.id>> \/ x = <<r.file, r.id>>
  BY DataIs
<1>2. x \in Data(t) => x = <<"inner", t.id>> \/ x = <<t.file, t.id>>
  BY DataIs
<1> QED BY <1>1, <1>2

LEMMA OwnedIs == \A x : x \in Owned <=> IsOwned(x)
  BY DEF Owned, IsOwned

Dropping(p) == doing[p].do \in {"retain", "delete"} /\ doing[p].at = "drop"
LEMMA ErasingIs == \A n : n \in Erasing <=> \E p \in Process : Dropping(p) /\ n = doing[p].rec.id
  BY DEF Erasing, Dropping

\* What a process is about.
LEMMA JobIs ==
  ASSUME NEW own \in Owners, NEW p \in Process, NEW d \in Job(own, p)
  PROVE  /\ d.do \in {"free", "new", "backup", "retain", "delete", "persist"}
         /\ d.do = "free" => d = Available
         /\ d.do = "new" => p \in Env /\ d \in NewJob(own, p)
         /\ d.do = "backup" => p \in Env /\ (d \in UploadJob(own, p) \/ d \in ResultJob(own, p))
         /\ d.do \in {"retain", "delete"} => d = Retain \/ d \in EraseJob(own)
         /\ d.do = "persist" => p \in Env /\ d \in PersistJob(own, p)
<1>1. d = Available \/ d = Retain \/ d \in EraseJob(own)
      \/ (p \in Env /\ (d \in NewJob(own, p) \/ d \in UploadJob(own, p) \/ d \in ResultJob(own, p)
                        \/ d \in PersistJob(own, p)))
  BY DEF Job
<1>2. CASE d = Available
  BY <1>2 DEF Available
<1>3. CASE d = Retain
  BY <1>3 DEF Retain
<1>4. CASE d \in EraseJob(own)
  BY <1>4 DEF EraseJob
<1>5. CASE p \in Env /\ d \in NewJob(own, p)
  BY <1>5 DEF NewJob
<1>6. CASE p \in Env /\ d \in UploadJob(own, p)
  BY <1>6 DEF UploadJob
<1>7. CASE p \in Env /\ d \in ResultJob(own, p)
  BY <1>7 DEF ResultJob
<1>8. CASE p \in Env /\ d \in PersistJob(own, p)
  BY <1>8 DEF PersistJob
<1> QED BY <1>1, <1>2, <1>3, <1>4, <1>5, <1>6, <1>7, <1>8

\* The record a process has is one of the snapshots taken.
LEMMA JobRecord ==
  ASSUME NEW own \in Owners, NEW p \in Process, NEW d \in Job(own, p), d.do # "free", d # Retain
  PROVE  d.rec \in RecordOf(own)
<1>1. CASE d \in EraseJob(own)
  BY <1>1 DEF EraseJob
<1>2. CASE d \in NewJob(own, p)
  BY <1>2 DEF NewJob, OwnRecord
<1>3. CASE d \in UploadJob(own, p)
  BY <1>3 DEF UploadJob, OwnRecord
<1>4. CASE d \in ResultJob(own, p)
  BY <1>4 DEF ResultJob, OwnRecord
<1>5. CASE d \in PersistJob(own, p)
  BY <1>5 DEF PersistJob, OwnRecord
<1> QED BY <1>1, <1>2, <1>3, <1>4, <1>5, JobIs

LEMMA RecordIs ==
  ASSUME NEW own, NEW r \in RecordOf(own)
  PROVE  /\ r.id \in 1..Made /\ r.env \in Env /\ r.inner \in BOOLEAN /\ r.file \in FileKind
         /\ own[r.id] = r.env /\ (Kind[r.env] = "container" => r.file = "local" /\ ~r.inner)
  BY DEF RecordOf

\* Nothing is said of the images: the sets are what they were.
LEMMA SameSets ==
  ASSUME image' = image, NEW own
  PROVE  /\ Made' = Made /\ RecordOf(own)' = RecordOf(own) /\ RunOf(own)' = RunOf(own)
         /\ \A p \in Process : Job(own, p)' = Job(own, p)
<1>1. Made' = Made
  BY DEF Made
<1>2. RecordOf(own)' = RecordOf(own) /\ RunOf(own)' = RunOf(own)
  BY <1>1 DEF RecordOf, RunOf
<1>3. ASSUME NEW p \in Process PROVE Job(own, p)' = Job(own, p)
  <2>1. OwnRecord(own, p)' = OwnRecord(own, p)
    BY <1>2 DEF OwnRecord
  <2> QED BY <1>2, <2>1 DEF Job, EraseJob, NewJob, UploadJob, ResultJob, PersistJob
<1> QED BY <1>1, <1>2, <1>3

LEMMA SnapshotsInitial ==
  ASSUME SnapshotsConstants, SnapshotsInit
  PROVE  SnapshotsInv
<1> DEFINE own == [n \in 1..MaxSnaps |-> User]
<1>1. own \in Owners
  BY DEF Owners, Process
<1>2. Made = 0 /\ image \in Seq(Images)
  BY DEF SnapshotsInit, Made
<1> HIDE DEF own
<1>3. SnapshotsShape(own)
  <2>1. snaps \in Seq(RecordOf(own)) /\ runs \in Seq(RunOf(own)) /\ Len(runs) = 0
    BY DEF SnapshotsInit
  <2>2. DOMAIN doing = Process /\ \A p \in Process : doing[p] \in Job(own, p)
    BY DEF SnapshotsInit, Job
  <2> QED BY <1>2, <2>1, <2>2 DEF SnapshotsInit, SnapshotsShape, SnapshotsConstants
<1>4. RemoteInv
  BY DEF SnapshotsInit, RemoteInv
<1>5. \A p \in Process : doing[p].do = "free"
  BY DEF SnapshotsInit, Available
<1>6. UploadInv /\ OwnedInv /\ NewInv /\ RecordsHaveData
  BY <1>5 DEF SnapshotsInit, UploadInv, OwnedInv, NewInv, RecordsHaveData, Process
<1> QED BY <1>1, <1>3, <1>4, <1>6 DEF SnapshotsInv, ShapeInv

-----------------------------------------------------------------------------
LEMMA CountersStep ==
  ASSUME SnapshotsConstants, NEW own, SnapshotsShape(own), faulted' = faulted \/ Fault, asked' = asked \/ Ask
  PROVE  faulted' \in 0..MaxFaults /\ asked' \in 0..MaxCommands
  BY DEF SnapshotsConstants, SnapshotsShape, Fault, Ask

LEMMA OneJob ==
  ASSUME NEW own, SnapshotsShape(own), NEW p \in Process, NEW d \in Job(own, p),
         doing' = [doing EXCEPT ![p] = d]
  PROVE  /\ DOMAIN doing' = Process /\ doing'[p] = d
         /\ \A q \in Process \ {p} : doing'[q] = doing[q]
         /\ \A q \in Process : doing'[q] \in Job(own, q)
<1>1. DOMAIN doing = Process /\ \A q \in Process : doing[q] \in Job(own, q)
  BY DEF SnapshotsShape
<1>2. DOMAIN doing' = Process /\ doing'[p] = d /\ \A q \in Process \ {p} : doing'[q] = doing[q]
  BY <1>1
<1> QED BY <1>1, <1>2

\* A step that takes no new snapshot.
LEMMA ShapeStep ==
  ASSUME NEW own \in Owners, SnapshotsShape(own), image' = image,
         snaps' \in Seq(RecordOf(own)), runs' \in Seq(RunOf(own)), Len(runs') <= MaxHistory,
         stored' \subseteq {"inner", "local", "restore"} \X (1..Made),
         download' = Nothing \/ (download' \in [id : 1..Made, env : Env] /\ own[download'.id] = download'.env),
         DOMAIN doing' = Process, \A p \in Process : doing'[p] \in Job(own, p),
         faulted' \in 0..MaxFaults, asked' \in 0..MaxCommands
  PROVE  ShapeInv'
<1>1. Made' = Made /\ RecordOf(own)' = RecordOf(own) /\ RunOf(own)' = RunOf(own)
  BY SameSets
<1>2. \A p \in Process : doing'[p] \in Job(own, p)'
  BY SameSets
<1>3. image \in Seq(Images) /\ Made <= MaxSnaps
  BY DEF SnapshotsShape
<1>4. SnapshotsShape(own)'
  BY <1>1, <1>2, <1>3 DEF SnapshotsShape
<1>5. \A t \in Owners : SnapshotsShape(t)' => ShapeInv'
  BY DEF ShapeInv, Owners
<1> QED BY <1>4, <1>5

\* A step that leaves the records and their data alone.
LEMMA QuietStep ==
  ASSUME NEW own \in Owners, SnapshotsShape(own), OwnedInv, NewInv, RecordsHaveData,
         NEW p \in Process, NEW d \in Job(own, p), doing' = [doing EXCEPT ![p] = d],
         UNCHANGED <<snaps, stored, download, leaked, hollow>>,
         \A i \in DOMAIN runs' : \E j \in DOMAIN runs : runs'[i].id = runs[j].id,
         doing[p].do \notin {"new", "persist"}, ~Dropping(p),
         d.do \notin {"new", "persist"}, ~(d.do \in {"retain", "delete"} /\ d.at = "drop"),
         d.do # "free" /\ d # Retain =>
            \A e \in Env : doing[e].do = "new" => doing[e].rec.id # d.rec.id
  PROVE  OwnedInv' /\ NewInv' /\ RecordsHaveData'
<1>1. doing'[p] = d /\ \A q \in Process \ {p} : doing'[q] = doing[q]
  BY OneJob
<1>2. OwnedInv'
  <2> SUFFICES ASSUME NEW x \in stored' PROVE IsOwned(x)' \/ x \in leaked' \/ InFlight(x)'
    BY DEF OwnedInv
  <2>1. CASE IsOwned(x)
    BY <2>1 DEF IsOwned
  <2>2. CASE InFlight(x)
    BY <1>1, <2>2 DEF InFlight
  <2> QED BY <2>1, <2>2 DEF OwnedInv
<1>3. NewInv'
  <2> SUFFICES ASSUME NEW e \in Env, doing'[e].do = "new"
               PROVE  LET rec == doing'[e].rec IN
                      /\ Data(rec) \subseteq stored'
                      /\ \A i \in DOMAIN snaps' : snaps'[i].id # rec.id
                      /\ \A i \in DOMAIN runs' : runs'[i].id # rec.id
                      /\ download' # Nothing => download'.id # rec.id
                      /\ \A q \in Process \ {e} : HasRecord(q)' => doing'[q].rec.id # rec.id
    BY DEF NewInv, Data, Inner, File
  <2>1. e # p /\ e \in Process /\ doing'[e] = doing[e]
    BY <1>1 DEF Process
  <2>2. ASSUME NEW q \in Process \ {e}, HasRecord(q)' PROVE doing'[q].rec.id # doing[e].rec.id
    <3>1. CASE q = p
      BY <1>1, <2>1, <2>2, <3>1 DEF HasRecord
    <3>2. CASE q # p
      BY <1>1, <2>1, <2>2, <3>2 DEF HasRecord, NewInv
    <3> QED BY <3>1, <3>2
  <2> QED BY <2>1, <2>2 DEF NewInv
<1>4. RecordsHaveData'
  <2>1. ASSUME NEW n, n \in Erasing PROVE n \in Erasing'
    <3>1. PICK q \in Process : Dropping(q) /\ n = doing[q].rec.id
      BY <2>1, ErasingIs
    <3>2. q # p /\ doing'[q] = doing[q]
      BY <1>1, <3>1
    <3>3. Dropping(q)' /\ n = doing'[q].rec.id
      BY <3>1, <3>2 DEF Dropping
    <3> QED BY <3>3 DEF Erasing, Dropping
  <2> QED BY <2>1 DEF RecordsHaveData, Data, Inner, File
<1> QED BY <1>2, <1>3, <1>4

-----------------------------------------------------------------------------
\* The invariant with the owners named.
LEMMA Unfold ==
  ASSUME SnapshotsInv
  PROVE  \E own \in Owners : SnapshotsShape(own)
  BY DEF SnapshotsInv, ShapeInv

\* A step of an upload: the store of objects only grows.
LEMMA UploadStep ==
  ASSUME SnapshotsConstants, SnapshotsInv, NEW own \in Owners, SnapshotsShape(own), NEW e \in Env, NEW d,
         doing[e].do = "backup", doing' = [doing EXCEPT ![e] = d],
         d = Retain \/ (d \in UploadJob(own, e) \cup ResultJob(own, e) /\ d.rec = doing[e].rec),
         UNCHANGED <<snaps, stored, image, download, leaked, hollow, asked>>, faulted' = faulted \/ Fault,
         runs' \in Seq(RunOf(own)), Len(runs') <= MaxHistory,
         \A i \in DOMAIN runs' : \E j \in DOMAIN runs : runs'[i].id = runs[j].id,
         RemoteInv', remote.chunks \subseteq remote'.chunks, remote.manifests \subseteq remote'.manifests,
         d \in UploadJob(own, e) => image[d.rec.id] \ d.todo \subseteq remote'.chunks,
         d \in ResultJob(own, e) /\ d.ok => d.rec.id \in remote'.manifests
  PROVE  SnapshotsInv'
<1>1. e \in Process /\ d \in Job(own, e)
  BY DEF Process, Job
<1>2. d.do \in {"backup", "retain"} /\ (d.do = "retain" => d = Retain) /\ (d = Retain => d.do = "retain" /\ d.at = "pick")
  BY DEF Retain, UploadJob, ResultJob
<1>3. /\ DOMAIN doing' = Process /\ doing'[e] = d
      /\ \A q \in Process \ {e} : doing'[q] = doing[q]
      /\ \A q \in Process : doing'[q] \in Job(own, q)
  BY <1>1, OneJob
<1>4. HasRecord(e)
  BY DEF HasRecord, Retain
<1>5. d.do # "free" /\ d # Retain =>
            \A f \in Env : doing[f].do = "new" => doing[f].rec.id # d.rec.id
  <2> SUFFICES ASSUME d # Retain, NEW f \in Env, doing[f].do = "new" PROVE doing[f].rec.id # d.rec.id
    OBVIOUS
  <2>1. f # e /\ e \in Process \ {f} /\ d.rec = doing[e].rec
    BY <1>1
  <2> QED BY <1>4, <2>1 DEF SnapshotsInv, NewInv
<1>6. OwnedInv' /\ NewInv' /\ RecordsHaveData'
  <2>1. OwnedInv /\ NewInv /\ RecordsHaveData
    BY DEF SnapshotsInv
  <2>2. doing[e].do \notin {"new", "persist"} /\ ~Dropping(e)
    BY DEF Dropping
  <2>3. d.do \notin {"new", "persist"} /\ ~(d.do \in {"retain", "delete"} /\ d.at = "drop")
    BY <1>2
  <2> QED BY <1>1, <1>5, <2>1, <2>2, <2>3, QuietStep
<1>7. UploadInv'
  <2> SUFFICES ASSUME NEW f \in Env, doing'[f].do = "backup"
               PROVE  /\ doing'[f].at # "record" => image'[doing'[f].rec.id] \ doing'[f].todo \subseteq remote'.chunks
                      /\ doing'[f].at = "record" /\ doing'[f].ok => doing'[f].rec.id \in remote'.manifests
    BY DEF UploadInv
  <2>1. CASE f = e
    <3>1. d # Retain
      BY <1>3, <2>1 DEF Retain
    <3>2. CASE d \in UploadJob(own, e)
      <4>1. d.at # "record"
        BY <3>2 DEF UploadJob
      <4> QED BY <1>3, <2>1, <3>2, <4>1
    <3>3. CASE d \in ResultJob(own, e)
      <4>1. d.at = "record"
        BY <3>3 DEF ResultJob
      <4> QED BY <1>3, <2>1, <3>3, <4>1
    <3> QED BY <3>1, <3>2, <3>3
  <2>2. CASE f # e
    <3>1. doing'[f] = doing[f]
      BY <1>3, <2>2 DEF Process
    <3> QED BY <3>1 DEF SnapshotsInv, UploadInv
  <2> QED BY <2>1, <2>2
<1>8. ShapeInv'
  <2>1. faulted' \in 0..MaxFaults /\ asked' \in 0..MaxCommands
    BY CountersStep
  <2>2. /\ snaps' \in Seq(RecordOf(own)) /\ stored' \subseteq {"inner", "local", "restore"} \X (1..Made)
        /\ download' = Nothing \/ (download' \in [id : 1..Made, env : Env] /\ own[download'.id] = download'.env)
    BY DEF SnapshotsShape
  <2> QED BY <1>3, <2>1, <2>2, ShapeStep
<1> QED BY <1>6, <1>7, <1>8 DEF SnapshotsInv

\* The upload that is under way.
LEMMA UploadIs ==
  ASSUME NEW own \in Owners, SnapshotsShape(own), NEW e \in Env, doing[e].do = "backup"
  PROVE  /\ doing[e].at # "record" => doing[e] \in UploadJob(own, e)
         /\ doing[e].at = "record" => doing[e] \in ResultJob(own, e)
         /\ doing[e].rec \in OwnRecord(own, e) /\ e \in Process
<1>1. e \in Process /\ doing[e] \in Job(own, e)
  BY DEF SnapshotsShape, Process
<1>2. doing[e] \in UploadJob(own, e) \/ doing[e] \in ResultJob(own, e)
  BY <1>1, JobIs
<1>3. doing[e] \in UploadJob(own, e) => doing[e].at # "record" /\ doing[e].rec \in OwnRecord(own, e)
  BY DEF UploadJob
<1>4. doing[e] \in ResultJob(own, e) => doing[e].at = "record" /\ doing[e].rec \in OwnRecord(own, e)
  BY DEF ResultJob
<1> QED BY <1>1, <1>2, <1>3, <1>4

\* An upload ends, and says how.
LEMMA ResultIs ==
  ASSUME NEW own \in Owners, SnapshotsShape(own), NEW e \in Env, doing[e].do = "backup", NEW ok \in BOOLEAN,
         Conclude(e, ok)
  PROVE  \E d \in ResultJob(own, e) : /\ doing' = [doing EXCEPT ![e] = d] /\ d.rec = doing[e].rec
                                     /\ d.ok = ok /\ d \notin UploadJob(own, e)
<1> DEFINE d == [do |-> "backup", at |-> "record", ok |-> ok, rec |-> doing[e].rec]
<1>1. doing[e].rec \in OwnRecord(own, e)
  BY UploadIs
<1>2. d \in ResultJob(own, e) /\ d.rec = doing[e].rec /\ d.ok = ok /\ d.at = "record"
  BY <1>1 DEF ResultJob
<1>3. doing' = [doing EXCEPT ![e] = d]
  BY DEF Conclude
<1> HIDE DEF d
<1>4. d \notin UploadJob(own, e)
  BY <1>2 DEF UploadJob
<1> QED BY <1>2, <1>3, <1>4

LEMMA OpenKeeps ==
  ASSUME SnapshotsConstants, SnapshotsInv, NEW e \in Env, Open(e)
  PROVE  SnapshotsInv'
<1>1. PICK own \in Owners : SnapshotsShape(own)
  BY Unfold
<1>2. /\ doing[e].do = "backup" /\ doing[e].at = "open"
      /\ UNCHANGED <<asked, snaps, stored, runs, cloud, faulted, leaked, hollow>>
      /\ doing' = [doing EXCEPT ![e].at = "chunks"] \/ Conclude(e, FALSE)
  BY DEF Open, Uploading
<1>3. /\ runs \in Seq(RunOf(own)) /\ Len(runs) <= MaxHistory /\ RemoteInv
      /\ UNCHANGED <<image, download, remote, runs>>
  BY <1>1, <1>2 DEF SnapshotsShape, SnapshotsInv, cloud
<1>4. RemoteInv'
  BY <1>3 DEF RemoteInv, Made
<1>5. CASE doing' = [doing EXCEPT ![e].at = "chunks"]
  <2>1. PICK d : d = [doing[e] EXCEPT !.at = "chunks"]
    OBVIOUS
  <2>2. doing[e] \in UploadJob(own, e)
    BY <1>1, <1>2, UploadIs
  <2>3. d \in UploadJob(own, e) /\ d.rec = doing[e].rec /\ d.todo = doing[e].todo /\ d.at = "chunks"
    BY <2>1, <2>2 DEF UploadJob
  <2>4. doing' = [doing EXCEPT ![e] = d]
    BY <1>5, <2>1
  <2>5. d \notin ResultJob(own, e)
    BY <2>3 DEF ResultJob
  <2>6. image[d.rec.id] \ d.todo \subseteq remote'.chunks
    BY <1>2, <1>3, <2>3 DEF SnapshotsInv, UploadInv
  <2> QED BY <1>1, <1>2, <1>3, <1>4, <2>3, <2>4, <2>5, <2>6, UploadStep
<1>6. CASE Conclude(e, FALSE)
  <2>1. PICK d \in ResultJob(own, e) : /\ doing' = [doing EXCEPT ![e] = d] /\ d.rec = doing[e].rec
                                       /\ d.ok = FALSE /\ d \notin UploadJob(own, e)
    BY <1>1, <1>2, <1>6, ResultIs
  <2> QED BY <1>1, <1>2, <1>3, <1>4, <2>1, UploadStep
<1> QED BY <1>2, <1>5, <1>6

LEMMA PutChunkKeeps ==
  ASSUME SnapshotsConstants, SnapshotsInv, NEW e \in Env, PutChunk(e)
  PROVE  SnapshotsInv'
<1>1. PICK own \in Owners : SnapshotsShape(own)
  BY Unfold
<1>2. /\ doing[e].do = "backup" /\ doing[e].at = "chunks"
      /\ UNCHANGED <<asked, snaps, stored, image, dest, download, runs, leaked, hollow>>
      /\ runs \in Seq(RunOf(own)) /\ Len(runs) <= MaxHistory /\ RemoteInv
  BY <1>1 DEF PutChunk, Uploading, SnapshotsShape, SnapshotsInv
<1>3. doing[e] \in UploadJob(own, e)
  BY <1>1, <1>2, UploadIs
<1>4. CASE Giving(e)
  <2>1. PICK d \in ResultJob(own, e) : /\ doing' = [doing EXCEPT ![e] = d] /\ d.rec = doing[e].rec
                                       /\ d.ok = FALSE /\ d \notin UploadJob(own, e)
    BY <1>1, <1>2, <1>4, ResultIs DEF Giving
  <2>2. remote' = remote /\ Fault
    BY <1>4 DEF Giving
  <2>3. RemoteInv'
    BY <1>2, <2>2 DEF RemoteInv, Made
  <2> QED BY <1>1, <1>2, <2>1, <2>2, <2>3, UploadStep
<1>5. CASE ~Giving(e)
  <2>1. PICK m : m = Min(doing[e].todo)
    OBVIOUS
  <2>2. /\ remote' = [remote EXCEPT !.chunks = @ \cup {m}] /\ faulted' = faulted
        /\ doing' = [doing EXCEPT ![e].todo = @ \ {m}]
    BY <1>5, <2>1 DEF PutChunk
  <2>3. remote'.chunks = remote.chunks \cup {m} /\ remote'.manifests = remote.manifests
        /\ remote' = [chunks |-> remote'.chunks, manifests |-> remote'.manifests]
    BY <1>2, <2>2 DEF RemoteInv
  <2>4. RemoteInv'
    BY <1>2, <2>3 DEF RemoteInv, Made
  <2>5. PICK d : d = [doing[e] EXCEPT !.todo = doing[e].todo \ {m}]
    OBVIOUS
  <2>6. d \in UploadJob(own, e) /\ d.rec = doing[e].rec /\ d.todo = doing[e].todo \ {m}
    BY <1>3, <2>5 DEF UploadJob
  <2>7. d \notin ResultJob(own, e)
    BY <2>6 DEF UploadJob, ResultJob
  <2>8. doing' = [doing EXCEPT ![e] = d]
    BY <2>2, <2>5
  <2>9. image[d.rec.id] \ d.todo \subseteq remote'.chunks
    BY <1>2, <2>3, <2>6 DEF SnapshotsInv, UploadInv
  <2>10. /\ d \in UploadJob(own, e) \cup ResultJob(own, e) /\ d.rec = doing[e].rec
         /\ remote.chunks \subseteq remote'.chunks /\ remote.manifests \subseteq remote'.manifests
         /\ runs' \in Seq(RunOf(own)) /\ Len(runs') <= MaxHistory /\ faulted' = faulted
         /\ \A i \in DOMAIN runs' : \E j \in DOMAIN runs : runs'[i].id = runs[j].id
    BY <1>2, <2>2, <2>3, <2>6
  <2> QED BY <1>1, <1>2, <2>4, <2>7, <2>8, <2>9, <2>10, UploadStep, ZenonT(60)
<1> QED BY <1>4, <1>5

LEMMA PutManifestKeeps ==
  ASSUME SnapshotsConstants, SnapshotsInv, NEW e \in Env, PutManifest(e)
  PROVE  SnapshotsInv'
<1>1. PICK own \in Owners : SnapshotsShape(own)
  BY Unfold
<1>2. /\ doing[e].do = "backup" /\ doing[e].at = "chunks" /\ doing[e].todo = {}
      /\ UNCHANGED <<asked, snaps, stored, image, dest, download, runs, leaked, hollow>>
      /\ runs \in Seq(RunOf(own)) /\ Len(runs) <= MaxHistory /\ RemoteInv
  BY <1>1 DEF PutManifest, Uploading, SnapshotsShape, SnapshotsInv
<1>3. CASE Conclude(e, FALSE) /\ remote' = remote /\ (faulted' = faulted \/ Fault)
  <2>1. PICK d \in ResultJob(own, e) : /\ doing' = [doing EXCEPT ![e] = d] /\ d.rec = doing[e].rec
                                       /\ d.ok = FALSE /\ d \notin UploadJob(own, e)
    BY <1>1, <1>2, <1>3, ResultIs
  <2>2. RemoteInv'
    BY <1>2, <1>3 DEF RemoteInv, Made
  <2> QED BY <1>1, <1>2, <1>3, <2>1, <2>2, UploadStep
<1>4. CASE ~(Conclude(e, FALSE) /\ remote' = remote /\ (faulted' = faulted \/ Fault))
  <2>1. PICK n : n = doing[e].rec.id
    OBVIOUS
  <2>2. remote' = [remote EXCEPT !.manifests = @ \cup {n}] /\ Conclude(e, TRUE) /\ faulted' = faulted
    BY <1>4, <2>1 DEF PutManifest, Giving
  <2>3. remote'.chunks = remote.chunks /\ remote'.manifests = remote.manifests \cup {n}
        /\ remote' = [chunks |-> remote'.chunks, manifests |-> remote'.manifests]
    BY <1>2, <2>2 DEF RemoteInv
  <2>4. n \in 1..Made
    BY <1>1, <1>2, <2>1, UploadIs, RecordIs DEF OwnRecord
  <2>5. image[n] \subseteq remote.chunks
    <3>1. image[n] \ doing[e].todo \subseteq remote.chunks
      BY <1>2, <2>1 DEF SnapshotsInv, UploadInv
    <3> QED BY <1>2, <3>1
  <2>6. RemoteInv'
    BY <1>2, <2>3, <2>4, <2>5 DEF RemoteInv, Made
  <2>7. PICK d \in ResultJob(own, e) : /\ doing' = [doing EXCEPT ![e] = d] /\ d.rec = doing[e].rec
                                       /\ d.ok = TRUE /\ d \notin UploadJob(own, e)
    BY <1>1, <1>2, <2>2, ResultIs
  <2>8. d.rec.id \in remote'.manifests
    BY <2>1, <2>3, <2>7
  <2> QED BY <1>1, <1>2, <2>2, <2>3, <2>6, <2>7, <2>8, UploadStep
<1> QED BY <1>3, <1>4

LEMMA RunIs ==
  ASSUME NEW own, NEW r \in RunOf(own)
  PROVE  /\ r.id \in 1..Made /\ r.env \in Env /\ r.status \in {"running", "complete", "failed"}
         /\ own[r.id] = r.env
  BY DEF RunOf

LEMMA RecordRunKeeps ==
  ASSUME SnapshotsConstants, SnapshotsInv, NEW e \in Env, RecordRun(e)
  PROVE  SnapshotsInv'
<1>1. PICK own \in Owners : SnapshotsShape(own)
  BY Unfold
<1>2. PICK status : status = IF doing[e].ok THEN "complete" ELSE "failed"
  OBVIOUS
<1>3. /\ doing[e].do = "backup" /\ doing[e].at = "record" /\ doing' = [doing EXCEPT ![e] = Retain]
      /\ UNCHANGED <<asked, snaps, stored, cloud, leaked, hollow>>
      /\ runs \in Seq(RunOf(own)) /\ Len(runs) <= MaxHistory /\ RemoteInv
      /\ (faulted' = faulted \/ Fault)
      /\ \/ runs' = runs
         \/ runs' = [i \in DOMAIN runs |-> IF runs[i].id = doing[e].rec.id
                                           THEN [runs[i] EXCEPT !.status = status] ELSE runs[i]]
  BY <1>1, <1>2 DEF RecordRun, Uploading, SnapshotsShape, SnapshotsInv
<1>4. status = "complete" => doing[e].rec.id \in remote.manifests
  BY <1>2, <1>3 DEF SnapshotsInv, UploadInv
<1>5. UNCHANGED <<image, remote, download>> /\ status \in {"complete", "failed"}
  BY <1>2, <1>3 DEF cloud
<1>6. /\ runs' \in Seq(RunOf(own)) /\ Len(runs') <= MaxHistory /\ DOMAIN runs' = DOMAIN runs
      /\ \A i \in DOMAIN runs : /\ runs'[i].id = runs[i].id
                                /\ runs'[i].status = "complete" => runs[i].id \in remote.manifests
  <2>1. CASE runs' = runs
    BY <1>3, <2>1 DEF RemoteInv
  <2>2. CASE runs' # runs
    <3>1. runs' = [i \in DOMAIN runs |-> IF runs[i].id = doing[e].rec.id
                                         THEN [runs[i] EXCEPT !.status = status] ELSE runs[i]]
      BY <1>3, <2>2
    <3>2. ASSUME NEW i \in DOMAIN runs
          PROVE  /\ runs'[i] \in RunOf(own) /\ runs'[i].id = runs[i].id
                 /\ runs'[i].status = "complete" => runs[i].id \in remote.manifests
      <4>1. runs[i] \in RunOf(own) /\ status \in {"running", "complete", "failed"}
        BY <1>3, <1>5
      <4>2. CASE runs[i].id = doing[e].rec.id
        <5>1. runs'[i] = [runs[i] EXCEPT !.status = status]
          BY <3>1, <4>2
        <5>2. runs'[i] \in RunOf(own) /\ runs'[i].id = runs[i].id /\ runs'[i].status = status
          BY <4>1, <5>1 DEF RunOf
        <5> QED BY <1>4, <4>2, <5>2
      <4>3. CASE runs[i].id # doing[e].rec.id
        <5>1. runs'[i] = runs[i]
          BY <3>1, <4>3
        <5> QED BY <1>3, <4>1, <5>1 DEF RemoteInv
      <4> QED BY <4>2, <4>3
    <3>3. DOMAIN runs' = 1..Len(runs) /\ runs' \in [1..Len(runs) -> RunOf(own)]
      BY <1>3, <3>1, <3>2
    <3>4. runs' \in Seq(RunOf(own)) /\ Len(runs') = Len(runs)
      BY <1>3, <3>3
    <3> QED BY <1>3, <3>2, <3>3, <3>4
  <2> QED BY <2>1, <2>2
<1>7. RemoteInv'
  BY <1>3, <1>5, <1>6 DEF RemoteInv, Made
<1>8. \A i \in DOMAIN runs' : \E j \in DOMAIN runs : runs'[i].id = runs[j].id
  BY <1>6
<1>9. Retain \notin UploadJob(own, e) /\ Retain \notin ResultJob(own, e)
  BY DEF Retain, UploadJob, ResultJob
<1> QED BY <1>1, <1>3, <1>5, <1>6, <1>7, <1>8, <1>9, UploadStep

\* A step of a retention or a deletion that leaves records and data alone.
LEMMA PickStep ==
  ASSUME SnapshotsConstants, SnapshotsInv, NEW own \in Owners, SnapshotsShape(own), NEW p \in Process,
         NEW d \in {Available, Retain} \cup EraseJob(own), doing[p] = Available \/ doing[p] = Retain,
         doing' = [doing EXCEPT ![p] = d], d \in EraseJob(own) => d.at = "erase" /\ \E i \in DOMAIN snaps : d.rec = snaps[i],
         UNCHANGED <<snaps, stored, runs, cloud, faulted, leaked, hollow>>, asked' = asked \/ Ask
  PROVE  SnapshotsInv'
<1>1. d \in Job(own, p) /\ UNCHANGED <<image, remote, download>>
  BY DEF Job, cloud
<1>2. /\ d.do \in {"free", "retain", "delete"} /\ (d \in EraseJob(own) => d # Retain /\ d.do # "free")
      /\ (d = Retain => d.do = "retain" /\ d.at = "pick") /\ (d = Available => d.do = "free")
      /\ doing[p].do \in {"free", "retain"} /\ (doing[p].do = "retain" => doing[p].at = "pick")
  BY DEF Available, Retain, EraseJob
<1>3. /\ DOMAIN doing' = Process /\ doing'[p] = d
      /\ \A q \in Process \ {p} : doing'[q] = doing[q]
      /\ \A q \in Process : doing'[q] \in Job(own, q)
  BY <1>1, OneJob
<1>4. OwnedInv' /\ NewInv' /\ RecordsHaveData'
  <2>1. OwnedInv /\ NewInv /\ RecordsHaveData
    BY DEF SnapshotsInv
  <2>2. d.do # "free" /\ d # Retain =>
            \A e \in Env : doing[e].do = "new" => doing[e].rec.id # d.rec.id
    BY <2>1, <1>2 DEF NewInv
  <2>3. doing[p].do \notin {"new", "persist"} /\ ~Dropping(p)
    BY <1>2 DEF Dropping
  <2>4. d.do \notin {"new", "persist"} /\ ~(d.do \in {"retain", "delete"} /\ d.at = "drop")
    BY <1>2
  <2>5. \A i \in DOMAIN runs' : \E j \in DOMAIN runs : runs'[i].id = runs[j].id
    OBVIOUS
  <2> QED BY <1>1, <2>1, <2>2, <2>3, <2>4, <2>5, QuietStep
<1>5. UploadInv'
  BY <1>1, <1>2, <1>3 DEF SnapshotsInv, UploadInv, Process
<1>6. RemoteInv'
  BY <1>1 DEF SnapshotsInv, RemoteInv, Made
<1>7. ShapeInv'
  <2>1. faulted' \in 0..MaxFaults /\ asked' \in 0..MaxCommands
    BY CountersStep
  <2>2. /\ snaps' \in Seq(RecordOf(own)) /\ stored' \subseteq {"inner", "local", "restore"} \X (1..Made)
        /\ runs' \in Seq(RunOf(own)) /\ Len(runs') <= MaxHistory
        /\ download' = Nothing \/ (download' \in [id : 1..Made, env : Env] /\ own[download'.id] = download'.env)
    BY <1>1 DEF SnapshotsShape
  <2> QED BY <1>1, <1>3, <2>1, <2>2, ShapeStep
<1> QED BY <1>4, <1>5, <1>6, <1>7 DEF SnapshotsInv

LEMMA PickKeeps ==
  ASSUME SnapshotsConstants, SnapshotsInv, NEW p \in Process, Pick(p)
  PROVE  SnapshotsInv'
<1>1. PICK own \in Owners : SnapshotsShape(own)
  BY Unfold
<1>2. /\ doing[p] = Retain /\ snaps \in Seq(RecordOf(own)) /\ Retention \in Nat
      /\ UNCHANGED <<asked, snaps, stored, runs, cloud, faulted, leaked, hollow>>
  BY <1>1 DEF Pick, SnapshotsShape, SnapshotsConstants
<1>3. CASE Len(snaps) > Retention
  <2>1. Retention + 1 \in DOMAIN snaps /\ snaps[Retention + 1] \in RecordOf(own)
    BY <1>2, <1>3
  <2>2. PICK d : d = [do |-> "retain", at |-> "erase", rec |-> snaps[Retention + 1]]
    OBVIOUS
  <2>3. d \in EraseJob(own) /\ d.at = "erase" /\ d.rec = snaps[Retention + 1]
    BY <2>1, <2>2 DEF EraseJob
  <2>4. doing' = [doing EXCEPT ![p] = d]
    BY <1>3, <2>2 DEF Pick
  <2> QED BY <1>1, <1>2, <2>1, <2>3, <2>4, PickStep
<1>4. CASE ~(Len(snaps) > Retention)
  <2>1. doing' = [doing EXCEPT ![p] = Available] /\ Available \notin EraseJob(own)
    BY <1>4 DEF Pick, EraseJob, Available
  <2> QED BY <1>1, <1>2, <2>1, PickStep
<1> QED BY <1>3, <1>4

LEMMA DeleteKeeps ==
  ASSUME SnapshotsConstants, SnapshotsInv, NEW i \in DOMAIN snaps, Delete(i)
  PROVE  SnapshotsInv'
<1>1. PICK own \in Owners : SnapshotsShape(own)
  BY Unfold
<1>2. /\ doing[User] = Available /\ snaps \in Seq(RecordOf(own)) /\ Ask /\ User \in Process
      /\ UNCHANGED <<snaps, stored, runs, cloud, faulted, leaked, hollow>>
  BY <1>1 DEF Delete, SnapshotsShape, Process
<1>3. snaps[i] \in RecordOf(own)
  BY <1>2
<1>4. PICK d : d = [do |-> "delete", at |-> "erase", rec |-> snaps[i]]
  OBVIOUS
<1>5. d \in EraseJob(own) /\ d.at = "erase" /\ d.rec = snaps[i]
  BY <1>3, <1>4 DEF EraseJob
<1>6. doing' = [doing EXCEPT ![User] = d]
  BY <1>4 DEF Delete
<1> QED BY <1>1, <1>2, <1>5, <1>6, PickStep

LEMMA SettingsKeep ==
  ASSUME SnapshotsConstants, SnapshotsInv, UpdateSettings
  PROVE  SnapshotsInv'
<1>1. PICK own \in Owners : SnapshotsShape(own)
  BY Unfold
<1>2. /\ doing[User] = Available /\ Ask /\ User \in Process /\ doing' = [doing EXCEPT ![User] = Retain]
      /\ UNCHANGED <<snaps, stored, runs, cloud, faulted, leaked, hollow>>
  BY DEF UpdateSettings, Process
<1>3. Retain \notin EraseJob(own)
  BY DEF Retain, EraseJob
<1> QED BY <1>1, <1>2, <1>3, PickStep

LEMMA DestinationKeeps ==
  ASSUME SnapshotsConstants, SnapshotsInv, AddDestination \/ DeleteDestination
  PROVE  SnapshotsInv'
<1>1. PICK own \in Owners : SnapshotsShape(own)
  BY Unfold
<1>2. /\ Ask /\ (faulted' = faulted \/ Fault) /\ (runs' = runs \/ runs' = <<>>)
      /\ UNCHANGED <<snaps, stored, image, remote, doing, download, leaked, hollow>>
  BY DEF AddDestination, DeleteDestination
<1>3. /\ runs' \in Seq(RunOf(own)) /\ Len(runs') <= MaxHistory
      /\ \A i \in DOMAIN runs' : i \in DOMAIN runs /\ runs'[i] = runs[i]
  <2>1. runs \in Seq(RunOf(own)) /\ Len(runs) <= MaxHistory /\ MaxHistory \in Nat
    BY <1>1 DEF SnapshotsShape, SnapshotsConstants
  <2>2. CASE runs' = runs
    BY <2>1, <2>2
  <2>3. CASE runs' = <<>>
    BY <2>1, <2>3
  <2> QED BY <1>2, <2>2, <2>3
<1>4. RemoteInv'
  BY <1>2, <1>3 DEF SnapshotsInv, RemoteInv, Made
<1>5. UploadInv' /\ OwnedInv'
  BY <1>2 DEF SnapshotsInv, UploadInv, OwnedInv, IsOwned, InFlight, Data, Inner, File
<1>6. NewInv'
  BY <1>2, <1>3 DEF SnapshotsInv, NewInv, HasRecord, Data, Inner, File
<1>7. RecordsHaveData'
  BY <1>2 DEF SnapshotsInv, RecordsHaveData, Erasing, Data, Inner, File
<1>8. ShapeInv'
  <2>1. faulted' \in 0..MaxFaults /\ asked' \in 0..MaxCommands
    BY <1>1, <1>2, CountersStep
  <2>2. /\ snaps' \in Seq(RecordOf(own)) /\ stored' \subseteq {"inner", "local", "restore"} \X (1..Made)
        /\ download' = Nothing \/ (download' \in [id : 1..Made, env : Env] /\ own[download'.id] = download'.env)
        /\ DOMAIN doing' = Process /\ \A p \in Process : doing'[p] \in Job(own, p)
    BY <1>1, <1>2 DEF SnapshotsShape
  <2> QED BY <1>1, <1>2, <1>3, <2>1, <2>2, ShapeStep
<1> QED BY <1>4, <1>5, <1>6, <1>7, <1>8 DEF SnapshotsInv

\* One more snapshot: what is known of the earlier ones stays.
LEMMA Grow ==
  ASSUME SnapshotsConstants, NEW own \in Owners, SnapshotsShape(own), NEW e \in Env, NEW img \in Images,
         image' = Append(image, img), Made < MaxSnaps
  PROVE  /\ Made \in Nat /\ Made' = Made + 1 /\ image' \in Seq(Images) /\ \A n \in 1..Made : image'[n] = image[n]
         /\ \E new \in Owners : /\ new[Made + 1] = e
                                /\ RecordOf(own) \subseteq RecordOf(new)' /\ RunOf(own) \subseteq RunOf(new)'
                                /\ \A p \in Process : Job(own, p) \subseteq Job(new, p)'
                                /\ \A n \in 1..Made : new[n] = own[n]
<1>1. image \in Seq(Images) /\ MaxSnaps \in Nat
  BY DEF SnapshotsShape, SnapshotsConstants
<1>2. Made \in Nat /\ Made' = Made + 1 /\ image' \in Seq(Images) /\ \A n \in 1..Made : image'[n] = image[n]
  BY <1>1 DEF Made
<1>3. PICK new : new = [own EXCEPT ![Made + 1] = e]
  OBVIOUS
<1>4. new \in Owners /\ new[Made + 1] = e /\ \A n \in 1..Made : new[n] = own[n] /\ n \in 1..Made'
  <2>1. Made + 1 \in 1..MaxSnaps /\ \A n \in 1..Made : n \in 1..MaxSnaps /\ n # Made + 1 /\ n \in 1..Made'
    BY <1>1, <1>2
  <2>2. e \in Process
    BY DEF Process
  <2> QED BY <1>3, <2>1, <2>2 DEF Owners
<1>5. RecordOf(own) \subseteq RecordOf(new)' /\ RunOf(own) \subseteq RunOf(new)'
  BY <1>4 DEF RecordOf, RunOf
<1>6. ASSUME NEW p \in Process PROVE Job(own, p) \subseteq Job(new, p)'
  <2>1. OwnRecord(own, p) \subseteq OwnRecord(new, p)'
    BY <1>5 DEF OwnRecord
  <2>2. EraseJob(own) \subseteq EraseJob(new)' /\ NewJob(own, p) \subseteq NewJob(new, p)'
    BY <1>5, <2>1 DEF EraseJob, NewJob
  <2>3. UploadJob(own, p) \subseteq UploadJob(new, p)' /\ ResultJob(own, p) \subseteq ResultJob(new, p)'
    BY <2>1 DEF UploadJob, ResultJob
  <2>4. PersistJob(own, p) \subseteq PersistJob(new, p)'
    BY <2>1 DEF PersistJob
  <2> QED BY <2>2, <2>3, <2>4 DEF Job
<1> QED BY <1>2, <1>4, <1>5, <1>6

\* What a command on one environment leaves alone of what the others are doing.
LEMMA FlightStep ==
  ASSUME NEW p \in Process,
         \A q \in Process \ {p} : doing'[q] = doing[q], NEW x, InFlight(x)
  PROVE  \/ InFlight(x)'
         \/ doing[p].do \in {"new", "persist"} /\ x \in Data(doing[p].rec)
         \/ download' # download /\ download # Nothing /\ x = <<"restore", download.id>>
<1>1. \A q \in Process \ {p} : doing'[q] = doing[q]
  OBVIOUS
<1>2. CASE download # Nothing /\ x = <<"restore", download.id>>
  BY <1>2 DEF InFlight
<1>3. CASE \E q \in Process : doing[q].do \in {"new", "persist"} /\ x \in Data(doing[q].rec)
  <2>1. PICK q \in Process : doing[q].do \in {"new", "persist"} /\ x \in Data(doing[q].rec)
    BY <1>3
  <2>2. CASE q = p
    BY <2>1, <2>2
  <2>3. CASE q # p
    BY <1>1, <2>1, <2>3 DEF InFlight, Data, Inner, File
  <2> QED BY <2>2, <2>3
<1> QED BY <1>2, <1>3 DEF InFlight

LEMMA ErasingNext ==
  ASSUME NEW p \in Process, Dropping(p)'
  PROVE  doing'[p].rec.id \in Erasing'
  BY DEF Erasing, Dropping

LEMMA ErasingStep ==
  ASSUME NEW p \in Process,
         \A q \in Process \ {p} : doing'[q] = doing[q], NEW n \in Erasing
  PROVE  n \in Erasing' \/ (Dropping(p) /\ n = doing[p].rec.id)
<1>1. \A q \in Process \ {p} : doing'[q] = doing[q]
  OBVIOUS
<1>2. PICK q \in Process : Dropping(q) /\ n = doing[q].rec.id
  BY ErasingIs
<1>3. CASE q # p
  <2>1. Dropping(q)' /\ n = doing'[q].rec.id
    BY <1>1, <1>2, <1>3 DEF Dropping
  <2> QED BY <2>1, ErasingNext
<1> QED BY <1>2, <1>3

\* A snapshot that the records, the runs, the download or process p know of.
Known(p, n) ==
    \/ \E i \in DOMAIN snaps : snaps[i].id = n
    \/ \E i \in DOMAIN runs : runs[i].id = n
    \/ download # Nothing /\ download.id = n
    \/ HasRecord(p) /\ doing[p].rec.id = n

LEMMA NewKept ==
  ASSUME NewInv, NEW p \in Process, NEW d, doing'[p] = d,
         \A q \in Process \ {p} : doing'[q] = doing[q],
         d.do # "new", d.do # "free" /\ d # Retain => Known(p, d.rec.id),
         \A i \in DOMAIN snaps' : Known(p, snaps'[i].id),
         \A i \in DOMAIN runs' : Known(p, runs'[i].id),
         download' # Nothing => Known(p, download'.id),
         \A x \in stored : x \in stored' \/ Known(p, x[2])
  PROVE  NewInv'
<1>1. doing'[p] = d /\ \A q \in Process \ {p} : doing'[q] = doing[q]
  OBVIOUS
<1> SUFFICES ASSUME NEW e \in Env, doing'[e].do = "new"
             PROVE  LET rec == doing'[e].rec IN
                    /\ Data(rec) \subseteq stored'
                    /\ \A i \in DOMAIN snaps' : snaps'[i].id # rec.id
                    /\ \A i \in DOMAIN runs' : runs'[i].id # rec.id
                    /\ download' # Nothing => download'.id # rec.id
                    /\ \A q \in Process \ {e} : HasRecord(q)' => doing'[q].rec.id # rec.id
  BY DEF NewInv, Data, Inner, File
<1>2. e # p /\ e \in Process /\ doing'[e] = doing[e] /\ p \in Process \ {e}
  BY <1>1 DEF Process
<1>3. \A n : Known(p, n) => n # doing[e].rec.id
  BY <1>2 DEF Known, NewInv
<1>4. ASSUME NEW x \in Data(doing[e].rec) PROVE x \in stored'
  <2>1. x[2] = doing[e].rec.id
    BY DataIs
  <2>2. x \in stored
    BY <1>2 DEF NewInv
  <2> QED BY <1>3, <2>1, <2>2
<1>5. ASSUME NEW q \in Process \ {e}, HasRecord(q)' PROVE doing'[q].rec.id # doing[e].rec.id
  <2>1. CASE q = p
    BY <1>1, <1>3, <1>5, <2>1 DEF HasRecord
  <2>2. CASE q # p
    BY <1>1, <1>2, <1>5, <2>2 DEF HasRecord, NewInv
  <2> QED BY <2>1, <2>2
<1> QED BY <1>2, <1>3, <1>4, <1>5

LEMMA UploadKept ==
  ASSUME UploadInv, NEW p \in Process, NEW d, doing'[p] = d,
         \A q \in Process \ {p} : doing'[q] = doing[q],
         d.do = "backup" => d.at = "open" /\ d.todo = image[d.rec.id], UNCHANGED <<image, remote>>
  PROVE  UploadInv'
<1>1. doing'[p] = d /\ \A q \in Process \ {p} : doing'[q] = doing[q]
  OBVIOUS
<1> SUFFICES ASSUME NEW f \in Env, doing'[f].do = "backup"
             PROVE  /\ doing'[f].at # "record" => image'[doing'[f].rec.id] \ doing'[f].todo \subseteq remote'.chunks
                    /\ doing'[f].at = "record" /\ doing'[f].ok => doing'[f].rec.id \in remote'.manifests
  BY DEF UploadInv
<1>2. CASE f = p
  BY <1>1, <1>2
<1>3. CASE f # p
  <2>1. doing'[f] = doing[f]
    BY <1>1, <1>3 DEF Process
  <2> QED BY <2>1 DEF UploadInv
<1> QED BY <1>2, <1>3

LEMMA MakeKeeps ==
  ASSUME SnapshotsConstants, SnapshotsInv, NEW e \in Env, NEW backup \in BOOLEAN, Make(e, backup)
  PROVE  SnapshotsInv'
<1>1. PICK own \in Owners : SnapshotsShape(own)
  BY Unfold
<1>2. PICK rec : rec = NewRecord(Made + 1, e, backup)
  OBVIOUS
<1>3. PICK img \in Images : image' = Append(image, img)
  BY DEF Make
<1>4. /\ doing[e] = Available /\ Made < MaxSnaps /\ e \in Process
      /\ UNCHANGED <<asked, snaps, runs, remote, dest, download, hollow>>
      /\ DOMAIN doing = Process
  BY <1>1 DEF Make, Process, SnapshotsShape
<1>5. /\ Made \in Nat /\ Made' = Made + 1 /\ image' \in Seq(Images) /\ \A n \in 1..Made : image'[n] = image[n]
  BY <1>1, <1>3, <1>4, Grow
<1>6. PICK new \in Owners : /\ new[Made + 1] = e
                            /\ RecordOf(own) \subseteq RecordOf(new)' /\ RunOf(own) \subseteq RunOf(new)'
                            /\ \A p \in Process : Job(own, p) \subseteq Job(new, p)'
                            /\ \A n \in 1..Made : new[n] = own[n]
  BY <1>1, <1>3, <1>4, Grow
<1>7. /\ rec \in OwnRecord(new, e)' /\ rec.id = Made + 1
      /\ Data(rec) \subseteq {"inner", "local", "restore"} \X {Made + 1}
  <2>1. Made + 1 \in 1..Made'
    BY <1>5
  <2>2. rec = [id |-> Made + 1, env |-> e, inner |-> (Kind[e] = "vm"),
               file |-> IF Kind[e] = "vm" /\ ~backup THEN "none" ELSE "local"]
    BY <1>2 DEF NewRecord, Record
  <2>3. rec \in OwnRecord(new, e)' /\ rec.id = Made + 1 /\ rec.file \in {"none", "local"}
    BY <1>6, <2>1, <2>2 DEF OwnRecord, RecordOf, FileKind
  <2>4. Data(rec) \subseteq {"inner", "local", "restore"} \X {Made + 1}
    BY <2>3, DataIs
  <2> QED BY <2>3, <2>4
<1>8. PICK d : d = doing'[e]
  OBVIOUS
<1>9. /\ DOMAIN doing' = Process /\ \A q \in Process \ {e} : doing'[q] = doing[q]
      /\ \/ /\ d = [do |-> "new", rec |-> rec, backup |-> backup]
            /\ stored' = stored \cup Data(rec) /\ faulted' = faulted /\ leaked' = leaked
         \/ /\ d = Available /\ Fault
            /\ \E rest \in SUBSET Data(rec) : stored' = stored \cup rest /\ leaked' = leaked \cup rest
  <2>1. \A rest \in Leftovers(e, rec) : rest \in SUBSET Data(rec)
    BY DEF Leftovers
  <2>2. CASE /\ stored' = stored \cup Data(rec)
             /\ doing' = [doing EXCEPT ![e] = [do |-> "new", rec |-> rec, backup |-> backup]]
             /\ UNCHANGED <<faulted, leaked>>
    BY <1>4, <1>8, <2>2
  <2>3. CASE /\ Fault
             /\ \E rest \in Leftovers(e, rec) :
                   /\ stored' = stored \cup rest /\ leaked' = leaked \cup rest
             /\ UNCHANGED doing
    BY <1>4, <1>8, <2>1, <2>3
  <2> QED BY <1>2, <2>2, <2>3 DEF Make
<1>10. /\ (d = Available => d.do = "free")
       /\ (d # Available => d.do = "new" /\ d.rec = rec)
       /\ doing[e].do = "free" /\ (faulted' = faulted \/ Fault)
  BY <1>4, <1>9 DEF Available
<1>11. /\ stored \subseteq stored' /\ stored' \subseteq stored \cup Data(rec) /\ leaked \subseteq leaked'
       /\ \A x \in stored' : x \in stored \/ x \in leaked' \/ (d.do = "new" /\ x \in Data(rec))
       /\ (d.do = "new" => Data(rec) \subseteq stored')
  BY <1>9, <1>10
<1>12. /\ \A i \in DOMAIN snaps : snaps[i].id \in 1..Made
       /\ \A i \in DOMAIN runs : runs[i].id \in 1..Made
       /\ download # Nothing => download.id \in 1..Made
       /\ \A p \in Process : HasRecord(p) => doing[p].rec.id \in 1..Made
  <2>1. /\ snaps \in Seq(RecordOf(own)) /\ runs \in Seq(RunOf(own))
        /\ \A p \in Process : doing[p] \in Job(own, p)
        /\ download = Nothing \/ (download \in [id : 1..Made, env : Env] /\ own[download.id] = download.env)
    BY <1>1 DEF SnapshotsShape
  <2>2. \A p \in Process : HasRecord(p) => doing[p].rec \in RecordOf(own)
    BY <2>1, JobRecord DEF HasRecord
  <2>3. \A i \in DOMAIN snaps : snaps[i] \in RecordOf(own)
    BY <2>1
  <2>4. \A i \in DOMAIN runs : runs[i] \in RunOf(own)
    BY <2>1
  <2>5. download # Nothing => download.id \in 1..Made
    BY <2>1
  <2> QED BY <2>2, <2>3, <2>4, <2>5, RecordIs, RunIs
<1>13. RemoteInv'
  <2>1. RemoteInv /\ remote' = remote /\ runs' = runs
    BY <1>4 DEF SnapshotsInv
  <2>2. remote.manifests \subseteq 1..Made'
    BY <1>5, <2>1 DEF RemoteInv
  <2>3. \A n \in remote.manifests : image'[n] = image[n]
    BY <1>5, <2>1 DEF RemoteInv
  <2> QED BY <2>1, <2>2, <2>3 DEF RemoteInv
<1>14. UploadInv'
  <2> SUFFICES ASSUME NEW f \in Env, doing'[f].do = "backup"
               PROVE  /\ doing'[f].at # "record" => image'[doing'[f].rec.id] \ doing'[f].todo \subseteq remote'.chunks
                      /\ doing'[f].at = "record" /\ doing'[f].ok => doing'[f].rec.id \in remote'.manifests
    BY DEF UploadInv
  <2>1. f # e /\ f \in Process /\ doing'[f] = doing[f]
    BY <1>8, <1>9, <1>10 DEF Process
  <2>2. doing[f].rec.id \in 1..Made
    <3>1. HasRecord(f)
      BY <2>1 DEF HasRecord, Retain
    <3> QED BY <1>12, <2>1, <3>1
  <2> QED BY <1>4, <1>5, <2>1, <2>2 DEF SnapshotsInv, UploadInv
<1>15. OwnedInv'
  <2> SUFFICES ASSUME NEW x \in stored' PROVE IsOwned(x)' \/ x \in leaked' \/ InFlight(x)'
    BY DEF OwnedInv
  <2>1. CASE d.do = "new" /\ x \in Data(rec)
    BY <1>4, <1>8, <1>9, <1>10, <2>1 DEF InFlight, Data, Inner, File
  <2>2. CASE x \in stored
    <3>1. CASE InFlight(x)
      BY <1>1, <1>4, <1>8, <1>9, <1>10, <3>1, FlightStep
    <3>2. CASE IsOwned(x)
      BY <1>4, <3>2 DEF IsOwned, Data, Inner, File
    <3> QED BY <1>11, <2>2, <3>1, <3>2 DEF SnapshotsInv, OwnedInv
  <2> QED BY <1>11, <2>1, <2>2
<1>16. NewInv'
  <2> SUFFICES ASSUME NEW f \in Env, doing'[f].do = "new"
               PROVE  LET r == doing'[f].rec IN
                      /\ Data(r) \subseteq stored'
                      /\ \A i \in DOMAIN snaps' : snaps'[i].id # r.id
                      /\ \A i \in DOMAIN runs' : runs'[i].id # r.id
                      /\ download' # Nothing => download'.id # r.id
                      /\ \A q \in Process \ {f} : HasRecord(q)' => doing'[q].rec.id # r.id
    BY DEF NewInv, Data, Inner, File
  <2>0. Made + 1 \notin 1..Made
    BY <1>5
  <2>1. CASE f = e
    <3>1. d.do = "new" /\ doing'[f].rec.id = Made + 1 /\ Data(rec) \subseteq stored' /\ doing'[f].rec = rec
      BY <1>7, <1>8, <1>9, <1>10, <1>11, <2>1
    <3>2. ASSUME NEW q \in Process \ {f}, HasRecord(q)' PROVE doing'[q].rec.id \in 1..Made
      BY <1>8, <1>9, <1>10, <1>12, <2>1, <3>2 DEF HasRecord
    <3> QED BY <1>4, <1>12, <2>0, <3>1, <3>2
  <2>2. CASE f # e
    <3>1. f \in Process /\ doing'[f] = doing[f] /\ HasRecord(f)
      BY <1>8, <1>9, <1>10, <2>2 DEF Process, HasRecord, Retain
    <3>2. ASSUME NEW q \in Process \ {f}, HasRecord(q)' PROVE doing'[q].rec.id # doing[f].rec.id
      <4>1. CASE q = e
        <5>1. doing'[q].rec.id = Made + 1
          BY <1>7, <1>8, <1>9, <1>10, <3>2, <4>1 DEF HasRecord
        <5> QED BY <1>12, <2>0, <3>1, <5>1
      <4>2. CASE q # e
        BY <1>8, <1>9, <1>10, <3>1, <3>2, <4>2 DEF HasRecord, SnapshotsInv, NewInv
      <4> QED BY <4>1, <4>2
    <3> QED BY <1>4, <1>11, <3>1, <3>2 DEF SnapshotsInv, NewInv
  <2> QED BY <2>1, <2>2
<1>17. RecordsHaveData'
  <2> SUFFICES ASSUME NEW i \in DOMAIN snaps
               PROVE  snaps[i].id \in hollow' \cup Erasing' \/ Data(snaps[i]) \subseteq stored'
    BY <1>4 DEF RecordsHaveData, Data, Inner, File
  <2>1. ~Dropping(e)
    BY <1>8, <1>9, <1>10 DEF Dropping
  <2>2. snaps[i].id \in Erasing => snaps[i].id \in Erasing'
    BY <1>4, <1>9, <2>1, ErasingStep
  <2> QED BY <1>4, <1>11, <2>2 DEF SnapshotsInv, RecordsHaveData
<1>18. ShapeInv'
  <2>1. faulted' \in 0..MaxFaults /\ asked' \in 0..MaxCommands
    BY <1>1, <1>4, <1>10, CountersStep
  <2>2. image' \in Seq(Images) /\ Made' <= MaxSnaps
    BY <1>4, <1>5 DEF SnapshotsConstants
  <2>3. snaps' \in Seq(RecordOf(new)') /\ runs' \in Seq(RunOf(new)') /\ Len(runs') <= MaxHistory
    <3>1. snaps \in Seq(RecordOf(own)) /\ runs \in Seq(RunOf(own)) /\ Len(runs) <= MaxHistory
      BY <1>1 DEF SnapshotsShape
    <3> QED BY <1>4, <1>6, <3>1
  <2>4. stored' \subseteq {"inner", "local", "restore"} \X (1..Made')
    <3>1. stored \subseteq {"inner", "local", "restore"} \X (1..Made)
      BY <1>1 DEF SnapshotsShape
    <3>2. \A n \in 1..Made : n \in 1..Made'
      BY <1>5
    <3>3. Made + 1 \in 1..Made'
      BY <1>5
    <3> QED BY <1>7, <1>11, <3>1, <3>2, <3>3
  <2>5. download' = Nothing \/ (download' \in [id : 1..Made', env : Env] /\ new[download'.id] = download'.env)
    <3>1. download = Nothing \/ (download \in [id : 1..Made, env : Env] /\ own[download.id] = download.env)
      BY <1>1 DEF SnapshotsShape
    <3>2. \A n \in 1..Made : n \in 1..Made'
      BY <1>5
    <3> QED BY <1>4, <1>6, <3>1, <3>2
  <2>6. ASSUME NEW q \in Process PROVE doing'[q] \in Job(new, q)'
    <3>1. CASE q = e /\ d.do = "new"
      <4>1. d = [do |-> "new", rec |-> rec, backup |-> backup]
        BY <1>8, <1>9, <1>10, <3>1
      <4>2. d \in NewJob(new, e)'
        BY <1>7, <4>1 DEF NewJob
      <4> QED BY <1>8, <1>9, <1>10, <3>1, <4>2 DEF Job
    <3>2. CASE q = e /\ d.do # "new"
      BY <1>8, <1>9, <1>10, <3>2 DEF Job
    <3>3. CASE q # e
      BY <1>1, <1>6, <1>8, <1>9, <1>10, <3>3 DEF SnapshotsShape
    <3> QED BY <3>1, <3>2, <3>3
  <2>7. SnapshotsShape(new)'
    BY <1>8, <1>9, <1>10, <2>1, <2>2, <2>3, <2>4, <2>5, <2>6 DEF SnapshotsShape
  <2>8. \A t \in Owners : SnapshotsShape(t)' => ShapeInv'
    BY DEF ShapeInv, Owners
  <2> QED BY <2>7, <2>8
<1> QED BY <1>13, <1>14, <1>15, <1>16, <1>17, <1>18 DEF SnapshotsInv

\* The history with one more run, the oldest dropped at the limit.
LEMMA HistoryStep ==
  ASSUME NEW R, NEW s \in Seq(R), NEW r \in R, NEW H \in Nat, Len(s) <= H,
         NEW t, t = SubSeq(<<r>> \o s, 1, IF Len(s) < H THEN Len(s) + 1 ELSE H)
  PROVE  t \in Seq(R) /\ Len(t) <= H /\ \A i \in DOMAIN t : t[i] = r \/ \E j \in DOMAIN s : t[i] = s[j]
<1>1. PICK u : u = <<r>> \o s
  OBVIOUS
<1>2. PICK k : k = IF Len(s) < H THEN Len(s) + 1 ELSE H
  OBVIOUS
<1>3. u \in Seq(R) /\ Len(u) = Len(s) + 1 /\ u[1] = r /\ \A j \in 2..Len(u) : u[j] = s[j - 1]
  BY <1>1
<1>4. k \in 0..Len(u) /\ k <= H
  BY <1>2, <1>3
<1>5. t \in Seq(R) /\ Len(t) = k /\ \A i \in 1..k : t[i] = u[i]
  <2>1. t = SubSeq(u, 1, k)
    BY <1>1, <1>2
  <2> QED BY <1>3, <1>4, <2>1
<1>6. ASSUME NEW i \in DOMAIN t PROVE t[i] = r \/ \E j \in DOMAIN s : t[i] = s[j]
  <2>1. i \in 1..k /\ t[i] = u[i]
    BY <1>5
  <2>2. CASE i = 1
    BY <1>3, <2>1, <2>2
  <2>3. CASE i # 1
    <3>1. i - 1 \in DOMAIN s /\ u[i] = s[i - 1]
      BY <1>3, <1>4, <2>1, <2>3
    <3> QED BY <2>1, <3>1
  <2> QED BY <2>2, <2>3
<1> QED BY <1>4, <1>5, <1>6

LEMMA NewIs ==
  ASSUME NEW own \in Owners, SnapshotsShape(own), NEW e \in Env, doing[e].do = "new"
  PROVE  e \in Process /\ doing[e] \in NewJob(own, e) /\ doing[e].rec \in OwnRecord(own, e) /\ HasRecord(e)
<1>1. e \in Process /\ doing[e] \in Job(own, e)
  BY DEF SnapshotsShape, Process
<1>2. doing[e] \in NewJob(own, e)
  BY <1>1, JobIs
<1> QED BY <1>1, <1>2 DEF NewJob, HasRecord, Retain

LEMMA SaveNewKeeps ==
  ASSUME SnapshotsConstants, SnapshotsInv, NEW e \in Env, SaveNew(e)
  PROVE  SnapshotsInv'
<1>1. PICK own \in Owners : SnapshotsShape(own)
  BY Unfold
<1>2. PICK rec : rec = doing[e].rec
  OBVIOUS
<1>3. doing[e].do = "new" /\ UNCHANGED <<asked, hollow, image, remote, download>>
  BY DEF SaveNew, cloud
<1>4. e \in Process /\ doing[e] \in NewJob(own, e) /\ rec \in OwnRecord(own, e) /\ HasRecord(e)
  BY <1>1, <1>2, <1>3, NewIs
<1>5. /\ image \in Seq(Images) /\ snaps \in Seq(RecordOf(own)) /\ runs \in Seq(RunOf(own)) /\ Len(runs) <= MaxHistory
      /\ stored \subseteq {"inner", "local", "restore"} \X (1..Made) /\ MaxHistory \in Nat
      /\ download = Nothing \/ (download \in [id : 1..Made, env : Env] /\ own[download.id] = download.env)
  BY <1>1 DEF SnapshotsShape, SnapshotsConstants
<1>6. rec \in RecordOf(own) /\ rec.id \in 1..Made /\ rec.env = e /\ own[rec.id] = e
  BY <1>4, RecordIs DEF OwnRecord
<1>7. /\ Data(rec) \subseteq stored
      /\ \A i \in DOMAIN snaps : snaps[i].id # rec.id
  BY <1>2, <1>3 DEF SnapshotsInv, NewInv
<1>8. CASE /\ snaps' = <<rec>> \o snaps /\ UNCHANGED <<stored, faulted, leaked>>
           /\ IF doing[e].backup
              THEN /\ runs' = SubSeq(<<[id |-> rec.id, env |-> e, status |-> "running"]>> \o runs, 1,
                                     IF Len(runs) < MaxHistory THEN Len(runs) + 1 ELSE MaxHistory)
                   /\ doing' = [doing EXCEPT ![e] = [do |-> "backup", at |-> "open", rec |-> rec,
                                                      todo |-> image[rec.id]]]
              ELSE doing' = [doing EXCEPT ![e] = Retain] /\ UNCHANGED runs
  <2>1. PICK r : r = [id |-> rec.id, env |-> e, status |-> "running"]
    OBVIOUS
  <2>2. r \in RunOf(own) /\ r.id = rec.id /\ r.status = "running"
    BY <1>6, <2>1 DEF RunOf
  <2>3. /\ runs' \in Seq(RunOf(own)) /\ Len(runs') <= MaxHistory
        /\ \A i \in DOMAIN runs' : runs'[i] = r \/ \E j \in DOMAIN runs : runs'[i] = runs[j]
    <3>1. CASE runs' = runs
      BY <1>5, <3>1
    <3>2. CASE runs' # runs
      <4>1. runs' = SubSeq(<<r>> \o runs, 1, IF Len(runs) < MaxHistory THEN Len(runs) + 1 ELSE MaxHistory)
        BY <1>8, <2>1, <3>2
      <4> QED BY <1>5, <2>2, <4>1, HistoryStep
    <3> QED BY <3>1, <3>2
  <2>4. PICK d : /\ doing' = [doing EXCEPT ![e] = d] /\ d \in Job(own, e)
                 /\ d.do = "backup" => d.at = "open" /\ d.todo = image[d.rec.id] /\ d.rec = rec
                 /\ d = Retain \/ d.do = "backup"
    <3>1. CASE doing[e].backup
      <4> DEFINE b == [do |-> "backup", at |-> "open", rec |-> rec, todo |-> image[rec.id]]
      <4>1. image[rec.id] \in Images
        BY <1>5, <1>6 DEF Made
      <4>2. b \in UploadJob(own, e)
        BY <1>4, <4>1 DEF UploadJob
      <4>3. b \in Job(own, e) /\ doing' = [doing EXCEPT ![e] = b]
        BY <1>8, <3>1, <4>2 DEF Job
      <4>4. b.do = "backup" /\ b.at = "open" /\ b.rec = rec /\ b.todo = image[b.rec.id]
        OBVIOUS
      <4> HIDE DEF b
      <4> QED BY <4>3, <4>4
    <3>2. CASE ~doing[e].backup
      <4>1. Retain \in Job(own, e) /\ Retain.do # "backup"
        BY DEF Job, Retain
      <4> QED BY <1>8, <3>2, <4>1
    <3> QED BY <3>1, <3>2
  <2>5. d.do \in {"backup", "retain"} /\ (d.do = "retain" => d.at = "pick" /\ d = Retain)
    BY <2>4 DEF Retain
  <2>6. /\ DOMAIN doing' = Process /\ doing'[e] = d
        /\ \A q \in Process \ {e} : doing'[q] = doing[q]
        /\ \A q \in Process : doing'[q] \in Job(own, q)
    BY <1>1, <1>4, <2>4, OneJob
  <2>7. /\ snaps' \in Seq(RecordOf(own)) /\ Len(snaps') = Len(snaps) + 1 /\ snaps'[1] = rec
        /\ \A i \in DOMAIN snaps' : snaps'[i] = rec \/ \E j \in DOMAIN snaps : snaps'[i] = snaps[j]
        /\ \A j \in DOMAIN snaps : j + 1 \in DOMAIN snaps' /\ snaps'[j + 1] = snaps[j]
        /\ 1 \in DOMAIN snaps'
    <3>1. snaps' = <<rec>> \o snaps
      BY <1>8
    <3>2. /\ snaps' \in Seq(RecordOf(own)) /\ Len(snaps') = Len(snaps) + 1 /\ snaps'[1] = rec
          /\ \A i \in 2..(Len(snaps) + 1) : snaps'[i] = snaps[i - 1]
      BY <1>5, <1>6, <3>1
    <3>3. \A j \in DOMAIN snaps : j + 1 \in DOMAIN snaps' /\ snaps'[j + 1] = snaps[j]
      BY <1>5, <3>2
    <3>4. ASSUME NEW i \in DOMAIN snaps', i # 1 PROVE i - 1 \in DOMAIN snaps /\ snaps'[i] = snaps[i - 1]
      BY <1>5, <3>2, <3>4
    <3>5. 1 \in DOMAIN snaps'
      BY <1>5, <3>2
    <3> QED BY <3>2, <3>3, <3>4, <3>5
  <2>8. RemoteInv'
    <3>1. RemoteInv /\ Made' = Made /\ remote' = remote /\ image' = image
      BY <1>3 DEF SnapshotsInv, Made
    <3>2. \A i \in DOMAIN runs' : runs'[i].status = "complete" => runs'[i].id \in remote.manifests
      BY <2>2, <2>3, <3>1 DEF RemoteInv
    <3> QED BY <3>1, <3>2 DEF RemoteInv
  <2>9. UploadInv'
    BY <1>3, <1>4, <2>4, <2>6, UploadKept DEF SnapshotsInv
  <2>10. OwnedInv'
    <3> SUFFICES ASSUME NEW x \in stored' PROVE IsOwned(x)' \/ x \in leaked' \/ InFlight(x)'
      BY DEF OwnedInv
    <3>1. CASE x \in Data(rec)
      BY <2>7, <3>1 DEF IsOwned, Data, Inner, File
    <3>2. CASE IsOwned(x)
      <4>1. PICK j \in DOMAIN snaps : x \in Data(snaps[j])
        BY <3>2 DEF IsOwned
      <4> QED BY <2>7, <4>1 DEF IsOwned, Data, Inner, File
    <3>3. CASE InFlight(x)
      BY <1>2, <1>3, <1>4, <2>6, <3>1, <3>3, FlightStep
    <3> QED BY <1>8, <3>2, <3>3 DEF SnapshotsInv, OwnedInv
  <2>11. NewInv'
    <3>1. Known(e, rec.id)
      BY <1>2, <1>4 DEF Known
    <3>2. d.do # "free" /\ d # Retain => Known(e, d.rec.id)
      BY <2>4, <3>1
    <3>3. \A i \in DOMAIN snaps' : Known(e, snaps'[i].id)
      BY <2>7, <3>1 DEF Known
    <3>4. \A i \in DOMAIN runs' : Known(e, runs'[i].id)
      BY <2>2, <2>3, <3>1 DEF Known
    <3>5. download' # Nothing => Known(e, download'.id)
      BY <1>3 DEF Known
    <3>6. NewInv /\ d.do # "new" /\ stored' = stored
      BY <1>8, <2>5 DEF SnapshotsInv
    <3> QED BY <1>4, <2>6, <3>2, <3>3, <3>4, <3>5, <3>6, NewKept
  <2>12. RecordsHaveData'
    <3> SUFFICES ASSUME NEW i \in DOMAIN snaps'
                 PROVE  snaps'[i].id \in hollow' \cup Erasing' \/ Data(snaps'[i]) \subseteq stored'
      BY DEF RecordsHaveData, Data, Inner, File
    <3>1. ~Dropping(e)
      BY <1>3 DEF Dropping
    <3>2. \A n : n \in Erasing => n \in Erasing'
      BY <1>4, <2>6, <3>1, ErasingStep
    <3>3. CASE snaps'[i] = rec
      BY <1>7, <1>8, <3>3
    <3>4. CASE \E j \in DOMAIN snaps : snaps'[i] = snaps[j]
      BY <1>3, <1>8, <3>2, <3>4 DEF SnapshotsInv, RecordsHaveData
    <3> QED BY <2>7, <3>3, <3>4
  <2>13. ShapeInv'
    <3>1. faulted' \in 0..MaxFaults /\ asked' \in 0..MaxCommands
      BY <1>1, <1>3, <1>8, CountersStep
    <3> QED BY <1>1, <1>3, <1>5, <1>8, <2>3, <2>6, <2>7, <3>1, ShapeStep
  <2> QED BY <2>8, <2>9, <2>10, <2>11, <2>12, <2>13 DEF SnapshotsInv
<1>9. CASE /\ Fault
           /\ \E gone \in SUBSET Data(rec) :
                 /\ stored' = stored \ gone
                 /\ leaked' = leaked \cup (Data(rec) \ gone)
           /\ doing' = [doing EXCEPT ![e] = Available]
           /\ UNCHANGED <<snaps, runs>>
  <2>1. PICK gone \in SUBSET Data(rec) : stored' = stored \ gone /\ leaked' = leaked \cup (Data(rec) \ gone)
    BY <1>9
  <2>2. Available \in Job(own, e) /\ Available.do = "free"
    BY DEF Job, Available
  <2>3. /\ DOMAIN doing' = Process /\ doing'[e] = Available
        /\ \A q \in Process \ {e} : doing'[q] = doing[q]
        /\ \A q \in Process : doing'[q] \in Job(own, q)
    BY <1>1, <1>4, <1>9, <2>2, OneJob
  <2>4. RemoteInv'
    BY <1>3, <1>9 DEF SnapshotsInv, RemoteInv, Made
  <2>5. UploadInv'
    BY <1>3, <1>4, <2>2, <2>3, UploadKept DEF SnapshotsInv
  <2>6. OwnedInv'
    <3> SUFFICES ASSUME NEW x \in stored' PROVE IsOwned(x)' \/ x \in leaked' \/ InFlight(x)'
      BY DEF OwnedInv
    <3>1. CASE x \in Data(rec)
      BY <2>1, <3>1
    <3>2. CASE IsOwned(x)
      BY <1>9, <3>2 DEF IsOwned, Data, Inner, File
    <3>3. CASE InFlight(x)
      BY <1>2, <1>3, <1>4, <2>3, <3>1, <3>3, FlightStep
    <3> QED BY <2>1, <3>2, <3>3 DEF SnapshotsInv, OwnedInv
  <2>7. NewInv'
    <3>1. Known(e, rec.id)
      BY <1>2, <1>4 DEF Known
    <3>2. \A i \in DOMAIN snaps' : Known(e, snaps'[i].id)
      BY <1>9 DEF Known
    <3>3. \A i \in DOMAIN runs' : Known(e, runs'[i].id)
      BY <1>9 DEF Known
    <3>4. download' # Nothing => Known(e, download'.id)
      BY <1>3 DEF Known
    <3>5. ASSUME NEW x \in stored PROVE x \in stored' \/ Known(e, x[2])
      <4>1. x \in Data(rec) => x[2] = rec.id
        BY DataIs
      <4> QED BY <2>1, <3>1, <4>1
    <3>6. NewInv
      BY DEF SnapshotsInv
    <3> QED BY <1>4, <2>2, <2>3, <3>2, <3>3, <3>4, <3>5, <3>6, NewKept
  <2>8. RecordsHaveData'
    <3> SUFFICES ASSUME NEW i \in DOMAIN snaps
                 PROVE  snaps[i].id \in hollow' \cup Erasing' \/ Data(snaps[i]) \subseteq stored'
      BY <1>9 DEF RecordsHaveData, Data, Inner, File
    <3>1. ~Dropping(e)
      BY <1>3 DEF Dropping
    <3>2. \A n : n \in Erasing => n \in Erasing'
      BY <1>4, <2>3, <3>1, ErasingStep
    <3>3. \A x \in Data(snaps[i]) : x \notin Data(rec)
      BY <1>7, DataApart
    <3> QED BY <1>3, <2>1, <3>2, <3>3 DEF SnapshotsInv, RecordsHaveData
  <2>9. ShapeInv'
    <3>1. faulted' \in 0..MaxFaults /\ asked' \in 0..MaxCommands
      BY <1>1, <1>3, <1>9, CountersStep
    <3>2. stored' \subseteq {"inner", "local", "restore"} \X (1..Made)
      BY <1>5, <2>1
    <3> QED BY <1>1, <1>3, <1>5, <1>9, <2>3, <3>1, <3>2, ShapeStep
  <2> QED BY <2>4, <2>5, <2>6, <2>7, <2>8, <2>9 DEF SnapshotsInv
<1> QED BY <1>2, <1>8, <1>9 DEF SaveNew

LEMMA EraseIs ==
  ASSUME NEW own \in Owners, SnapshotsShape(own), NEW p \in Process, doing[p].do \in {"retain", "delete"},
         doing[p].at \in {"erase", "drop"}
  PROVE  doing[p] \in EraseJob(own) /\ doing[p].rec \in RecordOf(own) /\ HasRecord(p)
<1>1. doing[p] \in Job(own, p)
  BY DEF SnapshotsShape
<1>2. doing[p] # Retain
  BY DEF Retain
<1>3. doing[p] \in EraseJob(own)
  BY <1>1, <1>2, JobIs
<1> QED BY <1>2, <1>3 DEF EraseJob, HasRecord

LEMMA EraseKeeps ==
  ASSUME SnapshotsConstants, SnapshotsInv, NEW p \in Process, Erase(p)
  PROVE  SnapshotsInv'
<1>1. PICK own \in Owners : SnapshotsShape(own)
  BY Unfold
<1>2. PICK rec : rec = doing[p].rec
  OBVIOUS
<1>3. /\ doing[p].do \in {"retain", "delete"} /\ doing[p].at = "erase"
      /\ UNCHANGED <<asked, snaps, runs, image, remote, download, leaked>>
  BY DEF Erase, cloud
<1>4. doing[p] \in EraseJob(own) /\ rec \in RecordOf(own) /\ HasRecord(p)
  BY <1>1, <1>2, <1>3, EraseIs
<1>5. /\ image \in Seq(Images) /\ snaps \in Seq(RecordOf(own)) /\ runs \in Seq(RunOf(own)) /\ Len(runs) <= MaxHistory
      /\ stored \subseteq {"inner", "local", "restore"} \X (1..Made)
      /\ download = Nothing \/ (download \in [id : 1..Made, env : Env] /\ own[download.id] = download.env)
  BY <1>1 DEF SnapshotsShape
<1>6. PICK d : d = IF doing' = [doing EXCEPT ![p] = Available] THEN Available ELSE [doing[p] EXCEPT !.at = "drop"]
  OBVIOUS
<1>7. /\ doing' = [doing EXCEPT ![p] = d] /\ hollow \subseteq hollow' /\ (faulted' = faulted \/ Fault)
      /\ d = Available => rec.id \in hollow'
      /\ \E gone \in SUBSET Data(rec) : stored' = stored \ gone
  <2>1. CASE /\ stored' = stored \ Data(rec)
             /\ doing' = [doing EXCEPT ![p] = IF Missing(rec) THEN Available ELSE [@ EXCEPT !.at = "drop"]]
             /\ hollow' = IF Missing(rec) THEN hollow \cup {rec.id} ELSE hollow
             /\ UNCHANGED faulted
    <3>1. CASE Missing(rec)
      BY <1>6, <2>1, <3>1
    <3>2. CASE ~Missing(rec)
      <4>1. doing' = [doing EXCEPT ![p] = [doing[p] EXCEPT !.at = "drop"]] /\ DOMAIN doing = Process
        BY <1>1, <2>1, <3>2 DEF SnapshotsShape
      <4>2. doing'[p].at = "drop" /\ doing'[p].do \in {"retain", "delete"}
        BY <1>3, <1>4, <4>1 DEF EraseJob
      <4>3. doing' # [doing EXCEPT ![p] = Available]
        BY <4>1, <4>2 DEF Available
      <4>4. d = [doing[p] EXCEPT !.at = "drop"] /\ d # Available
        BY <1>4, <1>6, <4>3 DEF Available, EraseJob
      <4> QED BY <2>1, <3>2, <4>1, <4>4
    <3> QED BY <3>1, <3>2
  <2>2. CASE /\ Fault
             /\ \E gone \in SUBSET Data(rec) : stored' = stored \ gone
             /\ doing' = [doing EXCEPT ![p] = Available]
             /\ hollow' = hollow \cup {rec.id}
    BY <1>6, <2>2
  <2> QED BY <1>2, <2>1, <2>2 DEF Erase
<1>8. /\ d \in Job(own, p)
      /\ \/ d = Available /\ d.do = "free"
         \/ d # Retain /\ d.do \in {"retain", "delete"} /\ d.at = "drop" /\ d.rec = rec
  <2>1. CASE d = Available
    BY <2>1 DEF Available, Job
  <2>2. CASE d # Available
    <3>1. d = [doing[p] EXCEPT !.at = "drop"]
      BY <1>6, <2>2
    <3>2. d \in EraseJob(own) /\ d.rec = rec /\ d.at = "drop" /\ d.do \in {"retain", "delete"}
      BY <1>2, <1>4, <3>1 DEF EraseJob
    <3> QED BY <3>2 DEF Job, Retain
  <2> QED BY <2>1, <2>2
<1>9. /\ DOMAIN doing' = Process /\ doing'[p] = d
      /\ \A q \in Process \ {p} : doing'[q] = doing[q]
      /\ \A q \in Process : doing'[q] \in Job(own, q)
  BY <1>1, <1>7, <1>8, OneJob
<1>10. PICK gone \in SUBSET Data(rec) : stored' = stored \ gone
  BY <1>7
<1>11. RemoteInv'
  BY <1>3 DEF SnapshotsInv, RemoteInv, Made
<1>12. UploadInv'
  <2>1. d.do # "backup"
    BY <1>8
  <2> QED BY <1>3, <1>9, <2>1, UploadKept DEF SnapshotsInv
<1>13. OwnedInv'
  <2> SUFFICES ASSUME NEW x \in stored' PROVE IsOwned(x)' \/ x \in leaked' \/ InFlight(x)'
    BY DEF OwnedInv
  <2>1. CASE IsOwned(x)
    BY <1>3, <2>1 DEF IsOwned, Data, Inner, File
  <2>2. CASE InFlight(x)
    BY <1>3, <1>9, <2>2, FlightStep
  <2> QED BY <1>3, <1>10, <2>1, <2>2 DEF SnapshotsInv, OwnedInv
<1>14. NewInv'
  <2>1. Known(p, rec.id)
    BY <1>2, <1>4 DEF Known
  <2>2. \A i \in DOMAIN snaps' : Known(p, snaps'[i].id)
    BY <1>3 DEF Known
  <2>3. \A i \in DOMAIN runs' : Known(p, runs'[i].id)
    BY <1>3 DEF Known
  <2>4. download' # Nothing => Known(p, download'.id)
    BY <1>3 DEF Known
  <2>5. ASSUME NEW x \in stored PROVE x \in stored' \/ Known(p, x[2])
    <3>1. x \in Data(rec) => x[2] = rec.id
      BY DataIs
    <3> QED BY <1>10, <2>1, <3>1
  <2>6. NewInv /\ d.do # "new" /\ (d.do # "free" /\ d # Retain => Known(p, d.rec.id))
    BY <1>8, <2>1 DEF SnapshotsInv
  <2> QED BY <1>9, <2>2, <2>3, <2>4, <2>5, <2>6, NewKept
<1>15. RecordsHaveData'
  <2> SUFFICES ASSUME NEW i \in DOMAIN snaps
               PROVE  snaps[i].id \in hollow' \cup Erasing' \/ Data(snaps[i]) \subseteq stored'
    BY <1>3 DEF RecordsHaveData, Data, Inner, File
  <2>1. ~Dropping(p)
    BY <1>3 DEF Dropping
  <2>2. \A n : n \in Erasing => n \in Erasing'
    BY <1>9, <2>1, ErasingStep
  <2>3. CASE snaps[i].id = rec.id
    <3>1. CASE d = Available
      BY <1>7, <2>3, <3>1
    <3>2. CASE d # Available
      <4>1. Dropping(p)' /\ doing'[p].rec = rec
        BY <1>8, <1>9, <3>2 DEF Dropping
      <4> QED BY <2>3, <4>1, ErasingNext
    <3> QED BY <3>1, <3>2
  <2>4. CASE snaps[i].id # rec.id
    <3>1. \A x \in Data(snaps[i]) : x \notin Data(rec)
      BY <2>4, DataApart
    <3> QED BY <1>7, <1>10, <2>2, <3>1 DEF SnapshotsInv, RecordsHaveData
  <2> QED BY <2>3, <2>4
<1>16. ShapeInv'
  <2>1. faulted' \in 0..MaxFaults /\ asked' \in 0..MaxCommands
    BY <1>1, <1>3, <1>7, CountersStep
  <2>2. stored' \subseteq {"inner", "local", "restore"} \X (1..Made)
    BY <1>5, <1>10
  <2> QED BY <1>1, <1>3, <1>5, <1>9, <2>1, <2>2, ShapeStep
<1> QED BY <1>11, <1>12, <1>13, <1>14, <1>15, <1>16 DEF SnapshotsInv

LEMMA DropKeeps ==
  ASSUME SnapshotsConstants, SnapshotsInv, NEW p \in Process, Drop(p)
  PROVE  SnapshotsInv'
<1>1. PICK own \in Owners : SnapshotsShape(own)
  BY Unfold
<1>2. PICK rec : rec = doing[p].rec
  OBVIOUS
<1>3. /\ doing[p].do \in {"retain", "delete"} /\ doing[p].at = "drop"
      /\ UNCHANGED <<asked, stored, runs, image, remote, download>>
  BY DEF Drop, cloud
<1>4. rec \in RecordOf(own) /\ HasRecord(p)
  BY <1>1, <1>2, <1>3, EraseIs
<1>5. /\ image \in Seq(Images) /\ snaps \in Seq(RecordOf(own)) /\ runs \in Seq(RunOf(own)) /\ Len(runs) <= MaxHistory
      /\ stored \subseteq {"inner", "local", "restore"} \X (1..Made)
      /\ download = Nothing \/ (download \in [id : 1..Made, env : Env] /\ own[download.id] = download.env)
  BY <1>1 DEF SnapshotsShape
<1>6. PICK d \in {Available, Retain} : doing' = [doing EXCEPT ![p] = d]
  BY DEF Drop, Onwards
<1>7. /\ \/ /\ snaps' = Without(snaps, rec.id) /\ faulted' = faulted /\ hollow' = hollow
            /\ leaked' = leaked \cup (Restored(rec.id) \cap stored)
         \/ Fault /\ hollow' = hollow \cup {rec.id} /\ UNCHANGED <<snaps, leaked>>
  BY <1>2 DEF Drop
<1>8. /\ d \in Job(own, p) /\ d.do \in {"free", "retain"} /\ (d.do = "retain" => d.at = "pick" /\ d = Retain)
      /\ (faulted' = faulted \/ Fault) /\ hollow \subseteq hollow' /\ leaked \subseteq leaked'
  BY <1>6, <1>7 DEF Available, Retain, Job
<1>9. /\ DOMAIN doing' = Process /\ doing'[p] = d
      /\ \A q \in Process \ {p} : doing'[q] = doing[q]
      /\ \A q \in Process : doing'[q] \in Job(own, q)
  BY <1>1, <1>6, <1>8, OneJob
<1>10. /\ snaps' \in Seq(RecordOf(own))
       /\ \A i \in DOMAIN snaps' : \E j \in DOMAIN snaps : snaps'[i] = snaps[j] /\ (snaps[j].id # rec.id \/ rec.id \in hollow')
       /\ \A j \in DOMAIN snaps : (\E i \in DOMAIN snaps' : snaps'[i] = snaps[j])
                                  \/ (snaps[j].id = rec.id /\ leaked' = leaked \cup (Restored(rec.id) \cap stored))
  <2>1. CASE snaps' = Without(snaps, rec.id) /\ leaked' = leaked \cup (Restored(rec.id) \cap stored)
    <3>0. PICK w : w = Without(snaps, rec.id)
      OBVIOUS
    <3>1. snaps \in Seq(RecordOf(own))
      BY <1>5
    <3>2. w \in Seq(RecordOf(own)) /\ Leaves(snaps, rec.id, w)
      BY <3>0, <3>1, WithoutIs, Zenon
    <3>3. DOMAIN w = 1..Len(w) /\ DOMAIN snaps = 1..Len(snaps) /\ snaps' = w
      BY <2>1, <3>0, <3>1, <3>2
    <3> QED BY <2>1, <3>2, <3>3 DEF Leaves
  <2>2. CASE snaps' = snaps /\ rec.id \in hollow'
    BY <1>5, <2>2
  <2> QED BY <1>7, <2>1, <2>2
<1>11. RemoteInv'
  BY <1>3 DEF SnapshotsInv, RemoteInv, Made
<1>12. UploadInv'
  <2>1. d.do # "backup"
    BY <1>8
  <2> QED BY <1>3, <1>9, <2>1, UploadKept DEF SnapshotsInv
<1>13. OwnedInv'
  <2> SUFFICES ASSUME NEW x \in stored' PROVE IsOwned(x)' \/ x \in leaked' \/ InFlight(x)'
    BY DEF OwnedInv
  <2>1. CASE IsOwned(x)
    <3>1. PICK j \in DOMAIN snaps : x \in Data(snaps[j])
      BY <2>1 DEF IsOwned
    <3>2. CASE \E i \in DOMAIN snaps' : snaps'[i] = snaps[j]
      BY <3>1, <3>2 DEF IsOwned, Data, Inner, File
    <3>3. CASE snaps[j].id = rec.id /\ leaked' = leaked \cup (Restored(rec.id) \cap stored)
      <4>1. x \in Restored(rec.id)
        BY <3>1, <3>3 DEF Restored
      <4> QED BY <1>3, <3>3, <4>1
    <3> QED BY <1>10, <3>2, <3>3
  <2>2. CASE InFlight(x)
    BY <1>3, <1>9, <2>2, FlightStep
  <2> QED BY <1>3, <1>8, <2>1, <2>2 DEF SnapshotsInv, OwnedInv
<1>14. NewInv'
  <2>1. \A i \in DOMAIN snaps' : Known(p, snaps'[i].id)
    BY <1>10 DEF Known
  <2>2. \A i \in DOMAIN runs' : Known(p, runs'[i].id)
    BY <1>3 DEF Known
  <2>3. download' # Nothing => Known(p, download'.id)
    BY <1>3 DEF Known
  <2>4. NewInv /\ d.do # "new" /\ (d.do # "free" /\ d # Retain => Known(p, d.rec.id)) /\ stored' = stored
    BY <1>3, <1>8 DEF SnapshotsInv
  <2> QED BY <1>9, <2>1, <2>2, <2>3, <2>4, NewKept
<1>15. RecordsHaveData'
  <2> SUFFICES ASSUME NEW i \in DOMAIN snaps'
               PROVE  snaps'[i].id \in hollow' \cup Erasing' \/ Data(snaps'[i]) \subseteq stored'
    BY DEF RecordsHaveData, Data, Inner, File
  <2>1. PICK j \in DOMAIN snaps : snaps'[i] = snaps[j] /\ (snaps[j].id # rec.id \/ rec.id \in hollow')
    BY <1>10
  <2>2. \A n : n \in Erasing => n \in Erasing' \/ n = rec.id
    BY <1>2, <1>9, ErasingStep
  <2> QED BY <1>3, <1>8, <2>1, <2>2 DEF SnapshotsInv, RecordsHaveData
<1>16. ShapeInv'
  <2>1. faulted' \in 0..MaxFaults /\ asked' \in 0..MaxCommands
    BY <1>1, <1>3, <1>8, CountersStep
  <2> QED BY <1>1, <1>3, <1>5, <1>9, <1>10, <2>1, ShapeStep
<1> QED BY <1>11, <1>12, <1>13, <1>14, <1>15, <1>16 DEF SnapshotsInv

LEMMA DownloadKeeps ==
  ASSUME SnapshotsConstants, SnapshotsInv, NEW i \in DOMAIN runs, Download(i)
  PROVE  SnapshotsInv'
<1>1. PICK own \in Owners : SnapshotsShape(own)
  BY Unfold
<1>2. PICK n : n = runs[i].id
  OBVIOUS
<1>3. /\ Ask /\ download = Nothing /\ stored' = stored \cup {<<"restore", n>>}
      /\ download' = [id |-> n, env |-> runs[i].env]
      /\ UNCHANGED <<snaps, image, runs, remote, doing, faulted, leaked, hollow>>
  BY <1>2 DEF Download
<1>4. /\ image \in Seq(Images) /\ snaps \in Seq(RecordOf(own)) /\ runs \in Seq(RunOf(own)) /\ Len(runs) <= MaxHistory
      /\ stored \subseteq {"inner", "local", "restore"} \X (1..Made)
      /\ DOMAIN doing = Process /\ \A p \in Process : doing[p] \in Job(own, p)
  BY <1>1 DEF SnapshotsShape
<1>5. runs[i] \in RunOf(own)
  BY <1>4
<1>6. n \in 1..Made /\ runs[i].env \in Env /\ own[n] = runs[i].env
  BY <1>2, <1>5, RunIs
<1>7. /\ download' \in [id : 1..Made, env : Env] /\ own[download'.id] = download'.env
      /\ download'.id = n /\ download' # Nothing
  <2>1. n # 0
    BY <1>6
  <2> QED BY <1>3, <1>6, <2>1 DEF Nothing
<1>8. RemoteInv' /\ UploadInv'
  BY <1>3 DEF SnapshotsInv, RemoteInv, UploadInv, Made
<1>9. OwnedInv'
  <2> SUFFICES ASSUME NEW x \in stored' PROVE IsOwned(x)' \/ x \in leaked' \/ InFlight(x)'
    BY DEF OwnedInv
  <2>1. CASE x = <<"restore", n>>
    BY <1>7, <2>1 DEF InFlight
  <2>2. CASE IsOwned(x)
    BY <1>3, <2>2 DEF IsOwned, Data, Inner, File
  <2>3. CASE InFlight(x)
    BY <1>3, <2>3 DEF InFlight, Data, Inner, File
  <2> QED BY <1>3, <2>1, <2>2, <2>3 DEF SnapshotsInv, OwnedInv
<1>10. NewInv'
  <2> SUFFICES ASSUME NEW e \in Env, doing[e].do = "new"
               PROVE  Data(doing[e].rec) \subseteq stored' /\ n # doing[e].rec.id
    BY <1>3, <1>7 DEF SnapshotsInv, NewInv, Data, Inner, File, HasRecord
  <2> QED BY <1>2, <1>3 DEF SnapshotsInv, NewInv
<1>11. RecordsHaveData'
  <2>1. Erasing' = Erasing
    BY <1>3 DEF Erasing
  <2> QED BY <1>3, <2>1 DEF SnapshotsInv, RecordsHaveData, Data, Inner, File
<1>12. ShapeInv'
  <2>1. faulted' \in 0..MaxFaults /\ asked' \in 0..MaxCommands
    BY <1>1, <1>3, CountersStep
  <2>2. stored' \subseteq {"inner", "local", "restore"} \X (1..Made)
    BY <1>3, <1>4, <1>6
  <2> QED BY <1>1, <1>3, <1>4, <1>7, <2>1, <2>2, ShapeStep
<1> QED BY <1>8, <1>9, <1>10, <1>11, <1>12 DEF SnapshotsInv

\* A record whose data is gone after the step is one of the emptied ones.
LEMMA EmptiedIs ==
  ASSUME NEW s, NEW i \in DOMAIN s
  PROVE  s[i].id \in Emptied(s) \/ Data(s[i]) \subseteq stored'
  BY DEF Emptied

LEMMA InstallKeeps ==
  ASSUME SnapshotsConstants, SnapshotsInv, NEW e \in Env, Install(e)
  PROVE  SnapshotsInv'
<1>1. PICK own \in Owners : SnapshotsShape(own)
  BY Unfold
<1>2. PICK n : n = download.id
  OBVIOUS
<1>3. /\ download # Nothing /\ download.env = e /\ doing[e] = Available /\ download' = Nothing /\ e \in Process
      /\ UNCHANGED <<asked, snaps, image, runs, remote>>
  BY DEF Install, Process
<1>4. /\ image \in Seq(Images) /\ snaps \in Seq(RecordOf(own)) /\ runs \in Seq(RunOf(own)) /\ Len(runs) <= MaxHistory
      /\ stored \subseteq {"inner", "local", "restore"} \X (1..Made)
      /\ DOMAIN doing = Process /\ \A p \in Process : doing[p] \in Job(own, p)
      /\ n \in 1..Made /\ own[n] = e
  BY <1>1, <1>2, <1>3 DEF SnapshotsShape
<1>5. \A i \in DOMAIN snaps : snaps[i].id = n =>
          snaps[i].env = e /\ (Kind[e] = "container" => snaps[i].file = "local" /\ ~snaps[i].inner)
  <2>1. \A i \in DOMAIN snaps : snaps[i] \in RecordOf(own)
    BY <1>4
  <2> QED BY <1>4, <2>1, RecordIs
<1>6. PICK f : f = IF Kind[e] = "container" THEN "local" ELSE "restore"
  OBVIOUS
<1>7. PICK rec : rec = Record(n, e, FALSE, f)
  OBVIOUS
<1>8. /\ rec \in OwnRecord(own, e) /\ rec.id = n /\ rec.file = f /\ ~rec.inner /\ f \in {"local", "restore"}
      /\ \A x : x \in Data(rec) <=> x = <<f, n>>
  <2>1. rec = [id |-> n, env |-> e, inner |-> FALSE, file |-> f]
    BY <1>7 DEF Record
  <2>2. rec \in OwnRecord(own, e) /\ rec.id = n /\ rec.file = f /\ ~rec.inner /\ f \in {"local", "restore"}
    BY <1>4, <1>6, <2>1 DEF OwnRecord, RecordOf, FileKind
  <2> QED BY <2>2, DataIs
<1>9. PICK d : d = doing'[e]
  OBVIOUS
<1>10. /\ DOMAIN doing' = Process /\ \A q \in Process \ {e} : doing'[q] = doing[q]
       /\ \/ /\ d = [do |-> "persist", rec |-> rec] /\ UNCHANGED <<faulted, leaked, hollow>>
             /\ stored' = IF Kind[e] = "container" THEN Imported(n) ELSE stored
          \/ /\ d = Available /\ Fault /\ Abandon({<<"local", n>>, <<"restore", n>>} \cap stored')
             /\ stored' \in (IF Kind[e] = "container" THEN ImportFailed(n) ELSE DiskFailed(n))
  <2>1. CASE /\ stored' = IF Kind[e] = "container" THEN Imported(n) ELSE stored
             /\ doing' = [doing EXCEPT ![e] = [do |-> "persist", rec |-> rec]]
             /\ UNCHANGED <<faulted, leaked, hollow>>
    BY <1>3, <1>4, <1>9, <2>1
  <2>2. CASE /\ Fault
             /\ stored' \in (IF Kind[e] = "container" THEN ImportFailed(n) ELSE DiskFailed(n))
             /\ Abandon({<<"local", n>>, <<"restore", n>>} \cap stored')
             /\ UNCHANGED doing
    BY <1>3, <1>4, <1>9, <2>2
  <2>3. CASE Kind[e] = "container"
    BY <1>2, <1>6, <1>7, <2>1, <2>2, <2>3 DEF Install
  <2>4. CASE Kind[e] # "container"
    BY <1>2, <1>6, <1>7, <2>1, <2>2, <2>4 DEF Install
  <2> QED BY <2>3, <2>4
<1>11. /\ d \in Job(own, e) /\ d.do \in {"free", "persist"} /\ (d.do = "persist" => d.rec = rec)
       /\ (d = Available => d.do = "free")
       /\ (faulted' = faulted \/ Fault) /\ leaked \subseteq leaked' /\ hollow \subseteq hollow'
  <2>1. CASE d = Available
    BY <1>10, <2>1 DEF Available, Job, Abandon
  <2>2. CASE d # Available
    <3>1. d = [do |-> "persist", rec |-> rec]
      BY <1>10, <2>2
    <3>2. d \in PersistJob(own, e)
      BY <1>6, <1>8, <3>1 DEF PersistJob
    <3> QED BY <1>10, <2>2, <3>1, <3>2 DEF Job
  <2> QED BY <2>1, <2>2
<1>12. /\ doing'[e] = d /\ doing[e].do = "free"
       /\ \A q \in Process : doing'[q] \in Job(own, q)
  BY <1>3, <1>4, <1>9, <1>10, <1>11 DEF Available
<1>13. /\ \A x \in stored' : x \in stored \/ x = <<"local", n>>
       /\ \A x \in stored : x \in stored' \/ x = <<"local", n>> \/ x = <<"restore", n>>
  <2>1. CASE d # Available
    BY <1>10, <2>1 DEF Imported
  <2>2. CASE d = Available /\ Kind[e] = "container"
    <3>1. stored' \in ImportFailed(n)
      BY <1>10, <1>11, <2>2 DEF Available
    <3> QED BY <3>1 DEF ImportFailed
  <2>3. CASE d = Available /\ Kind[e] # "container"
    <3>1. stored' \in DiskFailed(n)
      BY <1>10, <1>11, <2>3 DEF Available
    <3> QED BY <3>1 DEF DiskFailed
  <2> QED BY <2>1, <2>2, <2>3
<1>14. RemoteInv'
  BY <1>3 DEF SnapshotsInv, RemoteInv, Made
<1>15. UploadInv'
  <2>1. d.do # "backup"
    BY <1>11
  <2> QED BY <1>3, <1>10, <1>12, <2>1, UploadKept DEF SnapshotsInv
<1>16. OwnedInv'
  <2> SUFFICES ASSUME NEW x \in stored' PROVE IsOwned(x)' \/ x \in leaked' \/ InFlight(x)'
    BY DEF OwnedInv
  <2>0. IsOwned(x) => IsOwned(x)'
    BY <1>3 DEF IsOwned, Data, Inner, File
  <2>1. CASE x = <<"local", n>> \/ x = <<"restore", n>>
    <3>1. CASE d = Available
      <4>1. Abandon({<<"local", n>>, <<"restore", n>>} \cap stored')
        BY <1>10, <3>1 DEF Available
      <4>2. x \in leaked' \/ x \in Owned
        BY <2>1, <4>1 DEF Abandon
      <4> QED BY <2>0, <4>2, OwnedIs
    <3>2. CASE d # Available
      <4>1. d.do = "persist" /\ d.rec = rec
        BY <1>10, <1>11, <3>2
      <4>2. CASE x \in Data(rec)
        <5>1. doing'[e].do \in {"new", "persist"} /\ x \in Data(doing'[e].rec)
          BY <1>12, <4>1, <4>2
        <5> QED BY <1>3, <5>1 DEF InFlight, Data, Inner, File
      <4>3. CASE x \notin Data(rec)
        <5>1. Kind[e] # "container" /\ x = <<"local", n>>
          <6>1. CASE Kind[e] = "container"
            BY <1>6, <1>8, <1>10, <2>1, <3>2, <4>3, <6>1 DEF Imported
          <6> QED BY <1>6, <1>8, <2>1, <4>3, <6>1
        <5>2. x \in stored
          BY <1>10, <3>2, <5>1
        <5>3. CASE InFlight(x)
          <6>1. x # <<"restore", download.id>>
            BY <5>1
          <6>2. doing[e].do \notin {"new", "persist"}
            BY <1>12
          <6> QED BY <1>3, <1>10, <5>3, <6>1, <6>2, FlightStep
        <5> QED BY <1>11, <2>0, <5>2, <5>3 DEF SnapshotsInv, OwnedInv
      <4> QED BY <4>2, <4>3
    <3> QED BY <3>1, <3>2
  <2>2. CASE ~(x = <<"local", n>> \/ x = <<"restore", n>>)
    <3>1. CASE InFlight(x)
      BY <1>2, <1>3, <1>10, <1>12, <2>2, <3>1, FlightStep
    <3> QED BY <1>11, <1>13, <2>0, <2>2, <3>1 DEF SnapshotsInv, OwnedInv
  <2> QED BY <2>1, <2>2
<1>17. NewInv'
  <2>1. Known(e, n)
    BY <1>2, <1>3 DEF Known
  <2>2. \A i \in DOMAIN snaps' : Known(e, snaps'[i].id)
    BY <1>3 DEF Known
  <2>3. \A i \in DOMAIN runs' : Known(e, runs'[i].id)
    BY <1>3 DEF Known
  <2>4. download' # Nothing => Known(e, download'.id)
    BY <1>3
  <2>5. ASSUME NEW x \in stored PROVE x \in stored' \/ Known(e, x[2])
    BY <1>13, <2>1
  <2>6. NewInv /\ d.do # "new" /\ (d.do # "free" /\ d # Retain => Known(e, d.rec.id))
    BY <1>8, <1>11, <2>1 DEF SnapshotsInv
  <2> QED BY <1>3, <1>10, <1>12, <2>2, <2>3, <2>4, <2>5, <2>6, NewKept
<1>18. RecordsHaveData'
  <2> SUFFICES ASSUME NEW i \in DOMAIN snaps
               PROVE  snaps[i].id \in hollow' \cup Erasing' \/ Data(snaps[i]) \subseteq stored'
    BY <1>3 DEF RecordsHaveData, Data, Inner, File
  <2>1. ~Dropping(e)
    BY <1>12 DEF Dropping
  <2>2. \A m : m \in Erasing => m \in Erasing'
    BY <1>3, <1>10, <2>1, ErasingStep
  <2>3. CASE d = Available
    <3>1. hollow' = hollow \cup Emptied(snaps)
      BY <1>10, <2>3 DEF Abandon, Available
    <3> QED BY <3>1, EmptiedIs
  <2>4. CASE d # Available
    <3>1. hollow' = hollow /\ stored' = IF Kind[e] = "container" THEN Imported(n) ELSE stored
      BY <1>10, <2>4
    <3>2. CASE Data(snaps[i]) \subseteq stored
      <4>1. CASE Kind[e] # "container"
        BY <3>1, <3>2, <4>1
      <4>2. CASE Kind[e] = "container"
        <5>1. ASSUME NEW x \in Data(snaps[i]) PROVE x # <<"restore", n>>
          <6>1. x = <<"restore", n>> => snaps[i].id = n
            BY DataIs
          <6>2. snaps[i].id = n => x = <<"local", n>>
            BY <1>5, <4>2, DataIs
          <6> QED BY <6>1, <6>2
        <5> QED BY <3>1, <3>2, <4>2, <5>1 DEF Imported
      <4> QED BY <4>1, <4>2
    <3> QED BY <2>2, <3>1, <3>2 DEF SnapshotsInv, RecordsHaveData
  <2> QED BY <2>3, <2>4
<1>19. ShapeInv'
  <2>1. faulted' \in 0..MaxFaults /\ asked' \in 0..MaxCommands
    BY <1>1, <1>3, <1>11, CountersStep
  <2>2. stored' \subseteq {"inner", "local", "restore"} \X (1..Made)
    BY <1>4, <1>13
  <2> QED BY <1>1, <1>3, <1>4, <1>10, <1>12, <2>1, <2>2, ShapeStep
<1> QED BY <1>14, <1>15, <1>16, <1>17, <1>18, <1>19 DEF SnapshotsInv

LEMMA PersistIs ==
  ASSUME NEW own \in Owners, SnapshotsShape(own), NEW e \in Env, doing[e].do = "persist"
  PROVE  /\ e \in Process /\ doing[e].rec \in OwnRecord(own, e) /\ HasRecord(e) /\ ~doing[e].rec.inner
         /\ doing[e].rec.file = IF Kind[e] = "container" THEN "local" ELSE "restore"
<1>1. e \in Process /\ doing[e] \in Job(own, e)
  BY DEF SnapshotsShape, Process
<1>2. doing[e] \in PersistJob(own, e)
  BY <1>1, JobIs
<1> QED BY <1>1, <1>2 DEF PersistJob, HasRecord, Retain

LEMMA PersistKeeps ==
  ASSUME SnapshotsConstants, SnapshotsInv, NEW e \in Env, Persist(e)
  PROVE  SnapshotsInv'
<1>1. PICK own \in Owners : SnapshotsShape(own)
  BY Unfold
<1>2. PICK rec : rec = doing[e].rec
  OBVIOUS
<1>3. doing[e].do = "persist" /\ UNCHANGED <<asked, image, runs, remote, download>>
  BY DEF Persist
<1>4. /\ e \in Process /\ rec \in OwnRecord(own, e) /\ HasRecord(e) /\ ~rec.inner
      /\ rec.file = IF Kind[e] = "container" THEN "local" ELSE "restore"
  BY <1>1, <1>2, <1>3, PersistIs
<1>5. /\ image \in Seq(Images) /\ snaps \in Seq(RecordOf(own)) /\ runs \in Seq(RunOf(own)) /\ Len(runs) <= MaxHistory
      /\ stored \subseteq {"inner", "local", "restore"} \X (1..Made)
      /\ download = Nothing \/ (download \in [id : 1..Made, env : Env] /\ own[download.id] = download.env)
  BY <1>1 DEF SnapshotsShape
<1>6. /\ rec \in RecordOf(own) /\ rec.id \in 1..Made /\ rec.env = e /\ own[rec.id] = e
      /\ \A x : x \in Data(rec) <=> x = <<rec.file, rec.id>>
  <2>1. rec \in RecordOf(own) /\ rec.env = e
    BY <1>4 DEF OwnRecord
  <2>2. rec.file # "none"
    BY <1>4
  <2> QED BY <1>4, <2>1, <2>2, RecordIs, DataIs
<1>7. PICK inner : inner = InnerOf(e) /\
                   inner = {<<"inner", s>> : s \in {n \in 1..Made : \E i \in DOMAIN snaps :
                                               snaps[i].id = n /\ snaps[i].env = e}}
  BY DEF InnerOf
<1>8. CASE /\ snaps' = <<rec>> \o Without(snaps, rec.id)
           /\ stored' = IF rec.file = "restore" THEN stored \ inner ELSE stored
           /\ leaked' = leaked \cup (({<<"local", rec.id>>} \cap stored) \ Data(rec))
           /\ hollow' = (hollow \ {rec.id}) \cup Emptied(snaps')
           /\ doing' = [doing EXCEPT ![e] = Retain]
           /\ UNCHANGED faulted
  <2>1. Retain \in Job(own, e) /\ Retain.do = "retain" /\ Retain.at = "pick"
    BY DEF Job, Retain
  <2>2. /\ DOMAIN doing' = Process /\ doing'[e] = Retain
        /\ \A q \in Process \ {e} : doing'[q] = doing[q]
        /\ \A q \in Process : doing'[q] \in Job(own, q)
    BY <1>1, <1>4, <1>8, <2>1, OneJob
  <2>3. /\ snaps' \in Seq(RecordOf(own)) /\ 1 \in DOMAIN snaps' /\ snaps'[1] = rec
        /\ \A i \in DOMAIN snaps' : snaps'[i] = rec \/ \E j \in DOMAIN snaps : snaps'[i] = snaps[j]
        /\ \A j \in DOMAIN snaps : snaps[j].id = rec.id \/ \E i \in DOMAIN snaps' : snaps'[i] = snaps[j]
    <3>1. PICK w : w = Without(snaps, rec.id)
      OBVIOUS
    <3>2. DOMAIN snaps = 1..Len(snaps)
      BY <1>5
    <3>3. snaps \in Seq(RecordOf(own)) /\ snaps' = <<rec>> \o w
      BY <1>5, <1>8, <3>1
    <3>4. w \in Seq(RecordOf(own)) /\ Leaves(snaps, rec.id, w)
      BY <3>1, <3>3, WithoutIs, Zenon
    <3>5. /\ snaps' \in Seq(RecordOf(own)) /\ Len(snaps') = Len(w) + 1 /\ snaps'[1] = rec
          /\ \A i \in 2..(Len(w) + 1) : snaps'[i] = w[i - 1]
      BY <1>6, <3>3, <3>4
    <3>6. 1 \in DOMAIN snaps'
      BY <3>4, <3>5
    <3>7. ASSUME NEW i \in DOMAIN snaps', i # 1 PROVE \E j \in DOMAIN snaps : snaps'[i] = snaps[j]
      <4>1. i - 1 \in 1..Len(w) /\ snaps'[i] = w[i - 1]
        BY <3>4, <3>5, <3>7
      <4>2. PICK j \in 1..Len(snaps) : w[i - 1] = snaps[j]
        BY <3>4, <4>1 DEF Leaves
      <4> QED BY <3>2, <4>1, <4>2
    <3>8. ASSUME NEW j \in DOMAIN snaps, snaps[j].id # rec.id PROVE \E i \in DOMAIN snaps' : snaps'[i] = snaps[j]
      <4>1. PICK k \in 1..Len(w) : w[k] = snaps[j]
        BY <3>2, <3>4, <3>8 DEF Leaves
      <4>2. k + 1 \in DOMAIN snaps' /\ snaps'[k + 1] = w[k]
        BY <3>4, <3>5
      <4> QED BY <4>1, <4>2
    <3> QED BY <3>5, <3>6, <3>7, <3>8
  <2>4. stored' \subseteq stored /\ \A x \in stored : x \in stored' \/ x \in inner
    BY <1>8
  <2>5. RemoteInv'
    BY <1>3 DEF SnapshotsInv, RemoteInv, Made
  <2>6. UploadInv'
    BY <1>3, <1>4, <2>1, <2>2, UploadKept DEF SnapshotsInv
  <2>7. OwnedInv'
    <3> SUFFICES ASSUME NEW x \in stored' PROVE IsOwned(x)' \/ x \in leaked' \/ InFlight(x)'
      BY DEF OwnedInv
    <3>1. CASE x \in Data(rec)
      BY <2>3, <3>1 DEF IsOwned, Data, Inner, File
    <3>2. CASE IsOwned(x)
      <4>1. PICK j \in DOMAIN snaps : x \in Data(snaps[j])
        BY <3>2 DEF IsOwned
      <4>2. CASE \E i \in DOMAIN snaps' : snaps'[i] = snaps[j]
        BY <4>1, <4>2 DEF IsOwned, Data, Inner, File
      <4>3. CASE snaps[j].id = rec.id
        <5>1. snaps[j] \in RecordOf(own)
          BY <1>5
        <5>2. /\ snaps[j].env = e /\ snaps[j].file \in FileKind
              /\ Kind[e] = "container" => snaps[j].file = "local" /\ ~snaps[j].inner
          BY <1>6, <4>3, <5>1, RecordIs
        <5>3. CASE snaps[j].inner /\ x = <<"inner", rec.id>>
          <6>1. rec.file = "restore" /\ x \in inner
            BY <1>4, <1>6, <1>7, <4>3, <5>2, <5>3
          <6> QED BY <1>8, <6>1
        <5>4. CASE snaps[j].file # "none" /\ x = <<snaps[j].file, rec.id>>
          <6>1. CASE snaps[j].file = "local"
            BY <1>8, <2>4, <3>1, <5>4, <6>1
          <6>2. CASE snaps[j].file = "restore"
            BY <1>4, <1>6, <3>1, <5>2, <5>4, <6>2
          <6> QED BY <5>2, <5>4, <6>1, <6>2 DEF FileKind
        <5> QED BY <4>1, <4>3, <5>3, <5>4, DataIs
      <4> QED BY <2>3, <4>2, <4>3
    <3>3. CASE InFlight(x)
      BY <1>2, <1>3, <1>4, <2>2, <3>1, <3>3, FlightStep
    <3> QED BY <1>8, <2>4, <3>2, <3>3 DEF SnapshotsInv, OwnedInv
  <2>8. NewInv'
    <3>1. Known(e, rec.id)
      BY <1>2, <1>4 DEF Known
    <3>2. \A i \in DOMAIN snaps' : Known(e, snaps'[i].id)
      BY <2>3, <3>1 DEF Known
    <3>3. \A i \in DOMAIN runs' : Known(e, runs'[i].id)
      BY <1>3 DEF Known
    <3>4. download' # Nothing => Known(e, download'.id)
      BY <1>3 DEF Known
    <3>5. ASSUME NEW x \in stored PROVE x \in stored' \/ Known(e, x[2])
      <4>1. CASE x \in inner
        <5>1. PICK j \in DOMAIN snaps : x = <<"inner", snaps[j].id>>
          BY <1>7, <4>1
        <5>2. x[2] = snaps[j].id
          BY <5>1
        <5> QED BY <5>2 DEF Known
      <4> QED BY <2>4, <4>1
    <3>6. NewInv
      BY DEF SnapshotsInv
    <3> QED BY <1>4, <2>1, <2>2, <3>2, <3>3, <3>4, <3>5, <3>6, NewKept
  <2>9. RecordsHaveData'
    <3> SUFFICES ASSUME NEW i \in DOMAIN snaps'
                 PROVE  snaps'[i].id \in hollow' \cup Erasing' \/ Data(snaps'[i]) \subseteq stored'
      BY DEF RecordsHaveData, Data, Inner, File
    <3>1. PICK t : t = snaps'
      OBVIOUS
    <3>2. t[i].id \in Emptied(t) \/ Data(t[i]) \subseteq stored'
      BY <3>1, EmptiedIs
    <3> QED BY <1>8, <3>1, <3>2
  <2>10. ShapeInv'
    <3>1. faulted' \in 0..MaxFaults /\ asked' \in 0..MaxCommands
      BY <1>1, <1>3, <1>8, CountersStep
    <3>2. stored' \subseteq {"inner", "local", "restore"} \X (1..Made)
      BY <1>5, <2>4
    <3> QED BY <1>1, <1>3, <1>5, <2>2, <2>3, <3>1, <3>2, ShapeStep
  <2> QED BY <2>5, <2>6, <2>7, <2>8, <2>9, <2>10 DEF SnapshotsInv
<1>9. CASE /\ Fault
           /\ \E gone \in SUBSET Data(rec) :
                 /\ stored' = stored \ gone
                 /\ Abandon(Data(rec) \ gone)
           /\ doing' = [doing EXCEPT ![e] = Available]
           /\ UNCHANGED snaps
  <2>1. PICK gone \in SUBSET Data(rec) : stored' = stored \ gone /\ Abandon(Data(rec) \ gone)
    BY <1>9
  <2>2. Available \in Job(own, e) /\ Available.do = "free"
    BY DEF Job, Available
  <2>3. /\ DOMAIN doing' = Process /\ doing'[e] = Available
        /\ \A q \in Process \ {e} : doing'[q] = doing[q]
        /\ \A q \in Process : doing'[q] \in Job(own, q)
    BY <1>1, <1>4, <1>9, <2>2, OneJob
  <2>4. leaked' = leaked \cup ((Data(rec) \ gone) \ Owned) /\ hollow' = hollow \cup Emptied(snaps)
    BY <2>1 DEF Abandon
  <2>5. RemoteInv'
    BY <1>3 DEF SnapshotsInv, RemoteInv, Made
  <2>6. UploadInv'
    BY <1>3, <1>4, <2>2, <2>3, UploadKept DEF SnapshotsInv
  <2>7. OwnedInv'
    <3> SUFFICES ASSUME NEW x \in stored' PROVE IsOwned(x)' \/ x \in leaked' \/ InFlight(x)'
      BY DEF OwnedInv
    <3>0. IsOwned(x) => IsOwned(x)'
      BY <1>9 DEF IsOwned, Data, Inner, File
    <3>1. CASE x \in Data(rec)
      BY <2>1, <2>4, <3>0, <3>1, OwnedIs
    <3>2. CASE InFlight(x)
      BY <1>2, <1>3, <1>4, <2>3, <3>1, <3>2, FlightStep
    <3> QED BY <2>1, <2>4, <3>0, <3>2 DEF SnapshotsInv, OwnedInv
  <2>8. NewInv'
    <3>1. Known(e, rec.id)
      BY <1>2, <1>4 DEF Known
    <3>2. \A i \in DOMAIN snaps' : Known(e, snaps'[i].id)
      BY <1>9 DEF Known
    <3>3. \A i \in DOMAIN runs' : Known(e, runs'[i].id)
      BY <1>3 DEF Known
    <3>4. download' # Nothing => Known(e, download'.id)
      BY <1>3 DEF Known
    <3>5. ASSUME NEW x \in stored PROVE x \in stored' \/ Known(e, x[2])
      <4>1. x \in Data(rec) => x[2] = rec.id
        BY DataIs
      <4> QED BY <2>1, <3>1, <4>1
    <3>6. NewInv
      BY DEF SnapshotsInv
    <3> QED BY <1>4, <2>2, <2>3, <3>2, <3>3, <3>4, <3>5, <3>6, NewKept
  <2>9. RecordsHaveData'
    <3> SUFFICES ASSUME NEW i \in DOMAIN snaps
                 PROVE  snaps[i].id \in hollow' \cup Erasing' \/ Data(snaps[i]) \subseteq stored'
      BY <1>9 DEF RecordsHaveData, Data, Inner, File
    <3> QED BY <2>4, EmptiedIs
  <2>10. ShapeInv'
    <3>1. faulted' \in 0..MaxFaults /\ asked' \in 0..MaxCommands
      BY <1>1, <1>3, <1>9, CountersStep
    <3>2. stored' \subseteq {"inner", "local", "restore"} \X (1..Made)
      BY <1>5, <2>1
    <3> QED BY <1>1, <1>3, <1>5, <1>9, <2>3, <3>1, <3>2, ShapeStep
  <2> QED BY <2>5, <2>6, <2>7, <2>8, <2>9, <2>10 DEF SnapshotsInv
<1> QED BY <1>2, <1>7, <1>8, <1>9 DEF Persist

LEMMA RestartKeeps ==
  ASSUME SnapshotsConstants, SnapshotsInv, Restart
  PROVE  SnapshotsInv'
<1>1. PICK own \in Owners : SnapshotsShape(own)
  BY Unfold
<1>2. /\ Fault /\ doing' = [p \in Process |-> Available] /\ download' = Nothing
      /\ leaked' = leaked \cup (stored \ Owned)
      /\ hollow' = hollow \cup Erasing
      /\ UNCHANGED <<asked, snaps, stored, image, remote>>
  BY DEF Restart, Erasing
<1>3. /\ image \in Seq(Images) /\ snaps \in Seq(RecordOf(own)) /\ runs \in Seq(RunOf(own)) /\ Len(runs) <= MaxHistory
      /\ stored \subseteq {"inner", "local", "restore"} \X (1..Made)
  BY <1>1 DEF SnapshotsShape
<1>4. DOMAIN doing' = Process /\ \A p \in Process : doing'[p] \in Job(own, p) /\ doing'[p].do = "free"
  BY <1>2 DEF Job, Available
<1>5. runs' = [i \in DOMAIN runs |-> IF runs[i].status = "running"
                                     THEN [runs[i] EXCEPT !.status = "failed"] ELSE runs[i]]
  BY DEF Restart
<1>6. ASSUME NEW i \in DOMAIN runs
      PROVE  /\ runs'[i] \in RunOf(own) /\ runs'[i].id = runs[i].id
             /\ runs'[i].status = "complete" => runs[i].status = "complete"
  <2>1. runs[i] \in RunOf(own)
    BY <1>3
  <2>2. CASE runs[i].status = "running"
    <3>1. runs'[i] = [runs[i] EXCEPT !.status = "failed"]
      BY <1>5, <2>2
    <3> QED BY <2>1, <3>1 DEF RunOf
  <2>3. CASE runs[i].status # "running"
    <3>1. runs'[i] = runs[i]
      BY <1>5, <2>3
    <3> QED BY <2>1, <3>1
  <2> QED BY <2>2, <2>3
<1>7. DOMAIN runs = 1..Len(runs) /\ Len(runs) \in Nat
  BY <1>3
<1>8. runs' \in Seq(RunOf(own)) /\ Len(runs') = Len(runs) /\ DOMAIN runs' = DOMAIN runs
  <2>1. DOMAIN runs' = DOMAIN runs /\ runs' \in [DOMAIN runs -> RunOf(own)]
    <3>1. DOMAIN runs' = DOMAIN runs /\ runs' = [i \in DOMAIN runs |-> runs'[i]]
      BY <1>5
    <3>2. \A i \in DOMAIN runs : runs'[i] \in RunOf(own)
      BY <1>6
    <3> QED BY <3>1, <3>2
  <2>2. runs' \in [1..Len(runs) -> RunOf(own)]
    BY <1>7, <2>1
  <2> QED BY <1>7, <2>1, <2>2
<1>9. RemoteInv'
  BY <1>2, <1>6, <1>8 DEF SnapshotsInv, RemoteInv, Made
<1>10. UploadInv' /\ NewInv'
  BY <1>4 DEF UploadInv, NewInv, Process
<1>11. OwnedInv'
  <2> SUFFICES ASSUME NEW x \in stored' PROVE IsOwned(x)' \/ x \in leaked' \/ InFlight(x)'
    BY DEF OwnedInv
  <2>1. IsOwned(x) => IsOwned(x)'
    BY <1>2 DEF IsOwned, Data, Inner, File
  <2> QED BY <1>2, <2>1, OwnedIs
<1>12. RecordsHaveData'
  BY <1>2 DEF SnapshotsInv, RecordsHaveData, Data, Inner, File
<1>13. ShapeInv'
  <2>1. faulted' \in 0..MaxFaults /\ asked' \in 0..MaxCommands
    BY <1>1, <1>2, CountersStep
  <2> QED BY <1>1, <1>2, <1>3, <1>4, <1>8, <2>1, ShapeStep
<1> QED BY <1>9, <1>10, <1>11, <1>12, <1>13 DEF SnapshotsInv

LEMMA SnapshotsStutter ==
  ASSUME SnapshotsInv, UNCHANGED snapshotVars
  PROVE  SnapshotsInv'
<1>1. UNCHANGED <<snaps, stored, image, runs, remote, dest, doing, download, faulted, asked, leaked, hollow>>
  BY DEF snapshotVars
<1>2. PICK own \in Owners : SnapshotsShape(own)
  BY Unfold
<1>3. ShapeInv'
  <2>1. /\ snaps' \in Seq(RecordOf(own)) /\ runs' \in Seq(RunOf(own)) /\ Len(runs') <= MaxHistory
        /\ stored' \subseteq {"inner", "local", "restore"} \X (1..Made)
        /\ download' = Nothing \/ (download' \in [id : 1..Made, env : Env] /\ own[download'.id] = download'.env)
        /\ DOMAIN doing' = Process /\ \A p \in Process : doing'[p] \in Job(own, p)
        /\ faulted' \in 0..MaxFaults /\ asked' \in 0..MaxCommands
    BY <1>1, <1>2 DEF SnapshotsShape
  <2> QED BY <1>1, <1>2, <2>1, ShapeStep
<1>4. RemoteInv' /\ UploadInv'
  BY <1>1 DEF SnapshotsInv, RemoteInv, UploadInv, Made
<1>5. OwnedInv' /\ NewInv'
  BY <1>1 DEF SnapshotsInv, OwnedInv, NewInv, IsOwned, InFlight, HasRecord, Data, Inner, File
<1>6. RecordsHaveData'
  BY <1>1 DEF SnapshotsInv, RecordsHaveData, Erasing, Data, Inner, File
<1> QED BY <1>3, <1>4, <1>5, <1>6 DEF SnapshotsInv

\* A snapshot restored in place takes inner snapshots of its machine along.
LEMMA InPlaceKeeps ==
  ASSUME SnapshotsConstants, SnapshotsInv, NEW k \in DOMAIN snaps, RestoreSnapshot(k)
  PROVE  SnapshotsInv'
<1>1. PICK own \in Owners : SnapshotsShape(own)
  BY Unfold
<1>2. PICK inner : inner = InnerOf(snaps[k].env)
  OBVIOUS
<1>3. /\ asked' = asked /\ stored' = stored \ inner /\ hollow' = hollow \cup Emptied(snaps)
      /\ UNCHANGED <<snaps, runs, image, remote, dest, download, doing, faulted, leaked>>
  BY <1>2 DEF RestoreSnapshot, cloud
<1>4. \A x \in inner : \E j \in DOMAIN snaps : x = <<"inner", snaps[j].id>>
  BY <1>2 DEF InnerOf
<1>5. ShapeInv'
  <2>1. /\ snaps \in Seq(RecordOf(own)) /\ runs \in Seq(RunOf(own)) /\ Len(runs) <= MaxHistory
        /\ stored \subseteq {"inner", "local", "restore"} \X (1..Made)
        /\ download = Nothing \/ (download \in [id : 1..Made, env : Env] /\ own[download.id] = download.env)
        /\ DOMAIN doing = Process /\ \A p \in Process : doing[p] \in Job(own, p)
    BY <1>1 DEF SnapshotsShape
  <2>2. faulted' \in 0..MaxFaults /\ asked' \in 0..MaxCommands
    BY <1>1, <1>3, CountersStep
  <2>3. stored' \subseteq {"inner", "local", "restore"} \X (1..Made)
    BY <1>3, <2>1
  <2> QED BY <1>1, <1>3, <2>1, <2>2, <2>3, ShapeStep
<1>6. RemoteInv' /\ UploadInv'
  BY <1>3 DEF SnapshotsInv, RemoteInv, UploadInv, Made
<1>7. OwnedInv'
  BY <1>3 DEF SnapshotsInv, OwnedInv, IsOwned, InFlight, Data, Inner, File
<1>8. NewInv'
  <2> SUFFICES ASSUME NEW e \in Env, doing[e].do = "new"
               PROVE  Data(doing[e].rec) \subseteq stored'
    BY <1>3 DEF SnapshotsInv, NewInv, HasRecord, Data, Inner, File
  <2>1. PICK rec : rec = doing[e].rec
    OBVIOUS
  <2>2. Data(rec) \subseteq stored /\ \A i \in DOMAIN snaps : snaps[i].id # rec.id
    BY <2>1 DEF SnapshotsInv, NewInv
  <2>3. ASSUME NEW x \in Data(rec) PROVE x \notin inner
    <3>1. x[2] = rec.id
      BY DataIs
    <3>2. ASSUME NEW j \in DOMAIN snaps, x = <<"inner", snaps[j].id>> PROVE FALSE
      BY <2>2, <3>1, <3>2
    <3> QED BY <1>4, <3>2
  <2> QED BY <1>3, <2>1, <2>2, <2>3
<1>9. RecordsHaveData'
  <2> SUFFICES ASSUME NEW i \in DOMAIN snaps
               PROVE  snaps[i].id \in hollow' \/ Data(snaps[i]) \subseteq stored'
    BY <1>3 DEF RecordsHaveData, Data, Inner, File
  <2>1. PICK t : t = snaps
    OBVIOUS
  <2>2. t[i].id \in Emptied(t) \/ Data(t[i]) \subseteq stored'
    BY <2>1, EmptiedIs
  <2> QED BY <1>3, <2>1, <2>2
<1> QED BY <1>5, <1>6, <1>7, <1>8, <1>9 DEF SnapshotsInv

LEMMA SnapshotsStep ==
  ASSUME SnapshotsConstants, SnapshotsInv, SnapshotsNext
  PROVE  SnapshotsInv'
<1>1. CASE \E e \in Env : Step(e)
  <2>1. PICK e \in Env : Step(e)
    BY <1>1
  <2>2. CASE \E backup \in BOOLEAN : Make(e, backup)
    BY <2>2, MakeKeeps
  <2>3. CASE SaveNew(e)
    BY <2>3, SaveNewKeeps
  <2>4. CASE Open(e)
    BY <2>4, OpenKeeps
  <2>5. CASE PutChunk(e)
    BY <2>5, PutChunkKeeps
  <2>6. CASE PutManifest(e)
    BY <2>6, PutManifestKeeps
  <2>7. CASE RecordRun(e)
    BY <2>7, RecordRunKeeps
  <2>8. CASE Install(e)
    BY <2>8, InstallKeeps
  <2>9. CASE Persist(e)
    BY <2>9, PersistKeeps
  <2> QED BY <2>1, <2>2, <2>3, <2>4, <2>5, <2>6, <2>7, <2>8, <2>9 DEF Step
<1>2. CASE \E p \in Process : Pick(p) \/ Erase(p) \/ Drop(p)
  BY <1>2, PickKeeps, EraseKeeps, DropKeeps
<1>3. CASE \E i \in DOMAIN snaps : Delete(i) \/ RestoreSnapshot(i)
  BY <1>3, DeleteKeeps, InPlaceKeeps
<1>4. CASE \E i \in DOMAIN runs : Download(i)
  BY <1>4, DownloadKeeps
<1>5. CASE UpdateSettings
  BY <1>5, SettingsKeep
<1>6. CASE AddDestination \/ DeleteDestination
  BY <1>6, DestinationKeeps
<1>7. CASE Restart
  BY <1>7, RestartKeeps
<1> QED BY <1>1, <1>2, <1>3, <1>4, <1>5, <1>6, <1>7 DEF SnapshotsNext

LEMMA SnapshotsGood ==
  ASSUME SnapshotsConstants, SnapshotsInv
  PROVE  SnapshotsType /\ CompleteIsDownloadable /\ NoOrphans /\ RecordsHaveData
<1>1. PICK own \in Owners : SnapshotsShape(own)
  BY Unfold
<1>2. /\ snaps \in Seq(RecordOf(own)) /\ runs \in Seq(RunOf(own)) /\ Len(runs) <= MaxHistory
      /\ stored \subseteq {"inner", "local", "restore"} \X (1..Made) /\ Made <= MaxSnaps
      /\ faulted <= MaxFaults /\ asked <= MaxCommands
  BY <1>1 DEF SnapshotsShape, SnapshotsConstants
<1>3. SnapshotsType
  <2>1. \A i \in DOMAIN snaps : snaps[i] \in RecordOf(own)
    BY <1>2
  <2>2. \A i \in DOMAIN runs : runs[i] \in RunOf(own)
    BY <1>2
  <2>3. \A r \in RecordOf(own) : r \in [id : 1..Made, env : Env, inner : BOOLEAN, file : {"none", "local", "restore"}]
    BY DEF RecordOf, FileKind
  <2>4. \A i \in DOMAIN runs : runs[i].id \in 1..Made /\ runs[i].status \in {"running", "complete", "failed"}
    BY <2>2, RunIs
  <2> QED BY <1>2, <2>1, <2>3, <2>4 DEF SnapshotsType
<1>4. CompleteIsDownloadable
  BY DEF SnapshotsInv, RemoteInv, CompleteIsDownloadable, Downloadable
<1>5. NoOrphans
  <2> SUFFICES ASSUME Quiet, NEW x \in stored PROVE x \in Owned \cup leaked
    BY DEF NoOrphans
  <2>1. ~InFlight(x)
    BY DEF Quiet, InFlight, Available
  <2> QED BY <2>1, OwnedIs DEF SnapshotsInv, OwnedInv
<1> QED BY <1>3, <1>4, <1>5 DEF SnapshotsInv

\* For any environments, retention and number of snapshots: a run that is recorded as complete
\* can be downloaded, no data is left without a record and no record without its data, whatever
\* retention, deletion, backups and restores of all environments do at the same time, but for
\* what a failure broke off (commands.rs, backup.rs).
THEOREM SnapshotsWhole ==
  ASSUME SnapshotsConstants
  PROVE  SnapshotsSpec => [](SnapshotsType /\ CompleteIsDownloadable /\ NoOrphans /\ RecordsHaveData)
<1>1. SnapshotsInit => SnapshotsInv
  BY SnapshotsInitial
<1>2. SnapshotsInv /\ [SnapshotsNext]_snapshotVars => SnapshotsInv'
  BY SnapshotsStep, SnapshotsStutter
<1>3. SnapshotsInv => SnapshotsType /\ CompleteIsDownloadable /\ NoOrphans /\ RecordsHaveData
  BY SnapshotsGood
<1> QED BY <1>1, <1>2, <1>3, PTL DEF SnapshotsSpec
===============================================================================
