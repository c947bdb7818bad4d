------------------------- MODULE PlatformStore_proofs -------------------------
(***************************************************************************)
(* Proofs about PlatformStore: what holds of the state file for every set  *)
(* of facts, every number of faults and every choice of fallible calls.    *)
(***************************************************************************)
EXTENDS PlatformStore, TLAPS

\* The assumption under which nothing is ever lost: the rename that puts the
\* previous generation back succeeds.
RollbackReliable == "rollback" \notin Fallible

\* Every file has a content, and a state is none of the special values.
LEMMA Contents ==
    ASSUME TypeOK
    PROVE  /\ \A f \in Files : disk[f] \in {Missing, Corrupt} \cup State
           /\ \A s \in State : s # None /\ s # Missing /\ s # Corrupt
           /\ Missing # Corrupt
BY ConstantsAssumption DEF TypeOK, Content, State

\* Normalising a state gives a state; the empty state is one.
LEMMA NormaliseType == \A s \in State : Normalise(s) \in State
BY DEF Normalise, State

\* The initial state, with no file at all, satisfies the invariant.
LEMMA InitInv == Init => StoreInv
<1> SUFFICES ASSUME Init PROVE StoreInv
  OBVIOUS
<1>1. TypeOK
  BY DEF Init, TypeOK, Content, Files, State, Calls
<1>2. WriteInv /\ RecoveryInv /\ HistoryInv
  BY ConstantsAssumption
  DEF Init, WriteInv, RecoveryInv, HistoryInv, Files, Exists, Readable
<1> QED BY <1>1, <1>2 DEF StoreInv

\* Opening the store, up to its first write, keeps the invariant.
Reads == SUBSET {"main", "bak"}

LEMMA LoadInv == StoreInv /\ (\E r \in Reads : Load(r)) => StoreInv'
<1> SUFFICES ASSUME StoreInv, NEW r \in Reads, Load(r) PROVE StoreInv'
  OBVIOUS
<1> USE DEF StoreInv, StartReads, Loaded, Absent
<1>1. /\ \A f \in Files : disk[f] \in {Missing, Corrupt} \cup State
      /\ \A s \in State : s # None /\ s # Missing /\ s # Corrupt
      /\ Missing # Corrupt
  BY Contents
<1>2. cand' \in {None} \cup State /\ (cand' = None <=> pc' = "refused")
  BY <1>1, NormaliseType DEF Load, Readable, Empty, State, Files
<1>3. TypeOK'
  BY <1>1, <1>2 DEF Load, TypeOK, history, Calls
<1>4. WriteInv' /\ RecoveryInv'
  BY <1>1 DEF Load, TypeOK, WriteInv, RecoveryInv, HistoryInv, Readable, Exists, Files, history
<1>5. HistoryInv'
  BY <1>1 DEF Load, TypeOK, HistoryInv, Readable, Exists, Durable, Files, history
<1> QED BY <1>3, <1>4, <1>5

\* Rebuilding the primary from the backup keeps the invariant.
LEMMA RecoverInv == StoreInv /\ (Preserve \/ CopyBackup \/ SyncCopy \/ ActivateCopy) => StoreInv'
<1> SUFFICES ASSUME StoreInv, (Preserve \/ CopyBackup \/ SyncCopy \/ ActivateCopy) PROVE StoreInv'
  OBVIOUS
<1> USE DEF StoreInv, Preserve, CopyBackup, SyncCopy, ActivateCopy
<1>1. /\ \A f \in Files : disk[f] \in {Missing, Corrupt} \cup State
      /\ \A s \in State : s # None /\ s # Missing /\ s # Corrupt
      /\ Missing # Corrupt
  BY Contents
<1>2. TypeOK'
  BY <1>1 DEF TypeOK, Calls, Content, Files, history, State
<1>3. WriteInv' /\ RecoveryInv'
  BY <1>1 DEF TypeOK, WriteInv, RecoveryInv, HistoryInv, Readable, Exists, Files, history
<1>4. HistoryInv'
  BY <1>1 DEF TypeOK, WriteInv, RecoveryInv, HistoryInv, Readable, Exists, Durable, Files, history
<1> QED BY <1>2, <1>3, <1>4


\* Requests keep the invariant.
LEMMA RequestInv == StoreInv /\ Request => StoreInv'
<1> SUFFICES ASSUME StoreInv, Request PROVE StoreInv'
  OBVIOUS
<1> USE DEF StoreInv, Request, Mutate, MutateEphemeral, Replace, Relaunch
<1>1. /\ \A f \in Files : disk[f] \in {Missing, Corrupt} \cup State
      /\ \A s \in State : s # None /\ s # Missing /\ s # Corrupt
      /\ Missing # Corrupt
  BY Contents
<1>2. TypeOK'
  BY <1>1 DEF TypeOK, Calls, Content, Files, history, State
<1>3. WriteInv' /\ RecoveryInv'
  BY <1>1 DEF TypeOK, WriteInv, RecoveryInv, HistoryInv, Readable, Exists, Files, history
<1>4. HistoryInv'
  BY <1>1 DEF TypeOK, WriteInv, RecoveryInv, HistoryInv, Readable, Exists, Durable, Files, history
<1> QED BY <1>2, <1>3, <1>4


\* Writing the new generation beside the others keeps the invariant.
LEMMA StageInv == StoreInv /\ (CreateTmp \/ WriteTmp) => StoreInv'
<1> SUFFICES ASSUME StoreInv, (CreateTmp \/ WriteTmp) PROVE StoreInv'
  OBVIOUS
<1> USE DEF StoreInv, CreateTmp, WriteTmp
<1>1. /\ \A f \in Files : disk[f] \in {Missing, Corrupt} \cup State
      /\ \A s \in State : s # None /\ s # Missing /\ s # Corrupt
      /\ Missing # Corrupt
  BY Contents
<1>2. TypeOK'
  BY <1>1 DEF TypeOK, Calls, Content, Files, history, State
<1>3. WriteInv' /\ RecoveryInv'
  BY <1>1 DEF TypeOK, WriteInv, RecoveryInv, HistoryInv, Readable, Exists, Files, history
<1>4. HistoryInv'
  BY <1>1 DEF TypeOK, WriteInv, RecoveryInv, HistoryInv, Readable, Exists, Durable, Files, history
<1> QED BY <1>2, <1>3, <1>4


\* Each rename of the swap of generations keeps the invariant.
LEMMA SwapInv == StoreInv /\ (RemoveBackup \/ RetireMain \/ Publish) => StoreInv'
<1> SUFFICES ASSUME StoreInv, (RemoveBackup \/ RetireMain \/ Publish) PROVE StoreInv'
  OBVIOUS
<1> USE DEF StoreInv, RemoveBackup, RetireMain, Publish
<1>1. /\ \A f \in Files : disk[f] \in {Missing, Corrupt} \cup State
      /\ \A s \in State : s # None /\ s # Missing /\ s # Corrupt
      /\ Missing # Corrupt
  BY Contents
<1>2. TypeOK'
  BY <1>1 DEF TypeOK, Calls, Content, Files, history, State
<1>3. WriteInv' /\ RecoveryInv'
  BY <1>1 DEF TypeOK, WriteInv, RecoveryInv, HistoryInv, Readable, Exists, Files, history
<1>4. HistoryInv'
  BY <1>1 DEF TypeOK, WriteInv, RecoveryInv, HistoryInv, Readable, Exists, Durable, Files, history
<1> QED BY <1>2, <1>3, <1>4


\* Acknowledging a write keeps the invariant.
LEMMA AdoptInv == StoreInv /\ Adopt => StoreInv'
<1> SUFFICES ASSUME StoreInv, Adopt PROVE StoreInv'
  OBVIOUS
<1> USE DEF StoreInv, Adopt, Standing
<1>1. /\ \A f \in Files : disk[f] \in {Missing, Corrupt} \cup State
      /\ \A s \in State : s # None /\ s # Missing /\ s # Corrupt
      /\ Missing # Corrupt
  BY Contents
<1>2. TypeOK'
  BY <1>1 DEF TypeOK, Calls, Content, Files, history, State
<1>3. WriteInv' /\ RecoveryInv'
  BY <1>1 DEF TypeOK, WriteInv, RecoveryInv, HistoryInv, Readable, Exists, Files, history
<1>4. HistoryInv'
  BY <1>1 DEF TypeOK, WriteInv, RecoveryInv, HistoryInv, Readable, Exists, Durable, Files, history
<1> QED BY <1>2, <1>3, <1>4


\* A failed call keeps the invariant, and so does rolling back.
LEMMA ErrorInv == StoreInv /\ ((\E c \in Calls : CallFails(c)) \/ PublishFails \/ Rollback) => StoreInv'
<1> SUFFICES ASSUME StoreInv, ((\E c \in Calls : CallFails(c)) \/ PublishFails \/ Rollback) PROVE StoreInv'
  OBVIOUS
<1> USE DEF StoreInv, CallFails, PublishFails, Rollback, CallMade, ReturnError
<1>1. /\ \A f \in Files : disk[f] \in {Missing, Corrupt} \cup State
      /\ \A s \in State : s # None /\ s # Missing /\ s # Corrupt
      /\ Missing # Corrupt
  BY Contents
<1>2. TypeOK'
  BY <1>1 DEF TypeOK, Calls, Content, Files, history, State
<1>3. WriteInv' /\ RecoveryInv' /\ HistoryInv'
  <2> USE <1>1 DEF TypeOK, WriteInv, RecoveryInv, HistoryInv, Readable, Exists,
                   Files, history
  <2>1. CASE PublishFails
    BY <2>1 DEF Durable
  <2>2. CASE Rollback
    BY <2>2 DEF Durable
  <2>3. ASSUME NEW c \in Calls, CallFails(c)
        PROVE  WriteInv' /\ RecoveryInv' /\ HistoryInv'
    BY <2>3 DEF Durable, Calls
  <2> QED BY <2>1, <2>2, <2>3
<1> QED BY <1>2, <1>3


\* A crash and a damaged file keep the invariant.
LEMMA CrashInv == StoreInv /\ (Crash \/ \E f \in {"main", "bak"} : Damage(f)) => StoreInv'
<1> SUFFICES ASSUME StoreInv, (Crash \/ \E f \in {"main", "bak"} : Damage(f)) PROVE StoreInv'
  OBVIOUS
<1> USE DEF StoreInv, Crash, Damage
<1>1. /\ \A f \in Files : disk[f] \in {Missing, Corrupt} \cup State
      /\ \A s \in State : s # None /\ s # Missing /\ s # Corrupt
      /\ Missing # Corrupt
  BY Contents
<1>2. TypeOK'
  <2>1. unsure' \subseteq State
    BY DEF TypeOK, history
  <2>2. CASE Crash
    BY <2>1, <2>2 DEF TypeOK
  <2>3. ASSUME NEW f \in {"main", "bak"}, Damage(f) PROVE TypeOK'
    <3>1. disk' \in [Files -> Content]
      BY <2>3 DEF TypeOK, Content, Files
    <3> QED BY <2>1, <2>3, <3>1 DEF TypeOK
  <2> QED BY <2>2, <2>3
<1>3. WriteInv' /\ RecoveryInv'
  BY <1>1 DEF TypeOK, WriteInv, RecoveryInv, HistoryInv, Readable, Exists, Files, history
<1>4. HistoryInv'
  BY <1>1 DEF TypeOK, WriteInv, RecoveryInv, HistoryInv, Readable, Exists, Durable, Files, history
<1> QED BY <1>2, <1>3, <1>4

\* The invariant is inductive as long as the rollback does not fail.
LEMMA NextInv == RollbackReliable /\ StoreInv /\ [Next]_vars => StoreInv'
<1> SUFFICES ASSUME RollbackReliable, StoreInv, [Next]_vars PROVE StoreInv'
  OBVIOUS
<1>1. CASE Step
  BY <1>1, LoadInv, RecoverInv, StageInv, SwapInv, AdoptInv, ErrorInv DEF Step, Reads
<1>2. CASE Request
  BY <1>2, RequestInv
<1>3. CASE Fault
  <2>1. CASE \E r \in {{"main"}, {"bak"}, {"main", "bak"}} : Load(r)
    BY <2>1, LoadInv DEF Reads
  <2> QED BY <1>3, <2>1, ErrorInv, CrashInv DEF Fault, RollbackFails, RollbackReliable
<1>4. CASE UNCHANGED vars
  BY <1>4 DEF vars, StoreInv, TypeOK, WriteInv, RecoveryInv, HistoryInv,
              Readable, Exists, Durable
<1> QED BY <1>1, <1>2, <1>3, <1>4 DEF Next

\* The invariant holds in every behaviour.
THEOREM StoreInvariant == RollbackReliable => (Spec => []StoreInv)
<1> SUFFICES ASSUME RollbackReliable PROVE Spec => []StoreInv
  OBVIOUS
<1>1. StoreInv /\ [Next]_vars => StoreInv'
  BY NextInv
<1> QED BY InitInv, <1>1, PTL DEF Spec

\* Whatever calls and reads fail, wherever the process is killed: while no file was
\* damaged and no whole primary set aside, a start reads the acknowledged state or
\* one in doubt.
THEOREM StateSurvives == RollbackReliable => (Spec => []Durability)
<1>1. StoreInv => Durability
  BY ConstantsAssumption
  DEF StoreInv, TypeOK, WriteInv, HistoryInv, Durability, Durable, Readable, State
<1> QED BY <1>1, StoreInvariant, PTL

\* An acknowledged state is never silently replaced by the empty one.
THEOREM NotForgotten == RollbackReliable => (Spec => []NeverForgotten)
<1>1. StoreInv => NeverForgotten
  BY DEF StoreInv, HistoryInv, NeverForgotten
<1> QED BY <1>1, StoreInvariant, PTL

-----------------------------------------------------------------------------
(* The rename that rolls back may fail too.  The primary is then missing   *)
(* under an open store, so that less is known of the files, but what a     *)
(* start finds is still true.                                              *)

StagedInv ==
    /\ pc \in {"remove", "retire", "publish"} => disk["tmp"] = cand
    /\ pc = "adopt" => disk["main"] = cand
    /\ pc = "retire" => ~Exists("bak")
    /\ pc \in {"create", "write", "remove", "retire"} => disk["main"] # Corrupt
    /\ pc \in {"retire", "publish", "adopt", "rollback"} => disk["bak"] # Corrupt
    /\ pc \in {"publish", "rollback"} => ~Exists("main")

\* Each file holds a generation that a start may find, and the backup perhaps the
\* one before it; that of a write in progress holds the generation it replaces.
FoundInv ==
    /\ mem # None => acked # None /\ ~harmed
    /\ ~harmed => disk["main"] # Corrupt /\ disk["bak"] # Corrupt
    /\ Readable("main") /\ pc # "adopt" => disk["main"] \in Standing
    /\ Readable("bak") => disk["bak"] \in Standing \cup prior
    /\ Readable("bak") /\ (pc \in {"publish", "adopt", "rollback"} \/ ~Readable("main")) =>
          disk["bak"] \in Standing

LooseInv == TypeOK /\ StagedInv /\ RecoveryInv /\ FoundInv

\* The initial state has no file.
LEMMA LooseInit == Init => LooseInv
<1> SUFFICES ASSUME Init PROVE LooseInv
  OBVIOUS
<1>1. StagedInv /\ RecoveryInv /\ FoundInv
  BY ConstantsAssumption
  DEF Init, StagedInv, RecoveryInv, FoundInv, Files, Exists, Readable
<1> QED BY <1>1, InitInv DEF StoreInv, LooseInv

\* Every step keeps what is known, a failed rollback included.
LEMMA LooseNext == LooseInv /\ [Next]_vars => LooseInv'
<1> SUFFICES ASSUME LooseInv, [Next]_vars PROVE LooseInv'
  OBVIOUS
<1> DEFINE Kept == StagedInv /\ RecoveryInv /\ FoundInv
<1>1. /\ \A f \in Files : disk[f] \in {Missing, Corrupt} \cup State
      /\ \A s \in State : s # None /\ s # Missing /\ s # Corrupt
      /\ Missing # Corrupt
  BY Contents DEF LooseInv
<1> USE <1>1 DEF LooseInv, StagedInv, RecoveryInv, FoundInv, Standing, Readable, Exists,
                 Files, history
<1>2. ASSUME NEW r \in Reads, Load(r) PROVE LooseInv'
  <2> USE DEF StartReads, Loaded, Absent
  <2>1. cand' \in {None} \cup State /\ (cand' = None <=> pc' = "refused")
    BY <1>2, NormaliseType DEF Load, Empty, State
  <2>2. TypeOK'
    BY <1>2, <2>1 DEF Load, TypeOK, Calls
  <2>3. Kept'
    BY <1>2 DEF Load, TypeOK
  <2> QED BY <2>2, <2>3
<1>3. CASE Preserve \/ CopyBackup \/ SyncCopy \/ ActivateCopy
  <2> USE <1>3 DEF Preserve, CopyBackup, SyncCopy, ActivateCopy
  <2>1. TypeOK'
    BY DEF TypeOK, Calls, Content, State
  <2>2. Kept'
    BY DEF TypeOK
  <2> QED BY <2>1, <2>2
<1>4. CASE Request
  <2> USE <1>4 DEF Request, Mutate, MutateEphemeral, Replace, Relaunch
  <2>1. TypeOK'
    BY DEF TypeOK, Calls, State
  <2>2. Kept'
    BY DEF TypeOK
  <2> QED BY <2>1, <2>2
<1>5. CASE CreateTmp \/ WriteTmp \/ RemoveBackup \/ RetireMain \/ Publish
  <2> USE <1>5 DEF CreateTmp, WriteTmp, RemoveBackup, RetireMain, Publish
  <2>1. TypeOK'
    BY DEF TypeOK, Calls, Content, State
  <2>2. Kept'
    BY DEF TypeOK
  <2> QED BY <2>1, <2>2
<1>6. CASE Adopt
  <2> USE <1>6 DEF Adopt
  <2>1. TypeOK'
    BY DEF TypeOK, Calls
  <2>2. Kept'
    BY DEF TypeOK
  <2> QED BY <2>1, <2>2
<1>7. CASE PublishFails \/ Rollback \/ RollbackFails
  <2> USE <1>7 DEF PublishFails, Rollback, RollbackFails, ReturnError
  <2>1. TypeOK'
    BY DEF TypeOK, Calls, Content, State
  <2>2. Kept'
    BY DEF TypeOK
  <2> QED BY <2>1, <2>2
<1>8. ASSUME NEW c \in Calls, CallFails(c)
      PROVE  LooseInv'
  <2> USE <1>8 DEF CallFails, ReturnError
  <2>1. TypeOK'
    BY DEF TypeOK, Calls
  <2>2. Kept'
    BY DEF TypeOK, Calls
  <2> QED BY <2>1, <2>2
<1>9. CASE Crash
  <2> USE <1>9 DEF Crash
  <2>1. TypeOK'
    BY DEF TypeOK
  <2>2. Kept'
    BY DEF TypeOK
  <2> QED BY <2>1, <2>2
<1>10. ASSUME NEW f \in {"main", "bak"}, Damage(f)
       PROVE  LooseInv'
  <2> USE <1>10 DEF Damage
  <2>1. TypeOK'
    <3>1. disk' \in [Files -> Content]
      BY DEF TypeOK, Content
    <3> QED BY <3>1 DEF TypeOK
  <2>2. Kept'
    BY DEF TypeOK
  <2> QED BY <2>1, <2>2
<1>11. CASE UNCHANGED vars
  BY <1>11 DEF vars, TypeOK
<1> QED BY <1>2, <1>3, <1>4, <1>5, <1>6, <1>7, <1>8, <1>9, <1>10, <1>11
    DEF Next, Step, Fault, Reads

\* Whatever fails, the rename back included: a start that finds a state finds one that was
\* acknowledged or in doubt, one generation back only where a file was damaged or a whole
\* primary set aside (store.rs, load and write_atomic).
THEOREM NothingIsInvented == Spec => []NothingInvented
<1>1. LooseInv => NothingInvented
  BY ConstantsAssumption
  DEF LooseInv, TypeOK, StagedInv, FoundInv, NothingInvented, Durable, Readable, State
<1> QED BY <1>1, LooseInit, LooseNext, PTL DEF Spec

\* The state always has its type, whatever fails: a candidate exists exactly during a write,
\* and the store is open whenever no operation is going on.
THEOREM TypeCorrect == Spec => []TypeOK
<1>1. LooseInv => TypeOK
  BY DEF LooseInv
<1> QED BY <1>1, LooseInit, LooseNext, PTL DEF Spec

-----------------------------------------------------------------------------
(* The files implement the durable register of AtomicStore, as long as no  *)
(* file is damaged from outside.                                           *)

FilesIntact == "damage" \notin Fallible

IntactInv == StoreInv /\ disk["main"] # Corrupt /\ disk["bak"] # Corrupt

\* No step but Damage leaves a file behind under its name that does not decode.
LEMMA IntactNext ==
    FilesIntact /\ RollbackReliable /\ IntactInv /\ [Next]_vars => IntactInv'
<1> SUFFICES ASSUME FilesIntact, RollbackReliable, IntactInv, [Next]_vars
             PROVE  disk'["main"] # Corrupt /\ disk'["bak"] # Corrupt
  BY NextInv DEF IntactInv
<1>1. /\ \A f \in Files : disk[f] \in {Missing, Corrupt} \cup State
      /\ \A s \in State : s # None /\ s # Missing /\ s # Corrupt
      /\ Missing # Corrupt
  BY Contents DEF StoreInv, IntactInv
<1> USE <1>1 DEF IntactInv, StoreInv, TypeOK, Files
<1>2. CASE Step
  BY <1>2 DEF Step, Load, Preserve, CopyBackup, SyncCopy, ActivateCopy, CreateTmp, WriteTmp,
     RemoveBackup, RetireMain, Publish, Adopt, Rollback, WriteInv, RecoveryInv, Readable
<1>3. CASE Request \/ UNCHANGED vars
  BY <1>3 DEF Request, vars, Mutate, MutateEphemeral, Replace, Relaunch
<1>4. CASE Fault
  BY <1>4 DEF Fault, FilesIntact, Load, CallFails, PublishFails, RollbackFails, Crash, Damage
<1> QED BY <1>2, <1>3, <1>4 DEF Next

\* Rebuilding the primary once it is set aside, and writing beside the files, leaves the
\* register alone.
LEMMA StutterSteps ==
    ASSUME IntactInv,
           CopyBackup \/ SyncCopy \/ ActivateCopy \/ CreateTmp \/ WriteTmp \/ Relaunch
    PROVE  UNCHANGED Abs!avars
<1>1. /\ \A f \in Files : disk[f] \in {Missing, Corrupt} \cup State
      /\ \A s \in State : s # None /\ s # Missing /\ s # Corrupt
      /\ Missing # Corrupt
  BY Contents DEF StoreInv, IntactInv
<1> QED
  BY <1>1 DEF IntactInv, StoreInv, TypeOK, WriteInv, RecoveryInv, HistoryInv, Abs!avars,
     Readable, Exists, Durable, Files, CopyBackup, SyncCopy, ActivateCopy, CreateTmp,
     WriteTmp, Relaunch

\* Every step is a step of the register or a stutter.
LEMMA StepSimulation ==
    IntactInv /\ IntactInv' /\ [Next]_vars => [Abs!Next]_(Abs!avars)
<1> SUFFICES ASSUME IntactInv, IntactInv', [Next]_vars
             PROVE  Abs!Next \/ UNCHANGED Abs!avars
  OBVIOUS
<1>1. /\ \A f \in Files : disk[f] \in {Missing, Corrupt} \cup State
      /\ \A s \in State : s # None /\ s # Missing /\ s # Corrupt
      /\ Missing # Corrupt
  BY Contents DEF StoreInv, IntactInv
<1> USE DEF IntactInv, StoreInv
<1>2. CASE CopyBackup \/ SyncCopy \/ ActivateCopy \/ CreateTmp \/ WriteTmp \/ Relaunch
  BY <1>2, StutterSteps
<1>15. CASE Preserve
  <2>1. CASE Readable("main")
    <3>1. Abs!GoBack
      BY <1>1, <1>15, <2>1
      DEF Preserve, TypeOK, RecoveryInv, Abs!GoBack, Durable, Readable, Files, history
    <3> QED BY <3>1 DEF Abs!Next
  <2>2. CASE ~Readable("main")
    BY <1>1, <1>15, <2>2
    DEF Preserve, TypeOK, Abs!avars, Durable, Readable, Files, history
  <2> QED BY <2>1, <2>2
<1>16. CASE RemoveBackup \/ RetireMain
  <2>1. Abs!Turn \/ UNCHANGED Abs!avars
    BY <1>1, <1>16
    DEF RemoveBackup, RetireMain, TypeOK, WriteInv, Abs!Turn, Abs!avars, Durable, Readable,
        Exists, Files, history
  <2> QED BY <2>1 DEF Abs!Next
<1>3. ASSUME NEW r \in Reads, Load(r) PROVE Abs!Next \/ UNCHANGED Abs!avars
  <2> USE DEF StartReads, Loaded, Absent
  <2>1. UNCHANGED <<Durable, disk, mem>> /\ (cand' \in State \/ (cand' = None /\ pc' = "refused"))
    BY <1>1, <1>3, NormaliseType
    DEF Load, TypeOK, Readable, Durable, Files, State, Empty
  <2>2. CASE pc' = "refused"
    BY <1>1, <1>3, <2>1, <2>2 DEF Load, TypeOK, Readable, Durable, Files, Abs!avars
  <2>3. CASE pc' = "preserve" /\ Readable("main")
    <3>1. Abs!PassOver
      BY <1>1, <1>3, <2>1, <2>3 DEF Load, TypeOK, Readable, Durable, Files, Abs!PassOver
    <3> QED BY <3>1 DEF Abs!Next
  <2>4. CASE pc' # "refused" /\ ~(pc' = "preserve" /\ Readable("main"))
    <3>1. cand' \in State /\ Abs!Open(cand')
      BY <1>1, <1>3, <2>1, <2>4
      DEF Load, TypeOK, Readable, Exists, Durable, Files, Abs!Open
    <3> QED BY <3>1 DEF Abs!Next
  <2> QED BY <2>2, <2>3, <2>4
<1>4. CASE \E s \in State : Replace(s)
  <2>1. Abs!Begin(cand') /\ cand' \in State
    BY <1>4 DEF Replace, TypeOK, Abs!Begin, Durable, Readable
  <2> QED BY <2>1 DEF Abs!Next
<1>5. CASE \E f \in Fact : Mutate(f)
  <2>1. cand' \in State
    BY <1>1, <1>5 DEF Mutate, TypeOK, State
  <2>2. Abs!Begin(cand')
    BY <1>5 DEF Mutate, TypeOK, Abs!Begin, Durable, Readable
  <2> QED BY <2>1, <2>2 DEF Abs!Next
<1>6. CASE \E f \in Fact : MutateEphemeral(f)
  <2>1. mem' \in State
    BY <1>1, <1>6 DEF MutateEphemeral, TypeOK, State
  <2>2. Abs!Ephemeral(mem')
    BY <1>6 DEF MutateEphemeral, TypeOK, Abs!Ephemeral, Durable, Readable
  <2> QED BY <2>1, <2>2 DEF Abs!Next
<1>7. CASE Publish
  <2>1. Abs!Commit
    BY <1>1, <1>7 DEF Publish, TypeOK, WriteInv, Abs!Commit, Durable, Readable, Exists,
       Files, history
  <2> QED BY <2>1 DEF Abs!Next
<1>8. CASE Adopt
  <2>1. Abs!Acknowledge
    BY <1>8 DEF Adopt, Abs!Acknowledge, Durable, Readable
  <2> QED BY <2>1 DEF Abs!Next
<1>9. CASE (\E c \in Calls : CallFails(c)) \/ RollbackFails
  <2>1. Abs!Fail
    BY <1>9 DEF CallFails, RollbackFails, ReturnError, TypeOK, Calls, Abs!Fail,
       Durable, Readable
  <2> QED BY <2>1 DEF Abs!Next
<1>10. CASE PublishFails
  <2>1. Abs!Fail \/ UNCHANGED Abs!avars
    BY <1>10 DEF PublishFails, ReturnError, TypeOK, Abs!Fail, Abs!avars, Durable,
       Readable
  <2> QED BY <2>1 DEF Abs!Next
<1>11. CASE Rollback
  <2>1. Abs!Fail
    BY <1>1, <1>11 DEF Rollback, ReturnError, TypeOK, WriteInv, HistoryInv,
       Abs!Fail, Durable, Readable, Exists, Files
  <2> QED BY <2>1 DEF Abs!Next
<1>12. CASE Crash
  <2>1. Abs!Crash
    BY <1>12 DEF Crash, Abs!Crash, Durable, Readable
  <2> QED BY <2>1 DEF Abs!Next
<1>13. CASE \E f \in {"main", "bak"} : Damage(f)
  BY <1>1, <1>13 DEF Damage, TypeOK, Files
<1>14. CASE UNCHANGED vars
  BY <1>14 DEF vars, Abs!avars, Durable, Readable
<1> QED
  BY <1>2, <1>3, <1>4, <1>5, <1>6, <1>7, <1>8, <1>9, <1>10, <1>11, <1>12, <1>13,
     <1>14, <1>15, <1>16 DEF Next, Step, Request, Fault, Reads

\* The state file refines the durable register: opening, writing, failing and
\* crashing never expose anything but whole, committed states.
THEOREM Refinement ==
    FilesIntact /\ RollbackReliable => (Spec => ImplementsAtomicStore)
<1> SUFFICES ASSUME FilesIntact, RollbackReliable
             PROVE  Spec => ImplementsAtomicStore
  OBVIOUS
<1>1. Init => IntactInv
  BY InitInv, ConstantsAssumption DEF IntactInv, Init, Files
<1>2. Init => Abs!Init
  BY ConstantsAssumption DEF Init, Abs!Init, Durable, Readable, Files
<1>3. IntactInv /\ [Next]_vars => IntactInv'
  BY IntactNext
<1>4. IntactInv /\ IntactInv' /\ [Next]_vars => [Abs!Next]_(Abs!avars)
  BY StepSimulation
<1> QED BY <1>1, <1>2, <1>3, <1>4, PTL DEF Spec, ImplementsAtomicStore, Abs!Spec
=============================================================================
