------------------------- MODULE FactoryReset_proofs -------------------------
(***************************************************************************)
(* Proofs about FactoryReset: for any number of generations, snapshots and *)
(* faults, nothing leaks, the active generation is kept, and a guest runs  *)
(* on it alone.                                                            *)
(***************************************************************************)
EXTENDS FactoryReset, TLAPS

\* TakeSnapshot with its parameter hidden.
TakeSome == \E s \in Snap : TakeSnapshot(s)

\* The entry that cleanup_pending has in hand is one of the journal.
LEMMA CurrentIn == todo # {} => Current \in todo
BY DEF Current

\* Where cleanup_pending returns to.
LEMMA Returns ==
    ASSUME caller \in {"reset", "failed", "switched", "delete"}
    PROVE  /\ AfterCleanup \in {"check", "finish", "fail", "remove"}
           /\ AfterCleanup = "check" => caller = "reset"
           /\ AfterCleanup = "remove" => caller = "delete"
           /\ AfterCleanup = "fail" => caller = "failed"
           /\ AfterCleanup = "finish" => caller \in {"reset", "switched"}
           /\ CleanupError \in {"recover", "fail", "idle"}
           /\ CleanupError = "fail" => caller \in {"failed", "switched"}
           /\ CleanupError = "idle" => caller = "delete"
<1>1. CASE caller = "reset"
  BY <1>1 DEF AfterCleanup, CleanupError
<1>2. CASE caller = "failed"
  BY <1>2 DEF AfterCleanup, CleanupError
<1>3. CASE caller = "switched"
  BY <1>3 DEF AfterCleanup, CleanupError
<1>4. CASE caller = "delete"
  BY <1>4 DEF AfterCleanup, CleanupError
<1> QED BY <1>1, <1>2, <1>3, <1>4

\* Nothing exists yet.
LEMMA InitInv == Init => ResetInv
<1> SUFFICES ASSUME Init PROVE ResetInv
  OBVIOUS
<1> USE DEF Init, None, CleanupSteps, ErasureSteps
<1>1. TypeOK
  BY DEF TypeOK, Status, Entry
<1>2. NamesInv /\ AbsenceInv /\ StepInv
  BY DEF NamesInv, AbsenceInv, StepInv
<1>3. StatusInv /\ GuestInv /\ NothingLeaks /\ RunsOnActive
  BY DEF StatusInv, GuestInv, NothingLeaks, RunsOnActive
<1> QED BY <1>1, <1>2, <1>3 DEF ResetInv

\* A creation keeps the invariant.
LEMMA CreationInv ==
    ASSUME ResetInv, Create \/ Provision \/ ProvisionFails \/ CreateEnds \/ CreateEndsUnsaved
    PROVE  ResetInv'
<1> USE ConstantsAssumption DEF ResetInv, Goto, FailTo, Save, None
<1>1. CASE Create
  <2> USE <1>1 DEF Create, state, storage, taken, cleanup
  <2>1. TypeOK'
    BY DEF TypeOK, Entry, Status, CleanupSteps
  <2>2. NamesInv'
    BY DEF TypeOK, NamesInv, AbsenceInv, StepInv, Entry, CleanupSteps, ErasureSteps
  <2>3. AbsenceInv'
    BY DEF TypeOK, NamesInv, AbsenceInv, StepInv, CleanupSteps, ErasureSteps
  <2>4. StepInv'
    BY DEF TypeOK, NamesInv, AbsenceInv, StepInv, NothingLeaks, CleanupSteps, ErasureSteps
  <2>5. StatusInv'
    BY DEF TypeOK, Status, StepInv, StatusInv, AbsenceInv, CleanupSteps, ErasureSteps
  <2>6. GuestInv' /\ RunsOnActive'
    BY DEF TypeOK, StepInv, StatusInv, GuestInv, RunsOnActive, AbsenceInv, CleanupSteps, ErasureSteps
  <2>7. NothingLeaks'
    BY DEF TypeOK, NothingLeaks, NamesInv, AbsenceInv, StepInv, CleanupSteps, ErasureSteps
  <2> QED BY <2>1, <2>2, <2>3, <2>4, <2>5, <2>6, <2>7
<1>2. CASE Provision
  <2> USE <1>2 DEF Provision, state, storage, taken, cleanup
  <2>1. TypeOK'
    BY DEF TypeOK, Entry, Status, CleanupSteps
  <2>2. NamesInv'
    BY DEF TypeOK, NamesInv, AbsenceInv, StepInv, Entry, CleanupSteps, ErasureSteps
  <2>3. AbsenceInv'
    BY DEF TypeOK, NamesInv, AbsenceInv, StepInv, CleanupSteps, ErasureSteps
  <2>4. StepInv'
    BY DEF TypeOK, NamesInv, AbsenceInv, StepInv, NothingLeaks, CleanupSteps, ErasureSteps
  <2>5. StatusInv'
    BY DEF TypeOK, Status, StepInv, StatusInv, AbsenceInv, CleanupSteps, ErasureSteps
  <2>6. GuestInv' /\ RunsOnActive'
    BY DEF TypeOK, StepInv, StatusInv, GuestInv, RunsOnActive, AbsenceInv, CleanupSteps, ErasureSteps
  <2>7. NothingLeaks'
    BY DEF TypeOK, NothingLeaks, NamesInv, AbsenceInv, StepInv, CleanupSteps, ErasureSteps
  <2> QED BY <2>1, <2>2, <2>3, <2>4, <2>5, <2>6, <2>7
<1>3. CASE ProvisionFails
  <2> USE <1>3 DEF ProvisionFails, state, storage, taken, cleanup
  <2>1. TypeOK'
    BY DEF TypeOK, Entry, Status, CleanupSteps
  <2>2. NamesInv'
    BY DEF TypeOK, NamesInv, AbsenceInv, StepInv, Entry, CleanupSteps, ErasureSteps
  <2>3. AbsenceInv'
    BY DEF TypeOK, NamesInv, AbsenceInv, StepInv, CleanupSteps, ErasureSteps
  <2>4. StepInv'
    BY DEF TypeOK, NamesInv, AbsenceInv, StepInv, NothingLeaks, CleanupSteps, ErasureSteps
  <2>5. StatusInv'
    BY DEF TypeOK, Status, StepInv, StatusInv, AbsenceInv, CleanupSteps, ErasureSteps
  <2>6. GuestInv' /\ RunsOnActive'
    BY DEF TypeOK, StepInv, StatusInv, GuestInv, RunsOnActive, AbsenceInv, CleanupSteps, ErasureSteps
  <2>7. NothingLeaks'
    BY DEF TypeOK, NothingLeaks, NamesInv, AbsenceInv, StepInv, CleanupSteps, ErasureSteps
  <2> QED BY <2>1, <2>2, <2>3, <2>4, <2>5, <2>6, <2>7
<1>4. CASE CreateEnds
  <2> USE <1>4 DEF CreateEnds, state, storage, taken, cleanup
  <2>1. TypeOK'
    BY DEF TypeOK, Entry, Status, CleanupSteps
  <2>2. NamesInv'
    BY DEF TypeOK, NamesInv, AbsenceInv, StepInv, Entry, CleanupSteps, ErasureSteps
  <2>3. AbsenceInv'
    BY DEF TypeOK, NamesInv, AbsenceInv, StepInv, CleanupSteps, ErasureSteps
  <2>4. StepInv'
    BY DEF TypeOK, NamesInv, AbsenceInv, StepInv, NothingLeaks, CleanupSteps, ErasureSteps
  <2>5. StatusInv'
    BY DEF TypeOK, Status, StepInv, StatusInv, AbsenceInv, CleanupSteps, ErasureSteps
  <2>6. GuestInv' /\ RunsOnActive'
    BY DEF TypeOK, StepInv, StatusInv, GuestInv, RunsOnActive, AbsenceInv, CleanupSteps, ErasureSteps
  <2>7. NothingLeaks'
    BY DEF TypeOK, NothingLeaks, NamesInv, AbsenceInv, StepInv, CleanupSteps, ErasureSteps
  <2> QED BY <2>1, <2>2, <2>3, <2>4, <2>5, <2>6, <2>7
<1>5. CASE CreateEndsUnsaved
  <2> USE <1>5 DEF CreateEndsUnsaved, state, storage, taken, cleanup
  <2>1. TypeOK'
    BY DEF TypeOK, Entry, Status, CleanupSteps
  <2>2. NamesInv'
    BY DEF TypeOK, NamesInv, AbsenceInv, StepInv, Entry, CleanupSteps, ErasureSteps
  <2>3. AbsenceInv'
    BY DEF TypeOK, NamesInv, AbsenceInv, StepInv, CleanupSteps, ErasureSteps
  <2>4. StepInv'
    BY DEF TypeOK, NamesInv, AbsenceInv, StepInv, NothingLeaks, CleanupSteps, ErasureSteps
  <2>5. StatusInv'
    BY DEF TypeOK, Status, StepInv, StatusInv, AbsenceInv, CleanupSteps, ErasureSteps
  <2>6. GuestInv' /\ RunsOnActive'
    BY DEF TypeOK, StepInv, StatusInv, GuestInv, RunsOnActive, AbsenceInv, CleanupSteps, ErasureSteps
  <2>7. NothingLeaks'
    BY DEF TypeOK, NothingLeaks, NamesInv, AbsenceInv, StepInv, CleanupSteps, ErasureSteps
  <2> QED BY <2>1, <2>2, <2>3, <2>4, <2>5, <2>6, <2>7
<1> QED BY <1>1, <1>2, <1>3, <1>4, <1>5

\* cleanup_pending keeps the invariant.
LEMMA CleanupInv ==
    ASSUME ResetInv, CleanupDone \/ Validate \/ EraseSnapshots \/ Retire \/ Forget \/ CleanupFails
    PROVE  ResetInv'
<1> USE ConstantsAssumption DEF ResetInv, Goto, FailTo, Save, None
<1>1. CASE CleanupDone
  <2> USE <1>1 DEF CleanupDone, state, storage, taken, cleanup
  <2>0. caller \in {"reset", "failed", "switched", "delete"}
    BY DEF TypeOK, StepInv, CleanupSteps
  <2>a. pc' \in {"check", "finish", "fail", "remove", "recover", "idle", "erase"}
    BY <2>0, Returns DEF TypeOK, StepInv, CleanupSteps, ErasureSteps
  <2>1. TypeOK'
    BY <2>0, Returns, <2>a DEF TypeOK, Entry, Status, CleanupSteps
  <2>2. NamesInv'
    BY <2>0, Returns DEF TypeOK, NamesInv, AbsenceInv, StepInv, Entry, CleanupSteps, ErasureSteps
  <2>3. AbsenceInv'
    BY <2>0, Returns DEF TypeOK, NamesInv, AbsenceInv, StepInv, CleanupSteps, ErasureSteps
  <2>4. StepInv'
    BY <2>0, Returns DEF TypeOK, NamesInv, AbsenceInv, StepInv, NothingLeaks, CleanupSteps, ErasureSteps
  <2>5. StatusInv'
    BY <2>0, Returns DEF TypeOK, Status, StepInv, StatusInv, AbsenceInv, CleanupSteps, ErasureSteps
  <2>6. GuestInv' /\ RunsOnActive'
    BY <2>0, Returns DEF TypeOK, StepInv, StatusInv, GuestInv, RunsOnActive, AbsenceInv, CleanupSteps, ErasureSteps
  <2>7. NothingLeaks'
    BY <2>0, Returns DEF TypeOK, NothingLeaks, NamesInv, AbsenceInv, StepInv, CleanupSteps, ErasureSteps
  <2> QED BY <2>1, <2>2, <2>3, <2>4, <2>5, <2>6, <2>7
<1>2. CASE Validate
  <2> USE <1>2 DEF Validate, state, storage, taken, cleanup
  <2>0. Current \in journal /\ todo = journal
        /\ caller \in {"reset", "failed", "switched", "delete"}
    BY CurrentIn DEF TypeOK, StepInv, CleanupSteps, ErasureSteps
  <2>a. pc' \in {"check", "finish", "fail", "remove", "recover", "idle", "erase"}
    BY <2>0, Returns DEF TypeOK, StepInv, CleanupSteps, ErasureSteps
  <2>1. TypeOK'
    BY <2>0, Returns, <2>a DEF TypeOK, Entry, Status, CleanupSteps
  <2>2. NamesInv'
    BY <2>0, Returns DEF TypeOK, NamesInv, AbsenceInv, StepInv, Entry, CleanupSteps, ErasureSteps
  <2>3. AbsenceInv'
    BY <2>0, Returns DEF TypeOK, NamesInv, AbsenceInv, StepInv, CleanupSteps, ErasureSteps
  <2>4. StepInv'
    BY <2>0, Returns DEF TypeOK, NamesInv, AbsenceInv, StepInv, NothingLeaks, CleanupSteps, ErasureSteps
  <2>5. StatusInv'
    BY <2>0, Returns DEF TypeOK, Status, StepInv, StatusInv, AbsenceInv, CleanupSteps, ErasureSteps
  <2>6. GuestInv' /\ RunsOnActive'
    BY <2>0, Returns DEF TypeOK, StepInv, StatusInv, GuestInv, RunsOnActive, AbsenceInv, CleanupSteps, ErasureSteps
  <2>7. NothingLeaks'
    BY <2>0, Returns DEF TypeOK, NothingLeaks, NamesInv, AbsenceInv, StepInv, CleanupSteps, ErasureSteps
  <2> QED BY <2>1, <2>2, <2>3, <2>4, <2>5, <2>6, <2>7
<1>3. CASE EraseSnapshots
  <2> USE <1>3 DEF EraseSnapshots, state, storage, taken, cleanup
  <2>0. Current \in journal /\ todo = journal
        /\ caller \in {"reset", "failed", "switched", "delete"}
    BY CurrentIn DEF TypeOK, StepInv, CleanupSteps, ErasureSteps
  <2>1. TypeOK'
    BY <2>0 DEF TypeOK, Entry, Status, CleanupSteps
  <2>2. NamesInv'
    BY <2>0 DEF TypeOK, NamesInv, AbsenceInv, StepInv, Entry, CleanupSteps, ErasureSteps
  <2>3. AbsenceInv'
    BY <2>0 DEF TypeOK, NamesInv, AbsenceInv, StepInv, CleanupSteps, ErasureSteps
  <2>4. StepInv'
    BY <2>0 DEF TypeOK, NamesInv, AbsenceInv, StepInv, NothingLeaks, CleanupSteps, ErasureSteps
  <2>5. StatusInv'
    BY <2>0 DEF TypeOK, Status, StepInv, StatusInv, AbsenceInv, CleanupSteps, ErasureSteps
  <2>6. GuestInv' /\ RunsOnActive'
    BY <2>0 DEF TypeOK, StepInv, StatusInv, GuestInv, RunsOnActive, AbsenceInv, CleanupSteps, ErasureSteps
  <2>7. NothingLeaks'
    BY <2>0 DEF TypeOK, NothingLeaks, NamesInv, AbsenceInv, StepInv, CleanupSteps, ErasureSteps
  <2> QED BY <2>1, <2>2, <2>3, <2>4, <2>5, <2>6, <2>7
<1>4. CASE Retire
  <2> USE <1>4 DEF Retire, Erase, state, storage, taken, cleanup
  <2>0. Current \in journal /\ todo = journal
        /\ caller \in {"reset", "failed", "switched", "delete"}
    BY CurrentIn DEF TypeOK, StepInv, CleanupSteps, ErasureSteps
  <2>a. handle' \in BOOLEAN /\ seen' \in BOOLEAN /\ owed' \in BOOLEAN
    BY DEF TypeOK
  <2>g. guest' \in {guest, 0, gen}
    OBVIOUS
  <2>b. guest' \in Nat
    BY ONLY ResetInv, <2>g DEF ResetInv, TypeOK
  <2>c. disks' \in SUBSET Nat /\ images' \in SUBSET Snap
    BY <2>0 DEF TypeOK, Entry
  <2>1. TypeOK'
    BY <2>0, <2>a, <2>b, <2>c DEF TypeOK, Entry, Status, CleanupSteps
  <2>2. NamesInv'
    BY <2>0 DEF TypeOK, NamesInv, AbsenceInv, StepInv, Entry, CleanupSteps, ErasureSteps
  <2>3. AbsenceInv'
    BY <2>0 DEF TypeOK, NamesInv, AbsenceInv, StepInv, CleanupSteps, ErasureSteps
  <2>4. StepInv'
    BY <2>0 DEF TypeOK, NamesInv, AbsenceInv, StepInv, NothingLeaks, CleanupSteps, ErasureSteps
  <2>5. StatusInv'
    BY <2>0 DEF TypeOK, Status, StepInv, StatusInv, AbsenceInv, CleanupSteps, ErasureSteps
  <2>6. GuestInv' /\ RunsOnActive'
    BY <2>0 DEF TypeOK, StepInv, NamesInv, NothingLeaks, Retired, Erase, StatusInv, GuestInv, RunsOnActive, AbsenceInv, CleanupSteps, ErasureSteps
  <2>7. NothingLeaks'
    BY <2>0 DEF TypeOK, NothingLeaks, NamesInv, AbsenceInv, StepInv, CleanupSteps, ErasureSteps
  <2> QED BY <2>1, <2>2, <2>3, <2>4, <2>5, <2>6, <2>7
<1>5. CASE Forget
  <2> USE <1>5 DEF Forget, state, storage, taken, cleanup
  <2>0. Current \in journal /\ todo = journal
        /\ caller \in {"reset", "failed", "switched", "delete"}
    BY CurrentIn DEF TypeOK, StepInv, CleanupSteps, ErasureSteps
  <2>1. TypeOK'
    BY <2>0 DEF TypeOK, Entry, Status, CleanupSteps
  <2>2. NamesInv'
    BY <2>0 DEF TypeOK, NamesInv, AbsenceInv, StepInv, Entry, CleanupSteps, ErasureSteps
  <2>3. AbsenceInv'
    BY <2>0 DEF TypeOK, NamesInv, AbsenceInv, StepInv, CleanupSteps, ErasureSteps
  <2>4. StepInv'
    BY <2>0 DEF TypeOK, NamesInv, AbsenceInv, StepInv, NothingLeaks, CleanupSteps, ErasureSteps
  <2>5. StatusInv'
    BY <2>0 DEF TypeOK, Status, StepInv, StatusInv, AbsenceInv, CleanupSteps, ErasureSteps
  <2>6. GuestInv' /\ RunsOnActive'
    BY <2>0 DEF TypeOK, StepInv, StatusInv, GuestInv, RunsOnActive, AbsenceInv, CleanupSteps, ErasureSteps
  <2>7. NothingLeaks'
    BY <2>0 DEF TypeOK, NothingLeaks, NamesInv, AbsenceInv, StepInv, CleanupSteps, ErasureSteps
  <2> QED BY <2>1, <2>2, <2>3, <2>4, <2>5, <2>6, <2>7
<1>6. CASE CleanupFails
  <2> USE <1>6 DEF CleanupFails, state, storage, taken, cleanup
  <2>0. Current \in journal /\ todo = journal
        /\ caller \in {"reset", "failed", "switched", "delete"}
    BY CurrentIn DEF TypeOK, StepInv, CleanupSteps, ErasureSteps
  <2>a. pc' \in {"check", "finish", "fail", "remove", "recover", "idle", "erase"}
    BY <2>0, Returns DEF TypeOK, StepInv, CleanupSteps, ErasureSteps
  <2>1. TypeOK'
    BY <2>0, Returns, <2>a DEF TypeOK, Entry, Status, CleanupSteps
  <2>2. NamesInv'
    BY <2>0, Returns DEF TypeOK, NamesInv, AbsenceInv, StepInv, Entry, CleanupSteps, ErasureSteps
  <2>3. AbsenceInv'
    BY <2>0, Returns DEF TypeOK, NamesInv, AbsenceInv, StepInv, CleanupSteps, ErasureSteps
  <2>4. StepInv'
    BY <2>0, Returns DEF TypeOK, NamesInv, AbsenceInv, StepInv, NothingLeaks, CleanupSteps, ErasureSteps
  <2>5. StatusInv'
    BY <2>0, Returns DEF TypeOK, Status, StepInv, StatusInv, AbsenceInv, CleanupSteps, ErasureSteps
  <2>6. GuestInv' /\ RunsOnActive'
    BY <2>0, Returns DEF TypeOK, StepInv, StatusInv, GuestInv, RunsOnActive, AbsenceInv, CleanupSteps, ErasureSteps
  <2>7. NothingLeaks'
    BY <2>0, Returns DEF TypeOK, NothingLeaks, NamesInv, AbsenceInv, StepInv, CleanupSteps, ErasureSteps
  <2> QED BY <2>1, <2>2, <2>3, <2>4, <2>5, <2>6, <2>7
<1> QED BY <1>1, <1>2, <1>3, <1>4, <1>5, <1>6

\* The steps of a reset keep the invariant.
LEMMA ResetStepsInv ==
    ASSUME ResetInv, BeginReset \/ CheckGuest \/ JournalFresh \/ Prepare \/ PrepareFails \/ Switch \/ Finish \/ Fail \/ SaveFails \/ Recover
    PROVE  ResetInv'
<1> USE ConstantsAssumption DEF ResetInv, Goto, FailTo, Save, None
<1>1. CASE BeginReset
  <2> USE <1>1 DEF BeginReset, Cleanup, state, storage, taken, cleanup
  <2>a. handle' \in BOOLEAN /\ seen' \in BOOLEAN /\ owed' \in BOOLEAN
    BY DEF TypeOK
  <2>g. guest' \in {guest, 0, gen}
    OBVIOUS
  <2>b. guest' \in Nat
    BY ONLY ResetInv, <2>g DEF ResetInv, TypeOK
  <2>c. disks' \in SUBSET Nat /\ images' \in SUBSET Snap
    BY DEF TypeOK, Entry
  <2>1. TypeOK'
    BY <2>a, <2>b, <2>c DEF TypeOK, Entry, Status, CleanupSteps
  <2>2. NamesInv'
    BY DEF TypeOK, NamesInv, AbsenceInv, StepInv, Entry, CleanupSteps, ErasureSteps
  <2>3. AbsenceInv'
    BY DEF TypeOK, NamesInv, AbsenceInv, StepInv, CleanupSteps, ErasureSteps
  <2>4. StepInv'
    BY DEF TypeOK, NamesInv, AbsenceInv, StepInv, NothingLeaks, CleanupSteps, ErasureSteps
  <2>5. StatusInv'
    BY DEF TypeOK, Status, StepInv, StatusInv, AbsenceInv, CleanupSteps, ErasureSteps
  <2>6. GuestInv' /\ RunsOnActive'
    BY DEF TypeOK, StepInv, StatusInv, GuestInv, RunsOnActive, AbsenceInv, CleanupSteps, ErasureSteps
  <2>7. NothingLeaks'
    BY DEF TypeOK, NothingLeaks, NamesInv, AbsenceInv, StepInv, CleanupSteps, ErasureSteps
  <2> QED BY <2>1, <2>2, <2>3, <2>4, <2>5, <2>6, <2>7
<1>2. CASE CheckGuest
  <2> USE <1>2 DEF CheckGuest, state, storage, taken, cleanup
  <2>1. TypeOK'
    BY DEF TypeOK, Entry, Status, CleanupSteps
  <2>2. NamesInv'
    BY DEF TypeOK, NamesInv, AbsenceInv, StepInv, Entry, CleanupSteps, ErasureSteps
  <2>3. AbsenceInv'
    BY DEF TypeOK, NamesInv, AbsenceInv, StepInv, CleanupSteps, ErasureSteps
  <2>4. StepInv'
    BY DEF TypeOK, NamesInv, AbsenceInv, StepInv, NothingLeaks, CleanupSteps, ErasureSteps
  <2>5. StatusInv'
    BY DEF TypeOK, Status, StepInv, StatusInv, AbsenceInv, CleanupSteps, ErasureSteps
  <2>6. GuestInv' /\ RunsOnActive'
    BY DEF TypeOK, StepInv, StatusInv, GuestInv, RunsOnActive, AbsenceInv, CleanupSteps, ErasureSteps
  <2>7. NothingLeaks'
    BY DEF TypeOK, NothingLeaks, NamesInv, AbsenceInv, StepInv, CleanupSteps, ErasureSteps
  <2> QED BY <2>1, <2>2, <2>3, <2>4, <2>5, <2>6, <2>7
<1>3. CASE JournalFresh
  <2> USE <1>3 DEF JournalFresh, state, storage, taken, cleanup
  <2>e. journal = {} /\ [gen |-> last + 1, committed |-> FALSE, snaps |-> {}] \in Entry
    BY DEF TypeOK, StepInv, Entry
  <2>f. journal' = {[gen |-> last + 1, committed |-> FALSE, snaps |-> {}]}
    BY <2>e
  <2>1. TypeOK'
    BY <2>e, <2>f DEF TypeOK, Status, CleanupSteps
  <2>n. /\ last \in Nat /\ last' = last + 1 /\ fresh' = last + 1
        /\ gen' = gen /\ gen \in Nat /\ gen <= last
        /\ disks' \subseteq 1..(last + 1)
        /\ \A e \in journal' : e.gen = last + 1
    BY <2>f DEF TypeOK, NamesInv
  <2>2. NamesInv'
    BY ONLY <2>f, <2>n DEF NamesInv
  <2>3. AbsenceInv'
    BY <2>f DEF TypeOK, NamesInv, AbsenceInv, StepInv, CleanupSteps, ErasureSteps
  <2>4. StepInv'
    BY <2>f DEF TypeOK, NamesInv, AbsenceInv, StepInv, NothingLeaks, CleanupSteps, ErasureSteps
  <2>5. StatusInv'
    BY <2>f DEF TypeOK, Status, StepInv, StatusInv, AbsenceInv, CleanupSteps, ErasureSteps
  <2>6. GuestInv' /\ RunsOnActive'
    BY <2>f DEF TypeOK, StepInv, StatusInv, GuestInv, RunsOnActive, AbsenceInv, CleanupSteps, ErasureSteps
  <2>7. NothingLeaks'
    BY <2>f DEF TypeOK, NothingLeaks, NamesInv, AbsenceInv, StepInv, CleanupSteps, ErasureSteps
  <2> QED BY <2>1, <2>2, <2>3, <2>4, <2>5, <2>6, <2>7
<1>4. CASE Prepare
  <2> USE <1>4 DEF Prepare, state, storage, taken, cleanup
  <2>e. [gen |-> fresh, committed |-> FALSE, snaps |-> {}] \in journal
    BY DEF StepInv
  <2>0. fresh \in 1..last /\ fresh # gen
    BY <2>e DEF NamesInv
  <2>1. TypeOK'
    BY <2>0 DEF TypeOK, Entry, Status, CleanupSteps
  <2>2. NamesInv'
    BY <2>0 DEF TypeOK, NamesInv, AbsenceInv, StepInv, Entry, CleanupSteps, ErasureSteps
  <2>3. AbsenceInv'
    BY <2>0 DEF TypeOK, NamesInv, AbsenceInv, StepInv, CleanupSteps, ErasureSteps
  <2>4. StepInv'
    BY <2>0 DEF TypeOK, NamesInv, AbsenceInv, StepInv, NothingLeaks, CleanupSteps, ErasureSteps
  <2>5. StatusInv'
    BY <2>0 DEF TypeOK, Status, StepInv, StatusInv, AbsenceInv, CleanupSteps, ErasureSteps
  <2>6. GuestInv' /\ RunsOnActive'
    BY <2>0 DEF TypeOK, StepInv, StatusInv, GuestInv, RunsOnActive, AbsenceInv, CleanupSteps, ErasureSteps
  <2>7. NothingLeaks'
    <3>1. /\ journal = {[gen |-> fresh, committed |-> FALSE, snaps |-> {}]}
          /\ UNCHANGED <<gen, journal, snaps, images, taking, stray>>
      BY DEF StepInv, CleanupSteps
    <3>2. disks' \subseteq disks \cup {fresh}
      BY ONLY <3>1, Prepare DEF Prepare, FailTo, Goto
    <3>3. \E e \in journal : e.gen = fresh
      BY ONLY <3>1
    <3> QED BY ONLY NothingLeaks, <3>1, <3>2, <3>3 DEF NothingLeaks
  <2> QED BY <2>1, <2>2, <2>3, <2>4, <2>5, <2>6, <2>7
<1>5. CASE PrepareFails
  <2> USE <1>5 DEF PrepareFails, Cleanup, state, storage, taken, cleanup
  <2>e. [gen |-> fresh, committed |-> FALSE, snaps |-> {}] \in journal
    BY DEF StepInv
  <2>0. fresh \in 1..last /\ fresh # gen
    BY <2>e DEF NamesInv
  <2>a. handle' \in BOOLEAN /\ seen' \in BOOLEAN /\ owed' \in BOOLEAN
    BY DEF TypeOK
  <2>g. guest' \in {guest, 0, gen}
    OBVIOUS
  <2>b. guest' \in Nat
    BY ONLY ResetInv, <2>g DEF ResetInv, TypeOK
  <2>c. disks' \in SUBSET Nat /\ images' \in SUBSET Snap
    BY <2>0 DEF TypeOK, Entry
  <2>1. TypeOK'
    BY <2>0, <2>a, <2>b, <2>c DEF TypeOK, Entry, Status, CleanupSteps
  <2>2. NamesInv'
    BY <2>0 DEF TypeOK, NamesInv, AbsenceInv, StepInv, Entry, CleanupSteps, ErasureSteps
  <2>3. AbsenceInv'
    BY <2>0 DEF TypeOK, NamesInv, AbsenceInv, StepInv, CleanupSteps, ErasureSteps
  <2>4. StepInv'
    BY <2>0 DEF TypeOK, NamesInv, AbsenceInv, StepInv, NothingLeaks, CleanupSteps, ErasureSteps
  <2>5. StatusInv'
    BY <2>0 DEF TypeOK, Status, StepInv, StatusInv, AbsenceInv, CleanupSteps, ErasureSteps
  <2>6. GuestInv' /\ RunsOnActive'
    BY <2>0 DEF TypeOK, StepInv, StatusInv, GuestInv, RunsOnActive, AbsenceInv, CleanupSteps, ErasureSteps
  <2>7. NothingLeaks'
    <3>1. /\ journal = {[gen |-> fresh, committed |-> FALSE, snaps |-> {}]}
          /\ UNCHANGED <<gen, journal, snaps, images, taking, stray>>
      BY DEF StepInv, CleanupSteps
    <3>2. disks' \subseteq disks \cup {fresh}
      BY ONLY <3>1, PrepareFails DEF PrepareFails, FailTo, Goto
    <3>3. \E e \in journal : e.gen = fresh
      BY ONLY <3>1
    <3> QED BY ONLY NothingLeaks, <3>1, <3>2, <3>3 DEF NothingLeaks
  <2> QED BY <2>1, <2>2, <2>3, <2>4, <2>5, <2>6, <2>7
<1>6. CASE Switch
  <2> USE <1>6 DEF Switch, Cleanup, Retired, state, storage, taken, cleanup
  <2>e. [gen |-> fresh, committed |-> FALSE, snaps |-> {}] \in journal
    BY DEF StepInv
  <2>0. fresh \in 1..last /\ fresh # gen
    BY <2>e DEF NamesInv
  <2>a. handle' \in BOOLEAN /\ seen' \in BOOLEAN /\ owed' \in BOOLEAN
    BY DEF TypeOK
  <2>g. guest' \in {guest, 0, gen}
    OBVIOUS
  <2>b. guest' \in Nat
    BY ONLY ResetInv, <2>g DEF ResetInv, TypeOK
  <2>c. disks' \in SUBSET Nat /\ images' \in SUBSET Snap
    BY <2>0 DEF TypeOK, Entry
  <2>1. TypeOK'
    BY <2>0, <2>a, <2>b, <2>c DEF TypeOK, Entry, Status, CleanupSteps
  <2>2. NamesInv'
    BY <2>0 DEF TypeOK, NamesInv, AbsenceInv, StepInv, Entry, CleanupSteps, ErasureSteps
  <2>3. AbsenceInv'
    BY <2>0 DEF TypeOK, NamesInv, AbsenceInv, StepInv, CleanupSteps, ErasureSteps
  <2>4. StepInv'
    BY <2>0 DEF TypeOK, NamesInv, AbsenceInv, StepInv, NothingLeaks, CleanupSteps, ErasureSteps
  <2>5. StatusInv'
    BY <2>0 DEF TypeOK, Status, StepInv, StatusInv, AbsenceInv, CleanupSteps, ErasureSteps
  <2>6. GuestInv' /\ RunsOnActive'
    <3>1. journal = {[gen |-> fresh, committed |-> FALSE, snaps |-> {}]}
      BY DEF StepInv
    <3>2. handle => guest \in {gen, fresh}
      BY ONLY RunsOnActive, <3>1 DEF RunsOnActive
    <3>3. ~Vm \/ ~handle
      BY <3>1 DEF RunsOnActive
    <3>4. Retired \in journal' /\ Retired.gen = gen /\ gen' = fresh
      BY ONLY Switch DEF Switch, Retired
    <3>5. RunsOnActive'
      BY ONLY <3>2, <3>3, <3>4, Switch DEF Switch, RunsOnActive, storage
    <3> QED BY <3>5 DEF TypeOK, StepInv, StatusInv, GuestInv, CleanupSteps, ErasureSteps
  <2>7. NothingLeaks'
    BY <2>0 DEF TypeOK, NothingLeaks, NamesInv, AbsenceInv, StepInv, CleanupSteps, ErasureSteps
  <2> QED BY <2>1, <2>2, <2>3, <2>4, <2>5, <2>6, <2>7
<1>7. CASE Finish
  <2> USE <1>7 DEF Finish, state, storage, taken, cleanup
  <2>1. TypeOK'
    BY DEF TypeOK, Entry, Status, CleanupSteps
  <2>2. NamesInv'
    BY DEF TypeOK, NamesInv, AbsenceInv, StepInv, Entry, CleanupSteps, ErasureSteps
  <2>3. AbsenceInv'
    BY DEF TypeOK, NamesInv, AbsenceInv, StepInv, CleanupSteps, ErasureSteps
  <2>4. StepInv'
    BY DEF TypeOK, NamesInv, AbsenceInv, StepInv, NothingLeaks, CleanupSteps, ErasureSteps
  <2>5. StatusInv'
    BY DEF TypeOK, Status, StepInv, StatusInv, AbsenceInv, CleanupSteps, ErasureSteps
  <2>6. GuestInv' /\ RunsOnActive'
    BY DEF TypeOK, StepInv, StatusInv, GuestInv, RunsOnActive, AbsenceInv, CleanupSteps, ErasureSteps
  <2>7. NothingLeaks'
    BY DEF TypeOK, NothingLeaks, NamesInv, AbsenceInv, StepInv, CleanupSteps, ErasureSteps
  <2> QED BY <2>1, <2>2, <2>3, <2>4, <2>5, <2>6, <2>7
<1>8. CASE Fail
  <2> USE <1>8 DEF Fail, state, storage, taken, cleanup
  <2>1. TypeOK'
    BY DEF TypeOK, Entry, Status, CleanupSteps
  <2>2. NamesInv'
    BY DEF TypeOK, NamesInv, AbsenceInv, StepInv, Entry, CleanupSteps, ErasureSteps
  <2>3. AbsenceInv'
    BY DEF TypeOK, NamesInv, AbsenceInv, StepInv, CleanupSteps, ErasureSteps
  <2>4. StepInv'
    BY DEF TypeOK, NamesInv, AbsenceInv, StepInv, NothingLeaks, CleanupSteps, ErasureSteps
  <2>5. StatusInv'
    BY DEF TypeOK, Status, StepInv, StatusInv, AbsenceInv, CleanupSteps, ErasureSteps
  <2>6. GuestInv' /\ RunsOnActive'
    BY DEF TypeOK, StepInv, StatusInv, GuestInv, RunsOnActive, AbsenceInv, CleanupSteps, ErasureSteps
  <2>7. NothingLeaks'
    BY DEF TypeOK, NothingLeaks, NamesInv, AbsenceInv, StepInv, CleanupSteps, ErasureSteps
  <2> QED BY <2>1, <2>2, <2>3, <2>4, <2>5, <2>6, <2>7
<1>9. CASE SaveFails
  <2> USE <1>9 DEF SaveFails, state, storage, taken, cleanup
  <2>1. TypeOK'
    BY DEF TypeOK, Entry, Status, CleanupSteps
  <2>2. NamesInv'
    BY DEF TypeOK, NamesInv, AbsenceInv, StepInv, Entry, CleanupSteps, ErasureSteps
  <2>3. AbsenceInv'
    BY DEF TypeOK, NamesInv, AbsenceInv, StepInv, CleanupSteps, ErasureSteps
  <2>4. StepInv'
    BY DEF TypeOK, NamesInv, AbsenceInv, StepInv, NothingLeaks, CleanupSteps, ErasureSteps
  <2>5. StatusInv'
    BY DEF TypeOK, Status, StepInv, StatusInv, AbsenceInv, CleanupSteps, ErasureSteps
  <2>6. GuestInv' /\ RunsOnActive'
    BY DEF TypeOK, StepInv, StatusInv, GuestInv, RunsOnActive, AbsenceInv, CleanupSteps, ErasureSteps
  <2>7. NothingLeaks'
    BY DEF TypeOK, NothingLeaks, NamesInv, AbsenceInv, StepInv, CleanupSteps, ErasureSteps
  <2> QED BY <2>1, <2>2, <2>3, <2>4, <2>5, <2>6, <2>7
<1>10. CASE Recover
  <2> USE <1>10 DEF Recover, Recovered, state, storage, taken, cleanup
  <2>1. TypeOK'
    BY DEF TypeOK, Entry, Status, CleanupSteps
  <2>2. NamesInv'
    BY DEF TypeOK, NamesInv, AbsenceInv, StepInv, Entry, CleanupSteps, ErasureSteps
  <2>3. AbsenceInv'
    BY DEF TypeOK, NamesInv, AbsenceInv, StepInv, CleanupSteps, ErasureSteps
  <2>4. StepInv'
    BY DEF TypeOK, NamesInv, AbsenceInv, StepInv, NothingLeaks, CleanupSteps, ErasureSteps
  <2>5. StatusInv'
    BY DEF TypeOK, Status, StepInv, StatusInv, AbsenceInv, CleanupSteps, ErasureSteps
  <2>6. GuestInv' /\ RunsOnActive'
    BY DEF TypeOK, StepInv, StatusInv, GuestInv, RunsOnActive, AbsenceInv, CleanupSteps, ErasureSteps
  <2>7. NothingLeaks'
    BY DEF TypeOK, NothingLeaks, NamesInv, AbsenceInv, StepInv, CleanupSteps, ErasureSteps
  <2> QED BY <2>1, <2>2, <2>3, <2>4, <2>5, <2>6, <2>7
<1> QED BY <1>1, <1>2, <1>3, <1>4, <1>5, <1>6, <1>7, <1>8, <1>9, <1>10

\* A deletion keeps the invariant.
LEMMA DeletionInv ==
    ASSUME ResetInv, BeginDelete \/ Remove \/ RemoveFails \/ Drop \/ DropFails
    PROVE  ResetInv'
<1> USE ConstantsAssumption DEF ResetInv, Goto, FailTo, Save, None
<1>1. CASE BeginDelete
  <2> USE <1>1 DEF BeginDelete, Cleanup, state, storage, taken, cleanup
  <2>a. handle' \in BOOLEAN /\ seen' \in BOOLEAN /\ owed' \in BOOLEAN
    BY DEF TypeOK
  <2>g. guest' \in {guest, 0, gen}
    OBVIOUS
  <2>b. guest' \in Nat
    BY ONLY ResetInv, <2>g DEF ResetInv, TypeOK
  <2>c. disks' \in SUBSET Nat /\ images' \in SUBSET Snap
    BY DEF TypeOK, Entry
  <2>1. TypeOK'
    BY <2>a, <2>b, <2>c DEF TypeOK, Entry, Status, CleanupSteps
  <2>2. NamesInv'
    BY DEF TypeOK, NamesInv, AbsenceInv, StepInv, Entry, CleanupSteps, ErasureSteps
  <2>3. AbsenceInv'
    BY DEF TypeOK, NamesInv, AbsenceInv, StepInv, CleanupSteps, ErasureSteps
  <2>4. StepInv'
    BY DEF TypeOK, NamesInv, AbsenceInv, StepInv, NothingLeaks, CleanupSteps, ErasureSteps
  <2>5. StatusInv'
    BY DEF TypeOK, Status, StepInv, StatusInv, AbsenceInv, CleanupSteps, ErasureSteps
  <2>6. GuestInv' /\ RunsOnActive'
    BY DEF TypeOK, StepInv, StatusInv, GuestInv, RunsOnActive, AbsenceInv, CleanupSteps, ErasureSteps
  <2>7. NothingLeaks'
    BY DEF TypeOK, NothingLeaks, NamesInv, AbsenceInv, StepInv, CleanupSteps, ErasureSteps
  <2> QED BY <2>1, <2>2, <2>3, <2>4, <2>5, <2>6, <2>7
<1>2. CASE Remove
  <2> USE <1>2 DEF Remove, Erase, state, storage, taken, cleanup
  <2>a. handle' \in BOOLEAN /\ seen' \in BOOLEAN /\ owed' \in BOOLEAN
    BY DEF TypeOK
  <2>g. guest' \in {guest, 0, gen}
    OBVIOUS
  <2>b. guest' \in Nat
    BY ONLY ResetInv, <2>g DEF ResetInv, TypeOK
  <2>c. disks' \in SUBSET Nat /\ images' \in SUBSET Snap
    BY DEF TypeOK, Entry
  <2>1. TypeOK'
    BY <2>a, <2>b, <2>c DEF TypeOK, Entry, Status, CleanupSteps
  <2>2. NamesInv'
    BY DEF TypeOK, NamesInv, AbsenceInv, StepInv, Entry, CleanupSteps, ErasureSteps
  <2>3. AbsenceInv'
    BY DEF TypeOK, NamesInv, AbsenceInv, StepInv, CleanupSteps, ErasureSteps
  <2>4. StepInv'
    <3>1. journal = {} /\ taking = {}
      BY DEF StepInv, GuestInv
    <3>a. UNION {e.snaps : e \in {}} = {} /\ {e.gen : e \in {}} = {}
      OBVIOUS
    <3>b. UNION {e.snaps : e \in journal} = {} /\ {e.gen : e \in journal} = {}
      BY ONLY <3>1, <3>a
    <3>c. images \subseteq snaps \cup {} \cup {} \cup stray /\ disks \subseteq {gen} \cup {}
      BY ONLY <3>1, <3>b, NothingLeaks DEF NothingLeaks
    <3>2. images \ snaps \subseteq stray /\ disks \subseteq {gen}
      BY ONLY <3>c
    <3> QED BY <3>1, <3>2 DEF TypeOK, NamesInv, AbsenceInv, StepInv, CleanupSteps, ErasureSteps
  <2>5. StatusInv'
    BY DEF TypeOK, Status, StepInv, StatusInv, AbsenceInv, CleanupSteps, ErasureSteps
  <2>6. GuestInv' /\ RunsOnActive'
    BY DEF TypeOK, StepInv, StatusInv, GuestInv, RunsOnActive, AbsenceInv, CleanupSteps, ErasureSteps
  <2>7. NothingLeaks'
    BY DEF TypeOK, NothingLeaks, NamesInv, AbsenceInv, StepInv, CleanupSteps, ErasureSteps
  <2> QED BY <2>1, <2>2, <2>3, <2>4, <2>5, <2>6, <2>7
<1>3. CASE RemoveFails
  <2> USE <1>3 DEF RemoveFails, state, storage, taken, cleanup
  <2>1. TypeOK'
    BY DEF TypeOK, Entry, Status, CleanupSteps
  <2>2. NamesInv'
    BY DEF TypeOK, NamesInv, AbsenceInv, StepInv, Entry, CleanupSteps, ErasureSteps
  <2>3. AbsenceInv'
    BY DEF TypeOK, NamesInv, AbsenceInv, StepInv, CleanupSteps, ErasureSteps
  <2>4. StepInv'
    BY DEF TypeOK, NamesInv, AbsenceInv, StepInv, NothingLeaks, CleanupSteps, ErasureSteps
  <2>5. StatusInv'
    BY DEF TypeOK, Status, StepInv, StatusInv, AbsenceInv, CleanupSteps, ErasureSteps
  <2>6. GuestInv' /\ RunsOnActive'
    BY DEF TypeOK, StepInv, StatusInv, GuestInv, RunsOnActive, AbsenceInv, CleanupSteps, ErasureSteps
  <2>7. NothingLeaks'
    BY DEF TypeOK, NothingLeaks, NamesInv, AbsenceInv, StepInv, CleanupSteps, ErasureSteps
  <2> QED BY <2>1, <2>2, <2>3, <2>4, <2>5, <2>6, <2>7
<1>4. CASE Drop
  <2> USE <1>4 DEF Drop, state, storage, taken, cleanup
  <2>1. TypeOK'
    BY DEF TypeOK, Entry, Status, CleanupSteps
  <2>2. NamesInv'
    BY DEF TypeOK, NamesInv, AbsenceInv, StepInv, Entry, CleanupSteps, ErasureSteps
  <2>3. AbsenceInv'
    BY DEF TypeOK, NamesInv, AbsenceInv, StepInv, CleanupSteps, ErasureSteps
  <2>4. StepInv'
    BY DEF TypeOK, NamesInv, AbsenceInv, StepInv, NothingLeaks, CleanupSteps, ErasureSteps
  <2>5. StatusInv'
    BY DEF TypeOK, Status, StepInv, StatusInv, AbsenceInv, CleanupSteps, ErasureSteps
  <2>6. GuestInv' /\ RunsOnActive'
    BY DEF TypeOK, StepInv, StatusInv, GuestInv, RunsOnActive, AbsenceInv, CleanupSteps, ErasureSteps
  <2>7. NothingLeaks'
    <3>1. images' = images /\ disks' = disks /\ taking' = taking /\ stray' = stray
      OBVIOUS
    <3>2. disks = {} /\ images \subseteq stray
      BY DEF StepInv
    <3>3. disks' = {} /\ images' \subseteq stray'
      BY ONLY <3>1, <3>2
    <3>4. PICK U : U = UNION {e.snaps : e \in journal'}
      OBVIOUS
    <3>5. images' \subseteq snaps' \cup U \cup taking' \cup stray'
      BY ONLY <3>3
    <3>6. disks' \subseteq {gen'} \cup {e.gen : e \in journal'}
      BY ONLY <3>3
    <3> QED BY ONLY <3>4, <3>5, <3>6 DEF NothingLeaks
  <2> QED BY <2>1, <2>2, <2>3, <2>4, <2>5, <2>6, <2>7
<1>5. CASE DropFails
  <2> USE <1>5 DEF DropFails, state, storage, taken, cleanup
  <2>1. TypeOK'
    BY DEF TypeOK, Entry, Status, CleanupSteps
  <2>2. NamesInv'
    BY DEF TypeOK, NamesInv, AbsenceInv, StepInv, Entry, CleanupSteps, ErasureSteps
  <2>3. AbsenceInv'
    BY DEF TypeOK, NamesInv, AbsenceInv, StepInv, CleanupSteps, ErasureSteps
  <2>4. StepInv'
    BY DEF TypeOK, NamesInv, AbsenceInv, StepInv, NothingLeaks, CleanupSteps, ErasureSteps
  <2>5. StatusInv'
    BY DEF TypeOK, Status, StepInv, StatusInv, AbsenceInv, CleanupSteps, ErasureSteps
  <2>6. GuestInv' /\ RunsOnActive'
    BY DEF TypeOK, StepInv, StatusInv, GuestInv, RunsOnActive, AbsenceInv, CleanupSteps, ErasureSteps
  <2>7. NothingLeaks'
    BY DEF TypeOK, NothingLeaks, NamesInv, AbsenceInv, StepInv, CleanupSteps, ErasureSteps
  <2> QED BY <2>1, <2>2, <2>3, <2>4, <2>5, <2>6, <2>7
<1> QED BY <1>1, <1>2, <1>3, <1>4, <1>5

\* Guests, snapshots and the application itself keep the invariant.
LEMMA PowerInv ==
    ASSUME ResetInv,
           \/ Start \/ Stop \/ GuestExits \/ Refresh \/ TakeSome \/ ListSnapshot \/ ListFails
           \/ StartLeavesGuest \/ StopFails \/ Crash \/ Quit \/ Launch
    PROVE  ResetInv'
<1> USE ConstantsAssumption DEF ResetInv, Goto, FailTo, Save, None
<1>1. CASE Start
  <2> USE <1>1 DEF Start, state, storage, taken, cleanup
  <2>a. handle' \in BOOLEAN /\ seen' \in BOOLEAN /\ owed' \in BOOLEAN
    BY DEF TypeOK
  <2>g. guest' \in {guest, 0, gen}
    OBVIOUS
  <2>b. guest' \in Nat
    BY ONLY ResetInv, <2>g DEF ResetInv, TypeOK
  <2>c. disks' \in SUBSET Nat /\ images' \in SUBSET Snap
    BY DEF TypeOK, Entry
  <2>1. TypeOK'
    BY <2>a, <2>b, <2>c DEF TypeOK, Entry, Status, CleanupSteps
  <2>2. NamesInv'
    BY DEF TypeOK, NamesInv, AbsenceInv, StepInv, Entry, CleanupSteps, ErasureSteps
  <2>3. AbsenceInv'
    BY DEF TypeOK, NamesInv, AbsenceInv, StepInv, CleanupSteps, ErasureSteps
  <2>4. StepInv'
    BY DEF TypeOK, NamesInv, AbsenceInv, StepInv, NothingLeaks, CleanupSteps, ErasureSteps
  <2>5. StatusInv'
    BY DEF TypeOK, Status, StepInv, StatusInv, AbsenceInv, CleanupSteps, ErasureSteps
  <2>6. GuestInv' /\ RunsOnActive'
    BY DEF TypeOK, StepInv, StatusInv, GuestInv, RunsOnActive, AbsenceInv, CleanupSteps, ErasureSteps
  <2>7. NothingLeaks'
    BY DEF TypeOK, NothingLeaks, NamesInv, AbsenceInv, StepInv, CleanupSteps, ErasureSteps
  <2> QED BY <2>1, <2>2, <2>3, <2>4, <2>5, <2>6, <2>7
<1>2. CASE Stop
  <2> USE <1>2 DEF Stop, state, storage, taken, cleanup
  <2>a. handle' \in BOOLEAN /\ seen' \in BOOLEAN /\ owed' \in BOOLEAN
    BY DEF TypeOK
  <2>g. guest' \in {guest, 0, gen}
    OBVIOUS
  <2>b. guest' \in Nat
    BY ONLY ResetInv, <2>g DEF ResetInv, TypeOK
  <2>c. disks' \in SUBSET Nat /\ images' \in SUBSET Snap
    BY DEF TypeOK, Entry
  <2>1. TypeOK'
    BY <2>a, <2>b, <2>c DEF TypeOK, Entry, Status, CleanupSteps
  <2>2. NamesInv'
    BY DEF TypeOK, NamesInv, AbsenceInv, StepInv, Entry, CleanupSteps, ErasureSteps
  <2>3. AbsenceInv'
    BY DEF TypeOK, NamesInv, AbsenceInv, StepInv, CleanupSteps, ErasureSteps
  <2>4. StepInv'
    BY DEF TypeOK, NamesInv, AbsenceInv, StepInv, NothingLeaks, CleanupSteps, ErasureSteps
  <2>5. StatusInv'
    BY DEF TypeOK, Status, StepInv, StatusInv, AbsenceInv, CleanupSteps, ErasureSteps
  <2>6. GuestInv' /\ RunsOnActive'
    BY DEF TypeOK, StepInv, StatusInv, GuestInv, RunsOnActive, AbsenceInv, CleanupSteps, ErasureSteps
  <2>7. NothingLeaks'
    BY DEF TypeOK, NothingLeaks, NamesInv, AbsenceInv, StepInv, CleanupSteps, ErasureSteps
  <2> QED BY <2>1, <2>2, <2>3, <2>4, <2>5, <2>6, <2>7
<1>3. CASE GuestExits
  <2> USE <1>3 DEF GuestExits, state, storage, taken, cleanup
  <2>a. handle' \in BOOLEAN /\ seen' \in BOOLEAN /\ owed' \in BOOLEAN
    BY DEF TypeOK
  <2>g. guest' \in {guest, 0, gen}
    OBVIOUS
  <2>b. guest' \in Nat
    BY ONLY ResetInv, <2>g DEF ResetInv, TypeOK
  <2>c. disks' \in SUBSET Nat /\ images' \in SUBSET Snap
    BY DEF TypeOK, Entry
  <2>1. TypeOK'
    BY <2>a, <2>b, <2>c DEF TypeOK, Entry, Status, CleanupSteps
  <2>2. NamesInv'
    BY DEF TypeOK, NamesInv, AbsenceInv, StepInv, Entry, CleanupSteps, ErasureSteps
  <2>3. AbsenceInv'
    BY DEF TypeOK, NamesInv, AbsenceInv, StepInv, CleanupSteps, ErasureSteps
  <2>4. StepInv'
    BY DEF TypeOK, NamesInv, AbsenceInv, StepInv, NothingLeaks, CleanupSteps, ErasureSteps
  <2>5. StatusInv'
    BY DEF TypeOK, Status, StepInv, StatusInv, AbsenceInv, CleanupSteps, ErasureSteps
  <2>6. GuestInv' /\ RunsOnActive'
    BY DEF TypeOK, StepInv, StatusInv, GuestInv, RunsOnActive, AbsenceInv, CleanupSteps, ErasureSteps
  <2>7. NothingLeaks'
    BY DEF TypeOK, NothingLeaks, NamesInv, AbsenceInv, StepInv, CleanupSteps, ErasureSteps
  <2> QED BY <2>1, <2>2, <2>3, <2>4, <2>5, <2>6, <2>7
<1>4. CASE Refresh
  <2> USE <1>4 DEF Refresh, state, storage, taken, cleanup
  <2>1. TypeOK'
    BY DEF TypeOK, Entry, Status, CleanupSteps
  <2>2. NamesInv'
    BY DEF TypeOK, NamesInv, AbsenceInv, StepInv, Entry, CleanupSteps, ErasureSteps
  <2>3. AbsenceInv'
    BY DEF TypeOK, NamesInv, AbsenceInv, StepInv, CleanupSteps, ErasureSteps
  <2>4. StepInv'
    BY DEF TypeOK, NamesInv, AbsenceInv, StepInv, NothingLeaks, CleanupSteps, ErasureSteps
  <2>5. StatusInv'
    BY DEF TypeOK, Status, StepInv, StatusInv, AbsenceInv, CleanupSteps, ErasureSteps
  <2>6. GuestInv' /\ RunsOnActive'
    BY DEF TypeOK, StepInv, StatusInv, GuestInv, RunsOnActive, AbsenceInv, CleanupSteps, ErasureSteps
  <2>7. NothingLeaks'
    BY DEF TypeOK, NothingLeaks, NamesInv, AbsenceInv, StepInv, CleanupSteps, ErasureSteps
  <2> QED BY <2>1, <2>2, <2>3, <2>4, <2>5, <2>6, <2>7
<1>5. CASE TakeSome
  <2> USE <1>5 DEF TakeSome, TakeSnapshot, state, storage, taken, cleanup
  <2>1. TypeOK'
    BY DEF TypeOK, Entry, Status, CleanupSteps
  <2>2. NamesInv'
    BY DEF TypeOK, NamesInv, AbsenceInv, StepInv, Entry, CleanupSteps, ErasureSteps
  <2>3. AbsenceInv'
    BY DEF TypeOK, NamesInv, AbsenceInv, StepInv, CleanupSteps, ErasureSteps
  <2>4. StepInv'
    BY DEF TypeOK, NamesInv, AbsenceInv, StepInv, NothingLeaks, CleanupSteps, ErasureSteps
  <2>5. StatusInv'
    BY DEF TypeOK, Status, StepInv, StatusInv, AbsenceInv, CleanupSteps, ErasureSteps
  <2>6. GuestInv' /\ RunsOnActive'
    BY DEF TypeOK, StepInv, NamesInv, NothingLeaks, Retired, Erase, StatusInv, GuestInv, RunsOnActive, AbsenceInv, CleanupSteps, ErasureSteps
  <2>7. NothingLeaks'
    <3>1. UNCHANGED <<gen, journal, disks>>
      OBVIOUS
    <3>2. disks' \subseteq {gen'} \cup {e.gen : e \in journal'}
      BY <3>1 DEF NothingLeaks
    <3>3. pc \in {"idle", "list"} /\ (pc = "idle" => taking = {})
      BY DEF GuestInv
    <3>4. PICK U : U = UNION {e.snaps : e \in journal}
      OBVIOUS
    <3>5. images \subseteq snaps \cup U \cup taking \cup stray
      BY ONLY NothingLeaks, <3>4 DEF NothingLeaks
    <3>6. images' \subseteq snaps' \cup U \cup taking' \cup stray'
      BY <3>3, <3>5
    <3>7. U = UNION {e.snaps : e \in journal'}
      BY ONLY <3>1, <3>4
    <3> QED BY ONLY <3>2, <3>6, <3>7 DEF NothingLeaks
  <2> QED BY <2>1, <2>2, <2>3, <2>4, <2>5, <2>6, <2>7
<1>6. CASE Crash
  <2> USE <1>6 DEF Crash, state, storage, taken, cleanup
  <2>a. handle' \in BOOLEAN /\ seen' \in BOOLEAN /\ owed' \in BOOLEAN
    BY DEF TypeOK
  <2>g. guest' \in {guest, 0, gen}
    OBVIOUS
  <2>b. guest' \in Nat
    BY ONLY ResetInv, <2>g DEF ResetInv, TypeOK
  <2>c. disks' \in SUBSET Nat /\ images' \in SUBSET Snap
    BY DEF TypeOK, Entry
  <2>1. TypeOK'
    BY <2>a, <2>b, <2>c DEF TypeOK, Entry, Status, CleanupSteps
  <2>2. NamesInv'
    BY DEF TypeOK, NamesInv, AbsenceInv, StepInv, Entry, CleanupSteps, ErasureSteps
  <2>3. AbsenceInv'
    BY DEF TypeOK, NamesInv, AbsenceInv, StepInv, CleanupSteps, ErasureSteps
  <2>4. StepInv'
    BY DEF TypeOK, NamesInv, AbsenceInv, StepInv, NothingLeaks, CleanupSteps, ErasureSteps
  <2>5. StatusInv'
    BY DEF TypeOK, Status, StepInv, StatusInv, AbsenceInv, CleanupSteps, ErasureSteps
  <2>6. GuestInv' /\ RunsOnActive'
    BY DEF TypeOK, StepInv, StatusInv, GuestInv, RunsOnActive, AbsenceInv, CleanupSteps, ErasureSteps
  <2>7. NothingLeaks'
    BY DEF TypeOK, NothingLeaks, NamesInv, AbsenceInv, StepInv, CleanupSteps, ErasureSteps
  <2> QED BY <2>1, <2>2, <2>3, <2>4, <2>5, <2>6, <2>7
<1>7. CASE Quit
  <2> USE <1>7 DEF Quit, state, storage, taken, cleanup
  <2>a. handle' \in BOOLEAN /\ seen' \in BOOLEAN /\ owed' \in BOOLEAN
    BY DEF TypeOK
  <2>g. guest' \in {guest, 0, gen}
    OBVIOUS
  <2>b. guest' \in Nat
    BY ONLY ResetInv, <2>g DEF ResetInv, TypeOK
  <2>c. disks' \in SUBSET Nat /\ images' \in SUBSET Snap
    BY DEF TypeOK, Entry
  <2>1. TypeOK'
    BY <2>a, <2>b, <2>c DEF TypeOK, Entry, Status, CleanupSteps
  <2>2. NamesInv'
    BY DEF TypeOK, NamesInv, AbsenceInv, StepInv, Entry, CleanupSteps, ErasureSteps
  <2>3. AbsenceInv'
    BY DEF TypeOK, NamesInv, AbsenceInv, StepInv, CleanupSteps, ErasureSteps
  <2>4. StepInv'
    BY DEF TypeOK, NamesInv, AbsenceInv, StepInv, NothingLeaks, CleanupSteps, ErasureSteps
  <2>5. StatusInv'
    BY DEF TypeOK, Status, StepInv, StatusInv, AbsenceInv, CleanupSteps, ErasureSteps
  <2>6. GuestInv' /\ RunsOnActive'
    BY DEF TypeOK, StepInv, StatusInv, GuestInv, RunsOnActive, AbsenceInv, CleanupSteps, ErasureSteps
  <2>7. NothingLeaks'
    BY DEF TypeOK, NothingLeaks, NamesInv, AbsenceInv, StepInv, CleanupSteps, ErasureSteps
  <2> QED BY <2>1, <2>2, <2>3, <2>4, <2>5, <2>6, <2>7
<1>8. CASE Launch
  <2> USE <1>8 DEF Launch, state, storage, taken, cleanup
  <2>1. TypeOK'
    BY DEF TypeOK, Entry, Status, CleanupSteps
  <2>2. NamesInv'
    BY DEF TypeOK, NamesInv, AbsenceInv, StepInv, Entry, CleanupSteps, ErasureSteps
  <2>3. AbsenceInv'
    BY DEF TypeOK, NamesInv, AbsenceInv, StepInv, CleanupSteps, ErasureSteps
  <2>4. StepInv'
    BY DEF TypeOK, NamesInv, AbsenceInv, StepInv, NothingLeaks, CleanupSteps, ErasureSteps
  <2>5. StatusInv'
    BY DEF TypeOK, Status, StepInv, StatusInv, AbsenceInv, CleanupSteps, ErasureSteps
  <2>6. GuestInv' /\ RunsOnActive'
    BY DEF TypeOK, StepInv, StatusInv, GuestInv, RunsOnActive, AbsenceInv, CleanupSteps, ErasureSteps
  <2>7. NothingLeaks'
    BY DEF TypeOK, NothingLeaks, NamesInv, AbsenceInv, StepInv, CleanupSteps, ErasureSteps
  <2> QED BY <2>1, <2>2, <2>3, <2>4, <2>5, <2>6, <2>7
<1>9. CASE StartLeavesGuest
  <2> USE <1>9 DEF StartLeavesGuest, state, storage, taken, cleanup
  <2>a. handle' \in BOOLEAN /\ seen' \in BOOLEAN /\ owed' \in BOOLEAN
    BY DEF TypeOK
  <2>g. guest' \in {guest, 0, gen}
    OBVIOUS
  <2>b. guest' \in Nat
    BY ONLY ResetInv, <2>g DEF ResetInv, TypeOK
  <2>c. disks' \in SUBSET Nat /\ images' \in SUBSET Snap
    BY DEF TypeOK, Entry
  <2>1. TypeOK'
    BY <2>a, <2>b, <2>c DEF TypeOK, Entry, Status, CleanupSteps
  <2>2. NamesInv'
    BY DEF TypeOK, NamesInv, AbsenceInv, StepInv, Entry, CleanupSteps, ErasureSteps
  <2>3. AbsenceInv'
    BY DEF TypeOK, NamesInv, AbsenceInv, StepInv, CleanupSteps, ErasureSteps
  <2>4. StepInv'
    BY DEF TypeOK, NamesInv, AbsenceInv, StepInv, NothingLeaks, CleanupSteps, ErasureSteps
  <2>5. StatusInv'
    BY DEF TypeOK, Status, StepInv, StatusInv, AbsenceInv, CleanupSteps, ErasureSteps
  <2>6. GuestInv' /\ RunsOnActive'
    BY DEF TypeOK, StepInv, StatusInv, GuestInv, RunsOnActive, AbsenceInv, CleanupSteps, ErasureSteps
  <2>7. NothingLeaks'
    BY DEF TypeOK, NothingLeaks, NamesInv, AbsenceInv, StepInv, CleanupSteps, ErasureSteps
  <2> QED BY <2>1, <2>2, <2>3, <2>4, <2>5, <2>6, <2>7
<1>10. CASE StopFails
  <2> USE <1>10 DEF StopFails, state, storage, taken, cleanup
  <2>a. handle' \in BOOLEAN /\ seen' \in BOOLEAN /\ owed' \in BOOLEAN
    BY DEF TypeOK
  <2>g. guest' \in {guest, 0, gen}
    OBVIOUS
  <2>b. guest' \in Nat
    BY ONLY ResetInv, <2>g DEF ResetInv, TypeOK
  <2>c. disks' \in SUBSET Nat /\ images' \in SUBSET Snap
    BY DEF TypeOK, Entry
  <2>1. TypeOK'
    BY <2>a, <2>b, <2>c DEF TypeOK, Entry, Status, CleanupSteps
  <2>2. NamesInv'
    BY DEF TypeOK, NamesInv, AbsenceInv, StepInv, Entry, CleanupSteps, ErasureSteps
  <2>3. AbsenceInv'
    BY DEF TypeOK, NamesInv, AbsenceInv, StepInv, CleanupSteps, ErasureSteps
  <2>4. StepInv'
    BY DEF TypeOK, NamesInv, AbsenceInv, StepInv, NothingLeaks, CleanupSteps, ErasureSteps
  <2>5. StatusInv'
    BY DEF TypeOK, Status, StepInv, StatusInv, AbsenceInv, CleanupSteps, ErasureSteps
  <2>6. GuestInv' /\ RunsOnActive'
    BY DEF TypeOK, StepInv, StatusInv, GuestInv, RunsOnActive, AbsenceInv, CleanupSteps, ErasureSteps
  <2>7. NothingLeaks'
    BY DEF TypeOK, NothingLeaks, NamesInv, AbsenceInv, StepInv, CleanupSteps, ErasureSteps
  <2> QED BY <2>1, <2>2, <2>3, <2>4, <2>5, <2>6, <2>7
<1>11. CASE ListSnapshot
  <2> USE <1>11 DEF ListSnapshot, state, storage, taken, cleanup
  <2>a. handle' \in BOOLEAN /\ seen' \in BOOLEAN /\ owed' \in BOOLEAN
    BY DEF TypeOK
  <2>g. guest' \in {guest, 0, gen}
    OBVIOUS
  <2>b. guest' \in Nat
    BY ONLY ResetInv, <2>g DEF ResetInv, TypeOK
  <2>c. disks' \in SUBSET Nat /\ images' \in SUBSET Snap
    BY DEF TypeOK, Entry
  <2>1. TypeOK'
    BY <2>a, <2>b, <2>c DEF TypeOK, Entry, Status, CleanupSteps
  <2>2. NamesInv'
    BY DEF TypeOK, NamesInv, AbsenceInv, StepInv, Entry, CleanupSteps, ErasureSteps
  <2>3. AbsenceInv'
    BY DEF TypeOK, NamesInv, AbsenceInv, StepInv, CleanupSteps, ErasureSteps
  <2>4. StepInv'
    BY DEF TypeOK, NamesInv, AbsenceInv, StepInv, NothingLeaks, CleanupSteps, ErasureSteps
  <2>5. StatusInv'
    BY DEF TypeOK, Status, StepInv, GuestInv, StatusInv, AbsenceInv, CleanupSteps, ErasureSteps
  <2>6. GuestInv' /\ RunsOnActive'
    BY DEF TypeOK, StepInv, StatusInv, GuestInv, RunsOnActive, AbsenceInv, CleanupSteps, ErasureSteps
  <2>7. NothingLeaks'
    <3>1. UNCHANGED <<gen, journal, disks>>
      OBVIOUS
    <3>2. disks' \subseteq {gen'} \cup {e.gen : e \in journal'}
      BY <3>1 DEF NothingLeaks
    <3>3. pc \in {"idle", "list"} /\ (pc = "idle" => taking = {})
      BY DEF GuestInv
    <3>4. PICK U : U = UNION {e.snaps : e \in journal}
      OBVIOUS
    <3>5. images \subseteq snaps \cup U \cup taking \cup stray
      BY ONLY NothingLeaks, <3>4 DEF NothingLeaks
    <3>6. images' \subseteq snaps' \cup U \cup taking' \cup stray'
      BY <3>3, <3>5
    <3>7. U = UNION {e.snaps : e \in journal'}
      BY ONLY <3>1, <3>4
    <3> QED BY ONLY <3>2, <3>6, <3>7 DEF NothingLeaks
  <2> QED BY <2>1, <2>2, <2>3, <2>4, <2>5, <2>6, <2>7
<1>12. CASE ListFails
  <2> USE <1>12 DEF ListFails, state, storage, taken, cleanup
  <2>a. handle' \in BOOLEAN /\ seen' \in BOOLEAN /\ owed' \in BOOLEAN
    BY DEF TypeOK
  <2>g. guest' \in {guest, 0, gen}
    OBVIOUS
  <2>b. guest' \in Nat
    BY ONLY ResetInv, <2>g DEF ResetInv, TypeOK
  <2>c. disks' \in SUBSET Nat /\ images' \in SUBSET Snap
    BY DEF TypeOK, Entry
  <2>1. TypeOK'
    BY <2>a, <2>b, <2>c DEF TypeOK, Entry, Status, CleanupSteps
  <2>2. NamesInv'
    BY DEF TypeOK, NamesInv, AbsenceInv, StepInv, Entry, CleanupSteps, ErasureSteps
  <2>3. AbsenceInv'
    BY DEF TypeOK, NamesInv, AbsenceInv, StepInv, CleanupSteps, ErasureSteps
  <2>4. StepInv'
    BY DEF TypeOK, NamesInv, AbsenceInv, StepInv, NothingLeaks, CleanupSteps, ErasureSteps
  <2>5. StatusInv'
    BY DEF TypeOK, Status, StepInv, GuestInv, StatusInv, AbsenceInv, CleanupSteps, ErasureSteps
  <2>6. GuestInv' /\ RunsOnActive'
    BY DEF TypeOK, StepInv, StatusInv, GuestInv, RunsOnActive, AbsenceInv, CleanupSteps, ErasureSteps
  <2>7. NothingLeaks'
    <3>1. UNCHANGED <<gen, journal, disks>>
      OBVIOUS
    <3>2. disks' \subseteq {gen'} \cup {e.gen : e \in journal'}
      BY <3>1 DEF NothingLeaks
    <3>3. pc \in {"idle", "list"} /\ (pc = "idle" => taking = {})
      BY DEF GuestInv
    <3>4. PICK U : U = UNION {e.snaps : e \in journal}
      OBVIOUS
    <3>5. images \subseteq snaps \cup U \cup taking \cup stray
      BY ONLY NothingLeaks, <3>4 DEF NothingLeaks
    <3>6. images' \subseteq snaps' \cup U \cup taking' \cup stray'
      BY <3>3, <3>5
    <3>7. U = UNION {e.snaps : e \in journal'}
      BY ONLY <3>1, <3>4
    <3> QED BY ONLY <3>2, <3>6, <3>7 DEF NothingLeaks
  <2> QED BY <2>1, <2>2, <2>3, <2>4, <2>5, <2>6, <2>7
<1> QED BY <1>1, <1>2, <1>3, <1>4, <1>5, <1>6, <1>7, <1>8, <1>9, <1>10, <1>11, <1>12

\* Every step keeps the invariant.
LEMMA NextInv == ResetInv /\ [Next]_vars => ResetInv'
<1> SUFFICES ASSUME ResetInv, [Next]_vars PROVE ResetInv'
  OBVIOUS
<1>1. CASE Next
  <2>1. \/ Create \/ Provision \/ ProvisionFails \/ CreateEnds \/ CreateEndsUnsaved
        \/ CleanupDone \/ Validate \/ EraseSnapshots \/ Retire \/ Forget \/ CleanupFails
        \/ BeginReset \/ CheckGuest \/ JournalFresh \/ Prepare \/ PrepareFails \/ Switch
        \/ Finish \/ Fail \/ SaveFails \/ Recover
        \/ BeginDelete \/ Remove \/ RemoveFails \/ Drop \/ DropFails
        \/ Start \/ Stop \/ GuestExits \/ Refresh \/ TakeSome \/ ListSnapshot \/ ListFails
        \/ StartLeavesGuest \/ StopFails \/ Crash \/ Quit \/ Launch
    BY <1>1 DEF Next, Step, Fault, User, Creation, CleanUp, Reset, Deletion, Snapshot, TakeSome
  <2> QED BY <2>1, CreationInv, CleanupInv, ResetStepsInv, DeletionInv, PowerInv
<1>2. CASE UNCHANGED vars
  BY <1>2 DEF vars, state, storage, taken, cleanup, ResetInv, TypeOK, NamesInv, AbsenceInv, StepInv,
     StatusInv, GuestInv, NothingLeaks, RunsOnActive, Current
<1> QED BY <1>1, <1>2

\* The invariant that carries the safety properties holds in every state.
THEOREM ResetInvariant == Spec => []ResetInv
<1>1. QED BY InitInv, NextInv, PTL DEF Spec

\* Whatever fails or crashes at any point of a creation, a reset or a deletion,
\* every disk and every snapshot artifact that takes up storage is still listed,
\* by the environment or by the journal of what is to be erased; only the artifact
\* of a snapshot that was broken off before its record was saved is not.
THEOREM NoStorageLeaks == Spec => []NothingLeaks
<1>1. ResetInv => NothingLeaks
  BY DEF ResetInv
<1> QED BY <1>1, ResetInvariant, PTL

\* A machine that the application knows of runs on the generation its environment
\* refers to, and never next to an unfinished reset; a container on that one or on
\* one that is journaled for its erasure, which ends it.
THEOREM GuestsRunOnActive == Spec => []RunsOnActive
<1>1. ResetInv => RunsOnActive
  BY DEF ResetInv
<1> QED BY <1>1, ResetInvariant, PTL

\* No failed operation leaves the environment "provisioning".
THEOREM NoPermanentSpinner == Spec => []NoSpinner
<1>1. ResetInv => NoSpinner
  BY DEF ResetInv, StatusInv, NoSpinner
<1> QED BY <1>1, ResetInvariant, PTL

\* No step but the deletion of the environment takes the storage of the
\* generation that the environment refers to.
THEOREM ActiveGenerationKept == Spec => ActiveKept
<1>1. ResetInv /\ [Next]_vars => [\A g \in disks \ disks' : g # gen \/ pc = "remove"]_vars
  <2> SUFFICES ASSUME ResetInv, Next, NEW g \in disks \ disks', pc # "remove"
               PROVE  g # gen
    OBVIOUS
  <2>1. CASE Retire
    <3>1. Current \in journal
      BY <2>1, CurrentIn DEF Retire, ResetInv, StepInv, CleanupSteps, ErasureSteps
    <3>2. g = Current.gen
      BY <2>1 DEF Retire, Erase
    <3> QED BY <3>1, <3>2 DEF ResetInv, NamesInv
  <2>2. CASE ~Retire
    <3>1. disks \subseteq disks'
      BY <2>2 DEF Next, Step, Fault, User, Creation, CleanUp, Reset, Deletion, Snapshot, state, storage,
         taken, cleanup, Create, Provision, ProvisionFails, CreateEnds, CreateEndsUnsaved,
         CleanupDone, Validate, EraseSnapshots, Forget, CleanupFails, BeginReset, CheckGuest,
         JournalFresh, Prepare, PrepareFails, Switch, Finish, Fail, SaveFails, Recover,
         BeginDelete, Remove, RemoveFails, Drop, DropFails, Start, Stop, GuestExits, Refresh,
         TakeSnapshot, ListSnapshot, ListFails,
         StartLeavesGuest, StopFails, Crash, Quit, Launch
    <3> QED BY <3>1
  <2> QED BY <2>1, <2>2
<1> QED BY <1>1, ResetInvariant, PTL DEF Spec, ActiveKept

\* The saves of the state succeed and the application does not crash.
SavesSucceed == "store" \notin Fallible /\ "crash" \notin Fallible

\* Under that assumption an unreported switch is followed by its erasure alone.
LEMMA OwedNext == ASSUME SavesSucceed, ResetInv, OwedInv, Next PROVE OwedInv'
<1> USE DEF SavesSucceed, ResetInv, TypeOK, NamesInv, StepInv, OwedInv, Goto, FailTo, Save,
        None, state, storage, taken, cleanup, CleanupSteps, ErasureSteps
<1>1. CASE Create
  BY <1>1 DEF Create, AbsenceInv
<1>2. CASE Provision
  BY <1>2 DEF Provision
<1>3. CASE ProvisionFails
  BY <1>3 DEF ProvisionFails
<1>4. CASE CreateEnds
  BY <1>4 DEF CreateEnds
<1>5. CASE CleanupDone
  BY <1>5, Returns DEF CleanupDone, AfterCleanup
<1>6. CASE Validate
  <2>1. Current \in journal /\ journal # {}
    BY <1>6, CurrentIn DEF Validate
  <2>2. pc' = "erase"
    BY <1>6, <2>1 DEF Validate
  <2> QED BY <1>6, <2>1, <2>2 DEF Validate
<1>7. CASE EraseSnapshots
  BY <1>7 DEF EraseSnapshots
<1>8. CASE Retire
  BY <1>8 DEF Retire
<1>9. CASE Forget
  BY <1>9 DEF Forget
<1>10. CASE CleanupFails
  BY <1>10, CurrentIn DEF CleanupFails, CleanupError
<1>11. CASE BeginReset
  BY <1>11 DEF BeginReset, Cleanup
<1>12. CASE CheckGuest
  BY <1>12 DEF CheckGuest
<1>13. CASE JournalFresh
  BY <1>13 DEF JournalFresh
<1>14. CASE Prepare
  BY <1>14 DEF Prepare
<1>15. CASE PrepareFails
  BY <1>15 DEF PrepareFails, Cleanup
<1>16. CASE Switch
  BY <1>16 DEF Switch, Cleanup, Retired
<1>17. CASE Finish
  BY <1>17 DEF Finish
<1>18. CASE Fail
  BY <1>18 DEF Fail
<1>19. CASE Recover
  BY <1>19 DEF Recover
<1>20. CASE BeginDelete
  BY <1>20 DEF BeginDelete, Cleanup
<1>21. CASE Remove
  BY <1>21 DEF Remove
<1>22. CASE RemoveFails
  BY <1>22 DEF RemoveFails
<1>23. CASE Drop
  BY <1>23 DEF Drop
<1>24. CASE Start
  BY <1>24 DEF Start
<1>25. CASE Stop
  BY <1>25 DEF Stop
<1>26. CASE GuestExits
  BY <1>26 DEF GuestExits
<1>27. CASE Refresh
  BY <1>27 DEF Refresh
<1>28. CASE TakeSome
  BY <1>28 DEF TakeSome, TakeSnapshot
<1>29. CASE Quit
  BY <1>29 DEF Quit
<1>31. CASE ListSnapshot
  BY <1>31 DEF ListSnapshot
<1>32. CASE StopFails
  BY <1>32 DEF StopFails
<1>33. CASE StartLeavesGuest
  BY <1>33 DEF StartLeavesGuest
<1>30. CASE Launch
  BY <1>30 DEF Launch
<1> QED BY <1>1, <1>2, <1>3, <1>4, <1>5, <1>6, <1>7, <1>8, <1>9, <1>10, <1>11, <1>12, <1>13, <1>14, <1>15, <1>16, <1>17, <1>18, <1>19, <1>20, <1>21, <1>22, <1>23, <1>24, <1>25, <1>26, <1>27, <1>28, <1>29, <1>30,
   <1>31, <1>32, <1>33 DEF Next, Step, Fault, User, Creation, CleanUp, Reset, Deletion, Snapshot, TakeSome,
   CreateEndsUnsaved, SaveFails, DropFails, ListFails, Crash

\* If the saves succeed, a reset whose erasure fails any number of times is
\* finished by the retries and its fresh disk is not replaced by another one.
THEOREM ResetOnce == ASSUME SavesSucceed PROVE Spec => NotResetTwice
<1>1. Init => OwedInv
  BY DEF Init, OwedInv
<1>2. ResetInv /\ OwedInv /\ [Next]_vars => OwedInv'
  <2> SUFFICES ASSUME ResetInv, OwedInv, [Next]_vars PROVE OwedInv'
    OBVIOUS
  <2>1. CASE Next
    BY <2>1, OwedNext
  <2>2. CASE UNCHANGED vars
    BY <2>2 DEF vars, state, cleanup, OwedInv
  <2> QED BY <2>1, <2>2
<1>3. ResetInv /\ OwedInv /\ [Next]_vars => [owed => gen' \in {gen, None}]_vars
  <2> SUFFICES ASSUME ResetInv, OwedInv, Next, owed PROVE gen' \in {gen, None}
    OBVIOUS
  <2>1. pc # "switch"
    BY DEF OwedInv, CleanupSteps
  <2>2. Create => FALSE
    BY DEF Create, OwedInv, ResetInv, AbsenceInv, None, CleanupSteps, ErasureSteps
  <2> QED
    BY <2>1, <2>2 DEF Next, Step, Fault, User, Creation, CleanUp, Reset, Deletion, Snapshot, state, storage,
       taken, cleanup, Provision, ProvisionFails, CreateEnds, CreateEndsUnsaved,
       CleanupDone, Validate, EraseSnapshots, Retire, Forget, CleanupFails, BeginReset,
       CheckGuest, JournalFresh, Prepare, PrepareFails, Switch, Finish, Fail, SaveFails,
       Recover, BeginDelete, Remove, RemoveFails, Drop, DropFails, Start, Stop, GuestExits,
       Refresh, TakeSnapshot, ListSnapshot, ListFails,
         StartLeavesGuest, StopFails, Crash, Quit, Launch
<1> QED BY <1>1, <1>2, <1>3, ResetInvariant, PTL DEF Spec, NotResetTwice

=============================================================================
