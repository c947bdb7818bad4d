--------------------------- MODULE VmRestore_proofs ---------------------------
(***************************************************************************)
(* Proofs about VmRestore: under tolerated faults, in any number and at    *)
(* any point, a restore is all or nothing.                                 *)
(***************************************************************************)
EXTENDS VmRestore, TLAPS

\* As long as no hostile fault has happened, a step is not one either.
LEMMA Kinds ==
    ASSUME TypeOK, OnlyTolerated'
    PROVE  /\ ~Fails("reactivate") /\ ~Fails("security") /\ ~Fails("rollback")
           /\ ~Fails("discard") /\ ~Fails("finalize")
BY DEF TypeOK, OnlyTolerated, Fails, Hostile

\* A machine with its disk, or none, and nothing pending.
LEMMA InitInv == Init => RestoreInv
<1> SUFFICES ASSUME Init PROVE RestoreInv
  OBVIOUS
<1>1. TypeOK
  BY DEF Init, TypeOK, SecOf, CallSteps, UndoSteps
<1>2. PhaseInv
  BY DEF Init, PhaseInv, Settled, Blocked, SecOf
<1>3. StepInv
  BY DEF Init, StepInv, CallSteps, UndoSteps, RollbackSteps, FinalizeSteps, Replacing
<1> QED BY <1>1, <1>2, <1>3 DEF RestoreInv

\* The steps of install_vm_backup, and the commit, keep the invariant.
LEMMA InstallInv == RestoreInv /\ Install => RestoreInv'
<1> SUFFICES ASSUME RestoreInv, Install PROVE RestoreInv'
  OBVIOUS
<1> USE ConstantsAssumption DEF RestoreInv, Goto, files, state, machine
<1>1. CASE Check
  <2> USE <1>1 DEF Check
  <2>1. TypeOK'
    BY DEF TypeOK, SecOf, Transaction, CallSteps, UndoSteps, RollbackSteps, FinalizeSteps
  <2>2. PhaseInv'
    BY DEF TypeOK, PhaseInv, StepInv, Settled, Uncommitted, Committed, Blocked, Pending, SecOf,
       Transaction, Replacing, CallSteps, UndoSteps, RollbackSteps, FinalizeSteps
  <2>3. StepInv'
    BY DEF TypeOK, PhaseInv, StepInv, Settled, Uncommitted, Committed, Blocked, Pending, SecOf,
       Transaction, Replacing, CallSteps, UndoSteps, RollbackSteps, FinalizeSteps
  <2> QED BY <2>1, <2>2, <2>3
<1>2. CASE Convert
  <2> USE <1>2 DEF Convert
  <2>1. TypeOK'
    BY DEF TypeOK, SecOf, Transaction, CallSteps, UndoSteps, RollbackSteps, FinalizeSteps
  <2>2. PhaseInv'
    BY DEF TypeOK, PhaseInv, StepInv, Settled, Uncommitted, Committed, Blocked, Pending, SecOf,
       Transaction, Replacing, CallSteps, UndoSteps, RollbackSteps, FinalizeSteps
  <2>3. StepInv'
    BY DEF TypeOK, PhaseInv, StepInv, Settled, Uncommitted, Committed, Blocked, Pending, SecOf,
       Transaction, Replacing, CallSteps, UndoSteps, RollbackSteps, FinalizeSteps
  <2> QED BY <2>1, <2>2, <2>3
<1>3. CASE Verify
  <2> USE <1>3 DEF Verify
  <2>1. TypeOK'
    BY DEF TypeOK, SecOf, Transaction, CallSteps, UndoSteps, RollbackSteps, FinalizeSteps
  <2>2. PhaseInv'
    BY DEF TypeOK, PhaseInv, StepInv, Settled, Uncommitted, Committed, Blocked, Pending, SecOf,
       Transaction, Replacing, CallSteps, UndoSteps, RollbackSteps, FinalizeSteps
  <2>3. StepInv'
    BY DEF TypeOK, PhaseInv, StepInv, Settled, Uncommitted, Committed, Blocked, Pending, SecOf,
       Transaction, Replacing, CallSteps, UndoSteps, RollbackSteps, FinalizeSteps
  <2> QED BY <2>1, <2>2, <2>3
<1>4. CASE WriteTransaction
  <2> USE <1>4 DEF WriteTransaction
  <2>1. TypeOK'
    BY DEF TypeOK, SecOf, Transaction, CallSteps, UndoSteps, RollbackSteps, FinalizeSteps
  <2>2. PhaseInv'
    BY DEF TypeOK, PhaseInv, StepInv, Settled, Uncommitted, Committed, Blocked, Pending, SecOf,
       Transaction, Replacing, CallSteps, UndoSteps, RollbackSteps, FinalizeSteps
  <2>3. StepInv'
    BY DEF TypeOK, PhaseInv, StepInv, Settled, Uncommitted, Committed, Blocked, Pending, SecOf,
       Transaction, Replacing, CallSteps, UndoSteps, RollbackSteps, FinalizeSteps
  <2> QED BY <2>1, <2>2, <2>3
<1>5. CASE MoveOld
  <2> USE <1>5 DEF MoveOld, LosesSight
  <2>1. TypeOK'
    BY DEF TypeOK, SecOf, Transaction, CallSteps, UndoSteps, RollbackSteps, FinalizeSteps
  <2>2. PhaseInv'
    BY DEF TypeOK, PhaseInv, StepInv, Settled, Uncommitted, Committed, Blocked, Pending, SecOf,
       Transaction, Replacing, CallSteps, UndoSteps, RollbackSteps, FinalizeSteps
  <2>3. StepInv'
    BY DEF TypeOK, PhaseInv, StepInv, Settled, Uncommitted, Committed, Blocked, Pending, SecOf,
       Transaction, Replacing, CallSteps, UndoSteps, RollbackSteps, FinalizeSteps
  <2> QED BY <2>1, <2>2, <2>3
<1>6. CASE MoveNew
  <2> USE <1>6 DEF MoveNew
  <2>1. TypeOK'
    BY DEF TypeOK, StepInv, CallSteps, UndoSteps, RollbackSteps, FinalizeSteps
  <2>2. PhaseInv'
    BY DEF TypeOK, PhaseInv, StepInv, Settled, Uncommitted, Committed, Blocked, Pending, SecOf,
       Transaction, Replacing, CallSteps, UndoSteps, RollbackSteps, FinalizeSteps
  <2>3. StepInv'
    BY DEF TypeOK, PhaseInv, StepInv, Settled, Uncommitted, Committed, Blocked, Pending, SecOf,
       Transaction, Replacing, CallSteps, UndoSteps, RollbackSteps, FinalizeSteps
  <2> QED BY <2>1, <2>2, <2>3
<1>7. CASE ActivateSecurity
  <2> USE <1>7 DEF ActivateSecurity
  <2>0. tx.nextSec \in {NoFile} \cup Image
    BY DEF TypeOK, PhaseInv, StepInv, Uncommitted, Replacing, CallSteps, SecOf
  <2>1. TypeOK'
    BY <2>0 DEF TypeOK, CallSteps
  <2>2. PhaseInv'
    BY DEF TypeOK, PhaseInv, StepInv, Settled, Uncommitted, Committed, Blocked, Pending, SecOf,
       Transaction, Replacing, CallSteps, UndoSteps, RollbackSteps, FinalizeSteps
  <2>3. StepInv'
    BY DEF TypeOK, PhaseInv, StepInv, Settled, Uncommitted, Committed, Blocked, Pending, SecOf,
       Transaction, Replacing, CallSteps, UndoSteps, RollbackSteps, FinalizeSteps
  <2> QED BY <2>1, <2>2, <2>3
<1>8. CASE Setup
  <2> USE <1>8 DEF Setup
  <2>1. TypeOK'
    BY DEF TypeOK, SecOf, Transaction, CallSteps, UndoSteps, RollbackSteps, FinalizeSteps
  <2>2. PhaseInv'
    BY DEF TypeOK, PhaseInv, StepInv, Settled, Uncommitted, Committed, Blocked, Pending, SecOf,
       Transaction, Replacing, CallSteps, UndoSteps, RollbackSteps, FinalizeSteps
  <2>3. StepInv'
    BY DEF TypeOK, PhaseInv, StepInv, Settled, Uncommitted, Committed, Blocked, Pending, SecOf,
       Transaction, Replacing, CallSteps, UndoSteps, RollbackSteps, FinalizeSteps
  <2> QED BY <2>1, <2>2, <2>3
<1>9. CASE Commit
  <2> USE <1>9 DEF Commit
  <2>1. TypeOK'
    BY ZenonT(60) DEF TypeOK, SecOf, Transaction, CallSteps, UndoSteps, RollbackSteps, FinalizeSteps
  <2>2. PhaseInv'
    BY DEF TypeOK, PhaseInv, StepInv, Settled, Uncommitted, Committed, Blocked, Pending, SecOf,
       Transaction, Replacing, CallSteps, UndoSteps, RollbackSteps, FinalizeSteps
  <2>3. StepInv'
    BY DEF TypeOK, PhaseInv, StepInv, Settled, Uncommitted, Committed, Blocked, Pending, SecOf,
       Transaction, Replacing, CallSteps, UndoSteps, RollbackSteps, FinalizeSteps
  <2> QED BY <2>1, <2>2, <2>3
<1> QED BY <1>1, <1>2, <1>3, <1>4, <1>5, <1>6, <1>7, <1>8, <1>9 DEF Install

\* Undoing a failed installation keeps the invariant.
LEMMA UndoInv == RestoreInv /\ Undo => RestoreInv'
<1> SUFFICES ASSUME RestoreInv, Undo PROVE RestoreInv'
  OBVIOUS
<1> USE ConstantsAssumption DEF RestoreInv, Goto, files, state, machine
<1>1. CASE Reactivate
  <2> USE <1>1 DEF Reactivate
  <2>1. TypeOK'
    BY DEF TypeOK, SecOf, Transaction, CallSteps, UndoSteps, RollbackSteps, FinalizeSteps
  <2>2. PhaseInv'
    BY DEF TypeOK, PhaseInv, StepInv, Settled, Uncommitted, Committed, Blocked, Pending, SecOf,
       Transaction, Replacing, CallSteps, UndoSteps, RollbackSteps, FinalizeSteps
  <2>3. StepInv'
    BY DEF TypeOK, PhaseInv, StepInv, Settled, Uncommitted, Committed, Blocked, Pending, SecOf,
       Transaction, Replacing, CallSteps, UndoSteps, RollbackSteps, FinalizeSteps
  <2> QED BY <2>1, <2>2, <2>3
<1>2. CASE DiscardTransaction
  <2> USE <1>2 DEF DiscardTransaction
  <2>1. TypeOK'
    BY DEF TypeOK, SecOf, Transaction, CallSteps, UndoSteps, RollbackSteps, FinalizeSteps
  <2>2. PhaseInv'
    BY DEF TypeOK, PhaseInv, StepInv, Settled, Uncommitted, Committed, Blocked, Pending, SecOf,
       Transaction, Replacing, CallSteps, UndoSteps, RollbackSteps, FinalizeSteps
  <2>3. StepInv'
    BY DEF TypeOK, PhaseInv, StepInv, Settled, Uncommitted, Committed, Blocked, Pending, SecOf,
       Transaction, Replacing, CallSteps, UndoSteps, RollbackSteps, FinalizeSteps
  <2> QED BY <2>1, <2>2, <2>3
<1>3. CASE DiscardTemporary
  <2> USE <1>3 DEF DiscardTemporary
  <2>1. TypeOK'
    BY DEF TypeOK, SecOf, Transaction, CallSteps, UndoSteps, RollbackSteps, FinalizeSteps
  <2>2. PhaseInv'
    BY DEF TypeOK, PhaseInv, StepInv, Settled, Uncommitted, Committed, Blocked, Pending, SecOf,
       Transaction, Replacing, CallSteps, UndoSteps, RollbackSteps, FinalizeSteps
  <2>3. StepInv'
    BY DEF TypeOK, PhaseInv, StepInv, Settled, Uncommitted, Committed, Blocked, Pending, SecOf,
       Transaction, Replacing, CallSteps, UndoSteps, RollbackSteps, FinalizeSteps
  <2> QED BY <2>1, <2>2, <2>3
<1>4. CASE ClearIntent
  <2> USE <1>4 DEF ClearIntent
  <2>1. TypeOK'
    <3>1. up /\ pc' = "idle" /\ target' = NoFile /\ intent' = FALSE
          /\ UNCHANGED <<files, expected, machine, up, faults>>
      BY DEF TypeOK, UndoSteps
    <3> HIDE <1>4 DEF ClearIntent
    <3> QED BY <3>1 DEF TypeOK, CallSteps, UndoSteps, RollbackSteps, FinalizeSteps
  <2>2. PhaseInv'
    BY DEF TypeOK, PhaseInv, StepInv, Settled, Uncommitted, Committed, Blocked, Pending, SecOf,
       Transaction, Replacing, CallSteps, UndoSteps, RollbackSteps, FinalizeSteps
  <2>3. StepInv'
    BY DEF TypeOK, PhaseInv, StepInv, Settled, Uncommitted, Committed, Blocked, Pending, SecOf,
       Transaction, Replacing, CallSteps, UndoSteps, RollbackSteps, FinalizeSteps
  <2> QED BY <2>1, <2>2, <2>3
<1> QED BY <1>1, <1>2, <1>3, <1>4 DEF Undo

\* Rolling back keeps the invariant.
LEMMA RollbackInv == RestoreInv /\ Rollback => RestoreInv'
<1> SUFFICES ASSUME RestoreInv, Rollback PROVE RestoreInv'
  OBVIOUS
<1> USE ConstantsAssumption DEF RestoreInv, Goto, files, state, machine
<1>1. CASE Displace
  <2> USE <1>1 DEF Displace, LosesSight, AfterRollback, HadPrevious
  <2>1. TypeOK'
    BY DEF TypeOK, SecOf, Transaction, CallSteps, UndoSteps, RollbackSteps, FinalizeSteps
  <2>2. PhaseInv'
    BY DEF TypeOK, PhaseInv, StepInv, Settled, Uncommitted, Committed, Blocked, Pending, SecOf,
       Transaction, Replacing, CallSteps, UndoSteps, RollbackSteps, FinalizeSteps
  <2>3. StepInv'
    BY DEF TypeOK, PhaseInv, StepInv, Settled, Uncommitted, Committed, Blocked, Pending, SecOf,
       Transaction, Replacing, CallSteps, UndoSteps, RollbackSteps, FinalizeSteps
  <2> QED BY <2>1, <2>2, <2>3
<1>2. CASE RestorePrevious
  <2> USE <1>2 DEF RestorePrevious, HadPrevious
  <2>1. TypeOK'
    BY DEF TypeOK, SecOf, Transaction, CallSteps, UndoSteps, RollbackSteps, FinalizeSteps
  <2>2. PhaseInv'
    BY DEF TypeOK, PhaseInv, StepInv, Settled, Uncommitted, Committed, Blocked, Pending, SecOf,
       Transaction, Replacing, CallSteps, UndoSteps, RollbackSteps, FinalizeSteps
  <2>3. StepInv'
    BY DEF TypeOK, PhaseInv, StepInv, Settled, Uncommitted, Committed, Blocked, Pending, SecOf,
       Transaction, Replacing, CallSteps, UndoSteps, RollbackSteps, FinalizeSteps
  <2> QED BY <2>1, <2>2, <2>3
<1>3. CASE Resecure
  <2> USE <1>3 DEF Resecure
  <2>1. TypeOK'
    BY DEF TypeOK, SecOf, Transaction, CallSteps, UndoSteps, RollbackSteps, FinalizeSteps
  <2>2. PhaseInv'
    BY DEF TypeOK, PhaseInv, StepInv, Settled, Uncommitted, Committed, Blocked, Pending, SecOf,
       Transaction, Replacing, CallSteps, UndoSteps, RollbackSteps, FinalizeSteps
  <2>3. StepInv'
    BY DEF TypeOK, PhaseInv, StepInv, Settled, Uncommitted, Committed, Blocked, Pending, SecOf,
       Transaction, Replacing, CallSteps, UndoSteps, RollbackSteps, FinalizeSteps
  <2> QED BY <2>1, <2>2, <2>3
<1>4. CASE CleanTemporary
  <2> USE <1>4 DEF CleanTemporary, AfterRollback
  <2>1. TypeOK'
    BY DEF TypeOK, SecOf, Transaction, CallSteps, UndoSteps, RollbackSteps, FinalizeSteps
  <2>2. PhaseInv'
    BY DEF TypeOK, PhaseInv, StepInv, Settled, Uncommitted, Committed, Blocked, Pending, SecOf,
       Transaction, Replacing, CallSteps, UndoSteps, RollbackSteps, FinalizeSteps
  <2>3. StepInv'
    BY DEF TypeOK, PhaseInv, StepInv, Settled, Uncommitted, Committed, Blocked, Pending, SecOf,
       Transaction, Replacing, CallSteps, UndoSteps, RollbackSteps, FinalizeSteps
  <2> QED BY <2>1, <2>2, <2>3
<1>5. CASE CleanTransaction
  <2> USE <1>5 DEF CleanTransaction, AfterRollback
  <2>1. TypeOK'
    BY DEF TypeOK, SecOf, Transaction, CallSteps, UndoSteps, RollbackSteps, FinalizeSteps
  <2>2. PhaseInv'
    BY DEF TypeOK, PhaseInv, StepInv, Settled, Uncommitted, Committed, Blocked, Pending, SecOf,
       Transaction, Replacing, CallSteps, UndoSteps, RollbackSteps, FinalizeSteps
  <2>3. StepInv'
    BY DEF TypeOK, PhaseInv, StepInv, Settled, Uncommitted, Committed, Blocked, Pending, SecOf,
       Transaction, Replacing, CallSteps, UndoSteps, RollbackSteps, FinalizeSteps
  <2> QED BY <2>1, <2>2, <2>3
<1> QED BY <1>1, <1>2, <1>3, <1>4, <1>5 DEF Rollback

\* Finalizing keeps the invariant.
LEMMA FinalizeInv == RestoreInv /\ Finalize => RestoreInv'
<1> SUFFICES ASSUME RestoreInv, Finalize PROVE RestoreInv'
  OBVIOUS
<1> USE ConstantsAssumption DEF RestoreInv, Goto, files, state, machine
<1>1. CASE FinalizeSecurity
  <2> USE <1>1 DEF FinalizeSecurity
  <2>1. TypeOK'
    BY DEF TypeOK, SecOf, Transaction, CallSteps, UndoSteps, RollbackSteps, FinalizeSteps
  <2>2. PhaseInv'
    BY DEF TypeOK, PhaseInv, StepInv, Settled, Uncommitted, Committed, Blocked, Pending, SecOf,
       Transaction, Replacing, CallSteps, UndoSteps, RollbackSteps, FinalizeSteps
  <2>3. StepInv'
    BY DEF TypeOK, PhaseInv, StepInv, Settled, Uncommitted, Committed, Blocked, Pending, SecOf,
       Transaction, Replacing, CallSteps, UndoSteps, RollbackSteps, FinalizeSteps
  <2> QED BY <2>1, <2>2, <2>3
<1>2. CASE FinalizeTemporary
  <2> USE <1>2 DEF FinalizeTemporary
  <2>1. TypeOK'
    BY DEF TypeOK, SecOf, Transaction, CallSteps, UndoSteps, RollbackSteps, FinalizeSteps
  <2>2. PhaseInv'
    BY DEF TypeOK, PhaseInv, StepInv, Settled, Uncommitted, Committed, Blocked, Pending, SecOf,
       Transaction, Replacing, CallSteps, UndoSteps, RollbackSteps, FinalizeSteps
  <2>3. StepInv'
    BY DEF TypeOK, PhaseInv, StepInv, Settled, Uncommitted, Committed, Blocked, Pending, SecOf,
       Transaction, Replacing, CallSteps, UndoSteps, RollbackSteps, FinalizeSteps
  <2> QED BY <2>1, <2>2, <2>3
<1>3. CASE FinalizePrevious
  <2> USE <1>3 DEF FinalizePrevious
  <2>1. TypeOK'
    BY DEF TypeOK, SecOf, Transaction, CallSteps, UndoSteps, RollbackSteps, FinalizeSteps
  <2>2. PhaseInv'
    BY DEF TypeOK, PhaseInv, StepInv, Settled, Uncommitted, Committed, Blocked, Pending, SecOf,
       Transaction, Replacing, CallSteps, UndoSteps, RollbackSteps, FinalizeSteps
  <2>3. StepInv'
    BY DEF TypeOK, PhaseInv, StepInv, Settled, Uncommitted, Committed, Blocked, Pending, SecOf,
       Transaction, Replacing, CallSteps, UndoSteps, RollbackSteps, FinalizeSteps
  <2> QED BY <2>1, <2>2, <2>3
<1>4. CASE FinalizeTransaction
  <2> USE <1>4 DEF FinalizeTransaction
  <2>1. TypeOK'
    BY DEF TypeOK, SecOf, Transaction, CallSteps, UndoSteps, RollbackSteps, FinalizeSteps
  <2>2. PhaseInv'
    BY DEF TypeOK, PhaseInv, StepInv, Settled, Uncommitted, Committed, Blocked, Pending, SecOf,
       Transaction, Replacing, CallSteps, UndoSteps, RollbackSteps, FinalizeSteps
  <2>3. StepInv'
    BY DEF TypeOK, PhaseInv, StepInv, Settled, Uncommitted, Committed, Blocked, Pending, SecOf,
       Transaction, Replacing, CallSteps, UndoSteps, RollbackSteps, FinalizeSteps
  <2> QED BY <2>1, <2>2, <2>3
<1> QED BY <1>1, <1>2, <1>3, <1>4 DEF Finalize

\* Start-up keeps the invariant.
LEMMA StartupInv == RestoreInv /\ Startup => RestoreInv'
<1> SUFFICES ASSUME RestoreInv, Startup PROVE RestoreInv'
  OBVIOUS
<1> USE ConstantsAssumption DEF RestoreInv, Goto, files, state, machine
<1>1. CASE Launch
  <2> USE <1>1 DEF Launch
  <2>1. TypeOK'
    BY DEF TypeOK, SecOf, Transaction, CallSteps, UndoSteps, RollbackSteps, FinalizeSteps
  <2>2. PhaseInv'
    BY DEF TypeOK, PhaseInv, StepInv, Settled, Uncommitted, Committed, Blocked, Pending, SecOf,
       Transaction, Replacing, CallSteps, UndoSteps, RollbackSteps, FinalizeSteps
  <2>3. StepInv'
    BY DEF TypeOK, PhaseInv, StepInv, Settled, Uncommitted, Committed, Blocked, Pending, SecOf,
       Transaction, Replacing, CallSteps, UndoSteps, RollbackSteps, FinalizeSteps
  <2> QED BY <2>1, <2>2, <2>3
<1>2. CASE Resolve
  <2> USE <1>2 DEF Resolve
  <2>1. TypeOK'
    BY DEF TypeOK, SecOf, Transaction, CallSteps, UndoSteps, RollbackSteps, FinalizeSteps
  <2>2. PhaseInv'
    BY DEF TypeOK, PhaseInv, StepInv, Settled, Uncommitted, Committed, Blocked, Pending, SecOf,
       Transaction, Replacing, CallSteps, UndoSteps, RollbackSteps, FinalizeSteps
  <2>3. StepInv'
    BY DEF TypeOK, PhaseInv, StepInv, Settled, Uncommitted, Committed, Blocked, Pending, SecOf,
       Transaction, Replacing, CallSteps, UndoSteps, RollbackSteps, FinalizeSteps
  <2> QED BY <2>1, <2>2, <2>3
<1>3. CASE StartupCommit
  <2> USE <1>3 DEF StartupCommit
  <2>0. up' \in BOOLEAN /\ intent' \in BOOLEAN
    OBVIOUS
  <2>a. /\ pc = "replace" /\ pc' = "idle" /\ up' = TRUE
        /\ UNCHANGED <<disk, previous, temporary, displaced, sec, tx, expected, machine,
                       target, faults>>
    OBVIOUS
  <2>b. ~up /\ target' = NoFile
    BY <2>a DEF TypeOK
  <2>1. TypeOK'
    BY ONLY TypeOK, <2>0, <2>a, <2>b
       DEF TypeOK, CallSteps, UndoSteps, RollbackSteps, FinalizeSteps
  <2>2. PhaseInv'
    BY DEF TypeOK, PhaseInv, StepInv, Settled, Uncommitted, Committed, Blocked, Pending, SecOf,
       Transaction, Replacing, CallSteps, UndoSteps, RollbackSteps, FinalizeSteps
  <2>3. StepInv'
    BY DEF TypeOK, PhaseInv, StepInv, Settled, Uncommitted, Committed, Blocked, Pending, SecOf,
       Transaction, Replacing, CallSteps, UndoSteps, RollbackSteps, FinalizeSteps
  <2> QED BY <2>1, <2>2, <2>3
<1> QED BY <1>1, <1>2, <1>3 DEF Startup

\* The tolerated faults keep the invariant; the others do not happen.
LEMMA FaultInv == OnlyTolerated' /\ RestoreInv /\ Fault => RestoreInv'
<1> SUFFICES ASSUME OnlyTolerated', RestoreInv, Fault PROVE RestoreInv'
  OBVIOUS
<1>0. \A k : Fails(k) => faults' \in [tolerated : Nat, hostile : Nat]
  BY DEF Fails, RestoreInv, TypeOK
<1> USE <1>0, ConstantsAssumption, Kinds DEF RestoreInv, Goto, files, state, machine
<1>1. CASE PrepareFails
  <2> USE <1>1 DEF PrepareFails
  <2>1. TypeOK'
    BY DEF TypeOK, SecOf, Transaction, CallSteps, UndoSteps, RollbackSteps, FinalizeSteps
  <2>2. PhaseInv'
    BY DEF TypeOK, PhaseInv, StepInv, Settled, Uncommitted, Committed, Blocked, Pending, SecOf,
       Transaction, Replacing, CallSteps, UndoSteps, RollbackSteps, FinalizeSteps
  <2>3. StepInv'
    BY DEF TypeOK, PhaseInv, StepInv, Settled, Uncommitted, Committed, Blocked, Pending, SecOf,
       Transaction, Replacing, CallSteps, UndoSteps, RollbackSteps, FinalizeSteps
  <2> QED BY <2>1, <2>2, <2>3
<1>2. CASE MoveOldFails
  <2> USE <1>2 DEF MoveOldFails
  <2>1. TypeOK'
    BY DEF TypeOK, SecOf, Transaction, CallSteps, UndoSteps, RollbackSteps, FinalizeSteps
  <2>2. PhaseInv'
    BY DEF TypeOK, PhaseInv, StepInv, Settled, Uncommitted, Committed, Blocked, Pending, SecOf,
       Transaction, Replacing, CallSteps, UndoSteps, RollbackSteps, FinalizeSteps
  <2>3. StepInv'
    BY DEF TypeOK, PhaseInv, StepInv, Settled, Uncommitted, Committed, Blocked, Pending, SecOf,
       Transaction, Replacing, CallSteps, UndoSteps, RollbackSteps, FinalizeSteps
  <2> QED BY <2>1, <2>2, <2>3
<1>3. CASE MoveNewFails
  <2> USE <1>3 DEF MoveNewFails
  <2>1. TypeOK'
    BY DEF TypeOK, SecOf, Transaction, CallSteps, UndoSteps, RollbackSteps, FinalizeSteps
  <2>2. PhaseInv'
    BY DEF TypeOK, PhaseInv, StepInv, Settled, Uncommitted, Committed, Blocked, Pending, SecOf,
       Transaction, Replacing, CallSteps, UndoSteps, RollbackSteps, FinalizeSteps
  <2>3. StepInv'
    BY DEF TypeOK, PhaseInv, StepInv, Settled, Uncommitted, Committed, Blocked, Pending, SecOf,
       Transaction, Replacing, CallSteps, UndoSteps, RollbackSteps, FinalizeSteps
  <2> QED BY <2>1, <2>2, <2>3
<1>4. CASE InstallAbandoned
  <2> USE <1>4 DEF InstallAbandoned
  <2>1. TypeOK'
    BY DEF TypeOK, SecOf, Transaction, CallSteps, UndoSteps, RollbackSteps, FinalizeSteps
  <2>2. PhaseInv'
    BY DEF TypeOK, PhaseInv, StepInv, Settled, Uncommitted, Committed, Blocked, Pending, SecOf,
       Transaction, Replacing, CallSteps, UndoSteps, RollbackSteps, FinalizeSteps
  <2>3. StepInv'
    BY DEF TypeOK, PhaseInv, StepInv, Settled, Uncommitted, Committed, Blocked, Pending, SecOf,
       Transaction, Replacing, CallSteps, UndoSteps, RollbackSteps, FinalizeSteps
  <2> QED BY <2>1, <2>2, <2>3
<1>5. CASE DiscardFails
  <2> USE <1>5 DEF DiscardFails
  <2>1. TypeOK'
    BY DEF TypeOK, SecOf, Transaction, CallSteps, UndoSteps, RollbackSteps, FinalizeSteps
  <2>2. PhaseInv'
    BY DEF TypeOK, PhaseInv, StepInv, Settled, Uncommitted, Committed, Blocked, Pending, SecOf,
       Transaction, Replacing, CallSteps, UndoSteps, RollbackSteps, FinalizeSteps
  <2>3. StepInv'
    BY DEF TypeOK, PhaseInv, StepInv, Settled, Uncommitted, Committed, Blocked, Pending, SecOf,
       Transaction, Replacing, CallSteps, UndoSteps, RollbackSteps, FinalizeSteps
  <2> QED BY <2>1, <2>2, <2>3
<1>6. CASE CommitFails
  <2> USE <1>6 DEF CommitFails
  <2>1. TypeOK'
    BY DEF TypeOK, SecOf, Transaction, CallSteps, UndoSteps, RollbackSteps, FinalizeSteps
  <2>2. PhaseInv'
    BY DEF TypeOK, PhaseInv, StepInv, Settled, Uncommitted, Committed, Blocked, Pending, SecOf,
       Transaction, Replacing, CallSteps, UndoSteps, RollbackSteps, FinalizeSteps
  <2>3. StepInv'
    BY DEF TypeOK, PhaseInv, StepInv, Settled, Uncommitted, Committed, Blocked, Pending, SecOf,
       Transaction, Replacing, CallSteps, UndoSteps, RollbackSteps, FinalizeSteps
  <2> QED BY <2>1, <2>2, <2>3
<1>7. CASE IntentWriteFails
  <2> USE <1>7 DEF IntentWriteFails
  <2>1. TypeOK'
    BY DEF TypeOK, SecOf, Transaction, CallSteps, UndoSteps, RollbackSteps, FinalizeSteps
  <2>2. PhaseInv'
    BY DEF TypeOK, PhaseInv, StepInv, Settled, Uncommitted, Committed, Blocked, Pending, SecOf,
       Transaction, Replacing, CallSteps, UndoSteps, RollbackSteps, FinalizeSteps
  <2>3. StepInv'
    BY DEF TypeOK, PhaseInv, StepInv, Settled, Uncommitted, Committed, Blocked, Pending, SecOf,
       Transaction, Replacing, CallSteps, UndoSteps, RollbackSteps, FinalizeSteps
  <2> QED BY <2>1, <2>2, <2>3
<1>8. CASE RollbackFails
  <2> USE <1>8 DEF RollbackFails
  <2>1. TypeOK'
    BY DEF TypeOK, SecOf, Transaction, CallSteps, UndoSteps, RollbackSteps, FinalizeSteps
  <2>2. PhaseInv'
    BY DEF TypeOK, PhaseInv, StepInv, Settled, Uncommitted, Committed, Blocked, Pending, SecOf,
       Transaction, Replacing, CallSteps, UndoSteps, RollbackSteps, FinalizeSteps
  <2>3. StepInv'
    BY DEF TypeOK, PhaseInv, StepInv, Settled, Uncommitted, Committed, Blocked, Pending, SecOf,
       Transaction, Replacing, CallSteps, UndoSteps, RollbackSteps, FinalizeSteps
  <2> QED BY <2>1, <2>2, <2>3
<1>9. CASE FinalizeFails
  <2> USE <1>9 DEF FinalizeFails
  <2>1. TypeOK'
    BY DEF TypeOK, SecOf, Transaction, CallSteps, UndoSteps, RollbackSteps, FinalizeSteps
  <2>2. PhaseInv'
    BY DEF TypeOK, PhaseInv, StepInv, Settled, Uncommitted, Committed, Blocked, Pending, SecOf,
       Transaction, Replacing, CallSteps, UndoSteps, RollbackSteps, FinalizeSteps
  <2>3. StepInv'
    BY DEF TypeOK, PhaseInv, StepInv, Settled, Uncommitted, Committed, Blocked, Pending, SecOf,
       Transaction, Replacing, CallSteps, UndoSteps, RollbackSteps, FinalizeSteps
  <2> QED BY <2>1, <2>2, <2>3
<1>10. CASE StartupFails
  <2> USE <1>10 DEF StartupFails
  <2>1. TypeOK'
    BY DEF TypeOK, SecOf, Transaction, CallSteps, UndoSteps, RollbackSteps, FinalizeSteps
  <2>2. PhaseInv'
    BY DEF TypeOK, PhaseInv, StepInv, Settled, Uncommitted, Committed, Blocked, Pending, SecOf,
       Transaction, Replacing, CallSteps, UndoSteps, RollbackSteps, FinalizeSteps
  <2>3. StepInv'
    BY DEF TypeOK, PhaseInv, StepInv, Settled, Uncommitted, Committed, Blocked, Pending, SecOf,
       Transaction, Replacing, CallSteps, UndoSteps, RollbackSteps, FinalizeSteps
  <2> QED BY <2>1, <2>2, <2>3
<1>11. CASE Crash
  <2> USE <1>11 DEF Crash
  <2>0. running' \in BOOLEAN /\ orphan' \in {"none", "holds", "detached"}
    BY DEF TypeOK
  <2>1. TypeOK'
    <3> HIDE DEF Crash
    <3>1. /\ pc' = "down" /\ up' = FALSE /\ target' = NoFile /\ displaced' = NoFile
          /\ Fails("crash")
          /\ UNCHANGED <<disk, previous, temporary, sec, tx, intent, expected>>
      BY DEF Crash
    <3>2. ~up' /\ up' \in BOOLEAN /\ intent' \in BOOLEAN
      BY <3>1 DEF TypeOK
    <3>3. /\ disk' \in {NoFile} \cup Image /\ previous' \in {NoFile} \cup Image
          /\ temporary' \in {NoFile, Partial} \cup Image /\ sec' \in {NoFile} \cup Image
          /\ tx' \in {NoFile} \cup Transaction /\ expected' \in {NoFile} \cup Image
          /\ faults' \in [tolerated : Nat, hostile : Nat]
      BY <1>0, <3>1 DEF TypeOK
    <3> HIDE <1>11
    <3> QED BY <2>0, <3>1, <3>2, <3>3 DEF TypeOK, CallSteps, UndoSteps
  <2>2. PhaseInv'
    BY DEF TypeOK, PhaseInv, StepInv, Settled, Uncommitted, Committed, Blocked, Pending, SecOf,
       Transaction, Replacing, CallSteps, UndoSteps, RollbackSteps, FinalizeSteps
  <2>3. StepInv'
    BY DEF TypeOK, PhaseInv, StepInv, Settled, Uncommitted, Committed, Blocked, Pending, SecOf,
       Transaction, Replacing, CallSteps, UndoSteps, RollbackSteps, FinalizeSteps
  <2> QED BY <2>1, <2>2, <2>3
<1> QED BY <1>1, <1>2, <1>3, <1>4, <1>5, <1>6, <1>7, <1>8, <1>9, <1>10, <1>11 DEF Fault

\* So do the requests of the user.
LEMMA RequestInv ==
    RestoreInv /\ (StartVm \/ StopVm \/ OrphanEnds \/ \E i \in Image : BeginRestore(i)) => RestoreInv'
<1> SUFFICES ASSUME RestoreInv, StartVm \/ StopVm \/ OrphanEnds \/ \E i \in Image : BeginRestore(i)
             PROVE  RestoreInv'
  OBVIOUS
<1> USE ConstantsAssumption DEF RestoreInv, files, state, machine
<1>1. ASSUME NEW i \in Image, BeginRestore(i) PROVE RestoreInv'
  <2> USE <1>1 DEF BeginRestore
  <2>1. TypeOK'
    BY DEF TypeOK, CallSteps, UndoSteps
  <2>2. PhaseInv' /\ StepInv'
    BY DEF TypeOK, PhaseInv, StepInv, Settled, Uncommitted, Committed, Blocked, Pending,
       Replacing, CallSteps, UndoSteps, RollbackSteps, FinalizeSteps
  <2> QED BY <2>1, <2>2
<1>2. CASE StartVm
  <2>1. TypeOK'
    <3>1. running' \in BOOLEAN
      BY <1>2 DEF StartVm
    <3> QED BY <1>2, <3>1 DEF StartVm, TypeOK
  <2>2. PhaseInv' /\ StepInv'
    BY <1>2 DEF StartVm, TypeOK, PhaseInv, StepInv, Settled, Uncommitted, Committed, Blocked,
       Pending, Replacing, CallSteps, UndoSteps, RollbackSteps, FinalizeSteps
  <2> QED BY <2>1, <2>2
<1>3. CASE StopVm
  <2>1. TypeOK'
    <3>1. running' \in BOOLEAN
      BY <1>3 DEF StopVm
    <3> QED BY <1>3, <3>1 DEF StopVm, TypeOK
  <2>2. PhaseInv' /\ StepInv'
    BY <1>3 DEF StopVm, TypeOK, PhaseInv, StepInv, Settled, Uncommitted, Committed, Blocked,
       Pending
  <2> QED BY <2>1, <2>2
<1>4. CASE OrphanEnds
  <2>1. TypeOK'
    BY <1>4 DEF OrphanEnds, TypeOK
  <2>2. PhaseInv' /\ StepInv'
    BY <1>4 DEF OrphanEnds, TypeOK, PhaseInv, StepInv, Settled, Uncommitted, Committed,
       Blocked, Pending
  <2> QED BY <2>1, <2>2
<1> QED BY <1>1, <1>2, <1>3, <1>4

\* The counts of faults.
FaultsOK == faults \in [tolerated : Nat, hostile : Nat]

\* Only faults are counted, and a hostile one is never forgotten.
LEMMA FaultsCounted ==
    FaultsOK /\ [Next]_vars => FaultsOK' /\ (OnlyTolerated' => OnlyTolerated)
<1> SUFFICES ASSUME FaultsOK, [Next]_vars
             PROVE  FaultsOK' /\ (OnlyTolerated' => OnlyTolerated)
  OBVIOUS
<1>1. \A k : Fails(k) => FaultsOK' /\ (OnlyTolerated' => OnlyTolerated)
  BY DEF Fails, OnlyTolerated, FaultsOK
<1>2. CASE UNCHANGED faults
  BY <1>2 DEF OnlyTolerated, FaultsOK
<1>3. CASE Fault
  BY <1>1, <1>3 DEF Fault, PrepareFails, MoveOldFails, MoveNewFails, InstallAbandoned,
     DiscardFails, CommitFails, IntentWriteFails, RollbackFails, FinalizeFails, StartupFails,
     Crash
<1>4. CASE ~Fault
  <2>1. UNCHANGED faults
    BY <1>4 DEF Next, Step, Install, Undo, Rollback, Finalize, Startup, vars, machine, Goto, LosesSight, Check,
       Convert, Verify, WriteTransaction, MoveOld, MoveNew, ActivateSecurity, Setup, Commit,
       Reactivate, DiscardTransaction, DiscardTemporary, ClearIntent, Displace,
       RestorePrevious, Resecure, CleanTemporary, CleanTransaction, FinalizeSecurity,
       FinalizeTemporary, FinalizePrevious, FinalizeTransaction, Launch, Resolve,
       StartupCommit, StartVm, StopVm, OrphanEnds, BeginRestore
  <2> QED BY <1>2, <2>1
<1> QED BY <1>3, <1>4

\* The invariant is inductive as long as the faults are tolerated.
LEMMA NextInv == OnlyTolerated' /\ RestoreInv /\ [Next]_vars => RestoreInv'
<1> SUFFICES ASSUME OnlyTolerated', RestoreInv, [Next]_vars PROVE RestoreInv'
  OBVIOUS
<1>1. CASE Step
  BY <1>1, InstallInv, UndoInv, RollbackInv, FinalizeInv, StartupInv DEF Step
<1>2. CASE Fault
  BY <1>2, FaultInv
<1>3. CASE StartVm \/ StopVm \/ OrphanEnds \/ \E i \in Image : BeginRestore(i)
  BY <1>3, RequestInv
<1>4. CASE UNCHANGED vars
  BY <1>4 DEF vars, files, state, machine, RestoreInv, TypeOK, PhaseInv, StepInv, Settled,
     Uncommitted, Committed, Blocked, Pending
<1> QED BY <1>1, <1>2, <1>3, <1>4 DEF Next

\* Until a hostile fault happens the invariant holds, in every behaviour.
THEOREM RestoreInvariant == Spec => [](OnlyTolerated => RestoreInv)
<1>1. Init => FaultsOK
  BY DEF Init, FaultsOK
<1>2. FaultsOK /\ (OnlyTolerated => RestoreInv) /\ [Next]_vars =>
          FaultsOK' /\ (OnlyTolerated => RestoreInv)'
  BY NextInv, FaultsCounted
<1> QED BY InitInv, <1>1, <1>2, PTL DEF Spec

\* Wherever the process stops, the next start leaves the machine with the disk
\* and the identity of the image its committed state describes.
THEOREM AllOrNothing == Spec => []RecoveryRestores
<1>1. RestoreInv => RecoveryRestores
  BY ConstantsAssumption
  DEF RestoreInv, TypeOK, PhaseInv, Settled, Uncommitted, Committed, RecoveryRestores,
      RolledBack, RolledBackSec, FinalizedSec, HadPrevious, Blocked, Pending, SecOf
<1>2. ~OnlyTolerated => RecoveryRestores
  BY DEF RecoveryRestores
<1> QED BY <1>1, <1>2, RestoreInvariant, PTL

\* A machine of the application runs only on the disk of its committed state.  This is not
\* said of a process that outlived the application, which install_vm_backup does not look for.
THEOREM RunsOnCommittedDisk == Spec => []RunsOnItsDisk
<1>1. RestoreInv => RunsOnItsDisk
  BY DEF RestoreInv, PhaseInv, Settled, RunsOnItsDisk
<1>2. ~OnlyTolerated => RunsOnItsDisk
  BY DEF RunsOnItsDisk
<1> QED BY <1>1, <1>2, RestoreInvariant, PTL

\* The retained disk is removed only when it is of no more use.
THEOREM RetainedDiskKept == Spec => OldDiskKept
<1>1. ASSUME RestoreInv, RestoreInv', [Next]_vars, previous # NoFile, previous' = NoFile
      PROVE  disk' = expected'
  <2> USE <1>1 DEF RestoreInv
  <2>1. Reactivate \/ RestorePrevious \/ FinalizePrevious
    BY DEF Next, Step, Install, Undo, Rollback, Finalize, Startup, Fault, vars, files,
       Check, Convert, Verify, WriteTransaction, MoveOld, MoveNew, ActivateSecurity, Setup,
       Commit, DiscardTransaction, DiscardTemporary, ClearIntent, Displace, Resecure,
       CleanTemporary, CleanTransaction, FinalizeSecurity, FinalizeTemporary,
       FinalizeTransaction, Launch, Resolve, StartupCommit, PrepareFails, MoveOldFails,
       MoveNewFails, InstallAbandoned, DiscardFails, CommitFails, IntentWriteFails,
       RollbackFails, FinalizeFails, StartupFails, Crash, StartVm, StopVm, OrphanEnds, BeginRestore,
       StepInv, TypeOK
  <2>2. previous = expected \/ (disk = expected /\ ~intent)
    <3>1. CASE intent
      BY <3>1 DEF PhaseInv, Uncommitted, Blocked
    <3>2. CASE ~intent
      BY <3>2 DEF PhaseInv, Committed, Blocked
    <3> QED BY <3>1, <3>2
  <2>3. CASE Reactivate
    BY <2>2, <2>3 DEF Reactivate, StepInv, CallSteps, UndoSteps, state
  <2>4. CASE RestorePrevious
    BY <2>2, <2>4 DEF RestorePrevious, StepInv, RollbackSteps, state
  <2>5. CASE FinalizePrevious
    BY <2>5 DEF FinalizePrevious, PhaseInv, StepInv, Committed, Blocked, FinalizeSteps, state
  <2> QED BY <2>1, <2>3, <2>4, <2>5
<1>2. FaultsOK /\ (OnlyTolerated => RestoreInv) /\ (OnlyTolerated => RestoreInv)'
      /\ [Next]_vars =>
          [OnlyTolerated' /\ previous # NoFile /\ previous' = NoFile => disk' = expected']_vars
  BY <1>1, FaultsCounted
<1>3. Init => FaultsOK
  BY DEF Init, FaultsOK
<1>4. FaultsOK /\ [Next]_vars => FaultsOK'
  BY FaultsCounted
<1> QED BY RestoreInvariant, <1>2, <1>3, <1>4, PTL DEF Spec, OldDiskKept

\* While a restore makes its transaction the application does not run the machine, whatever
\* has failed before.
OffWhileReplacing ==
    NeverRunsPending /\ (pc \in {"convert", "verify", "writeTx", "moveOld"} => ~running)

\* Whatever fails, hostile faults included: the application starts a machine only when nothing
\* is left to resolve, and makes a transaction only while it runs no process of the machine
\* (runtime/vm.rs: ensure_no_pending_vm_restore, install_vm_backup).
THEOREM NeverRunsInBetween == Spec => []NeverRunsPending
<1>1. Init => OffWhileReplacing
  BY DEF Init, OffWhileReplacing, NeverRunsPending
<1>2. OffWhileReplacing /\ [Next]_vars => OffWhileReplacing'
  <2> SUFFICES ASSUME OffWhileReplacing, [Next]_vars
               PROVE  OffWhileReplacing'
    OBVIOUS
  <2> USE DEF OffWhileReplacing, NeverRunsPending, Blocked, Goto, LosesSight, files, state, machine
  <2>1. CASE Install
    BY <2>1 DEF Install, Check, Convert, Verify, WriteTransaction, MoveOld, MoveNew,
       ActivateSecurity, Setup, Commit
  <2>2. CASE Undo
    BY <2>2 DEF Undo, Reactivate, DiscardTransaction, DiscardTemporary, ClearIntent
  <2>3. CASE Rollback
    BY <2>3 DEF Rollback, Displace, RestorePrevious, Resecure, CleanTemporary,
       CleanTransaction, AfterRollback
  <2>4. CASE Finalize
    BY <2>4 DEF Finalize, FinalizeSecurity, FinalizeTemporary, FinalizePrevious,
       FinalizeTransaction
  <2>5. CASE Startup
    BY <2>5 DEF Startup, Launch, Resolve, StartupCommit
  <2>6. CASE Fault
    BY <2>6 DEF Fault, PrepareFails, MoveOldFails, MoveNewFails, InstallAbandoned,
       DiscardFails, CommitFails, IntentWriteFails, RollbackFails, FinalizeFails,
       StartupFails, Crash
  <2>7. CASE StartVm \/ StopVm \/ OrphanEnds
    BY <2>7 DEF StartVm, StopVm, OrphanEnds
  <2>8. CASE \E i \in Image : BeginRestore(i)
    BY <2>8 DEF BeginRestore
  <2>9. CASE UNCHANGED vars
    BY <2>9 DEF vars
  <2> QED BY <2>1, <2>2, <2>3, <2>4, <2>5, <2>6, <2>7, <2>8, <2>9 DEF Next, Step
<1>3. OffWhileReplacing => NeverRunsPending
  BY DEF OffWhileReplacing
<1> QED BY <1>1, <1>2, <1>3, PTL DEF Spec
=============================================================================
