---------------------------- MODULE PlatformStore ----------------------------
(***************************************************************************)
(* The platform state file of the desktop backend (src-tauri/src/store.rs).*)
(*                                                                         *)
(* A platform state is abstracted to the set of facts it holds.  The store *)
(* mutex is held from the clone of the current state to the assignment of  *)
(* the candidate, so at most one write is in progress; its file system     *)
(* calls are separate steps, each of which may fail, and the process may   *)
(* crash between any two of them.  A file is Missing, Corrupt (truncated,  *)
(* half written or damaged) or holds a state.                              *)
(***************************************************************************)
EXTENDS Naturals

CONSTANTS
    Fact,       \* the facts a platform state may hold
    Volatile,   \* those that load drops (the sessions of cloud environments)
    Fallible,   \* what may go wrong: calls that may fail, "read", "crash", "damage"
    MaxFaults,  \* bound on the number of faults
    None,       \* no state
    Missing,    \* the content of a file that does not exist
    Corrupt     \* the content of a file that does not decode

\* The file system calls of load and write_atomic, in the order of the code.
Calls == {"preserve", "copy", "sync", "activate", "create", "write", "remove",
          "retire", "publish", "rollback"}

ASSUME ConstantsAssumption ==
    /\ Volatile \subseteq Fact
    /\ Fallible \subseteq Calls \cup {"read", "crash", "damage"}
    /\ MaxFaults \in Nat
    /\ \A s \in SUBSET Fact : s \notin {None, Missing, Corrupt}
    /\ Missing # Corrupt

VARIABLES
    disk,     \* contents of state.json, .json.bak, .json.tmp, .json.recovering
    pc,       \* the next file system call, "idle", "down" or "refused"
    mem,      \* the state behind the mutex, None while the store is not open
    cand,     \* the state being written, None when no write is in progress
    faults,   \* faults so far
    acked,    \* history: the last state whose write returned Ok
    unsure,   \* history: states whose write a crash interrupted since then
    prior,    \* history: the states that were acknowledged or unsure before it
    harmed,   \* history: since then a file was damaged, or a whole primary set aside
    unread    \* history: the last start could not read a file

vars == <<disk, pc, mem, cand, faults, acked, unsure, prior, harmed, unread>>
history == <<acked, unsure, prior, harmed>>

State   == SUBSET Fact
Files   == {"main", "bak", "tmp", "recovering"}
Content == {Missing, Corrupt} \cup State

\* What load_state_file decodes, and path.exists().
Readable(f) == disk[f] \notin {Missing, Corrupt}
Exists(f)   == disk[f] # Missing

\* Its result when the metadata or the contents of the files in r cannot be had:
\* Ok(Some(_)), Ok(None), and an error otherwise.
Loaded(f, r) == f \notin r /\ Readable(f)
Absent(f, r) == f \notin r /\ ~Exists(f)

\* PlatformState::empty(), and the reset of cloud sessions in load.
Empty        == {}
Normalise(s) == s \ Volatile

\* The type of the state.  A candidate exists exactly during a write, and the
\* store is open (mem # None) whenever no operation is going on.
TypeOK ==
    /\ disk \in [Files -> Content]
    /\ pc \in Calls \cup {"idle", "down", "refused", "adopt"}
    /\ mem \in {None} \cup State
    /\ cand \in {None} \cup State
    /\ faults \in Nat
    /\ acked \in {None} \cup State
    /\ unsure \subseteq State /\ prior \subseteq State
    /\ harmed \in BOOLEAN /\ unread \in BOOLEAN
    /\ cand = None <=> pc \in {"idle", "down", "refused"}
    /\ pc = "idle" => mem # None
    /\ pc \in {"down", "refused", "preserve", "copy", "sync", "activate"} =>
           mem = None

Init ==
    /\ disk = [f \in Files |-> Missing]
    /\ pc = "down"
    /\ mem = None
    /\ cand = None
    /\ faults = 0
    /\ acked = None
    /\ unsure = {} /\ prior = {}
    /\ harmed = FALSE /\ unread = FALSE

-----------------------------------------------------------------------------
(* Opening the store.                                                      *)

\* A start whose reads of the files in r fail: a fault, unless there are none.
StartReads(r) ==
    /\ r # {} => "read" \in Fallible /\ faults < MaxFaults
    /\ faults' = IF r = {} THEN faults ELSE faults + 1
    /\ unread' = (r # {})

\* Variant of Load that starts from the backup whenever it can.
LoadBackupFirst(r) ==
    /\ pc = "down"
    /\ StartReads(r)
    /\ Loaded("bak", r) \/ Loaded("main", r) \/ (Absent("main", r) /\ Absent("bak", r))
    /\ cand' = Normalise(IF Loaded("bak", r) THEN disk["bak"]
                         ELSE IF Loaded("main", r) THEN disk["main"] ELSE Empty)
    /\ pc' = "create"
    /\ UNCHANGED <<disk, mem, history>>

\* PlatformStore::load up to its first write: which file it starts from.
Load(r) ==
    /\ pc = "down"
    /\ StartReads(r)
    /\ \/ /\ Loaded("main", r)
          /\ cand' = Normalise(disk["main"])
          /\ pc' = "create"
       \/ /\ ~Loaded("main", r) /\ Loaded("bak", r)
          /\ cand' = Normalise(disk["bak"])
          /\ pc' = "preserve"
       \/ /\ Absent("main", r) /\ Absent("bak", r)
          /\ cand' = Normalise(Empty)
          /\ pc' = "create"
       \/ /\ ~Loaded("main", r) /\ ~Loaded("bak", r)
          /\ ~Absent("main", r) \/ ~Absent("bak", r)
          /\ cand' = None
          /\ pc' = "refused"
    /\ UNCHANGED <<disk, mem, history>>

\* The user starts the application again.
Relaunch ==
    /\ pc = "refused"
    /\ pc' = "down"
    /\ UNCHANGED <<disk, mem, cand, faults, unread, history>>

\* Variant of Preserve that does not expect the primary to be missing.
PreserveExisting ==
    /\ pc = "preserve"
    /\ Exists("main")
    /\ disk' = [disk EXCEPT !["main"] = Missing]
    /\ pc' = "copy"
    /\ harmed' = (harmed \/ Readable("main"))
    /\ UNCHANGED <<mem, cand, faults, acked, unsure, prior, unread>>

\* recover_primary_from_backup: the primary that could not be read is set aside
\* first, even if there is nothing wrong with it.
Preserve ==
    /\ pc = "preserve"
    /\ disk' = [disk EXCEPT !["main"] = Missing]
    /\ pc' = "copy"
    /\ harmed' = (harmed \/ Readable("main"))
    /\ UNCHANGED <<mem, cand, faults, acked, unsure, prior, unread>>

\* The stale copy is removed and a new one begun; it is whole once flushed.
CopyBackup ==
    /\ pc = "copy"
    /\ disk' = [disk EXCEPT !["recovering"] = Corrupt]
    /\ pc' = "sync"
    /\ UNCHANGED <<mem, cand, faults, unread, history>>

SyncCopy ==
    /\ pc = "sync"
    /\ disk' = [disk EXCEPT !["recovering"] = disk["bak"]]
    /\ pc' = "activate"
    /\ UNCHANGED <<mem, cand, faults, unread, history>>

ActivateCopy ==
    /\ pc = "activate"
    /\ disk' = [disk EXCEPT !["main"] = disk["recovering"],
                            !["recovering"] = Missing]
    /\ pc' = "create"
    /\ UNCHANGED <<mem, cand, faults, unread, history>>

-----------------------------------------------------------------------------
(* Writes: write_atomic, entered by load with mem = None.                  *)

\* PlatformStore::mutate: the candidate is the current state with one change.
Mutate(f) ==
    /\ pc = "idle"
    /\ cand' = IF f \in mem THEN mem \ {f} ELSE mem \cup {f}
    /\ pc' = "create"
    /\ UNCHANGED <<disk, mem, faults, unread, history>>

\* PlatformStore::replace: the candidate comes from the caller.
Replace(s) ==
    /\ pc = "idle"
    /\ cand' = s
    /\ pc' = "create"
    /\ UNCHANGED <<disk, mem, faults, unread, history>>

\* PlatformStore::mutate_ephemeral: memory only.
MutateEphemeral(f) ==
    /\ pc = "idle"
    /\ mem' = IF f \in mem THEN mem \ {f} ELSE mem \cup {f}
    /\ UNCHANGED <<disk, pc, cand, faults, unread, history>>

CreateTmp ==
    /\ pc = "create"
    /\ disk' = [disk EXCEPT !["tmp"] = Corrupt]
    /\ pc' = "write"
    /\ UNCHANGED <<mem, cand, faults, unread, history>>

\* Variant of WriteTmp that does not wait for the data to reach the disk.
WriteTmpUnflushed ==
    /\ pc = "write"
    /\ pc' = "remove"
    /\ UNCHANGED <<disk, mem, cand, faults, unread, history>>

\* Variant of WriteTmp that serialises the current state, not the candidate.
WriteTmpStale ==
    /\ pc = "write"
    /\ disk' = [disk EXCEPT !["tmp"] = IF mem = None THEN cand ELSE mem]
    /\ pc' = "remove"
    /\ UNCHANGED <<mem, cand, faults, unread, history>>

WriteTmp ==
    /\ pc = "write"
    /\ disk' = [disk EXCEPT !["tmp"] = cand]
    /\ pc' = "remove"
    /\ UNCHANGED <<mem, cand, faults, unread, history>>

RemoveBackup ==
    /\ pc = "remove"
    /\ disk' = [disk EXCEPT !["bak"] = Missing]
    /\ pc' = "retire"
    /\ UNCHANGED <<mem, cand, faults, unread, history>>

RetireMain ==
    /\ pc = "retire"
    /\ disk' = IF Exists("main")
               THEN [disk EXCEPT !["bak"] = disk["main"], !["main"] = Missing]
               ELSE disk
    /\ pc' = "publish"
    /\ UNCHANGED <<mem, cand, faults, unread, history>>

Publish ==
    /\ pc = "publish"
    /\ disk' = [disk EXCEPT !["main"] = disk["tmp"], !["tmp"] = Missing]
    /\ pc' = "adopt"
    /\ UNCHANGED <<mem, cand, faults, unread, history>>

\* The states a start may find before the write in progress is acknowledged.
Standing == ({acked} \ {None}) \cup unsure \cup (IF harmed THEN prior ELSE {})

\* *current = candidate, the mutex is released and the caller gets Ok.
Adopt ==
    /\ pc = "adopt"
    /\ mem' = cand
    /\ cand' = None
    /\ pc' = "idle"
    /\ acked' = cand
    /\ unsure' = {}
    /\ prior' = Standing
    /\ harmed' = FALSE
    /\ UNCHANGED <<disk, faults, unread>>

-----------------------------------------------------------------------------
(* Faults.                                                                 *)

\* Err is returned: a failed load ends the process, a failed write leaves
\* the state in memory as it was.
ReturnError ==
    /\ pc' = IF mem = None THEN "down" ELSE "idle"
    /\ cand' = None

\* The calls that are made only when there is a file to act on.
CallMade(c) ==
    CASE c \in {"preserve", "retire"} -> Exists("main")
      [] c = "remove"                 -> Exists("bak")
      [] OTHER                        -> TRUE

\* Any call but the two below fails: the error is returned at once.
CallFails(c) ==
    /\ c \in Fallible \ {"publish", "rollback"}
    /\ pc = c
    /\ faults < MaxFaults
    /\ CallMade(c)
    /\ ReturnError
    /\ faults' = faults + 1
    /\ UNCHANGED <<disk, mem, unread, history>>

\* Variant of PublishFails that reports the error and leaves the backup alone.
PublishFailsNoRollback ==
    /\ "publish" \in Fallible
    /\ pc = "publish"
    /\ faults < MaxFaults
    /\ ReturnError
    /\ faults' = faults + 1
    /\ UNCHANGED <<disk, mem, unread, history>>

\* The new generation cannot be activated: roll back if there is a backup.
PublishFails ==
    /\ "publish" \in Fallible
    /\ pc = "publish"
    /\ faults < MaxFaults
    /\ IF Exists("bak")
       THEN pc' = "rollback" /\ UNCHANGED cand
       ELSE ReturnError
    /\ faults' = faults + 1
    /\ UNCHANGED <<disk, mem, unread, history>>

Rollback ==
    /\ pc = "rollback"
    /\ disk' = [disk EXCEPT !["main"] = disk["bak"], !["bak"] = Missing]
    /\ ReturnError
    /\ UNCHANGED <<mem, faults, unread, history>>

\* let _ = fs::rename(..): a failed rollback is not reported separately.
RollbackFails ==
    /\ "rollback" \in Fallible
    /\ pc = "rollback"
    /\ faults < MaxFaults
    /\ ReturnError
    /\ faults' = faults + 1
    /\ UNCHANGED <<disk, mem, unread, history>>

\* The process ends, or is killed, at any point.
Crash ==
    /\ "crash" \in Fallible
    /\ pc \notin {"down", "refused"}
    /\ faults < MaxFaults
    /\ pc' = "down"
    /\ mem' = None
    /\ cand' = None
    /\ unsure' = unsure \cup ({cand} \ {None})
    /\ faults' = faults + 1
    /\ UNCHANGED <<disk, acked, prior, harmed, unread>>

\* A state file is damaged while the application is not running.
Damage(f) ==
    /\ "damage" \in Fallible
    /\ pc = "down"
    /\ faults < MaxFaults
    /\ Readable(f)
    /\ disk' = [disk EXCEPT ![f] = Corrupt]
    /\ harmed' = TRUE
    /\ faults' = faults + 1
    /\ UNCHANGED <<pc, mem, cand, acked, unsure, prior, unread>>

-----------------------------------------------------------------------------

Step ==
    \/ Load({}) \/ Preserve \/ CopyBackup \/ SyncCopy \/ ActivateCopy
    \/ CreateTmp \/ WriteTmp \/ RemoveBackup \/ RetireMain \/ Publish \/ Adopt
    \/ Rollback

Request ==
    \/ \E f \in Fact : Mutate(f) \/ MutateEphemeral(f)
    \/ \E s \in State : Replace(s)
    \/ Relaunch

Fault ==
    \/ \E c \in Calls : CallFails(c)
    \/ PublishFails \/ RollbackFails \/ Crash
    \/ \E f \in {"main", "bak"} : Damage(f)
    \/ \E r \in {{"main"}, {"bak"}, {"main", "bak"}} : Load(r)

Next == Step \/ Request \/ Fault

\* The steps of an operation follow each other; users and faults are free.
Spec == Init /\ [][Next]_vars /\ WF_vars(Step)

-----------------------------------------------------------------------------
(* Properties.                                                             *)

\* What a start of the application would read now, if it can.
Durable ==
    IF Readable("main") THEN disk["main"]
    ELSE IF Readable("bak") THEN disk["bak"]
    ELSE None

\* While no file was damaged and no primary set aside that was whole, a start
\* reads the last state whose write was acknowledged, or one whose write was
\* going on or was cut short by a crash: at every instant of write_atomic and of
\* recovery, and after any failed call or read. In particular a write that
\* returned Err never surfaces later.
Durability ==
    acked # None /\ ~harmed =>
        Durable \in {acked} \cup unsure \cup ({cand} \ {None})

\* Once a state has been acknowledged, load never finds both files missing:
\* it would then start from PlatformState::empty() without a word.
NeverForgotten ==
    acked # None => Exists("main") \/ Exists("bak")

\* Whatever is damaged, fails or cannot be read, the rollback included: a start
\* that finds a state finds one that was acknowledged or in doubt, never a
\* half-written one or the candidate of a write that returned Err; and it goes
\* back past the acknowledged one, by a single generation, only if a file was
\* damaged or a primary that could not be read was set aside.
NothingInvented ==
    Durable # None =>
        Durable \in Standing \cup (IF pc = "adopt" THEN {cand} ELSE {})

\* The strengthening of Durability and NeverForgotten that every step keeps,
\* as long as the rollback rename does not fail.
WriteInv ==
    /\ pc \in {"remove", "retire", "publish"} => disk["tmp"] = cand
    /\ pc = "adopt" => disk["main"] = cand
    /\ pc = "retire" => ~Exists("bak")
    /\ pc \in {"create", "write", "remove", "retire"} => disk["main"] # Corrupt
    /\ pc \in {"retire", "publish", "adopt", "rollback"} => disk["bak"] # Corrupt
    /\ pc \in {"publish", "rollback"} => ~Exists("main")
    /\ pc = "rollback" => Exists("bak")
    /\ pc \in {"idle", "create", "write", "remove", "retire"} /\ Exists("bak") =>
           Exists("main")

RecoveryInv ==
    /\ pc \in {"preserve", "copy", "sync", "activate"} => Readable("bak")
    /\ pc \in {"copy", "sync", "activate"} => ~Readable("main")
    /\ pc = "activate" => disk["recovering"] = disk["bak"]

HistoryInv ==
    /\ mem # None => acked # None /\ ~harmed
    /\ ~harmed => disk["main"] # Corrupt /\ disk["bak"] # Corrupt
    /\ acked # None =>
          /\ pc \in {"idle", "create", "write", "remove", "retire", "adopt"} =>
                 Exists("main")
          /\ pc = "publish" => Exists("bak")
          /\ Exists("main") \/ Exists("bak")
          /\ ~harmed /\ pc # "adopt" => Durable \in {acked} \cup unsure

StoreInv == TypeOK /\ WriteInv /\ RecoveryInv /\ HistoryInv

\* Opening the store ends, with the store open, or with the refusal that only a
\* damaged file or a read that failed in that very start justifies: no crash and
\* no failed call leaves files behind that load does not accept, and a start
\* that could not read the files leaves them to the next one.
OpensUnlessDamaged ==
    pc = "down" ~> (pc = "idle" \/ harmed \/ (pc = "refused" /\ unread))

\* The store is the durable register of AtomicStore. While the primary is still
\* there that a start could not read, it has been passed over.
Abs == INSTANCE AtomicStore WITH
          durable    <- Durable,
          fallback   <- IF Readable("bak") THEN disk["bak"] ELSE None,
          memory     <- mem,
          pending    <- cand,
          committed  <- (pc = "adopt"),
          passedOver <- (pc = "preserve" /\ Readable("main"))

\* Every step of the files is a step of the register, or changes nothing in it.
ImplementsAtomicStore == Abs!Spec
=============================================================================
