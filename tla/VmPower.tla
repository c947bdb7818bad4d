------------------------------ MODULE VmPower ------------------------------
(* The power state of one QEMU virtual machine: what the platform state     *)
(* says of it against the process that really holds its disk.               *)
(*                                                                          *)
(* Three parties meet.  Commands (set_environment_status, run_backup,       *)
(* recover_vm_runtime) hold the environment's lock for as long as they run  *)
(* and drive the runtime manager by a few calls.  Refreshes of the metrics  *)
(* take no lock: they read the state, probe the process some time later and *)
(* write what they saw later still.  The guest exits or panics when it      *)
(* likes, and the application can end at any point, leaving QEMU behind.    *)

EXTENDS Naturals, Sequences

CONSTANTS
    Poller,     \* refreshes of the host metrics that may overlap
    Fallible    \* what may fail: "start", "action", "export", "store", "crash"

ASSUME FallibleAssumption == Fallible \subseteq {"start", "action", "export", "store", "crash"}

VARIABLES
    status,     \* the status of the environment, in memory
    saved,      \* and in the state file
    own,        \* the entry of the runtime manager's process map
    boot,       \* a QEMU was spawned that is not in the map yet
    orphan,     \* a QEMU that an earlier session left behind
    phase,      \* what the command that holds the lock is doing
    calls,      \* the calls to the runtime that are left of this phase
    inside,     \* how far the first of them is
    ok,         \* none of them failed
    prev,       \* the status the command found
    want,       \* the status it was asked for
    poll,       \* what each refresh knows
    failed,     \* history: the machine failed since it was last started
    obeyed      \* history: no call to a live QEMU has failed

process == <<own, boot, orphan, failed, obeyed>>
state   == <<status, saved>>
command == <<phase, calls, inside, ok, prev, want>>
vars    == <<status, saved, own, boot, orphan, failed, obeyed, phase, calls, inside, ok,
             prev, want, poll>>

Status == {"running", "paused", "stopped", "error"}

\* The entries of the map whose process is alive.  A guest that panicked keeps
\* its process where QEMU cannot be told to exit.
Live == {"on", "frozen", "panicked"}
Exited == {"done", "died"}

Call == {"start", "stop", "pause", "resume"}

Phases == {"idle", "act", "undo", "quiesce", "export", "restart", "reopen", "down"}

TypeOK ==
    /\ status \in Status /\ saved \in Status
    /\ own \in Live \cup Exited \cup {"none"}
    /\ boot \in BOOLEAN /\ orphan \in BOOLEAN /\ failed \in BOOLEAN /\ obeyed \in BOOLEAN
    /\ phase \in Phases
    /\ calls \in {<<>>} \cup {<<c>> : c \in Call} \cup {<<"start", "pause">>}
    /\ inside \in {"enter", "wait", "boot", "export"}
    /\ ok \in BOOLEAN
    /\ prev \in Status /\ want \in Status
    /\ poll \in [Poller -> {"idle", "probe", "running", "stopped", "failed"}]

Init ==
    /\ status = "stopped" /\ saved = "stopped"
    /\ own = "none" /\ boot = FALSE /\ orphan = FALSE /\ failed = FALSE /\ obeyed = TRUE
    /\ phase = "idle" /\ calls = <<>> /\ inside = "enter" /\ ok = TRUE
    /\ prev = "stopped" /\ want = "stopped"
    /\ poll = [p \in Poller |-> "idle"]

-----------------------------------------------------------------------------
(* Calls to the runtime manager.  They hold the lifecycle mutex of the      *)
(* machine; the process map itself is open to the refreshes in between.     *)

Calling(c) == calls # <<>> /\ Head(calls) = c

\* The call returns; a failed one ends the phase it belongs to.
Return ==
    /\ calls' = Tail(calls)
    /\ inside' = "enter"
    /\ UNCHANGED <<state, phase, ok, prev, want, poll>>

ReturnError ==
    /\ calls' = <<>>
    /\ inside' = "enter"
    /\ ok' = FALSE
    /\ UNCHANGED <<state, phase, prev, want, poll>>

Inside(step) ==
    /\ inside' = step
    /\ UNCHANGED <<state, phase, calls, ok, prev, want, poll>>

\* Variant of StartEnter that only looks at the map.
StartUnlessRegistered ==
    /\ Calling("start") /\ inside = "enter"
    /\ IF own \in Live THEN Return /\ UNCHANGED <<own, boot>>
       ELSE Inside("boot") /\ own' = "none" /\ boot' = TRUE
    /\ UNCHANGED <<orphan, failed, obeyed>>

\* start_vm_with_profile.  A machine that runs already is started; otherwise no
\* other process may hold the disk, and QEMU is spawned.
StartEnter ==
    /\ Calling("start") /\ inside = "enter"
    /\ \/ own \in Live /\ Return /\ UNCHANGED process
       \/ /\ own \notin Live
          /\ own' = "none"
          /\ IF orphan THEN ReturnError /\ UNCHANGED boot
             ELSE Inside("boot") /\ boot' = TRUE
          /\ UNCHANGED <<orphan, failed, obeyed>>

\* The checks before the spawn refuse: storage, memory, firmware or ports.
StartRefused ==
    /\ Calling("start") /\ inside = "enter" /\ own \notin Live
    /\ "start" \in Fallible
    /\ own' = "none"
    /\ ReturnError
    /\ UNCHANGED <<boot, orphan, failed, obeyed>>

\* QEMU answers and is entered in the map.
StartRegister ==
    /\ Calling("start") /\ inside = "boot"
    /\ boot' = FALSE /\ own' = "on" /\ failed' = FALSE
    /\ Return
    /\ UNCHANGED <<orphan, obeyed>>

\* QEMU does not come up, or its limits and its display cannot be configured:
\* the process is killed, or entered in the map and stopped again.
StartFails ==
    /\ Calling("start") /\ inside = "boot" /\ "start" \in Fallible
    /\ boot' = FALSE
    /\ \/ own' = "none" /\ UNCHANGED obeyed
       \/ "action" \in Fallible /\ own' = "on" /\ obeyed' = FALSE
    /\ ReturnError
    /\ UNCHANGED <<orphan, failed>>

\* Variant of StopEnter that takes a machine that is not in the map for stopped.
StopUnlessRegistered ==
    /\ Calling("stop") /\ inside = "enter"
    /\ IF own \in Live THEN Inside("wait") /\ UNCHANGED own ELSE Return /\ own' = "none"
    /\ UNCHANGED <<boot, orphan, failed, obeyed>>

\* vm_action_locked "stop".  Without a live entry it only makes sure that
\* nothing else holds the disk.
StopEnter ==
    /\ Calling("stop") /\ inside = "enter"
    /\ \/ own \in Live /\ Inside("wait") /\ UNCHANGED process
       \/ /\ own \notin Live /\ orphan
          /\ ReturnError /\ UNCHANGED process
       \/ /\ own \notin Live /\ ~orphan
          /\ own' = "none" /\ Return
          /\ UNCHANGED <<boot, orphan, failed, obeyed>>

\* The guest was asked to shut down.  Once it is gone, or has been killed at the
\* end of the wait, its entry is removed; a refresh may have removed it before.
StopWait ==
    /\ Calling("stop") /\ inside = "wait"
    /\ own' = "none"
    /\ Return
    /\ UNCHANGED <<boot, orphan, failed, obeyed>>

\* Waiting for the process or killing it fails.
StopFails ==
    /\ Calling("stop") /\ inside = "wait" /\ "action" \in Fallible
    /\ own' \in {own, "none"}
    /\ obeyed' = FALSE
    /\ ReturnError
    /\ UNCHANGED <<boot, orphan, failed>>

\* "pause" and "resume" are commands to a live process.
PauseResume ==
    /\ \E c \in {"pause", "resume"} :
        /\ Calling(c)
        /\ own' = CASE own = "on" /\ c = "pause"      -> "frozen"
                    [] own = "frozen" /\ c = "resume" -> "on"
                    [] OTHER                          -> own
        /\ IF own \in {"on", "frozen"} \/ (own = "panicked" /\ c = "pause")
           THEN Return ELSE ReturnError
    /\ UNCHANGED <<boot, orphan, failed, obeyed>>

\* The command fails or is not answered in time, whether or not it was obeyed.
PauseResumeFails ==
    /\ \E c \in {"pause", "resume"} :
        /\ Calling(c) /\ own \in Live /\ "action" \in Fallible
        /\ own' \in {own} \cup (IF own = "on" /\ c = "pause" THEN {"frozen"} ELSE {})
                          \cup (IF own = "frozen" /\ c = "resume" THEN {"on"} ELSE {})
    /\ obeyed' = FALSE
    /\ ReturnError
    /\ UNCHANGED <<boot, orphan, failed>>

-----------------------------------------------------------------------------
(* set_environment_status.                                                  *)

\* A phase of the command begins: its calls, and what it keeps in mind.
Begin(p, cs, good) ==
    /\ phase' = p /\ calls' = cs /\ inside' = "enter" /\ ok' = good

\* What the runtime is asked to do to get from one status to another.
Transition(from, to) ==
    CASE from = to /\ to \in {"running", "paused"} -> <<>>
      [] from = "paused" /\ to = "running"         -> <<"resume">>
      [] from \in {"stopped", "error"} /\ to = "running" -> <<"start">>
      [] to = "stopped"                            -> <<"stop">>
      [] OTHER                                     -> <<"pause">>

SetStatus(s) ==
    /\ phase = "idle" /\ s # "error"
    /\ prev' = status /\ want' = s
    /\ IF s = "paused" /\ status \notin {"running", "paused"}
       THEN Begin("act", <<>>, FALSE)     \* invalid lifecycle transition
       ELSE Begin("act", Transition(status, s), TRUE)
    /\ UNCHANGED <<state, process, poll>>

Done(p) == phase = p /\ calls = <<>>

Finish == Begin("idle", <<>>, TRUE) /\ UNCHANGED <<process, prev, want, poll>>

Record(s) == status' = s /\ saved' = s

StatusSaved == Done("act") /\ ok /\ Record(want) /\ Finish

\* Variant of Undo that does not freeze a machine again that it has resumed.
UndoStartsOnly(from, to) ==
    IF from = to \/ (to = "running" /\ from = "paused") THEN <<>>
    ELSE CASE to = "running" -> <<"stop">>
           [] to = "paused"  -> <<"resume">>
           [] OTHER          -> <<"start">>

\* rollback_runtime_transition: the calls that undo the transition.
Undo(from, to) ==
    IF from = to THEN <<>>
    ELSE CASE to = "running" /\ from = "paused" -> <<"pause">>
           [] to = "running" /\ from # "paused" -> <<"stop">>
           [] to = "paused" /\ from = "running" -> <<"resume">>
           [] to = "stopped" /\ from = "paused" -> <<"start", "pause">>
           [] to = "stopped" /\ from # "paused" -> <<"start">>
           [] OTHER                             -> <<>>

StatusNotSaved ==
    /\ Done("act") /\ ok /\ "store" \in Fallible
    /\ Begin("undo", Undo(prev, want), TRUE)
    /\ UNCHANGED <<state, process, prev, want, poll>>

Undone == Done("undo") /\ Finish /\ UNCHANGED state

\* The error is recorded; nobody hears of it when that cannot be saved.
Failed(p) ==
    /\ Done(p) /\ ~ok
    /\ Record("error") \/ ("store" \in Fallible /\ UNCHANGED state)
    /\ Finish

ActFailed == Failed("act")

-----------------------------------------------------------------------------
(* run_backup and recover_vm_runtime.                                       *)

RunBackup ==
    /\ phase = "idle"
    /\ prev' = status
    /\ IF status \in {"running", "paused"} THEN Begin("quiesce", <<"stop">>, TRUE)
       ELSE Begin("export", <<>>, TRUE)
    /\ UNCHANGED <<state, process, want, poll>>

\* The machine did not stop: the backup ends with the error.
NotQuiet == Done("quiesce") /\ ~ok /\ Finish /\ UNCHANGED state

Quiet ==
    /\ Done("quiesce") /\ ok
    /\ Begin("export", <<>>, TRUE)
    /\ UNCHANGED <<state, process, prev, want, poll>>

\* restart_vm_after_maintenance.
Restart(from) ==
    CASE from = "running" -> <<"start">>
      [] from = "paused"  -> <<"start", "pause">>
      [] OTHER            -> <<>>

Then(p) == Begin(p, Restart(prev), TRUE) /\ UNCHANGED <<state, process, prev, want, poll>>

\* Variant of ExportBegins that relies on the status the backup found.
ExportUnchecked ==
    /\ Done("export") /\ inside = "enter" /\ Inside("export") /\ UNCHANGED process

\* export_vm_disk copies the disk of a machine that does not run.
ExportBegins ==
    /\ Done("export") /\ inside = "enter"
    /\ IF own \in Live THEN Then("reopen")
       ELSE Inside("export") /\ UNCHANGED process

ExportEnds == Done("export") /\ inside = "export" /\ Then("restart")

\* The snapshot or the copy fails; the machine is restarted all the same.
ExportFails == Done("export") /\ "export" \in Fallible /\ Then("reopen")

\* The snapshot is recorded, and the status with it as memory has it.
BackupRecorded ==
    /\ Done("restart") /\ ok
    /\ saved' = status \/ ("store" \in Fallible /\ UNCHANGED saved)
    /\ Finish
    /\ UNCHANGED status

BackupAbandoned == Done("reopen") /\ ok /\ Finish /\ UNCHANGED state

RestartFailed == Failed("restart") \/ Failed("reopen")

\* The user confirmed: a QEMU without an owner is ended, where it can be told.
Recover ==
    /\ phase = "idle" /\ own \notin Live /\ orphan
    /\ orphan' = FALSE
    /\ UNCHANGED <<state, own, boot, failed, obeyed, command, poll>>

-----------------------------------------------------------------------------
(* refresh_host_metrics, in three steps that anything may come between.     *)

PollBegins(p) ==
    /\ phase # "down" /\ poll[p] = "idle" /\ status = "running"
    /\ poll' = [poll EXCEPT ![p] = "probe"]
    /\ UNCHANGED <<state, process, command>>

\* Variant of PowerState that tells nothing of a process that is not there.
PowerStateIfKnown ==
    CASE own \in {"on", "frozen", "none"} -> "running"
      [] own = "done"                     -> "stopped"
      [] own \in {"died", "panicked"}     -> "failed"

\* vm_power_state: an exited process is taken out of the map, and its exit code
\* tells a shutdown from a failure; a process that is not there has failed.
PowerState ==
    CASE own \in {"on", "frozen"} -> "running"
      [] own = "done"             -> "stopped"
      [] OTHER                    -> "failed"

Probe(p) ==
    /\ phase # "down" /\ poll[p] = "probe"
    /\ poll' = [poll EXCEPT ![p] = PowerState]
    /\ own' = IF own \in Exited THEN "none" ELSE own
    /\ UNCHANGED <<state, boot, orphan, failed, obeyed, command>>

\* The status is changed in memory, and only if it still says Running.
Report(p) ==
    /\ phase # "down" /\ poll[p] \in {"running", "stopped", "failed"}
    /\ poll' = [poll EXCEPT ![p] = "idle"]
    /\ status' = IF status # "running" THEN status
                 ELSE [running |-> "running", stopped |-> "stopped", failed |-> "error"][poll[p]]
    /\ UNCHANGED <<saved, process, command>>

-----------------------------------------------------------------------------
(* The guest, the other commands and the application.                       *)

\* The guest shuts down, crashes, or panics and stays.
GuestExits ==
    /\ own \in Live
    /\ own' \in Exited \cup {"panicked"}
    /\ failed' = (failed \/ own' # "done")
    /\ UNCHANGED <<state, boot, orphan, obeyed, command, poll>>

OrphanExits == orphan /\ orphan' = FALSE /\ UNCHANGED <<state, own, boot, failed, obeyed, command, poll>>

\* Any other change of the state that is saved takes the status along.
OtherSave ==
    /\ phase # "down" /\ saved' = status
    /\ UNCHANGED <<status, process, command, poll>>

\* The application ends.  Closed, it ends its machines; killed, it leaves QEMU.
Exit ==
    /\ phase # "down"
    /\ Begin("down", <<>>, TRUE)
    /\ own' = "none" /\ boot' = FALSE
    /\ orphan' \in {orphan} \cup (IF "crash" \in Fallible /\ (boot \/ own \in Live)
                                  THEN {TRUE} ELSE {})
    /\ status' = saved
    /\ poll' = [p \in Poller |-> "idle"]
    /\ UNCHANGED <<saved, failed, obeyed, prev, want>>

\* Startup: nothing is running in a session that has just begun.
Launch ==
    /\ phase = "down"
    /\ Begin("idle", <<>>, TRUE)
    /\ Record(IF saved \in {"running", "paused"} THEN "stopped" ELSE saved)
    /\ UNCHANGED <<process, prev, want, poll>>

-----------------------------------------------------------------------------

Runtime == StartEnter \/ StartRefused \/ StartRegister \/ StartFails
           \/ StopEnter \/ StopWait \/ StopFails \/ PauseResume \/ PauseResumeFails
Power   == StatusSaved \/ StatusNotSaved \/ Undone \/ ActFailed
Backup  == NotQuiet \/ Quiet \/ ExportBegins \/ ExportEnds \/ ExportFails
           \/ BackupRecorded \/ BackupAbandoned \/ RestartFailed
User    == RunBackup \/ Recover \/ OtherSave \/ \E s \in Status : SetStatus(s)
Refresh(p) == PollBegins(p) \/ Probe(p) \/ Report(p)
World   == GuestExits \/ OrphanExits \/ Exit \/ Launch

Next == Runtime \/ Power \/ Backup \/ User \/ World \/ \E p \in Poller : Refresh(p)

\* Commands and refreshes that were begun go on, and the dashboard (or the
\* headless tick) keeps refreshing.
Spec ==
    /\ Init /\ [][Next]_vars
    /\ WF_vars(Runtime \/ Power \/ Backup)
    /\ \A p \in Poller : WF_vars(Refresh(p))

-----------------------------------------------------------------------------
(* Properties.                                                              *)

\* A process that is starting belongs to the start that is under way, and one that
\* is being stopped or a copy that is being made to the command doing so.
CallInv ==
    /\ boot <=> inside = "boot"
    /\ inside = "boot" => calls # <<>> /\ Head(calls) = "start" /\ own = "none" /\ ~orphan
    /\ inside = "wait" => calls # <<>> /\ Head(calls) = "stop" /\ ~orphan
    /\ inside = "export" => phase = "export" /\ own \notin Live
    /\ phase \in {"idle", "down", "export"} => calls = <<>>
    /\ phase = "act" /\ want = "stopped" => calls \in {<<>>, <<"stop">>}

\* At most one QEMU holds the disk: not the one of an earlier session beside one
\* of this session, and not one that is starting beside one that runs
\* (start_vm_with_profile looks at the map and for processes outside it).
OneHolder ==
    /\ ~(orphan /\ (boot \/ own \in Live))
    /\ ~(boot /\ own \in Live)

\* When set_environment_status is about to record Stopped no process holds the
\* disk, one of another session included ("Only report success once no matching
\* external runtime holds the disk").
StopConfirmed ==
    Done("act") /\ ok /\ want = "stopped" => ~orphan /\ ~boot /\ own \notin Live

\* As long as no call to a live QEMU has failed: an environment that is said to be
\* running is not left frozen, and one said to be paused does not run, whatever
\* saves, starts and backups fail and are undone in between.
PauseHonest ==
    obeyed /\ phase = "idle" =>
        /\ status = "running" => own # "frozen"
        /\ status = "paused" => own # "on"

\* Why: the process agrees with the status the command found, until the calls that
\* are left have made it agree with the one it was asked for, or have undone that.
Agrees(s) == (own = "frozen" => s = "paused") /\ (s = "paused" => own # "on")

PauseInv ==
    /\ phase = "idle" => Agrees(status)
    /\ phase = "down" => own = "none"
    /\ phase \notin {"idle", "down"} =>
        /\ status # prev => prev = "running" /\ status \in {"stopped", "error"}
        /\ ~ok => calls = <<>> /\ own # "frozen" /\ (prev = "paused" => own # "on")
    /\ phase \in {"quiesce", "export"} => Agrees(prev) /\ calls \in {<<>>, <<"stop">>}
    /\ phase = "act" =>
        /\ want # "error" /\ (want = "paused" /\ ok => prev \in {"running", "paused"})
        /\ calls # <<>> => Agrees(prev) /\ calls = Transition(prev, want)
        /\ calls = <<>> /\ ok =>
            /\ want = "running" => own # "frozen"
            /\ want = "paused" => own # "on"
            /\ want = "stopped" => own \notin Live
            /\ prev = want => Agrees(prev)
    /\ phase \in {"undo", "restart", "reopen"} =>
        /\ own = "frozen" => prev = "paused" \/ calls = <<"resume">>
        /\ own = "on" /\ prev = "paused" => calls = <<"pause">>
        /\ calls \in CASE prev = "running" -> {<<>>, <<"resume">>, <<"start">>}
                       [] prev = "paused"  -> {<<>>, <<"pause">>, <<"start", "pause">>}
                       [] OTHER            -> {<<>>, <<"stop">>, <<"start">>}

\* No machine of this session writes to the disk while a backup copies it, even
\* when the status the backup relied on was wrong.
ExportQuiet ==
    phase = "export" /\ inside = "export" => own \notin Live /\ ~boot

\* The inductive invariant.
PowerInv == TypeOK /\ CallInv /\ OneHolder /\ StopConfirmed

\* A machine that is gone is not shown as running for ever.
DeadNoticed ==
    (status = "running" /\ own \notin Live)
        ~> (status # "running" \/ own \in Live \/ phase = "down")

\* While no command is at work a refresh reports a failure only of a process that
\* failed since its start ("A successful exit is a guest shutdown").
CleanExitIsShutdown ==
    [][\A p \in Poller :
        phase = "idle" /\ Report(p) /\ status' = "error" /\ status # "error" => failed]_vars

=============================================================================
