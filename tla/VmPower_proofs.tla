--------------------------- MODULE VmPower_proofs ---------------------------
(* No two processes hold the disk of a machine, Stopped is recorded only    *)
(* when none does, and a backup copies a disk nobody writes to: for any     *)
(* number of refreshes, and whatever may fail.                              *)

EXTENDS VmPower, TLAPS

\* The agendas of the commands, taken apart.
LEMMA Agendas ==
    ASSUME TypeOK, calls # <<>>
    PROVE  /\ Head(calls) \in Call
           /\ Tail(calls) \in {<<>>, <<"pause">>}
           /\ Head(calls) # "start" => Tail(calls) = <<>>
           /\ calls = <<"stop">> => Tail(calls) = <<>>
<1>1. CASE \E c \in Call : calls = <<c>>
  BY <1>1
<1>2. CASE calls = <<"start", "pause">>
  BY <1>2 DEF Call
<1> QED BY <1>1, <1>2 DEF TypeOK

\* What a phase begins with is an agenda.
LEMMA Plans ==
    ASSUME NEW from \in Status, NEW to \in Status
    PROVE  /\ Transition(from, to) \in {<<>>} \cup {<<c>> : c \in Call}
           /\ to = "stopped" => Transition(from, to) = <<"stop">>
           /\ Undo(from, to) \in {<<>>} \cup {<<c>> : c \in Call} \cup {<<"start", "pause">>}
           /\ Restart(from) \in {<<>>} \cup {<<c>> : c \in Call} \cup {<<"start", "pause">>}
BY DEF Transition, Undo, Restart, Status, Call

LEMMA InitInv == Init => PowerInv
BY DEF Init, PowerInv, TypeOK, CallInv, OneHolder, StopConfirmed, Done, Status, Live, Exited,
       Phases, Call

\* A call to the runtime keeps the invariant.
LEMMA RuntimeInv == ASSUME PowerInv, Runtime PROVE PowerInv'
<1> USE DEF PowerInv, state, process, Return, ReturnError, Inside, Calling
<1>0. TypeOK /\ calls # <<>>
  BY DEF Runtime, StartEnter, StartRefused, StartRegister, StartFails, StopEnter, StopWait,
         StopFails, PauseResume, PauseResumeFails
<1>a. /\ Head(calls) \in Call /\ Tail(calls) \in {<<>>, <<"pause">>}
      /\ Head(calls) # "start" => Tail(calls) = <<>>
  BY <1>0, Agendas
<1>b. calls' \in {calls, <<>>, <<"pause">>} /\ UNCHANGED <<status, saved, phase, prev, want, poll>>
  BY <1>a DEF Runtime, StartEnter, StartRefused, StartRegister, StartFails, StopEnter, StopWait,
         StopFails, PauseResume, PauseResumeFails
<1>c. calls' \in {<<>>} \cup {<<c>> : c \in Call} \cup {<<"start", "pause">>}
  BY <1>b DEF TypeOK, Call
<1>d. ok' \in BOOLEAN /\ boot' \in BOOLEAN /\ orphan' \in BOOLEAN /\ failed' \in BOOLEAN
      /\ obeyed' \in BOOLEAN
  BY DEF TypeOK, Runtime, StartEnter, StartRefused, StartRegister, StartFails, StopEnter, StopWait,
         StopFails, PauseResume, PauseResumeFails
<1>e. own' \in Live \cup Exited \cup {"none"}
  BY DEF TypeOK, Live, Exited, Runtime, StartEnter, StartRefused, StartRegister, StartFails,
         StopEnter, StopWait, StopFails, PauseResume, PauseResumeFails
<1>f. inside' \in {"enter", "wait", "boot", "export"}
  BY DEF TypeOK, Runtime, StartEnter, StartRefused, StartRegister, StartFails, StopEnter, StopWait,
         StopFails, PauseResume, PauseResumeFails
<1>1. TypeOK'
  BY <1>b, <1>c, <1>d, <1>e, <1>f DEF TypeOK
<1> USE <1>a, <1>b DEF CallInv, OneHolder, StopConfirmed, Done
<1>2. CASE StartEnter
  BY <1>1, <1>2 DEF StartEnter, Live
<1>3. CASE StartRefused
  BY <1>1, <1>3 DEF StartRefused, Live
<1>4. CASE StartRegister
  BY <1>1, <1>4 DEF StartRegister, Live
<1>5. CASE StartFails
  BY <1>1, <1>5 DEF StartFails, Live
<1>6. CASE StopEnter
  BY <1>1, <1>6 DEF StopEnter, Live
<1>7. CASE StopWait
  BY <1>1, <1>7 DEF StopWait, Live
<1>8. CASE StopFails
  BY <1>1, <1>8 DEF StopFails, Live
<1>9. CASE PauseResume
  BY <1>1, <1>9 DEF PauseResume, Live
<1>10. CASE PauseResumeFails
  BY <1>1, <1>10 DEF PauseResumeFails, Live
<1> QED BY <1>2, <1>3, <1>4, <1>5, <1>6, <1>7, <1>8, <1>9, <1>10 DEF Runtime

\* A command that has no call left ends within the invariant.
LEMMA FinishInv ==
    ASSUME PowerInv, calls = <<>>, Finish, status' \in Status, saved' \in Status
    PROVE  PowerInv'
<1>1. /\ UNCHANGED <<own, boot, orphan, failed, obeyed, prev, want, poll>>
      /\ phase' = "idle" /\ calls' = <<>> /\ inside' = "enter" /\ ok' = TRUE
  BY DEF Finish, Begin, process
<1>2. TypeOK'
  BY <1>1 DEF PowerInv, TypeOK, Phases
<1>3. inside # "boot"
  BY DEF PowerInv, CallInv
<1>4. CallInv'
  BY <1>1, <1>3 DEF PowerInv, CallInv
<1>5. OneHolder' /\ StopConfirmed'
  BY <1>1 DEF PowerInv, OneHolder, StopConfirmed, Done
<1> QED BY <1>2, <1>4, <1>5 DEF PowerInv

\* And so does the beginning of a phase that restarts the machine.
LEMMA ThenInv ==
    ASSUME PowerInv, calls = <<>>, NEW p \in {"restart", "reopen"}, Then(p)
    PROVE  PowerInv'
<1>1. /\ UNCHANGED <<status, saved, own, boot, orphan, failed, obeyed, prev, want, poll>>
      /\ phase' = p /\ calls' = Restart(prev) /\ inside' = "enter" /\ ok' = TRUE
  BY DEF Then, Begin, process, state
<1>2. Restart(prev) \in {<<>>} \cup {<<c>> : c \in Call} \cup {<<"start", "pause">>}
  BY Plans DEF PowerInv, TypeOK
<1>3. TypeOK'
  BY <1>1, <1>2 DEF PowerInv, TypeOK, Phases
<1>4. inside # "boot"
  BY DEF PowerInv, CallInv
<1>5. CallInv'
  BY <1>1, <1>4 DEF PowerInv, CallInv
<1>6. OneHolder' /\ StopConfirmed'
  BY <1>1 DEF PowerInv, OneHolder, StopConfirmed, Done
<1> QED BY <1>3, <1>5, <1>6 DEF PowerInv

\* The phases of the commands follow each other within the invariant.
LEMMA CommandInv ==
    ASSUME PowerInv, Power \/ Backup \/ User
    PROVE  PowerInv'
<1>a. status \in Status /\ saved \in Status /\ want \in Status /\ "error" \in Status
  BY DEF PowerInv, TypeOK, Status
<1>1. CASE Power
  <2>1. CASE StatusSaved \/ Undone \/ ActFailed
    <3>1. calls = <<>> /\ Finish /\ status' \in Status /\ saved' \in Status
      BY <1>a, <2>1 DEF StatusSaved, Undone, ActFailed, Failed, Done, Record, state
    <3> QED BY <3>1, FinishInv
  <2>2. CASE StatusNotSaved
    <3>1. Undo(prev, want) \in {<<>>} \cup {<<c>> : c \in Call} \cup {<<"start", "pause">>}
      BY Plans DEF PowerInv, TypeOK
    <3> QED BY <2>2, <3>1 DEF StatusNotSaved, Begin, Done, state, process, PowerInv, TypeOK, CallInv, OneHolder, StopConfirmed, Phases
  <2> QED BY <1>1, <2>1, <2>2 DEF Power
<1>2. CASE Backup
  <2>1. CASE NotQuiet \/ BackupRecorded \/ BackupAbandoned \/ RestartFailed
    <3>1. calls = <<>> /\ Finish /\ status' \in Status /\ saved' \in Status
      BY <1>a, <2>1 DEF NotQuiet, BackupRecorded, BackupAbandoned, RestartFailed, Failed, Done,
         Record, state
    <3> QED BY <3>1, FinishInv
  <2>2. CASE Quiet
    BY <2>2 DEF Quiet, Begin, Done, state, process, PowerInv, TypeOK, CallInv, OneHolder, StopConfirmed, Phases
  <2>3. CASE ExportBegins \/ ExportEnds \/ ExportFails
    <3>1. calls = <<>>
      BY <2>3 DEF ExportBegins, ExportEnds, ExportFails, Done
    <3>2. CASE Then("reopen") \/ Then("restart")
      BY <3>1, <3>2, ThenInv
    <3>3. CASE own \notin Live /\ Inside("export") /\ UNCHANGED process /\ phase = "export"
      BY <3>1, <3>3 DEF Inside, Done, state, process, PowerInv, TypeOK, CallInv, OneHolder,
         StopConfirmed
    <3> QED BY <2>3, <3>2, <3>3 DEF ExportBegins, ExportEnds, ExportFails, Done
  <2> QED BY <1>2, <2>1, <2>2, <2>3 DEF Backup
<1>3. CASE User
  <2> USE DEF Begin, Done, state, process, command, PowerInv
  <2>1. ASSUME NEW s \in Status, SetStatus(s) PROVE PowerInv'
    <3>1. /\ Transition(status, s) \in {<<>>} \cup {<<c>> : c \in Call}
          /\ s = "stopped" => Transition(status, s) = <<"stop">>
      BY <1>a, Plans
    <3>2. calls' \in {<<>>} \cup {<<c>> : c \in Call} /\ ok' \in BOOLEAN
      BY <2>1, <3>1 DEF SetStatus
    <3>3. TypeOK'
      BY <2>1, <3>2 DEF SetStatus, TypeOK, Phases
    <3> QED BY <2>1, <3>1, <3>3, SMTT(30) DEF SetStatus, TypeOK, CallInv, OneHolder, StopConfirmed
  <2>2. CASE RunBackup
    BY <2>2, ZenonT(60) DEF RunBackup, TypeOK, CallInv, OneHolder, StopConfirmed, Phases, Call, Status
  <2>3. CASE Recover
    <3>1. TypeOK'
      BY <2>3 DEF Recover, TypeOK
    <3>2. CallInv'
      BY <2>3 DEF Recover, CallInv
    <3> QED BY <2>3, <3>1, <3>2 DEF Recover, OneHolder, StopConfirmed
  <2>4. CASE OtherSave
    BY <2>4 DEF OtherSave, TypeOK, CallInv, OneHolder, StopConfirmed
  <2> QED BY <1>3, <2>1, <2>2, <2>3, <2>4 DEF User
<1> QED BY <1>1, <1>2, <1>3

\* Guests, refreshes and the application keep it too.
LEMMA WorldInv ==
    ASSUME PowerInv, World \/ \E p \in Poller : Refresh(p)
    PROVE  PowerInv'
<1> USE DEF PowerInv, state, process, command, Begin, Record, Done
<1>1. CASE World
  <2>1. CASE GuestExits
    BY <2>1 DEF GuestExits, TypeOK, CallInv, OneHolder, StopConfirmed, Live, Exited
  <2>2. CASE OrphanExits
    BY <2>2 DEF OrphanExits, TypeOK, CallInv, OneHolder, StopConfirmed
  <2>3. CASE Exit
    BY <2>3 DEF Exit, TypeOK, CallInv, OneHolder, StopConfirmed, Phases, Live
  <2>4. CASE Launch
    BY <2>4 DEF Launch, TypeOK, CallInv, OneHolder, StopConfirmed, Phases, Status
  <2> QED BY <1>1, <2>1, <2>2, <2>3, <2>4 DEF World
<1>2. ASSUME NEW p \in Poller, Refresh(p) PROVE PowerInv'
  <2>1. CASE PollBegins(p)
    BY <2>1 DEF PollBegins, TypeOK, CallInv, OneHolder, StopConfirmed
  <2>2. CASE Probe(p)
    BY <2>2 DEF Probe, PowerState, TypeOK, CallInv, OneHolder, StopConfirmed, Live, Exited
  <2>3. CASE Report(p)
    BY <2>3 DEF Report, TypeOK, CallInv, OneHolder, StopConfirmed, Status
  <2> QED BY <1>2, <2>1, <2>2, <2>3 DEF Refresh
<1> QED BY <1>1, <1>2

LEMMA NextInv == PowerInv /\ [Next]_vars => PowerInv'
<1> SUFFICES ASSUME PowerInv, [Next]_vars PROVE PowerInv'
  OBVIOUS
<1>1. CASE Next
  BY <1>1, RuntimeInv, CommandInv, WorldInv DEF Next
<1>2. CASE UNCHANGED vars
  BY <1>2 DEF vars, PowerInv, TypeOK, CallInv, OneHolder, StopConfirmed, Done
<1> QED BY <1>1, <1>2

\* The invariant holds in every state.
THEOREM PowerInvariant == Spec => []PowerInv
BY InitInv, NextInv, PTL DEF Spec

\* However starts, stops, backups, refreshes, guest exits and crashes of the
\* application interleave, two QEMU processes never hold the disk.
THEOREM SingleHolder == Spec => []OneHolder
<1>1. PowerInv => OneHolder
  BY DEF PowerInv
<1> QED BY <1>1, PowerInvariant, PTL

\* Stopped is recorded only when no process holds the disk.
THEOREM StoppedMeansReleased == Spec => []StopConfirmed
<1>1. PowerInv => StopConfirmed
  BY DEF PowerInv
<1> QED BY <1>1, PowerInvariant, PTL

\* A backup never copies a disk that a machine of this session writes to.
THEOREM BackupsAreQuiet == Spec => []ExportQuiet
<1>1. PowerInv => ExportQuiet
  BY DEF PowerInv, CallInv, ExportQuiet
<1> QED BY <1>1, PowerInvariant, PTL

-----------------------------------------------------------------------------

\* What is left to call in each phase, as equations between short sequences.
LEMMA Shapes ==
    ASSUME PowerInv, PauseInv
    PROVE  /\ phase \in {"quiesce", "export"} => calls \in {<<>>, <<"stop">>}
           /\ phase = "act" => calls \in {<<>>, <<"start">>, <<"stop">>, <<"pause">>, <<"resume">>}
           /\ phase = "act" /\ calls = <<"start">> => prev \in {"stopped", "error"} /\ want = "running"
           /\ phase = "act" /\ calls = <<"stop">> => want = "stopped"
           /\ phase = "act" /\ calls = <<"pause">> => want = "paused" /\ prev = "running"
           /\ phase = "act" /\ calls = <<"resume">> => want = "running" /\ prev = "paused"
           /\ phase \in {"undo", "restart", "reopen"} =>
                calls \in {<<>>, <<"start">>, <<"stop">>, <<"pause">>, <<"resume">>,
                          <<"start", "pause">>}
           /\ phase \in {"undo", "restart", "reopen"} /\ calls \in {<<"pause">>, <<"start", "pause">>}
                => prev = "paused"
           /\ phase \in {"undo", "restart", "reopen"} /\ calls = <<"resume">> => prev = "running"
           /\ phase \in {"undo", "restart", "reopen"} /\ calls = <<"stop">> =>
                prev \in {"stopped", "error"}
           /\ phase \in {"undo", "restart", "reopen"} /\ calls = <<"start">> => prev # "paused"
<1>1. prev \in Status /\ want \in Status
  BY DEF PowerInv, TypeOK
<1>2. CASE phase = "act" /\ calls # <<>>
  <2>1. /\ calls = Transition(prev, want) /\ want # "error" /\ ok
        /\ want = "paused" => prev \in {"running", "paused"}
    BY <1>2 DEF PauseInv
  <2>2. CASE want = "running" /\ prev = "paused"
    BY <1>2, <2>1, <2>2 DEF Transition
  <2>3. CASE want = "running" /\ prev # "paused"
    <3>1. CASE prev = "running"
      <4>1. Transition("running", "running") = <<>>
        BY DEF Transition
      <4> QED BY <1>2, <2>1, <2>3, <3>1, <4>1
    <3>2. CASE prev # "running"
      <4>1. calls = <<"start">>
        BY <1>1, <2>1, <2>3, <3>2 DEF Transition, Status
      <4> QED BY <1>1, <1>2, <2>3, <3>2, <4>1 DEF Status
    <3> QED BY <3>1, <3>2
  <2>4. CASE want = "stopped"
    BY <1>2, <2>1, <2>4 DEF Transition
  <2>5. CASE want = "paused"
    <3>1. calls = <<"pause">> /\ prev = "running"
      BY <1>2, <2>1, <2>5 DEF Transition
    <3> QED BY <1>2, <2>5, <3>1
  <2> QED BY <1>1, <2>1, <2>2, <2>3, <2>4, <2>5 DEF Status
<1>3. CASE phase = "act" /\ calls = <<>>
  BY <1>3
<1>4. CASE phase \in {"undo", "restart", "reopen"}
  <2>1. CASE prev = "running"
    BY <1>4, <2>1 DEF PauseInv
  <2>2. CASE prev = "paused"
    BY <1>4, <2>2 DEF PauseInv
  <2>3. CASE prev \in {"stopped", "error"}
    BY <1>4, <2>3 DEF PauseInv
  <2> QED BY <1>1, <2>1, <2>2, <2>3 DEF Status
<1>5. CASE phase \notin {"act", "undo", "restart", "reopen"}
  BY <1>5 DEF PauseInv
<1> QED BY <1>2, <1>3, <1>4, <1>5

\* The calls to the runtime bring the process into line.
LEMMA RuntimePause == ASSUME obeyed', PowerInv, PauseInv, Runtime PROVE PauseInv'
<1>a. calls # <<>>
  BY DEF Runtime, StartEnter, StartRefused, StartRegister, StartFails, StopEnter, StopWait,
         StopFails, PauseResume, PauseResumeFails, Calling
<1>b. UNCHANGED <<status, saved, phase, prev, want, poll>>
  BY DEF Runtime, StartEnter, StartRefused, StartRegister, StartFails, StopEnter, StopWait,
         StopFails, PauseResume, PauseResumeFails, Calling, Return, ReturnError, Inside, state
<1>c. /\ calls = <<"start">> => Head(calls) = "start" /\ Tail(calls) = <<>>
      /\ calls = <<"stop">> => Head(calls) = "stop" /\ Tail(calls) = <<>>
      /\ calls = <<"pause">> => Head(calls) = "pause" /\ Tail(calls) = <<>>
      /\ calls = <<"resume">> => Head(calls) = "resume" /\ Tail(calls) = <<>>
      /\ calls = <<"start", "pause">> => Head(calls) = "start" /\ Tail(calls) = <<"pause">>
  <2>1. /\ Head(<<"start", "pause">>) = "start" /\ Tail(<<"start", "pause">>) = <<"pause">>
    OBVIOUS
  <2>2. \A c \in Call : Head(<<c>>) = c /\ Tail(<<c>>) = <<>>
    OBVIOUS
  <2> QED BY <2>1, <2>2 DEF Call
<1>d. ok /\ phase \notin {"idle", "down"}
  BY <1>a DEF PowerInv, CallInv, PauseInv
<1> USE <1>a, <1>b, <1>c, <1>d, Shapes DEF PowerInv, CallInv, PauseInv, Agrees, Calling,
        Return, ReturnError, Inside, process
<1>2. CASE StartEnter
  BY <1>2 DEF StartEnter, Live
<1>3. CASE StartRefused
  BY <1>3 DEF StartRefused, Live
<1>4. CASE StartRegister
  BY <1>4 DEF StartRegister, Live
<1>5. CASE StartFails
  BY <1>5 DEF StartFails, Live
<1>6. CASE StopEnter
  BY <1>6 DEF StopEnter, Live
<1>7. CASE StopWait
  BY <1>7 DEF StopWait, Live
<1>8. CASE StopFails
  BY <1>8 DEF StopFails, Live
<1>9. CASE PauseResume
  BY <1>9 DEF PauseResume, Live
<1>10. CASE PauseResumeFails
  BY <1>10 DEF PauseResumeFails, Live
<1> QED BY <1>2, <1>3, <1>4, <1>5, <1>6, <1>7, <1>8, <1>9, <1>10 DEF Runtime

\* A command ends with a status its process agrees with.
LEMMA FinishPause ==
    ASSUME Finish, Agrees(status)' PROVE PauseInv'
BY DEF Finish, Begin, PauseInv

\* So do the phases of the commands.
LEMMA CommandPause ==
    ASSUME PowerInv, PauseInv, Power \/ Backup \/ User PROVE PauseInv'
<1>t. status \in Status /\ saved \in Status /\ want \in Status /\ prev \in Status
  BY DEF PowerInv, TypeOK
<1> USE DEF Done, Record, Failed, state, process
<1>1. CASE Power
  <2>1. CASE StatusSaved
    <3>1. Finish /\ status' = want /\ own' = own
      BY <2>1 DEF StatusSaved, Finish
    <3>2. want # "paused" => own # "frozen"
      BY <2>1, <1>t DEF StatusSaved, PauseInv, Live, Status
    <3>3. want = "paused" => own # "on"
      BY <2>1 DEF StatusSaved, PauseInv
    <3> QED BY <3>1, <3>2, <3>3, FinishPause DEF Agrees
  <2>2. CASE Undone
    BY <2>2, FinishPause DEF Undone, Finish, PauseInv, Agrees
  <2>3. CASE ActFailed
    BY <2>3, FinishPause DEF ActFailed, Finish, PauseInv, Agrees
  <2>4. CASE StatusNotSaved
    <3>1. /\ phase = "act" /\ calls = <<>> /\ ok /\ phase' = "undo" /\ ok' = TRUE
          /\ calls' = Undo(prev, want) /\ UNCHANGED <<status, own, prev, want>>
      BY <2>4 DEF StatusNotSaved, Begin
    <3>2. /\ want = "running" => own # "frozen"
          /\ want = "paused" => own # "on" /\ prev \in {"running", "paused"}
          /\ want = "stopped" => own \notin Live
          /\ want # "error" /\ (prev = want => Agrees(prev))
      BY <3>1 DEF PauseInv
    <3>3. CASE prev = want
      BY <3>1, <3>2, <3>3, <1>t DEF Undo, PauseInv, Agrees, Status
    <3>4. CASE prev # want /\ want = "running"
      <4>1. CASE prev = "paused"
        BY <3>1, <3>2, <3>4, <4>1 DEF Undo, PauseInv
      <4>2. CASE prev # "paused"
        BY <3>1, <3>2, <3>4, <4>2 DEF Undo, PauseInv
      <4> QED BY <4>1, <4>2
    <3>5. CASE prev # want /\ want = "paused"
      BY <3>1, <3>2, <3>5 DEF Undo, PauseInv
    <3>6. CASE prev # want /\ want = "stopped"
      <4>1. CASE prev = "paused"
        BY <3>1, <3>2, <3>6, <4>1 DEF Undo, PauseInv, Live
      <4>2. CASE prev # "paused"
        BY <3>1, <3>2, <3>6, <4>2 DEF Undo, PauseInv, Live
      <4> QED BY <4>1, <4>2
    <3> QED BY <3>2, <3>3, <3>4, <3>5, <3>6, <1>t DEF Status
  <2> QED BY <1>1, <2>1, <2>2, <2>3, <2>4 DEF Power
<1>2. CASE Backup
  <2>1. CASE NotQuiet
    BY <2>1, FinishPause DEF NotQuiet, Finish, PauseInv, Agrees
  <2>2. CASE Quiet
    BY <2>2 DEF Quiet, Begin, PauseInv, Agrees
  <2>3. CASE Inside("export") /\ UNCHANGED process /\ phase = "export"
    BY <2>3 DEF Inside, PauseInv, Agrees
  <2>4. ASSUME NEW p \in {"restart", "reopen"}, phase = "export", Then(p) PROVE PauseInv'
    <3>1. /\ phase' = p /\ ok' = TRUE /\ calls' = Restart(prev) /\ UNCHANGED <<status, own, prev, want>>
      BY <2>4 DEF Then, Begin
    <3>2. Agrees(prev)
      BY <2>4 DEF PauseInv
    <3>3. status # prev => prev = "running" /\ status \in {"stopped", "error"}
      BY <2>4 DEF PauseInv
    <3>4. CASE prev = "running"
      BY <3>1, <3>2, <3>3, <3>4 DEF Restart, PauseInv, Agrees
    <3>5. CASE prev = "paused"
      BY <3>1, <3>2, <3>3, <3>5 DEF Restart, PauseInv, Agrees
    <3>6. CASE prev \notin {"running", "paused"}
      BY <3>1, <3>2, <3>3, <3>6 DEF Restart, PauseInv, Agrees
    <3> QED BY <3>4, <3>5, <3>6
  <2>5. CASE BackupRecorded \/ BackupAbandoned
    <3>1. /\ phase \in {"restart", "reopen"} /\ calls = <<>> /\ ok
          /\ Finish /\ UNCHANGED <<own, status>>
      BY <2>5 DEF BackupRecorded, BackupAbandoned, Finish
    <3>2. Agrees(status)
      BY <3>1 DEF PauseInv, Agrees
    <3> QED BY <3>1, <3>2, FinishPause DEF Agrees
  <2>6. CASE RestartFailed
    BY <2>6, FinishPause DEF RestartFailed, Finish, PauseInv, Agrees
  <2> QED BY <1>2, <2>1, <2>2, <2>3, <2>4, <2>5, <2>6
          DEF Backup, ExportBegins, ExportEnds, ExportFails
<1>3. CASE User
  <2>1. ASSUME NEW s \in Status, SetStatus(s) PROVE PauseInv'
    <3>1. /\ phase = "idle" /\ s # "error" /\ Agrees(status)
          /\ phase' = "act" /\ prev' = status /\ want' = s /\ UNCHANGED <<status, own>>
      BY <2>1 DEF SetStatus, Begin, PauseInv
    <3>2. CASE s = "paused" /\ status \notin {"running", "paused"}
      BY <2>1, <3>1, <3>2 DEF SetStatus, Begin, PauseInv, Agrees
    <3>3. CASE ~(s = "paused" /\ status \notin {"running", "paused"})
      <4>1. calls' = Transition(status, s) /\ ok' = TRUE
        BY <2>1, <3>3 DEF SetStatus, Begin
      <4>2. CASE Transition(status, s) = <<>>
        <5>1. status = s /\ s \in {"running", "paused"}
          BY <1>t, <3>3, <4>2 DEF Transition, Status
        <5> QED BY <3>1, <3>3, <4>1, <4>2, <5>1 DEF PauseInv, Agrees
      <4>3. CASE Transition(status, s) # <<>>
        BY <3>1, <3>3, <4>1, <4>3 DEF PauseInv, Agrees
      <4> QED BY <4>2, <4>3
    <3> QED BY <3>2, <3>3
  <2>2. CASE RunBackup
    BY <2>2 DEF RunBackup, Begin, PauseInv, Agrees
  <2>3. CASE Recover \/ OtherSave
    BY <2>3 DEF Recover, OtherSave, command, PauseInv, Agrees
  <2> QED BY <1>3, <2>1, <2>2, <2>3 DEF User
<1> QED BY <1>1, <1>2, <1>3

\* And guests, refreshes and the application.
LEMMA WorldPause ==
    ASSUME PowerInv, PauseInv, World \/ \E p \in Poller : Refresh(p)
    PROVE  PauseInv'
<1> USE DEF state, process, command
<1>1. CASE World
  <2>1. CASE GuestExits
    BY <2>1 DEF GuestExits, PauseInv, Agrees, Live, Exited
  <2>2. CASE OrphanExits
    BY <2>2 DEF OrphanExits, PauseInv, Agrees
  <2>3. CASE Exit
    BY <2>3 DEF Exit, Begin, PauseInv, Agrees
  <2>4. CASE Launch
    <3>1. phase' = "idle" /\ status' # "paused" /\ own' = own
      BY <2>4 DEF Launch, Begin, Record
    <3>2. own = "none"
      BY <2>4 DEF Launch, PauseInv
    <3> QED BY <3>1, <3>2 DEF PauseInv, Agrees
  <2> QED BY <1>1, <2>1, <2>2, <2>3, <2>4 DEF World
<1>2. ASSUME NEW p \in Poller, Refresh(p) PROVE PauseInv'
  <2>1. CASE PollBegins(p)
    BY <2>1 DEF PollBegins, PauseInv, Agrees
  <2>2. CASE Probe(p)
    BY <2>2 DEF Probe, PauseInv, Agrees, Exited, Live
  <2>3. CASE Report(p)
    BY <2>3 DEF Report, PauseInv, Agrees
  <2> QED BY <1>2, <2>1, <2>2, <2>3 DEF Refresh
<1> QED BY <1>1, <1>2

\* A call that failed is not forgotten.
LEMMA ObeyedBefore == ASSUME TypeOK, [Next]_vars, obeyed' PROVE obeyed
<1>1. obeyed \in BOOLEAN
  BY DEF TypeOK
<1>2. CASE UNCHANGED obeyed
  BY <1>2
<1>3. UNCHANGED obeyed \/ obeyed' = FALSE
  <2> USE DEF state, process, command
  <2>1. CASE Runtime
    BY <2>1 DEF Runtime, StartEnter, StartRefused, StartRegister, StartFails, StopEnter,
       StopWait, StopFails, PauseResume, PauseResumeFails
  <2>2. CASE Power \/ Backup
    BY <2>2 DEF Power, Backup, StatusSaved, StatusNotSaved, Undone, ActFailed, Failed, Finish,
       NotQuiet, Quiet, ExportBegins, ExportEnds, ExportFails, Then, BackupRecorded,
       BackupAbandoned, RestartFailed
  <2>3. CASE User \/ World
    BY <2>3 DEF User, RunBackup, Recover, OtherSave, SetStatus, World, GuestExits,
       OrphanExits, Exit, Launch
  <2>4. CASE \E p \in Poller : Refresh(p)
    BY <2>4 DEF Refresh, PollBegins, Probe, Report
  <2>5. CASE UNCHANGED vars
    BY <2>5 DEF vars
  <2> QED BY <2>1, <2>2, <2>3, <2>4, <2>5 DEF Next
<1> QED BY <1>1, <1>2, <1>3

\* As long as no call to a live QEMU has failed, no failure of a save, a start, a
\* copy or of the application leaves a machine frozen that is said to be running,
\* or running when it is said to be paused.
THEOREM PauseIsHonest == Spec => []PauseHonest
<1>1. Init => PauseInv
  BY DEF Init, PauseInv, Agrees
<1>2. PowerInv /\ (obeyed => PauseInv) /\ [Next]_vars => (obeyed => PauseInv)'
  <2> SUFFICES ASSUME PowerInv, obeyed => PauseInv, [Next]_vars, obeyed' PROVE PauseInv'
    OBVIOUS
  <2>0. PauseInv
    BY ObeyedBefore DEF PowerInv
  <2>1. CASE Next
    BY <2>0, <2>1, RuntimePause, CommandPause, WorldPause DEF Next
  <2>2. CASE UNCHANGED vars
    BY <2>0, <2>2 DEF vars, PauseInv, Agrees
  <2> QED BY <2>1, <2>2
<1>3. (obeyed => PauseInv) => PauseHonest
  BY DEF PauseInv, PauseHonest, Agrees
<1> QED BY <1>1, <1>2, <1>3, PowerInvariant, PTL DEF Spec

=============================================================================
