----------------------------- MODULE CudaRuntime -----------------------------
(* The engine of the containers that use CUDA: one WSL distribution with its   *)
(* disk, which several instances of the application may reach                  *)
(* (runtime/cuda/host/src/lib.rs, its scripts, runtime/cuda.rs).               *)
(*                                                                             *)
(* An instance owns the engine while it holds runtime-owner.lock, a handle     *)
(* that the system closes when the instance ends; the daemon in the            *)
(* distribution may go on without it.  So may a script: verify_owned() gives   *)
(* up after 45 s without ending it, and a killed instance does not end it.     *)
EXTENDS Naturals

CONSTANTS
    App,          \* instances of the application
    MaxVersions   \* bound: versions of the payload

VARIABLES
    up,           \* instances that run
    proc,         \* process: "none", "alive" or "dead"
    owner,        \* who holds runtime-owner.lock, NoApp if nobody does
    cuda,         \* what each instance does under the lock of its process
    daemon,       \* whose daemon runs: an instance, "abandoned" or "stopped"
    booted,       \* version of the payload the daemon was started from
    payload,      \* version that is installed, 0 if none is
    expected,     \* version the application comes with
    late,         \* whose script to terminate the distribution goes on, NoApp if none does
    unattended,   \* version that a setup goes on to install without its instance, 0 if none
    forced        \* history: what terminated a daemon that its instance still reached

versions == <<booted, payload, expected>>
scripts  == <<late, unattended, forced>>
cudaVars == <<up, proc, owner, cuda, daemon, booted, payload, expected, late, unattended, forced>>

NoApp == "nobody"

OwnerWithout(i) == IF owner = i THEN NoApp ELSE owner

\* ownership(): the lock is there for the taking.
Takes(i) == OwnerWithout(i) = NoApp /\ owner' = i

\* wsl.exe --terminate, by a step of the kind how.
Killed == [j \in App |-> IF daemon = j THEN "dead" ELSE proc[j]]
Kill(how) ==
    /\ daemon' = "stopped"
    /\ forced' = IF \E j \in App : daemon = j /\ proc[j] = "alive" THEN forced \cup {how} ELSE forced

\* What the theorems ask of the constants.
CudaConstants == {NoApp, "abandoned", "stopped"} \cap App = {}

CudaInit ==
    /\ up = {} /\ proc = [i \in App |-> "none"] /\ owner = NoApp
    /\ cuda = [i \in App |-> "idle"] /\ daemon = "stopped" /\ booted = 0
    /\ payload = 0 /\ expected = 1 /\ late = NoApp /\ unattended = 0 /\ forced = {}

Idle(i) == i \in up /\ cuda[i] = "idle"

LaunchApp(i) ==
    /\ i \notin up
    /\ up' = up \cup {i}
    /\ UNCHANGED <<proc, owner, cuda, daemon, versions, scripts>>

\* External: the application is updated while no instance runs.
UpdateApp ==
    /\ up = {} /\ expected < MaxVersions
    /\ expected' = expected + 1
    /\ UNCHANGED <<up, proc, owner, cuda, daemon, booted, payload, scripts>>

\* External: an instance is killed.  Its daemon stays or goes; one that was about to start
\* does so or not; its script goes on.
CrashApp(i) ==
    /\ i \in up
    /\ up' = up \ {i} /\ proc' = [proc EXCEPT ![i] = "none"] /\ owner' = OwnerWithout(i)
    /\ cuda' = [cuda EXCEPT ![i] = "idle"]
    /\ daemon' \in IF daemon = i \/ (proc[i] = "alive" /\ daemon = "stopped")
                   THEN {"abandoned", "stopped"} ELSE {daemon}
    /\ booted' = IF daemon = "stopped" /\ daemon' = "abandoned" THEN payload ELSE booted
    /\ late' = IF cuda[i] \in {"recover", "terminate"} THEN i ELSE late
    /\ unattended' = IF cuda[i] = "install" /\ unattended = 0 THEN expected ELSE unattended
    /\ UNCHANGED <<payload, expected, forced>>

\* An operation that begins with a process that has ended forgets it, and with it the
\* handle it kept, and takes the lock; one that cannot is refused.
BeginOwned(i, step) ==
    /\ Idle(i) /\ proc[i] # "alive"
    /\ proc' = [proc EXCEPT ![i] = "none"]
    /\ \/ Takes(i) /\ cuda' = [cuda EXCEPT ![i] = step]
       \/ OwnerWithout(i) # NoApp /\ owner' = OwnerWithout(i) /\ UNCHANGED cuda
    /\ UNCHANGED <<up, daemon, versions, scripts>>

Done(i) == cuda' = [cuda EXCEPT ![i] = "idle"]

\* provider_endpoint(): require_cuda_installation(), then ensure_started().
EnsureStarted(i) == payload = expected /\ BeginOwned(i, "verify")

\* verify_owned() and the launch of wsl.exe; the process keeps the lock from here on,
\* however slow the daemon is.
SpawnWsl(i) ==
    /\ cuda[i] = "verify" /\ Done(i)
    /\ \/ proc' = [proc EXCEPT ![i] = "alive"] /\ UNCHANGED owner
       \/ owner' = NoApp /\ UNCHANGED proc
    /\ UNCHANGED <<up, daemon, versions, scripts>>

\* External, start.sh: the daemon starts unless another one has the lock of the guest.
DaemonStarts(i) ==
    /\ proc[i] = "alive" /\ daemon # i
    /\ IF daemon = "stopped" THEN daemon' = i /\ booted' = payload /\ UNCHANGED proc
       ELSE proc' = [proc EXCEPT ![i] = "dead"] /\ UNCHANGED <<daemon, booted>>
    /\ UNCHANGED <<up, owner, cuda, payload, expected, scripts>>

\* External: the daemon ends, or only wsl.exe does and the daemon is left behind.
DaemonEnds ==
    /\ daemon # "stopped"
    /\ daemon' = "stopped" /\ proc' = Killed
    /\ UNCHANGED <<up, owner, cuda, versions, scripts>>

WslEnds(i) ==
    /\ proc[i] = "alive"
    /\ proc' = [proc EXCEPT ![i] = "dead"]
    /\ daemon' = IF daemon = i THEN "abandoned" ELSE daemon
    /\ UNCHANGED <<up, owner, cuda, versions, scripts>>

\* shutdown(): the daemon is asked to end and has to; then the distribution is
\* terminated, and with it a daemon that was left behind.
AskShutdown(i) ==
    /\ Idle(i) /\ proc[i] # "none"
    /\ \/ /\ proc[i] = "alive" /\ daemon \in {i, "stopped"}
          /\ daemon' = "stopped" /\ proc' = [proc EXCEPT ![i] = "dead"]
       \/ proc[i] = "dead" /\ UNCHANGED <<proc, daemon>>
    /\ cuda' = [cuda EXCEPT ![i] = "terminate"]
    /\ UNCHANGED <<up, owner, versions, scripts>>

\* A script that is given up goes on.
Terminate(i) ==
    /\ cuda[i] = "terminate"
    /\ \/ /\ Kill("shutdown") /\ owner' = OwnerWithout(i)
          /\ proc' = [Killed EXCEPT ![i] = "none"]
          /\ cuda' \in {[cuda EXCEPT ![i] = "idle"], [cuda EXCEPT ![i] = "compact?"]}
          /\ UNCHANGED late
       \/ Done(i) /\ late' \in {late, i} /\ UNCHANGED <<daemon, forced, owner, proc>>
    /\ UNCHANGED <<up, versions, unattended>>

LateTerminate ==
    /\ late # NoApp /\ late' = NoApp
    /\ Kill(IF daemon = late THEN "own" ELSE "other") /\ proc' = Killed
    /\ UNCHANGED <<up, owner, cuda, versions, unattended>>

\* Variant: the lock is not asked for.
RecoverUnowned(i) ==
    /\ Idle(i) /\ payload # 0 /\ proc[i] # "alive"
    /\ proc' = [proc EXCEPT ![i] = "none"] /\ cuda' = [cuda EXCEPT ![i] = "recover"]
    /\ UNCHANGED <<up, owner, daemon, versions, scripts>>

\* recover_abandoned(), when the user presses Stop; only of what is installed.
Recover(i) == payload # 0 /\ BeginOwned(i, "recover")

Recovered(i) ==
    /\ cuda[i] = "recover" /\ Done(i) /\ owner' = OwnerWithout(i)
    /\ \/ Kill("recover") /\ proc' = Killed /\ UNCHANGED late
       \/ late' \in {late, i} /\ UNCHANGED <<daemon, forced, proc>>
    /\ UNCHANGED <<up, versions, unattended>>

\* install(): the script refuses a distribution that runs, and a second setup.
Install(i) == BeginOwned(i, "install")

Installed(i) ==
    /\ cuda[i] = "install" /\ Done(i) /\ owner' = OwnerWithout(i)
    /\ payload' \in IF daemon = "stopped" /\ unattended = 0 THEN {payload, expected} ELSE {payload}
    /\ UNCHANGED <<up, proc, daemon, booted, expected, scripts>>

\* A setup without its instance terminates what was started since it looked, or refuses.
LateSetup ==
    /\ unattended # 0 /\ unattended' = 0
    /\ \/ Kill("other") /\ proc' = Killed /\ payload' \in {payload, unattended}
       \/ UNCHANGED <<daemon, forced, proc, payload>>
    /\ UNCHANGED <<up, owner, cuda, booted, expected, late>>

\* compact_idle_storage() after the shutdown, and compact_stopped_storage().
CompactIdle(i) ==
    /\ i \in up /\ cuda[i] = "compact?"
    /\ \/ Takes(i) /\ cuda' = [cuda EXCEPT ![i] = "stopped?"]
       \/ owner # NoApp /\ UNCHANGED owner /\ Done(i)
    /\ UNCHANGED <<up, proc, daemon, versions, scripts>>

CompactStopped(i) == BeginOwned(i, "stopped?")

\* compact_verified_storage(): the blocking task keeps the handle.
VerifyStopped(i) ==
    /\ cuda[i] = "stopped?"
    /\ IF daemon = "stopped" /\ payload # 0 THEN cuda' = [cuda EXCEPT ![i] = "compacting"] /\ UNCHANGED owner
       ELSE Done(i) /\ owner' = NoApp
    /\ UNCHANGED <<up, proc, daemon, versions, scripts>>

Compacted(i) ==
    /\ cuda[i] = "compacting" /\ Done(i) /\ owner' = OwnerWithout(i)
    /\ UNCHANGED <<up, proc, daemon, versions, scripts>>

CudaNext ==
    \/ UpdateApp \/ DaemonEnds \/ LateTerminate \/ LateSetup
    \/ \E i \in App :
         \/ LaunchApp(i) \/ CrashApp(i) \/ EnsureStarted(i) \/ SpawnWsl(i) \/ DaemonStarts(i)
         \/ WslEnds(i) \/ AskShutdown(i) \/ Terminate(i) \/ Recover(i) \/ Recovered(i)
         \/ Install(i) \/ Installed(i) \/ CompactIdle(i) \/ CompactStopped(i)
         \/ VerifyStopped(i) \/ Compacted(i)

CudaSpec == CudaInit /\ [][CudaNext]_cudaVars

-----------------------------------------------------------------------------

\* No operation of an instance ends the daemon of another one that still runs and reaches
\* it; only a script does that was given up ("own" if it was that instance's), or whose
\* instance was killed, and that goes on after the lock was released (recover_abandoned,
\* shutdown, ownership and verify_owned in runtime/cuda/host/src/lib.rs).
RecoverySparesLive == forced \subseteq {"own", "other"}

\* The disk is compacted while no daemon has it, and none can start until that is done
\* (compact_verified_storage).
CompactionAlone == \A i \in App : cuda[i] = "compacting" => daemon = "stopped"

\* No daemon is started from a payload older than the application that starts it,
\* although the installation is checked before the lock is taken
\* (require_cuda_installation and provider_endpoint in runtime/cuda.rs).
NeverBootsObsolete ==
    [][\A i \in App : daemon # i /\ daemon' = i => booted' = expected]_cudaVars
=============================================================================
