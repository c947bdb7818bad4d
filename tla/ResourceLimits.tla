--------------------------- MODULE ResourceLimits ---------------------------
(* From a resource policy to the limit a container really runs under.        *)
(*                                                                          *)
(* The platform state holds a policy and an allocation for each environment. *)
(* Starting a container or saving its policy admits it, schedules everyone, *)
(* makes the appliance large enough and gives every running container its   *)
(* new limit, one call after the other; a failure takes the limits back.    *)
(* A refresh schedules again for the pressure it measured and applies what  *)
(* changed.  These three hold CONTAINER_POLICY_OPERATIONS for as long as    *)
(* they last.  The commands on virtual machines do not.                     *)
(*                                                                          *)
(* cache stands for APPLIED_RESOURCE_LIMITS, which decides whether a limit  *)
(* has to be applied at all.  The live limits of virtual machines, storage  *)
(* limits and connections are not in this module, nor the appliance's exit. *)

EXTENDS Scheduler

CONSTANTS
    Policies,   \* the policies that may be saved
    Fleets,     \* the installations: kinds and policies, and whether it is a Mac
    Loads,      \* the pressures that are measured
    MaxCommands,\* how many commands are given
    MaxFaults   \* how many calls may fail

\* validate_range, which every policy has passed that is kept
ValidRange(range) ==
    /\ range.min \in Nat /\ range.pref \in Nat /\ range.max \in Nat
    /\ 0 < range.min /\ range.min <= range.pref /\ range.pref <= range.max

ASSUME PolicyAssumption ==
    \A pol \in Policies : pol.priority \in Priority /\ \A r \in Res : ValidRange(pol[r])
ASSUME FleetAssumption ==
    Fleets \subseteq [kind : [Env -> Kind], policy : [Env -> Policies], macos : BOOLEAN]
ASSUME LoadAssumption == Loads \subseteq Pressure
ASSUME BoundAssumption == MaxCommands \in Nat /\ MaxFaults \in Nat

VARIABLES
    kind, macos,    \* the installation, one of Fleets
    status,         \* of each environment
    policy,         \* the policy of each
    alloc,          \* and its `current`: what the scheduler gives it
    pressure,       \* the pressure of the last refresh
    guest,          \* the size of the appliance
    limit,          \* the limits in the OCI spec and cgroup of each container
    cache,          \* the limits recorded as applied
    op,             \* what holds CONTAINER_POLICY_OPERATIONS
    doubt,          \* history: containers with a call that failed after its effect
    commands, faults    \* how many there were

machine == <<kind, macos>>
state   == <<status, policy, alloc, pressure>>
limits  == <<limit, cache, doubt>>
vars    == <<kind, macos, status, policy, alloc, pressure, guest, limit, cache, op, doubt,
             commands, faults>>

NoLimit == [r \in Res |-> 0]
Off == [cpu |-> 0, mem |-> 0, base |-> 0]
Idle == [job |-> "none"]

Status == {"running", "paused", "stopped", "error"}

Platform ==
    [kind |-> kind, macos |-> macos, status |-> status, policy |-> policy,
     alloc |-> alloc, pressure |-> pressure]
Containers == {e \in Env : kind[e] \in {"oci", "cuda"}}
Machines == Env \ Containers
Preferred(pol) == [r \in Res |-> pol[r].pref]

Fault == faults < MaxFaults /\ faults' = faults + 1
Command == commands < MaxCommands /\ commands' = commands + 1

Init ==
    /\ \E fleet \in Fleets : kind = fleet.kind /\ policy = fleet.policy /\ macos = fleet.macos
    /\ status = [e \in Env |-> "stopped"]
    /\ alloc = [e \in Env |-> NoLimit]
    /\ pressure = "low"
    /\ guest = Off
    /\ limit = [e \in Env |-> Preferred(policy[e])]
    /\ cache = [e \in Env |-> NoLimit]
    /\ op = Idle
    /\ doubt = {}
    /\ commands = 0 /\ faults = 0

-----------------------------------------------------------------------------
(* The appliance: ApplianceCapacity and ensure_container_capacity.           *)

CeilTo(v, unit) == unit * ((v + unit - 1) \div unit)
ForWorkloads(cpu, mem) ==
    [cpu |-> CeilTo(cpu, Cpu), mem |-> Max({CeilTo(mem + Overhead, Step), GB})]
LargeEnough(g, want) == g.cpu >= want.cpu /\ g.mem >= want.mem

GrowthTarget(g, want) ==
    LET most  == Max({Total["mem"], g.base})
        chunk == Max({CeilTo(most - g.base, 64 * Step) \div 64, Step})
    IN  Min({g.mem + CeilTo(Positive(want - g.mem), chunk), most})

\* The appliance after room was made for want; none if it is refused.  Memory
\* is added to a running appliance, CPUs are not.
EnsureCapacity(want) ==
    CASE guest = Off -> {[cpu |-> want.cpu, mem |-> want.mem, base |-> want.mem]}
      [] guest # Off /\ LargeEnough(guest, want) -> {guest}
      [] OTHER -> {g \in {[guest EXCEPT !.mem = GrowthTarget(guest, want.mem)]} :
                     want.cpu <= guest.cpu /\ want.mem <= Max({Total["mem"], guest.base})}

\* update_container_resources refuses a limit larger than the engine.
Fits(e, a) ==
    IF kind[e] = "cuda" THEN \A r \in Res : a[r] <= CudaPool[r]
    ELSE LargeEnough(guest, ForWorkloads(a["cpu"], a["mem"]))

\* The call took effect, or failed.  One that failed may have had its effect.
Update(e, a) ==
    /\ Fits(e, a)
    /\ limit' = [limit EXCEPT ![e] = a]
    /\ cache' = [cache EXCEPT ![e] = a]
    /\ doubt' = doubt \ {e}

\* Variant: the limit is recorded before the answer is known.
UpdateFailsRecorded(e, a) ==
    /\ cache' = [cache EXCEPT ![e] = a]
    /\ \/ ~Fits(e, a) /\ UNCHANGED <<limit, doubt, faults>>
       \/ Fault /\ UNCHANGED <<limit, doubt>>
       \/ Fault /\ limit' = [limit EXCEPT ![e] = a] /\ doubt' = doubt \cup {e}

UpdateFails(e, a) ==
    /\ cache' = cache
    /\ \/ ~Fits(e, a) /\ UNCHANGED <<limit, doubt, faults>>
       \/ Fault /\ UNCHANGED <<limit, doubt>>
       \/ Fault /\ limit' = [limit EXCEPT ![e] = a] /\ doubt' = doubt \cup {e}

\* Variant: only what was never applied is applied.
ResourceUpdateFirst(e, a) == cache[e] = NoLimit

ResourceUpdateNeeded(e, a) == cache[e] # a

-----------------------------------------------------------------------------
(* prepare_container_start                                                   *)

SumIn(q, r, S) == SumOver([e \in Env |-> q.alloc[e][r]], S)
RunningContainers(q) == {e \in Is(q, {"running"}) : Container(q, e)}
PausedMemory(q, r) ==
    IF r = "cpu" THEN 0
    ELSE SumOver([e \in Env |-> Max({q.alloc[e][r], q.policy[e][r].pref})],
                 {e \in Is(q, {"paused"}) : Container(q, e)})
Available(q, r) ==
    Positive(ContainerCapacity(r) - Reserved(q, r, [e \in Env |-> q.alloc[e][r]]))

\* validate_policy with the host's bounds, and validate_container_policy_capacity
ValidPolicy(pol) ==
    \A r \in Res : ValidRange(pol[r]) /\ pol[r].max <= Total[r]
ValidFor(pol) ==
    ValidPolicy(pol) /\ pol["cpu"].max <= 255 * Cpu /\ pol["mem"].max <= 1024 * GB

\* The candidate state: e runs, under the pressure of this moment.
Candidate(q, e, now) ==
    [q EXCEPT !.pressure = now, !.status[e] = "running", !.alloc[e] = Preferred(q.policy[e])]
Admitted(q) ==
    \A r \in Res :
        SumOver([e \in Env |-> q.policy[e][r].min], RunningContainers(q)) + PausedMemory(q, r)
            <= Available(q, r)
Scheduled(q, cuda) ==
    LET s == [q EXCEPT !.alloc = Schedule(q)]
    IN  IF ~cuda THEN {s} ELSE {t \in {[s EXCEPT !.alloc = LimitCudaPool(s)]} : CudaFits(s)}
Schedulable(q, s) ==
    \A r \in Res : SumIn(s, r, RunningContainers(s)) + PausedMemory(q, r) <= Available(q, r)

\* The room the appliance needs for the policies that are active in it.
Envelope(q, s) ==
    LET active == {e \in Active(s) : s.kind[e] = "oci"}
        oci    == {e \in RunningContainers(s) : s.kind[e] = "oci"}
        want   == [r \in Res |-> Max({Min({SumOver([e \in Env |-> s.policy[e][r].max], active),
                                           Available(q, r)}),
                                      SumIn(s, r, oci)})]
    IN  IF active = {} THEN {guest} ELSE EnsureCapacity(ForWorkloads(want["cpu"], want["mem"]))

\* Containers are visited in the order of the list.
First(S) == {e \in S : \A f \in S : e <= f}

\* The limit to return to is the allocation of the state, not the real limit.
Previous(q, e) ==
    [r \in Res |-> IF q.alloc[e][r] > 0 THEN q.alloc[e][r] ELSE q.policy[e][r].pref]

\* Everything up to the first call that changes a limit.  The CUDA engine may
\* fail to answer; then its pool is not considered.
Prepare(job, e, q) ==
    \E now \in Loads, cuda \in BOOLEAN :
      LET c == Candidate(q, e, now)
      IN  /\ ValidFor(c.policy[e]) /\ Admitted(c)
          /\ IF cuda THEN faults' = faults ELSE kind[e] # "cuda" /\ Fault
          /\ \E s \in Scheduled(c, cuda) :
               /\ Schedulable(c, s)
               /\ guest' \in Envelope(c, s)
               /\ op' = [job |-> job, phase |-> "apply", env |-> e, pol |-> q.policy[e],
                         todo |-> RunningContainers(s), goal |-> s.alloc,
                         prev |-> [f \in Env |-> Previous(q, f)], undo |-> <<>>,
                         base |-> limit, lost |-> {}, error |-> FALSE]
    /\ UNCHANGED <<machine, state, limits>>

StartBegins(e) ==
    /\ op = Idle /\ Command
    /\ e \in Containers /\ status[e] # "running"
    /\ Prepare("start", e, Platform)

SaveBegins(e, pol) ==
    /\ op = Idle /\ Command
    /\ e \in Containers /\ status[e] = "running"
    /\ ValidFor(pol)
    /\ Prepare("save", e, [Platform EXCEPT !.policy[e] = pol])

Working(phase) == op # Idle /\ op.job \in {"start", "save"} /\ op.phase = phase

\* Other containers are left alone when nothing changes for them.
Unchanged(f) == f # op.env /\ op.prev[f] = op.goal[f] /\ ~ResourceUpdateNeeded(f, op.goal[f])

ApplyNext ==
    /\ Working("apply") /\ op.todo # {}
    /\ \E f \in First(op.todo) :
           \/ Unchanged(f) /\ op' = [op EXCEPT !.todo = @ \ {f}] /\ UNCHANGED limits
           \/ /\ ~Unchanged(f)
              /\ Update(f, op.goal[f])
              /\ op' = [op EXCEPT !.todo = @ \ {f}, !.undo = Append(@, f)]
    /\ UNCHANGED <<machine, state, guest, faults, commands>>

\* Variant: returns the error at once.
ApplyFailsAtOnce ==
    /\ Working("apply") /\ op.todo # {}
    /\ \E f \in First(op.todo) :
           /\ ~Unchanged(f)
           /\ UpdateFails(f, op.goal[f])
           /\ op' = [op EXCEPT !.phase = "undo", !.undo = <<>>,
                               !.lost = IF limit' = limit THEN @ ELSE @ \cup {f}]
    /\ UNCHANGED <<machine, state, guest, commands>>

ApplyFails ==
    /\ Working("apply") /\ op.todo # {}
    /\ \E f \in First(op.todo) :
           /\ ~Unchanged(f)
           /\ UpdateFails(f, op.goal[f])
           /\ op' = [op EXCEPT !.phase = "undo", !.lost = IF limit' = limit THEN @ ELSE @ \cup {f}]
    /\ UNCHANGED <<machine, state, guest, commands>>

\* rollback_container_allocations: the last limit first; failures are passed over.
UndoNext ==
    /\ Working("undo") /\ op.undo # <<>>
    /\ LET f == Last(op.undo)
       IN  \/ Update(f, op.prev[f]) /\ op' = [op EXCEPT !.undo = Front(@)] /\ UNCHANGED faults
           \/ /\ UpdateFails(f, op.prev[f])
              /\ op' = [op EXCEPT !.undo = Front(@), !.lost = @ \cup {f}]
    /\ UNCHANGED <<machine, state, guest, commands>>

\* A start whose container_action failed leaves the environment in Error, if
\* that can be saved.  Every other failure leaves the state as it was.
UndoEnds ==
    /\ Working("undo") /\ op.undo = <<>>
    /\ op' = Idle
    /\ \/ op.error /\ status' = [status EXCEPT ![op.env] = "error"] /\ faults' = faults
       \/ op.error /\ Fault /\ UNCHANGED status
       \/ ~op.error /\ UNCHANGED <<status, faults>>
    /\ UNCHANGED <<machine, policy, alloc, pressure, guest, limits, commands>>

Act ==
    /\ Working("apply") /\ op.todo = {}
    /\ \/ op' = [op EXCEPT !.phase = "persist"] /\ faults' = faults
       \/ op.job = "start" /\ Fault /\ op' = [op EXCEPT !.phase = "undo", !.error = TRUE]
    /\ UNCHANGED <<machine, state, guest, limits, commands>>

\* The scheduler works on the state as it is now, with the pressure stored in it.
Reschedule(q) ==
    /\ status' = q.status /\ policy' = q.policy /\ pressure' = q.pressure
    /\ alloc' = Schedule(q)

\* Variant: the schedule is made before the policy is replaced.
PersistLate ==
    /\ Working("persist")
    /\ status' = [status EXCEPT ![op.env] = "running"]
    /\ policy' = [policy EXCEPT ![op.env] = op.pol]
    /\ alloc' = Schedule([Platform EXCEPT !.status[op.env] = "running"])
    /\ op' = Idle
    /\ UNCHANGED <<machine, pressure, guest, limits, faults, commands>>

Persist ==
    /\ Working("persist")
    /\ Reschedule([Platform EXCEPT !.status[op.env] = "running", !.policy[op.env] = op.pol,
                                   !.alloc[op.env] = Preferred(op.pol)])
    /\ op' = Idle
    /\ UNCHANGED <<machine, guest, limits, faults, commands>>

PersistFails ==
    /\ Working("persist") /\ Fault
    /\ op' = [op EXCEPT !.phase = "undo"]
    /\ UNCHANGED <<machine, state, guest, limits, commands>>

-----------------------------------------------------------------------------
(* The commands that touch no other container.                               *)

SaveIdle(e, pol) ==
    /\ op = Idle /\ Command
    /\ e \in Containers /\ status[e] # "running"
    /\ ValidFor(pol)
    /\ Reschedule([Platform EXCEPT !.policy[e] = pol])
    /\ UNCHANGED <<machine, guest, limits, op, faults>>

Stop(e) ==
    /\ op = Idle /\ Command
    /\ e \in Containers /\ status[e] # "stopped"
    /\ Reschedule([Platform EXCEPT !.status[e] = "stopped", !.alloc[e] = NoLimit])
    /\ cache' = [cache EXCEPT ![e] = NoLimit]
    /\ UNCHANGED <<machine, guest, limit, doubt, op, faults>>

Pause(e) ==
    /\ op = Idle /\ Command
    /\ e \in Containers /\ status[e] = "running"
    /\ Reschedule([Platform EXCEPT !.status[e] = "paused"])
    /\ UNCHANGED <<machine, guest, limits, op, faults>>

\* The call to the runtime failed; the share is kept until the next schedule.
PowerFails(e) ==
    /\ Command /\ Fault
    /\ e \in Containers => op = Idle /\ status[e] # "stopped"
    /\ status' = [status EXCEPT ![e] = "error"]
    /\ UNCHANGED <<machine, policy, alloc, pressure, guest, limits, op>>

-----------------------------------------------------------------------------
(* Virtual machines take part in the schedule and do not wait for the lock.  *)

MachineOn(e) ==
    /\ Command /\ e \in Machines /\ status[e] # "running"
    /\ LET booted == IF macos /\ status[e] = "paused" THEN alloc[e]
                     ELSE IF macos
                          THEN [Preferred(policy[e]) EXCEPT
                                 !["cpu"] = Max({Cpu * ((@ + Cpu \div 2) \div Cpu), Cpu})]
                          ELSE Preferred(policy[e])
       IN  Reschedule([Platform EXCEPT !.status[e] = "running", !.alloc[e] = booted])
    /\ UNCHANGED <<machine, guest, limits, op, faults>>

MachineOff(e) ==
    /\ Command /\ e \in Machines /\ status[e] # "stopped"
    /\ Reschedule([Platform EXCEPT !.status[e] = "stopped", !.alloc[e] = NoLimit])
    /\ UNCHANGED <<machine, guest, limits, op, faults>>

MachinePause(e) ==
    /\ Command /\ e \in Machines /\ status[e] = "running"
    /\ Reschedule([Platform EXCEPT !.status[e] = "paused"])
    /\ UNCHANGED <<machine, guest, limits, op, faults>>

\* A refresh found that it is gone: its share is not handed on until the next.
MachineLost(e) ==
    /\ e \in Machines /\ status[e] = "running"
    /\ \E s \in {"stopped", "error"} : status' = [status EXCEPT ![e] = s]
    /\ alloc' = [alloc EXCEPT ![e] = NoLimit]
    /\ UNCHANGED <<machine, policy, pressure, guest, limits, op, faults, commands>>

\* A running machine cannot be given a larger maximum.  A microVM keeps its
\* memory, a guest on macOS everything, until it is started again.
MachineSave(e, pol) ==
    /\ Command /\ e \in Machines
    /\ ValidPolicy(pol)
    /\ LET live == status[e] = "running" /\ ~macos
           now  == IF ~live THEN alloc[e]
                   ELSE IF kind[e] = "micro" THEN [Preferred(pol) EXCEPT !["mem"] = alloc[e]["mem"]]
                   ELSE Preferred(pol)
       IN  /\ live => \A r \in Res : pol[r].max <= policy[e][r].max
           /\ Reschedule([Platform EXCEPT !.policy[e] = pol, !.alloc[e] = now])
    /\ UNCHANGED <<machine, guest, limits, op, faults>>

-----------------------------------------------------------------------------
(* refresh_host_metrics                                                      *)

\* If the CUDA pool is too small the refresh ends here, with an error and
\* without any effect.
RefreshBegins ==
    /\ op = Idle
    /\ \E now \in Loads, cuda \in BOOLEAN :
         /\ IF cuda THEN faults' = faults ELSE Fault
         /\ \E s \in Scheduled([Platform EXCEPT !.pressure = now], cuda) :
              /\ pressure' = now /\ alloc' = s.alloc
              /\ op' = [job |-> "refresh", todo |-> RunningContainers(s),
                        goal |-> s.alloc, exited |-> {}]
    /\ UNCHANGED <<machine, status, policy, guest, limits, commands>>

Refreshing == op # Idle /\ op.job = "refresh"

RefreshNext ==
    /\ Refreshing /\ op.todo # {}
    /\ \E f \in First(op.todo) : LET Done == op' = [op EXCEPT !.todo = @ \ {f}] IN
           \* its telemetry is missing, or it is paused for a snapshot
           \/ Fault /\ Done /\ UNCHANGED limits
           \* it has exited
           \/ op' = [op EXCEPT !.todo = @ \ {f}, !.exited = @ \cup {f}] /\ UNCHANGED <<limits, faults>>
           \/ ~ResourceUpdateNeeded(f, op.goal[f]) /\ Done /\ UNCHANGED <<limits, faults>>
           \/ ResourceUpdateNeeded(f, op.goal[f]) /\ Update(f, op.goal[f]) /\ Done /\ UNCHANGED faults
           \/ ResourceUpdateNeeded(f, op.goal[f]) /\ UpdateFails(f, op.goal[f]) /\ Done
    /\ UNCHANGED <<machine, state, guest, commands>>

\* Variant: keeps the telemetry's word for it.
RefreshEndsExited ==
    /\ Refreshing /\ op.todo = {}
    /\ status' = [e \in Env |-> IF e \in op.exited THEN "exited" ELSE status[e]]
    /\ op' = Idle
    /\ UNCHANGED <<machine, policy, alloc, pressure, guest, limits, faults, commands>>

RefreshEnds ==
    /\ Refreshing /\ op.todo = {}
    /\ status' = [e \in Env |-> IF e \in op.exited THEN "error" ELSE status[e]]
    /\ op' = Idle
    /\ UNCHANGED <<machine, policy, alloc, pressure, guest, limits, faults, commands>>

-----------------------------------------------------------------------------
Holding == ApplyNext \/ ApplyFails \/ UndoNext \/ UndoEnds \/ Act \/ Persist \/ PersistFails
           \/ RefreshNext \/ RefreshEnds

Next ==
    \/ \E e \in Env : StartBegins(e) \/ Stop(e) \/ Pause(e) \/ PowerFails(e)
                      \/ MachineOn(e) \/ MachineOff(e) \/ MachinePause(e) \/ MachineLost(e)
    \/ \E e \in Env, pol \in Policies : SaveBegins(e, pol) \/ SaveIdle(e, pol) \/ MachineSave(e, pol)
    \/ RefreshBegins
    \/ Holding

\* What holds the lock goes on: WF_vars(Holding).  The dashboard keeps asking for
\* refreshes and the mutex is fair, so that one of them gets it again and again:
\* SF_vars(RefreshBegins).  ENABLED is spelt out in both, and the steps are told
\* apart by what they do to op: only Holding changes it while the lock is held.
HoldingGoesOn == []<>(op = Idle) \/ []<><<op # Idle /\ op' # op>>_vars
RefreshesGoOn ==
    \/ <>[]~(op = Idle /\ CudaFits(Platform))
    \/ []<><<op = Idle /\ op'.job = "refresh">>_vars

Spec == Init /\ [][Next]_vars /\ HoldingGoesOn /\ RefreshesGoOn

-----------------------------------------------------------------------------
TypeOK ==
    /\ kind \in [Env -> Kind] /\ macos \in BOOLEAN
    /\ status \in [Env -> Status]
    /\ policy \in [Env -> Policies]
    /\ alloc \in [Env -> [Res -> Nat]] /\ limit \in [Env -> [Res -> Nat]]
    /\ cache \in [Env -> [Res -> Nat]]
    /\ pressure \in Pressure
    /\ doubt \subseteq Containers
    /\ commands \in 0..MaxCommands /\ faults \in 0..MaxFaults

\* What the scheduler gives to all environments together stays within its share
\* of the computer, and what it gives to the containers within what the other
\* guests leave of the appliance's share, unless the minimums and the memory
\* that cannot be taken away are more already (schedule_for_host).
WithinBudget ==
    \A r \in Res :
      LET floor == [e \in Env |-> Floor(Platform, r, e)]
          given == [e \in Env |-> alloc[e][r]]
          holders == Holders(Platform, r)
          containers == holders \cap Containers
      IN  /\ SumOver(given, holders) <= Max({HostBudget(Platform, r), SumOver(floor, holders)})
          /\ SumOver(given, containers) <= Max({ContainerCapacity(r) - Reserved(Platform, r, floor),
                                                SumOver(floor, containers)})

\* An environment that runs has at least the minimum and at most the maximum of
\* its own policy, whatever the pressure, the pools and the other policies are.
WithinPolicy ==
    \A e \in Env, r \in Res :
      (status[e] = "running" /\ ~Frozen(Platform, r, e)) =>
        policy[e][r].min <= alloc[e][r] /\ alloc[e][r] <= policy[e][r].max

\* Nobody gets more than the minimum while an environment that comes first in
\* the same pools is left with less than its target.
NoInversion ==
    \A e, f \in Is(Platform, {"running"}), r \in Res :
      (/\ Before(Platform, e, f) /\ ~Frozen(Platform, r, e) /\ ~Frozen(Platform, r, f)
       /\ e \in Containers => f \in Containers
       /\ kind[e] = "cuda" => kind[f] = "cuda"
       /\ alloc[e][r] < QuantizeDown(Target(Platform, r, e), policy[e][r]))
      => alloc[f][r] = policy[f][r].min

\* A limit that is recorded as applied is the limit the container has, unless a
\* call failed after it had taken effect (record_applied_resource_limits).
CacheTruthful == \A e \in Containers \ doubt : cache[e] \in {NoLimit, limit[e]}

\* A start or a save that gives up leaves no container with the limit it had
\* planned: each has the limit it had, or its allocation, except those whose
\* limit could not be taken back.
RollbackRestores ==
    (Working("undo") /\ op.undo = <<>>) =>
      \A e \in Containers \ op.lost : limit[e] \in {op.base[e], op.prev[e]}

\* The limit of a running container comes to be what the scheduler gives it,
\* except where a call failed after its effect, the engine is too small for it
\* or the CUDA pool stops the refreshes.
Settled(e) ==
    \/ status[e] # "running" \/ limit[e] = alloc[e] \/ e \in doubt
    \/ ~Fits(e, alloc[e]) \/ ~CudaFits(Platform)
LimitsFollow == \A e \in Env : (e \in Containers) ~> Settled(e)
=============================================================================
