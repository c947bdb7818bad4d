----------------------------- MODULE Scheduler -----------------------------
(* scheduler.rs: how the CPUs and the memory of the computer are divided     *)
(* between the environments that run on it.                                 *)
(*                                                                          *)
(* The operators take the part p of the platform state that the scheduler   *)
(* reads: kind, status, policy and alloc of every environment (alloc is the *)
(* `current` field of its policy), the host's pressure, and macos.          *)
(*                                                                          *)
(* Quantities are exact integers.  The step in which a resource is handed   *)
(* out (0.05 CPU, 0.125 GB) is Step units, so that every product with a     *)
(* weight or a factor of the code is a whole number; policies are multiples *)
(* of the step.  The code's floating point agrees up to its tolerance 1e-9. *)
(* Cloud nodes get nothing and are left out.                                *)

EXTENDS Integers, FiniteSetsExt, SequencesExt

CONSTANTS
    N,          \* the number of environments; their order is the list's
    Total,      \* what the computer has of each resource
    CudaPool    \* what the CUDA engine has of each

Env == 1..N
Res == {"cpu", "mem"}
Step == 1000
Cpu == 20 * Step
GB == 8 * Step

ASSUME NAssumption == N \in Nat
ASSUME HostAssumption ==
    /\ Total \in [Res -> Nat] /\ CudaPool \in [Res -> Nat]
    /\ Total["cpu"] % Cpu = 0

Kind == {"oci", "cuda", "vm", "micro"}
Priority == 0..3
Pressure == {"low", "moderate", "high"}

Container(p, e) == p.kind[e] \in {"oci", "cuda"}
Is(p, s) == {e \in Env : p.status[e] \in s}
Active(p) == Is(p, {"running", "paused"})

Clamp(v, lo, hi) == Min({Max({v, lo}), hi})
Positive(v) == Max({v, 0})
Scaled(v, n, d) == (v * n) \div d
\* The sum of f over those environments that are in S.
SumOver(f, S) ==
    LET upTo[n \in 0..N] == IF n = 0 THEN 0 ELSE upTo[n - 1] + (IF n \in S THEN f[n] ELSE 0)
    IN  upTo[N]

\* A guest on macOS keeps what it was booted with.
Fixed(p, e) == p.macos /\ ~Container(p, e)

\* The memory of a microVM does not change while it runs, on any host.
Frozen(p, r, e) == Fixed(p, e) \/ (p.kind[e] = "micro" /\ r = "mem")

Weight(priority) == <<700, 1000, 1350, 1800>>[priority + 1]

\* allocate(): what an environment would get if there were enough.
Allocate(range, w, pressure) ==
    LET target ==
          CASE pressure = "low"      -> Scaled(range.pref, Min({w, 1250}), 1000)
            [] pressure = "moderate" -> Scaled(range.pref, Clamp(Scaled(w, 850, 1000), 800, 1100), 1000)
            [] pressure = "high"     ->
                 range.min + Scaled(range.pref - range.min, Min({w, 1000}), 4000)
    IN  Clamp(target, range.min, range.max)

Target(p, r, e) == Allocate(p.policy[e][r], Weight(p.policy[e].priority), p.pressure)

\* Variant: rounds to the next step up.
QuantizeUp(v, range) == Clamp(Step * ((v + Step - 1) \div Step), range.min, range.max)

QuantizeDown(v, range) == Clamp(v - (v % Step), range.min, range.max)

\* What the appliance may use of the computer: a tenth of the memory, at least
\* 1 GB, and the appliance's own 0.375 GB are kept back.
Overhead == 3 * Step
ContainerCapacity(r) ==
    IF r = "cpu" THEN Min({Total[r], 255 * Cpu})
    ELSE LET free == Positive(Total[r] - Max({Total[r] \div 10, GB}) - Overhead)
         IN  free - (free % Step)

\* Where the scheduler starts: every running environment at its minimum.
Kept(p, r, e) ==
    IF p.alloc[e][r] > 0 THEN p.alloc[e][r]
    ELSE IF r = "cpu" THEN Max({Cpu * ((p.policy[e][r].pref + Cpu \div 2) \div Cpu), Cpu})
    ELSE p.policy[e][r].pref
Floor(p, r, e) ==
    CASE p.status[e] = "running" -> IF Frozen(p, r, e) THEN Kept(p, r, e) ELSE p.policy[e][r].min
      [] p.status[e] = "paused"  -> IF r = "mem" THEN Kept(p, r, e)
                                    ELSE IF Fixed(p, e) THEN p.alloc[e][r] ELSE 0
      [] OTHER                   -> 0

\* Paused environments keep their memory, but need no CPU.
Holders(p, r) == IF r = "cpu" THEN Is(p, {"running"}) ELSE Active(p)

\* The memory that the guests which are not containers count for.
Reserved(p, r, alloc) ==
    IF r = "cpu" THEN 0
    ELSE SumOver([e \in Env |-> Max({alloc[e], p.policy[e][r].pref})],
                 {e \in Active(p) : ~Container(p, e)})

Factor(pressure) == CASE pressure = "low" -> 90 [] pressure = "moderate" -> 78 [] pressure = "high" -> 62
HostBudget(p, r) == Scaled(Total[r], Factor(p.pressure), 100)

\* Environments are served by priority, and in the order of the list.
Before(p, e, f) ==
    \/ p.policy[e].priority > p.policy[f].priority
    \/ p.policy[e].priority = p.policy[f].priority /\ e < f

\* Variant: in the order of the list only.
LatestListed(p, S) == CHOOSE e \in S : \A f \in S \ {e} : f < e

\* The one of S that is served last.
Latest(p, S) == CHOOSE e \in S : \A f \in S \ {e} : Before(p, f, e)

\* schedule_for_host(): what everyone starts with, and what that leaves of the
\* computer and of the appliance's share.
Start(p, r) ==
    LET floor == [e \in Env |-> Floor(p, r, e)]
        containers == {e \in Holders(p, r) : Container(p, e)}
    IN  [current |-> floor,
         left |-> Positive(HostBudget(p, r) - SumOver(floor, Holders(p, r))),
         room |-> Positive(ContainerCapacity(r) - Reserved(p, r, floor)
                           - SumOver(floor, containers))]

\* One turn of its loop.
Serve(p, r, acc, e) ==
    LET wanted == Positive(Target(p, r, e) - acc.current[e])
        free   == IF Container(p, e) THEN Min({acc.left, acc.room}) ELSE acc.left
        next   == QuantizeDown(acc.current[e] + Min({free, wanted}), p.policy[e][r])
        used   == Positive(next - acc.current[e])
    IN  IF Frozen(p, r, e) THEN acc
        ELSE [current |-> [acc.current EXCEPT ![e] = next],
              left |-> Positive(acc.left - used),
              room |-> IF Container(p, e) THEN Positive(acc.room - used) ELSE acc.room]

\* After the environments of S were served, each set of them in its order.
ScheduleResource(p, r) ==
    LET after[S \in SUBSET Is(p, {"running"})] ==
          IF S = {} THEN Start(p, r)
          ELSE Serve(p, r, after[S \ {Latest(p, S)}], Latest(p, S))
    IN  after[Is(p, {"running"})].current

Schedule(p) ==
    LET by == [r \in Res |-> ScheduleResource(p, r)]
    IN  [e \in Env |-> [r \in Res |-> by[r][e]]]

\* limit_cuda_pool(): the CUDA engine may have less than the computer.  What
\* its containers need at least must fit; the rest is handed out again.
CudaRunning(p) == {e \in Is(p, {"running"}) : p.kind[e] = "cuda"}
CudaFloor(p, r) ==
    SumOver([e \in Env |-> p.policy[e][r].min], CudaRunning(p))
    + IF r = "cpu" THEN 0
      ELSE SumOver([e \in Env |-> Max({p.alloc[e][r], p.policy[e][r].pref})],
                   {e \in Is(p, {"paused"}) : p.kind[e] = "cuda"})
CudaFits(p) == \A r \in Res : CudaFloor(p, r) <= CudaPool[r]

CudaStart(p, r) ==
    [current |-> [e \in Env |-> p.alloc[e][r]], left |-> Positive(CudaPool[r] - CudaFloor(p, r))]

CudaServe(p, r, acc, e) ==
    LET range == p.policy[e][r]
        next  == QuantizeDown(range.min + Min({acc.left, Positive(acc.current[e] - range.min)}), range)
    IN  [current |-> [acc.current EXCEPT ![e] = next],
         left |-> Positive(acc.left - (next - range.min))]

LimitCudaResource(p, r) ==
    LET after[S \in SUBSET CudaRunning(p)] ==
          IF S = {} THEN CudaStart(p, r)
          ELSE CudaServe(p, r, after[S \ {Latest(p, S)}], Latest(p, S))
    IN  after[CudaRunning(p)].current

LimitCudaPool(p) ==
    LET by == [r \in Res |-> LimitCudaResource(p, r)]
    IN  [e \in Env |-> [r \in Res |-> by[r][e]]]
=============================================================================
