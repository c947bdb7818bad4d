------------------------ MODULE ResourceLimits_proofs ------------------------
(* The record of applied limits is true, a command that gives up takes back  *)
(* what it applied, and the shares the scheduler hands out stay within the   *)
(* budget, the policies and the order of the priorities: for any number of  *)
(* environments, any policies and pools and any number of failures.         *)
(*                                                                          *)
(* The first half, on the limits, does not depend on what the scheduler     *)
(* computes: Schedule stays closed in it.  The second half opens it.  Sums   *)
(* and schedules are recursive functions, and what they compute is proved   *)
(* by induction in the form of NatInd, with a set of numbers for the        *)
(* predicate: the invariants of the two loops are Served and Ordered for    *)
(* schedule_for_host, Pooled and PooledInOrder for limit_cuda_pool.         *)

EXTENDS ResourceLimits, FiniteSetTheorems, TLAPS

Job == {"start", "save"}
Fields == {"job", "phase", "env", "pol", "todo", "goal", "prev", "undo", "base", "lost", "error"}

\* What is needed of the types.  The limits themselves can be anything.
Shape ==
    /\ DOMAIN limit = Env /\ DOMAIN cache = Env
    /\ \/ op = Idle
       \/ op.job = "refresh" /\ DOMAIN op = {"job", "todo", "goal", "exited"} /\ op.todo \subseteq Env
       \/ op.job \in Job /\ DOMAIN op = Fields /\ op.todo \subseteq Env /\ op.undo \in Seq(Env)

\* A container that a command has neither changed and still to take back, nor
\* failed to take back, has the limit it had or its allocation.
Accounted ==
    op.job \in Job =>
      \A e \in Containers :
        \/ e \in op.lost
        \/ limit[e] \in {op.base[e], op.prev[e]}
        \/ \E i \in 1..Len(op.undo) : op.undo[i] = e

LimitInv == Shape /\ CacheTruthful /\ Accounted

-----------------------------------------------------------------------------
(* What the steps do to the limits and the record of them.                   *)

\* A step that leaves the limits alone leaves the record true.
LEMMA RecordKept ==
    ASSUME CacheTruthful, kind' = kind, UNCHANGED limits
    PROVE  CacheTruthful'
  BY DEF CacheTruthful, Containers, limits

\* A call to the runtime leaves the record true, whether it succeeds (it is
\* recorded), fails (nothing is) or fails after its effect (it is in doubt).
LEMMA RecordUpdated ==
    ASSUME NEW e, NEW a, DOMAIN limit = Env, DOMAIN cache = Env,
           CacheTruthful, kind' = kind, Update(e, a) \/ UpdateFails(e, a)
    PROVE  /\ CacheTruthful'
           /\ DOMAIN limit' = Env /\ DOMAIN cache' = Env
           /\ \A f \in Env : f # e => limit'[f] = limit[f]
  <1>1. CASE Update(e, a)
    BY <1>1 DEF CacheTruthful, Containers, Update
  <1>2. CASE UpdateFails(e, a) /\ limit' = limit /\ doubt' = doubt
    BY <1>2 DEF CacheTruthful, Containers, UpdateFails
  <1>3. CASE UpdateFails(e, a) /\ limit' = [limit EXCEPT ![e] = a] /\ doubt' = doubt \cup {e}
    BY <1>3 DEF CacheTruthful, Containers, UpdateFails
  <1> QED
    BY <1>1, <1>2, <1>3 DEF UpdateFails

-----------------------------------------------------------------------------
LEMMA InitLimits == Init => LimitInv
  <1> SUFFICES ASSUME Init PROVE LimitInv
    OBVIOUS
  <1>1. op = Idle /\ op.job \notin Job
    BY DEF Init, Idle, Job
  <1>2. DOMAIN limit = Env /\ DOMAIN cache = Env
    BY DEF Init
  <1>3. CacheTruthful
    BY DEF Init, CacheTruthful, Containers
  <1> QED
    BY <1>1, <1>2, <1>3 DEF LimitInv, Shape, Accounted

LEMMA PrepareLimits ==
    ASSUME LimitInv, NEW job \in Job, NEW e, NEW q, Prepare(job, e, q)
    PROVE  LimitInv'
  <1>1. /\ kind' = kind /\ UNCHANGED limits
        /\ \E c, s : op' = [job |-> job, phase |-> "apply", env |-> e, pol |-> q.policy[e],
                         todo |-> RunningContainers(s), goal |-> s.alloc,
                         prev |-> [f \in Env |-> Previous(q, f)], undo |-> <<>>,
                         base |-> limit, lost |-> {}, error |-> FALSE]
    BY DEF Prepare, machine
  <1>2. PICK s : op' = [job |-> job, phase |-> "apply", env |-> e, pol |-> q.policy[e],
                         todo |-> RunningContainers(s), goal |-> s.alloc,
                         prev |-> [f \in Env |-> Previous(q, f)], undo |-> <<>>,
                         base |-> limit, lost |-> {}, error |-> FALSE]
    BY <1>1
  <1>3. RunningContainers(s) \subseteq Env
    BY DEF RunningContainers, Is
  <1>4. op'.job = job /\ DOMAIN op' = Fields /\ op'.todo \subseteq Env /\ op'.undo = <<>> /\ op'.base = limit
    BY <1>2, <1>3 DEF Fields
  <1>5. Shape'
    BY <1>1, <1>4 DEF Shape, LimitInv, limits
  <1>6. CacheTruthful'
    BY <1>1, RecordKept DEF LimitInv
  <1>7. Accounted'
    BY <1>1, <1>4 DEF Accounted, limits
  <1> QED
    BY <1>5, <1>6, <1>7 DEF LimitInv

LEMMA ApplyNextLimits == LimitInv /\ ApplyNext => LimitInv'
  <1> SUFFICES ASSUME LimitInv, ApplyNext PROVE LimitInv'
    OBVIOUS
  <1>1. /\ op.job \in Job /\ DOMAIN op = Fields /\ op.todo \subseteq Env /\ op.undo \in Seq(Env)
        /\ DOMAIN limit = Env /\ DOMAIN cache = Env /\ kind' = kind
    BY DEF LimitInv, Shape, ApplyNext, Working, Job, machine
  <1>2. PICK f \in First(op.todo) :
           \/ Unchanged(f) /\ op' = [op EXCEPT !.todo = @ \ {f}] /\ UNCHANGED limits
           \/ /\ ~Unchanged(f)
              /\ Update(f, op.goal[f])
              /\ op' = [op EXCEPT !.todo = @ \ {f}, !.undo = Append(@, f)]
    BY DEF ApplyNext
  <1>3. f \in Env
    BY <1>1, <1>2 DEF First
  <1>4. CASE op' = [op EXCEPT !.todo = @ \ {f}] /\ UNCHANGED limits
    <2>1. /\ DOMAIN op' = Fields /\ op'.todo \subseteq Env /\ op'.undo = op.undo /\ op'.job = op.job
          /\ op'.lost = op.lost /\ op'.base = op.base /\ op'.prev = op.prev
      BY <1>1, <1>4 DEF Fields
    <2> QED
      BY <1>1, <1>4, <2>1, RecordKept DEF LimitInv, Shape, Accounted, limits, Containers
  <1>5. CASE Update(f, op.goal[f]) /\ op' = [op EXCEPT !.todo = @ \ {f}, !.undo = Append(@, f)]
    <2>1. /\ DOMAIN op' = Fields /\ op'.todo \subseteq Env /\ op'.undo = Append(op.undo, f)
          /\ op'.job = op.job /\ op'.lost = op.lost /\ op'.base = op.base /\ op'.prev = op.prev
      BY <1>1, <1>5 DEF Fields
    <2>2. /\ op'.undo \in Seq(Env) /\ Len(op'.undo) = Len(op.undo) + 1 /\ Len(op.undo) \in Nat
          /\ op'.undo[Len(op.undo) + 1] = f
          /\ \A i \in 1..Len(op.undo) : op'.undo[i] = op.undo[i]
      BY <1>1, <1>3, <2>1
    <2>3. /\ CacheTruthful' /\ DOMAIN limit' = Env /\ DOMAIN cache' = Env
          /\ \A g \in Env : g # f => limit'[g] = limit[g]
      BY <1>1, <1>5, RecordUpdated DEF LimitInv
    <2>4. Accounted'
      <3> SUFFICES ASSUME NEW e \in Containers'
                   PROVE \/ e \in op'.lost
                         \/ limit'[e] \in {op'.base[e], op'.prev[e]}
                         \/ \E i \in 1..Len(op'.undo) : op'.undo[i] = e
        BY DEF Accounted
      <3>1. e \in Containers /\ e \in Env
        BY <1>1 DEF Containers
      <3>2. CASE e = f
        BY <3>2, <2>2
      <3>3. CASE e # f
        <4>1. limit'[e] = limit[e]
          BY <3>1, <3>3, <2>3
        <4>2. \/ e \in op.lost
              \/ limit[e] \in {op.base[e], op.prev[e]}
              \/ \E i \in 1..Len(op.undo) : op.undo[i] = e
          BY <3>1, <1>1 DEF LimitInv, Accounted
        <4>3. ASSUME NEW i \in 1..Len(op.undo), op.undo[i] = e
              PROVE  \E j \in 1..Len(op'.undo) : op'.undo[j] = e
          BY <4>3, <2>2
        <4> QED
          BY <4>1, <4>2, <4>3, <2>1
      <3> QED
        BY <3>2, <3>3
    <2> QED
      BY <1>1, <2>1, <2>2, <2>3, <2>4 DEF LimitInv, Shape
  <1> QED
    BY <1>2, <1>4, <1>5

LEMMA ApplyFailsLimits == LimitInv /\ ApplyFails => LimitInv'
  <1> SUFFICES ASSUME LimitInv, ApplyFails PROVE LimitInv'
    OBVIOUS
  <1>1. /\ op.job \in Job /\ DOMAIN op = Fields /\ op.todo \subseteq Env /\ op.undo \in Seq(Env)
        /\ DOMAIN limit = Env /\ DOMAIN cache = Env /\ kind' = kind
    BY DEF LimitInv, Shape, ApplyFails, Working, Job, machine
  <1>2. PICK f \in First(op.todo) :
           /\ UpdateFails(f, op.goal[f])
           /\ op' = [op EXCEPT !.phase = "undo", !.lost = IF limit' = limit THEN @ ELSE @ \cup {f}]
    BY DEF ApplyFails
  <1>3. /\ DOMAIN op' = Fields /\ op'.todo = op.todo /\ op'.undo = op.undo /\ op'.job = op.job
        /\ op'.base = op.base /\ op'.prev = op.prev
        /\ op'.lost = IF limit' = limit THEN op.lost ELSE op.lost \cup {f}
    BY <1>1, <1>2 DEF Fields
  <1>4. /\ CacheTruthful' /\ DOMAIN limit' = Env /\ DOMAIN cache' = Env
        /\ \A g \in Env : g # f => limit'[g] = limit[g]
    BY <1>1, <1>2, RecordUpdated DEF LimitInv
  <1>5. Accounted'
    BY <1>1, <1>3, <1>4 DEF LimitInv, Accounted, Containers
  <1> QED
    BY <1>1, <1>3, <1>4, <1>5 DEF LimitInv, Shape

LEMMA UndoNextLimits == LimitInv /\ UndoNext => LimitInv'
  <1> SUFFICES ASSUME LimitInv, UndoNext PROVE LimitInv'
    OBVIOUS
  <1>1. /\ op.job \in Job /\ DOMAIN op = Fields /\ op.todo \subseteq Env /\ op.undo \in Seq(Env)
        /\ DOMAIN limit = Env /\ DOMAIN cache = Env /\ kind' = kind
    BY DEF LimitInv, Shape, UndoNext, Working, Job, machine
  <1> DEFINE n == Len(op.undo)
             f == op.undo[n]
  <1>2. /\ op.undo # <<>>
        /\ \/ Update(f, op.prev[f]) /\ op' = [op EXCEPT !.undo = Front(@)]
           \/ UpdateFails(f, op.prev[f]) /\ op' = [op EXCEPT !.undo = Front(@), !.lost = @ \cup {f}]
    BY DEF UndoNext, Last
  <1>3. /\ n \in Nat /\ n > 0 /\ f \in Env
        /\ Front(op.undo) \in Seq(Env) /\ Len(Front(op.undo)) = n - 1
        /\ \A i \in 1..(n - 1) : Front(op.undo)[i] = op.undo[i]
    BY <1>1, <1>2 DEF Front
  <1>4. /\ DOMAIN op' = Fields /\ op'.todo = op.todo /\ op'.undo = Front(op.undo) /\ op'.job = op.job
        /\ op'.base = op.base /\ op'.prev = op.prev
        /\ \/ Update(f, op.prev[f]) /\ op'.lost = op.lost
           \/ op'.lost = op.lost \cup {f}
    BY <1>1, <1>2 DEF Fields
  <1>5. /\ CacheTruthful' /\ DOMAIN limit' = Env /\ DOMAIN cache' = Env
        /\ \A g \in Env : g # f => limit'[g] = limit[g]
    BY <1>1, <1>2, RecordUpdated DEF LimitInv
  <1>6. Accounted'
    <2> SUFFICES ASSUME NEW e \in Containers'
                 PROVE \/ e \in op'.lost
                       \/ limit'[e] \in {op'.base[e], op'.prev[e]}
                       \/ \E i \in 1..Len(op'.undo) : op'.undo[i] = e
      BY DEF Accounted
    <2>1. e \in Containers /\ e \in Env
      BY <1>1 DEF Containers
    <2>2. CASE e = f
      <3>1. CASE Update(f, op.prev[f])
        BY <2>2, <3>1, <1>1, <1>3, <1>4 DEF Update
      <3>2. CASE op'.lost = op.lost \cup {f}
        BY <2>2, <3>2
      <3> QED
        BY <3>1, <3>2, <1>4
    <2>3. CASE e # f
      <3>1. limit'[e] = limit[e]
        BY <2>1, <2>3, <1>5
      <3>2. \/ e \in op.lost
            \/ limit[e] \in {op.base[e], op.prev[e]}
            \/ \E i \in 1..n : op.undo[i] = e
        BY <2>1, <1>1 DEF LimitInv, Accounted
      <3>3. ASSUME NEW i \in 1..n, op.undo[i] = e
            PROVE  \E j \in 1..Len(op'.undo) : op'.undo[j] = e
        <4>1. i # n
          BY <3>3, <2>3
        <4>2. i \in 1..(n - 1)
          BY <4>1, <1>3
        <4> QED
          BY <4>2, <3>3, <1>3, <1>4
      <3> QED
        BY <3>1, <3>2, <3>3, <1>4
    <2> QED
      BY <2>2, <2>3
  <1> QED
    BY <1>1, <1>3, <1>4, <1>5, <1>6 DEF LimitInv, Shape

LEMMA RefreshNextLimits == LimitInv /\ RefreshNext => LimitInv'
  <1> SUFFICES ASSUME LimitInv, RefreshNext PROVE LimitInv'
    OBVIOUS
  <1>1. /\ op.job = "refresh" /\ DOMAIN op = {"job", "todo", "goal", "exited"} /\ op.todo \subseteq Env
        /\ DOMAIN limit = Env /\ DOMAIN cache = Env /\ kind' = kind
    BY DEF LimitInv, Shape, RefreshNext, Refreshing, Job, machine
  <1>2. PICK f \in First(op.todo) :
          /\ \/ op' = [op EXCEPT !.todo = @ \ {f}]
             \/ op' = [op EXCEPT !.todo = @ \ {f}, !.exited = @ \cup {f}]
          /\ UNCHANGED limits \/ Update(f, op.goal[f]) \/ UpdateFails(f, op.goal[f])
    BY DEF RefreshNext
  <1>3. op'.job = "refresh" /\ DOMAIN op' = {"job", "todo", "goal", "exited"} /\ op'.todo \subseteq Env
    BY <1>1, <1>2
  <1>4. CASE UNCHANGED limits
    <2>1. CacheTruthful'
      BY <1>1, <1>4, RecordKept DEF LimitInv
    <2> QED
      BY <1>1, <1>3, <1>4, <2>1 DEF LimitInv, Shape, Accounted, limits, Job
  <1>5. CASE Update(f, op.goal[f]) \/ UpdateFails(f, op.goal[f])
    <2>1. CacheTruthful' /\ DOMAIN limit' = Env /\ DOMAIN cache' = Env
      BY <1>1, <1>5, RecordUpdated DEF LimitInv
    <2> QED
      BY <1>3, <2>1 DEF LimitInv, Shape, Accounted, Job
  <1> QED
    BY <1>2, <1>4, <1>5

\* Steps that end a job or begin a refresh, and leave the limits alone.
LEMMA FreshJobLimits ==
    ASSUME LimitInv, kind' = kind, UNCHANGED limits,
           \/ op' = Idle
           \/ /\ op'.job = "refresh" /\ DOMAIN op' = {"job", "todo", "goal", "exited"}
              /\ op'.todo \subseteq Env
    PROVE  LimitInv'
  <1>1. op'.job \notin Job
    BY DEF Idle, Job
  <1>2. CacheTruthful'
    BY RecordKept DEF LimitInv
  <1> QED
    BY <1>1, <1>2 DEF LimitInv, Shape, Accounted, limits

\* Steps of which only op.phase and op.error can be different afterwards.
LEMMA SameJobLimits ==
    ASSUME LimitInv, kind' = kind, UNCHANGED limits,
           \/ op' = op
           \/ op.job \in Job /\ op' = [op EXCEPT !.phase = "persist"]
           \/ op.job \in Job /\ op' = [op EXCEPT !.phase = "undo"]
           \/ op.job \in Job /\ op' = [op EXCEPT !.phase = "undo", !.error = TRUE]
    PROVE  LimitInv'
  <1>1. CacheTruthful'
    BY RecordKept DEF LimitInv
  <1>2. CASE op' = op
    BY <1>1, <1>2 DEF LimitInv, Shape, Accounted, limits, Containers
  <1>3. CASE op' # op
    <2>1. DOMAIN op = Fields /\ op.todo \subseteq Env /\ op.undo \in Seq(Env) /\ op.job \in Job
      BY <1>3 DEF LimitInv, Shape, Idle, Job
    <2>2. /\ DOMAIN op' = Fields /\ op'.todo = op.todo /\ op'.undo = op.undo /\ op'.job = op.job
          /\ op'.base = op.base /\ op'.prev = op.prev /\ op'.lost = op.lost
      BY <1>3, <2>1 DEF Fields
    <2> QED
      BY <1>1, <2>1, <2>2 DEF LimitInv, Shape, Accounted, limits, Containers
  <1> QED
    BY <1>2, <1>3

LEMMA StopLimits == ASSUME LimitInv, NEW e, Stop(e) PROVE LimitInv'
  <1>1. kind' = kind /\ op' = op /\ op = Idle /\ limit' = limit /\ doubt' = doubt
        /\ cache' = [cache EXCEPT ![e] = NoLimit]
    BY DEF Stop, machine
  <1>2. op'.job \notin Job
    BY <1>1 DEF Idle, Job
  <1>3. CacheTruthful'
    BY <1>1 DEF LimitInv, Shape, CacheTruthful, Containers
  <1> QED
    BY <1>1, <1>2, <1>3 DEF LimitInv, Shape, Accounted

LEMMA NextLimits == LimitInv /\ [Next]_vars => LimitInv'
  <1> SUFFICES ASSUME LimitInv, [Next]_vars PROVE LimitInv'
    OBVIOUS
  <1>1. ASSUME NEW e \in Env, StartBegins(e) PROVE LimitInv'
    BY <1>1, PrepareLimits DEF StartBegins, Job
  <1>2. ASSUME NEW e \in Env, NEW pol \in Policies, SaveBegins(e, pol) PROVE LimitInv'
    BY <1>2, PrepareLimits DEF SaveBegins, Job
  <1>3. ASSUME NEW e \in Env, Stop(e) PROVE LimitInv'
    BY <1>3, StopLimits
  <1>4. ASSUME NEW e \in Env,
               \/ Pause(e) \/ PowerFails(e) \/ MachineOn(e) \/ MachineOff(e)
               \/ MachinePause(e) \/ MachineLost(e)
        PROVE LimitInv'
    <2>1. kind' = kind /\ UNCHANGED limits /\ op' = op
      BY <1>4 DEF Pause, PowerFails, MachineOn, MachineOff, MachinePause, MachineLost, machine
    <2> QED
      BY <2>1, SameJobLimits
  <1>5. ASSUME NEW e \in Env, NEW pol \in Policies, SaveIdle(e, pol) \/ MachineSave(e, pol)
        PROVE LimitInv'
    <2>1. kind' = kind /\ UNCHANGED limits /\ op' = op
      BY <1>5 DEF SaveIdle, MachineSave, machine
    <2> QED
      BY <2>1, SameJobLimits
  <1>6. CASE RefreshBegins
    <2>1. kind' = kind /\ UNCHANGED limits
      BY <1>6 DEF RefreshBegins, machine
    <2>2. PICK s : op' = [job |-> "refresh", todo |-> RunningContainers(s),
                          goal |-> s.alloc, exited |-> {}]
      BY <1>6 DEF RefreshBegins
    <2>3. RunningContainers(s) \subseteq Env
      BY DEF RunningContainers, Is
    <2> QED
      BY <2>1, <2>2, <2>3, FreshJobLimits
  <1>7. CASE UndoEnds \/ Persist \/ RefreshEnds
    <2>1. kind' = kind /\ UNCHANGED limits /\ op' = Idle
      BY <1>7 DEF UndoEnds, Persist, RefreshEnds, machine
    <2> QED
      BY <2>1, FreshJobLimits
  <1>8. CASE Act \/ PersistFails
    <2>1. /\ kind' = kind /\ UNCHANGED limits /\ op.job \in Job
          /\ \/ op' = [op EXCEPT !.phase = "persist"]
             \/ op' = [op EXCEPT !.phase = "undo"]
             \/ op' = [op EXCEPT !.phase = "undo", !.error = TRUE]
      BY <1>8 DEF Act, PersistFails, Working, Job, machine
    <2> QED
      BY <2>1, SameJobLimits
  <1>9. CASE UNCHANGED vars
    <2>1. kind' = kind /\ UNCHANGED limits /\ op' = op
      BY <1>9 DEF vars, limits
    <2> QED
      BY <2>1, SameJobLimits
  <1> QED
    BY <1>1, <1>2, <1>3, <1>4, <1>5, <1>6, <1>7, <1>8, <1>9, ApplyNextLimits, ApplyFailsLimits,
       UndoNextLimits, RefreshNextLimits DEF Next, Holding

-----------------------------------------------------------------------------
\* The inductive invariant: the record of applied limits is true, and of every
\* container it is known whether its limit is still to be taken back.
THEOREM LimitInvariant == Spec => []LimitInv
  BY InitLimits, NextLimits, PTL DEF Spec

\* Whatever fails, a limit recorded as applied is the limit of the container,
\* unless a call had its effect and was reported as failed.
THEOREM RecordIsTrue == Spec => []CacheTruthful
  BY LimitInvariant, PTL DEF LimitInv

\* When a start or a save has given up, every container has the limit it had
\* before or its allocation, except where taking a limit back failed.
THEOREM GivingUpRestores == Spec => []RollbackRestores
  <1>1. LimitInv => RollbackRestores
    <2> SUFFICES ASSUME LimitInv, Working("undo"), op.undo = <<>>, NEW e \in Containers \ op.lost
                 PROVE  limit[e] \in {op.base[e], op.prev[e]}
      BY DEF RollbackRestores
    <2>1. op.job \in Job /\ Len(op.undo) = 0
      BY DEF Working, Job
    <2>2. ~ \E i \in 1..Len(op.undo) : op.undo[i] = e
      BY <2>1
    <2> QED
      BY <2>1, <2>2 DEF LimitInv, Accounted
  <1> QED
    BY LimitInvariant, <1>1, PTL

-----------------------------------------------------------------------------
(* Numbers, and sums over the environments.                                *)

\* The larger of two numbers.
LEMMA MaxIs == \A a, b \in Int : Max({a, b}) = IF a >= b THEN a ELSE b
  <1> SUFFICES ASSUME NEW a \in Int, NEW b \in Int
               PROVE  Max({a, b}) = IF a >= b THEN a ELSE b
    OBVIOUS
  <1> DEFINE m == IF a >= b THEN a ELSE b
  <1>1. m \in {a, b} /\ \A y \in {a, b} : m >= y
    OBVIOUS
  <1>2. \A x \in {a, b} : (\A y \in {a, b} : x >= y) => x = m
    OBVIOUS
  <1> HIDE DEF m
  <1>3. Max({a, b}) = m
    BY <1>1, <1>2 DEF Max
  <1> QED BY <1>3 DEF m

\* The smaller of two numbers.
LEMMA MinIs == \A a, b \in Int : Min({a, b}) = IF a <= b THEN a ELSE b
  <1> SUFFICES ASSUME NEW a \in Int, NEW b \in Int
               PROVE  Min({a, b}) = IF a <= b THEN a ELSE b
    OBVIOUS
  <1> DEFINE m == IF a <= b THEN a ELSE b
  <1>1. m \in {a, b} /\ \A y \in {a, b} : m <= y
    OBVIOUS
  <1>2. \A x \in {a, b} : (\A y \in {a, b} : x <= y) => x = m
    OBVIOUS
  <1> HIDE DEF m
  <1>3. Min({a, b}) = m
    BY <1>1, <1>2 DEF Min
  <1> QED BY <1>3 DEF m

\* < as a relation.
Less == {p \in Nat \X Nat : p[1] < p[2]}

\* A set of natural numbers that is not empty has a least element.
LEMMA LeastExists ==
    ASSUME NEW T \in SUBSET Nat, T # {}
    PROVE  \E x \in T : \A y \in T : x <= y
  <1>1. OpToRel(<,Nat) = Less
    BY Zenon DEF OpToRel, Less
  <1>2. IsWellFoundedOn(Less, Nat)
    BY <1>1, NatLessThanWellFounded, Zenon
  <1>3. PICK x \in T : \A y \in T : ~(<<y, x>> \in Less)
    BY <1>2, WFMin
  <1>4. ASSUME NEW y \in T PROVE x <= y
    <2>1. ~(<<y, x>> \in Less)
      BY <1>3
    <2> QED BY <2>1 DEF Less
  <1> QED BY <1>4

\* A set of natural numbers below a bound, not empty, has a greatest element.
LEMMA GreatestExists ==
    ASSUME NEW n \in Nat, NEW T \in SUBSET (0..n), T # {}
    PROVE  \E x \in T : \A y \in T : x >= y
  <1> DEFINE U == {n - x : x \in T}
  <1>1. U \in SUBSET Nat /\ U # {}
    <2>1. \A x \in T : n - x \in Nat
      OBVIOUS
    <2> QED BY <2>1
  <1>2. PICK u \in U : \A v \in U : u <= v
    BY <1>1, LeastExists
  <1>3. PICK x \in T : u = n - x
    OBVIOUS
  <1>4. ASSUME NEW y \in T PROVE x >= y
    <2>1. u <= n - y
      BY <1>2
    <2> QED BY <2>1, <1>3
  <1> QED BY <1>4

\* What environment n adds to a sum over S.
Part(f, S, n) == IF n \in S THEN f[n] ELSE 0

\* A sum over the environments is reached by adding one of them at a time: the
\* recursive function in SumOver exists and its values are integers.
LEMMA SumIs ==
    ASSUME NEW f, NEW S, \A n \in Env : Part(f, S, n) \in Int
    PROVE  \E g \in [0..N -> Int] :
              /\ g[0] = 0 /\ \A n \in Env : g[n] = g[n - 1] + Part(f, S, n)
              /\ SumOver(f, S) = g[N]
  <1> DEFINE Rec(g, m) == g = [n \in 0..m |-> IF n = 0 THEN 0 ELSE g[n - 1] + Part(f, S, n)]
             bad == {m \in 0..N : ~ \E g : Rec(g, m)}
  <1>1. bad = {}
    <2> SUFFICES ASSUME bad # {} PROVE FALSE
      OBVIOUS
    <2>1. PICK m \in bad : \A k \in bad : m <= k
      <3>1. bad \in SUBSET Nat
        BY NAssumption
      <3> HIDE DEF bad
      <3> QED BY <3>1, LeastExists
    <2>2. m # 0
      <3> DEFINE g == [n \in 0..0 |-> 0]
      <3>1. Rec(g, 0)
        OBVIOUS
      <3> QED BY <3>1, <2>1
    <2>3. m - 1 \in 0..N /\ m - 1 \notin bad
      BY <2>1, <2>2, NAssumption
    <2>4. PICK g : Rec(g, m - 1)
      BY <2>3
    <2> DEFINE h == [n \in 0..m |-> IF n = 0 THEN 0 ELSE g[n - 1] + Part(f, S, n)]
    <2>5. \A n \in 0..(m - 1) : h[n] = g[n]
      BY <2>4, <2>3
    <2>6. \A n \in 0..m : n # 0 => n - 1 \in 0..(m - 1)
      BY <2>1, NAssumption
    <2>7. Rec(h, m)
      <3>1. \A n \in 0..m : (IF n = 0 THEN 0 ELSE g[n - 1] + Part(f, S, n))
                            = (IF n = 0 THEN 0 ELSE h[n - 1] + Part(f, S, n))
        <4> HIDE DEF h
        <4> QED BY <2>5, <2>6
      <3> QED BY <3>1
    <2> QED BY <2>7, <2>1
  <1>2. N \in 0..N /\ N \in Nat
    BY NAssumption
  <1>3. \E g : Rec(g, N)
    BY <1>1, <1>2
  <1> DEFINE s == CHOOSE g : Rec(g, N)
  <1>4. Rec(s, N) /\ SumOver(f, S) = s[N]
    BY <1>3 DEF SumOver, Part
  <1> HIDE DEF s
  <1>5. s[0] = 0 /\ \A n \in Env : s[n] = s[n - 1] + Part(f, S, n)
    BY <1>4, <1>2 DEF Env
  <1>6. \A n \in 0..N : s[n] \in Int
    <2> DEFINE odd == {n \in 0..N : s[n] \notin Int}
    <2> SUFFICES ASSUME odd # {} PROVE FALSE
      OBVIOUS
    <2>1. PICK m \in odd : \A k \in odd : m <= k
      <3>1. odd \in SUBSET Nat
        BY <1>2
      <3> HIDE DEF odd
      <3> QED BY <3>1, LeastExists
    <2>2. m \in Env /\ m - 1 \in 0..N /\ m - 1 \notin odd
      BY <2>1, <1>5, <1>2 DEF Env
    <2> QED BY <2>1, <2>2, <1>5
  <1>7. s \in [0..N -> Int]
    BY <1>4, <1>6
  <1> QED BY <1>4, <1>5, <1>7

\* Induction with a set in the place of the predicate.
LEMMA NatInd ==
    ASSUME NEW T, 0 \in T, \A n \in Nat : n \in T => n + 1 \in T
    PROVE  \A n \in Nat : n \in T
  <1> DEFINE bad == {n \in Nat : n \notin T}
  <1> SUFFICES ASSUME bad # {} PROVE FALSE
    OBVIOUS
  <1>1. PICK m \in bad : \A k \in bad : m <= k
    <2>1. bad \in SUBSET Nat
      OBVIOUS
    <2> HIDE DEF bad
    <2> QED BY <2>1, LeastExists
  <1>2. m \in Nat /\ m # 0 /\ m - 1 \in Nat /\ m - 1 \notin bad
    BY <1>1
  <1>3. m - 1 + 1 = m
    BY <1>2
  <1> QED BY <1>1, <1>2, <1>3

\* Sums compare as their parts do, of two sums on each side.
LEMMA SumFour ==
    ASSUME NEW a, NEW A, NEW b, NEW B, NEW c, NEW C, NEW d, NEW D,
           \A n \in Env : /\ Part(a, A, n) \in Int /\ Part(b, B, n) \in Int
                          /\ Part(c, C, n) \in Int /\ Part(d, D, n) \in Int
                          /\ Part(a, A, n) + Part(d, D, n) <= Part(c, C, n) + Part(b, B, n)
    PROVE  /\ SumOver(a, A) \in Int /\ SumOver(b, B) \in Int
           /\ SumOver(c, C) \in Int /\ SumOver(d, D) \in Int
           /\ SumOver(a, A) + SumOver(d, D) <= SumOver(c, C) + SumOver(b, B)
  <1>1. PICK s \in [0..N -> Int] : /\ s[0] = 0 /\ \A n \in Env : s[n] = s[n - 1] + Part(a, A, n)
                                   /\ SumOver(a, A) = s[N]
    BY SumIs
  <1>2. PICK t \in [0..N -> Int] : /\ t[0] = 0 /\ \A n \in Env : t[n] = t[n - 1] + Part(b, B, n)
                                   /\ SumOver(b, B) = t[N]
    BY SumIs
  <1>3. PICK u \in [0..N -> Int] : /\ u[0] = 0 /\ \A n \in Env : u[n] = u[n - 1] + Part(c, C, n)
                                   /\ SumOver(c, C) = u[N]
    BY SumIs
  <1>4. PICK v \in [0..N -> Int] : /\ v[0] = 0 /\ \A n \in Env : v[n] = v[n - 1] + Part(d, D, n)
                                   /\ SumOver(d, D) = v[N]
    BY SumIs
  <1> DEFINE T == {n \in Nat : n \in 0..N => s[n] + v[n] <= u[n] + t[n]}
  <1>5. 0 \in T
    BY <1>1, <1>2, <1>3, <1>4
  <1>6. ASSUME NEW n \in Nat, n \in T PROVE n + 1 \in T
    <2> SUFFICES ASSUME n + 1 \in 0..N PROVE s[n + 1] + v[n + 1] <= u[n + 1] + t[n + 1]
      OBVIOUS
    <2>1. n \in 0..N /\ n + 1 \in Env /\ (n + 1) - 1 = n
      BY NAssumption DEF Env
    <2>2. /\ s[n + 1] = s[n] + Part(a, A, n + 1) /\ t[n + 1] = t[n] + Part(b, B, n + 1)
          /\ u[n + 1] = u[n] + Part(c, C, n + 1) /\ v[n + 1] = v[n] + Part(d, D, n + 1)
      BY <2>1, <1>1, <1>2, <1>3, <1>4
    <2>3. s[n] + v[n] <= u[n] + t[n]
      BY <1>6, <2>1
    <2>4. s[n] \in Int /\ t[n] \in Int /\ u[n] \in Int /\ v[n] \in Int
      BY <2>1
    <2>5. /\ Part(a, A, n + 1) \in Int /\ Part(b, B, n + 1) \in Int
          /\ Part(c, C, n + 1) \in Int /\ Part(d, D, n + 1) \in Int
          /\ Part(a, A, n + 1) + Part(d, D, n + 1) <= Part(c, C, n + 1) + Part(b, B, n + 1)
      BY <2>1
    <2> HIDE DEF T
    <2>6. (s[n] + Part(a, A, n + 1)) + (v[n] + Part(d, D, n + 1))
            <= (u[n] + Part(c, C, n + 1)) + (t[n] + Part(b, B, n + 1))
      <3>1. \A i, j, k, l, w, x, y, z \in Int :
              i + l <= k + j /\ w + z <= y + x => (i + w) + (l + z) <= (k + y) + (j + x)
        OBVIOUS
      <3> QED BY <2>3, <2>4, <2>5, <3>1, Zenon
    <2> QED BY <2>2, <2>6, Zenon
  <1> HIDE DEF T
  <1>7. N \in T
    BY <1>5, <1>6, NatInd, NAssumption
  <1>8. N \in 0..N
    BY NAssumption
  <1> QED BY <1>7, <1>8, <1>1, <1>2, <1>3, <1>4 DEF T

\* A sum is at most another when each of its parts is.
LEMMA SumMono ==
    ASSUME NEW a, NEW A, NEW c, NEW C,
           \A n \in Env : /\ Part(a, A, n) \in Int /\ Part(c, C, n) \in Int
                          /\ Part(a, A, n) <= Part(c, C, n)
    PROVE  SumOver(a, A) \in Int /\ SumOver(c, C) \in Int /\ SumOver(a, A) <= SumOver(c, C)
  <1>1. \A n \in Env : Part(a, {}, n) = 0
    BY DEF Part
  <1>2. /\ SumOver(a, A) \in Int /\ SumOver(c, C) \in Int /\ SumOver(a, {}) \in Int
        /\ SumOver(a, A) + SumOver(a, {}) <= SumOver(c, C) + SumOver(a, {})
    <2>1. \A n \in Env : /\ Part(a, A, n) \in Int /\ Part(a, {}, n) \in Int
                         /\ Part(c, C, n) \in Int
                         /\ Part(a, A, n) + Part(a, {}, n) <= Part(c, C, n) + Part(a, {}, n)
      BY <1>1
    <2> QED BY <2>1, SumFour
  <1> QED BY <1>2

\* Sums with the same parts are the same.
LEMMA SumSame ==
    ASSUME NEW a, NEW A, NEW c, NEW C,
           \A n \in Env : Part(a, A, n) \in Int /\ Part(a, A, n) = Part(c, C, n)
    PROVE  SumOver(a, A) \in Int /\ SumOver(a, A) = SumOver(c, C)
  <1>1. SumOver(a, A) \in Int /\ SumOver(c, C) \in Int /\ SumOver(a, A) <= SumOver(c, C)
    BY SumMono
  <1>2. SumOver(c, C) <= SumOver(a, A)
    BY SumMono
  <1> QED BY <1>1, <1>2

\* A sum of which one part changes.
LEMMA SumUpdate ==
    ASSUME NEW f, NEW S, NEW e \in Env, NEW x \in Int, DOMAIN f = Env,
           \A n \in Env : f[n] \in Int
    PROVE  SumOver([f EXCEPT ![e] = x], S) = SumOver(f, S) + (IF e \in S THEN x - f[e] ELSE 0)
  <1> DEFINE h == [f EXCEPT ![e] = x]
             one == [n \in Env |-> IF n = e THEN (IF e \in S THEN x - f[e] ELSE 0) ELSE 0]
             y == IF e \in S THEN x - f[e] ELSE 0
  <1>1. \A n \in Env : /\ Part(h, S, n) \in Int /\ Part(f, S, n) \in Int /\ Part(one, Env, n) \in Int
                       /\ Part(h, S, n) = Part(f, S, n) + Part(one, Env, n) /\ Part(one, {}, n) = 0
    BY DEF Part
  <1>2. y \in Int /\ \A n \in Env : Part(one, Env, n) = IF n = e THEN y ELSE 0
    BY DEF Part
  <1> HIDE DEF h, one, y
  <1>3. SumOver(h, S) = SumOver(f, S) + SumOver(one, Env)
    <2>1. /\ SumOver(h, S) \in Int /\ SumOver(f, S) \in Int /\ SumOver(one, Env) \in Int /\ SumOver(one, {}) \in Int
          /\ SumOver(h, S) + SumOver(one, {}) <= SumOver(f, S) + SumOver(one, Env)
      <3>1. \A n \in Env : Part(h, S, n) + Part(one, {}, n) <= Part(f, S, n) + Part(one, Env, n)
        BY <1>1
      <3> HIDE DEF h, one
      <3>2. \A n \in Env : Part(one, {}, n) \in Int
        BY <1>1
      <3> QED BY <3>1, <3>2, <1>1, SumFour
    <2>2. SumOver(f, S) + SumOver(one, Env) <= SumOver(h, S) + SumOver(one, {})
      <3>1. \A n \in Env : Part(f, S, n) + Part(one, Env, n) <= Part(h, S, n) + Part(one, {}, n)
        BY <1>1
      <3>2. \A n \in Env : Part(one, {}, n) \in Int
        BY <1>1
      <3>3. SumOver(f, S) + SumOver(one, Env) <= SumOver(h, S) + SumOver(one, {})
        BY <3>1, <3>2, <1>1, SumFour
      <3> QED BY <3>3
    <2>3. SumOver(one, {}) = 0
      <3>1. PICK g \in [0..N -> Int] : /\ g[0] = 0 /\ \A n \in Env : g[n] = g[n - 1] + Part(one, {}, n)
                                       /\ SumOver(one, {}) = g[N]
        BY <1>1, SumIs
      <3> DEFINE T == {n \in Nat : n \in 0..N => g[n] = 0}
      <3>2. 0 \in T
        BY <3>1
      <3>3. ASSUME NEW n \in Nat, n \in T PROVE n + 1 \in T
        <4> SUFFICES ASSUME n + 1 \in 0..N PROVE g[n + 1] = 0
          OBVIOUS
        <4>1. n \in 0..N /\ n + 1 \in Env /\ (n + 1) - 1 = n
          BY NAssumption DEF Env
        <4>2. g[n + 1] = g[n] + Part(one, {}, n + 1) /\ Part(one, {}, n + 1) = 0 /\ g[n] = 0
          BY <4>1, <3>1, <1>1, <3>3
        <4> QED BY <4>2
      <3> HIDE DEF T
      <3>4. N \in T
        BY <3>2, <3>3, NatInd, NAssumption
      <3> QED BY <3>4, <3>1, NAssumption DEF T
    <2> QED BY <2>1, <2>2, <2>3
  <1>4. SumOver(one, Env) = y
    <2>1. PICK g \in [0..N -> Int] : /\ g[0] = 0 /\ \A n \in Env : g[n] = g[n - 1] + Part(one, Env, n)
                                     /\ SumOver(one, Env) = g[N]
      BY <1>1, SumIs
    <2> DEFINE T == {n \in Nat : n \in 0..N => g[n] = IF n >= e THEN y ELSE 0}
    <2>2. 0 \in T
      BY <2>1 DEF Env
    <2>3. ASSUME NEW n \in Nat, n \in T PROVE n + 1 \in T
      <3> SUFFICES ASSUME n + 1 \in 0..N PROVE g[n + 1] = IF n + 1 >= e THEN y ELSE 0
        OBVIOUS
      <3>1. n \in 0..N /\ n + 1 \in Env /\ (n + 1) - 1 = n /\ e \in Int
        BY NAssumption DEF Env
      <3>2. /\ g[n + 1] = g[n] + Part(one, Env, n + 1)
            /\ Part(one, Env, n + 1) = (IF n + 1 = e THEN y ELSE 0)
            /\ g[n] = (IF n >= e THEN y ELSE 0)
        BY <3>1, <2>1, <1>2, <2>3
      <3> QED BY <3>1, <3>2, <1>2
    <2> HIDE DEF T
    <2>4. N \in T
      BY <2>2, <2>3, NatInd, NAssumption
    <2> QED BY <2>4, <2>1, NAssumption DEF T, Env
  <1> QED BY <1>3, <1>4 DEF h, y

-----------------------------------------------------------------------------
(* The order of the turns, and the two recursions over it.                 *)

\* Priorities can be compared.
Ranked(p) == \A e \in Env : p.policy[e].priority \in Nat

\* Latest is the one of the set whose turn comes after every other's.
LEMMA LatestIs ==
    ASSUME NEW p, Ranked(p), NEW S \in SUBSET Env, S # {}
    PROVE  Latest(p, S) \in S /\ \A f \in S \ {Latest(p, S)} : Before(p, f, Latest(p, S))
  <1> DEFINE pri(e) == p.policy[e].priority
             T == {pri(e) : e \in S}
  <1>1. T \in SUBSET Nat /\ T # {}
    BY DEF Ranked
  <1>2. PICK t \in T : \A u \in T : t <= u
    <2> HIDE DEF T
    <2> QED BY <1>1, LeastExists
  <1> DEFINE L == {e \in S : pri(e) = t}
  <1>3. L \in SUBSET (0..N) /\ L # {} /\ N \in Nat
    <2>1. \A e \in S : e \in 0..N
      BY NAssumption DEF Env
    <2>2. PICK e \in S : t = pri(e)
      BY <1>2
    <2> QED BY <2>1, <2>2, NAssumption
  <1>4. PICK x \in L : \A y \in L : x >= y
    <2> HIDE DEF L
    <2> QED BY <1>3, GreatestExists
  <1>5. ASSUME NEW f \in S \ {x} PROVE Before(p, f, x)
    <2>1. pri(f) \in Nat /\ pri(x) = t /\ t <= pri(f) /\ t \in Nat
      BY <1>1, <1>2, <1>4 DEF Ranked
    <2>2. CASE pri(f) = t
      <3>1. f \in L /\ f # x /\ f \in Int /\ x \in Int
        BY <2>2 DEF Env
      <3>2. f < x
        BY <3>1, <1>4
      <3> QED BY <3>2, <2>1, <2>2 DEF Before
    <2>3. CASE pri(f) # t
      BY <2>1, <2>3 DEF Before
    <2> QED BY <2>2, <2>3
  <1>6. x \in S /\ \A f \in S \ {x} : Before(p, f, x)
    BY <1>5
  <1> QED BY <1>6 DEF Latest

\* Sets of environments are finite.
LEMMA EnvFinite == IsFiniteSet(Env) /\ \A S \in SUBSET Env : IsFiniteSet(S) /\ Cardinality(S) \in Nat
  <1>1. IsFiniteSet(Env)
    BY FS_Interval, NAssumption DEF Env
  <1> QED BY <1>1, FS_Subset, FS_CardinalityType

\* Induction over the sets of environments, each without the one served last.
LEMMA LatestInd ==
    ASSUME NEW p, Ranked(p), NEW R \in SUBSET Env, NEW T, {} \in T,
           \A U \in SUBSET R : (U # {} /\ U \ {Latest(p, U)} \in T) => U \in T
    PROVE  R \in T
  <1> DEFINE A == {n \in Nat : \A U \in SUBSET R : Cardinality(U) = n => U \in T}
  <1>1. 0 \in A
    <2>1. ASSUME NEW U \in SUBSET R, Cardinality(U) = 0 PROVE U \in T
      <3>1. U = {}
        BY <2>1, EnvFinite, FS_EmptySet
      <3> QED BY <3>1
    <2> QED BY <2>1
  <1>2. ASSUME NEW n \in Nat, n \in A PROVE n + 1 \in A
    <2> SUFFICES ASSUME NEW U \in SUBSET R, Cardinality(U) = n + 1 PROVE U \in T
      OBVIOUS
    <2>1. IsFiniteSet(U) /\ U \in SUBSET Env
      BY EnvFinite
    <2>2. U # {}
      <3> SUFFICES ASSUME U = {} PROVE FALSE
        OBVIOUS
      <3>1. Cardinality(U) = 0
        BY FS_EmptySet
      <3> QED BY <3>1
    <2>3. Latest(p, U) \in U
      BY <2>1, <2>2, LatestIs
    <2>4. Cardinality(U \ {Latest(p, U)}) = Cardinality(U) - 1
      BY <2>1, <2>3, FS_RemoveElement
    <2>5. Cardinality(U \ {Latest(p, U)}) = n
      BY <2>4
    <2>6. U \ {Latest(p, U)} \in T
      BY <2>5, <1>2
    <2> QED BY <2>2, <2>6
  <1> HIDE DEF A
  <1>3. Cardinality(R) \in Nat
    BY EnvFinite
  <1>4. Cardinality(R) \in A
    BY <1>1, <1>2, <1>3, NatInd
  <1> QED BY <1>4 DEF A

\* The scheduler and the CUDA pool hand out in the same way: a beginning, and a
\* turn for each environment.
Begin(cuda, p, r) == IF cuda THEN CudaStart(p, r) ELSE Start(p, r)
Turned(cuda, p, r, acc, e) == IF cuda THEN CudaServe(p, r, acc, e) ELSE Serve(p, r, acc, e)

\* g says what follows from serving each set of environments in its order.
Serving(cuda, p, r, R, g) ==
    g = [S \in SUBSET R |-> IF S = {} THEN Begin(cuda, p, r)
                            ELSE Turned(cuda, p, r, g[S \ {Latest(p, S)}], Latest(p, S))]

\* The recursion over the sets of environments is well founded: there is a
\* function that satisfies it, whatever one turn does.
LEMMA ServedExists ==
    ASSUME NEW cuda, NEW p, NEW r, Ranked(p), NEW R \in SUBSET Env
    PROVE  \E g : Serving(cuda, p, r, R, g)
  <1> DEFINE Body(g, S) == IF S = {} THEN Begin(cuda, p, r)
                           ELSE Turned(cuda, p, r, g[S \ {Latest(p, S)}], Latest(p, S))
             Up(n) == {S \in SUBSET R : Cardinality(S) <= n}
             T == {n \in Nat : \E g : g = [S \in Up(n) |-> Body(g, S)]}
  <1>1. \A S \in SUBSET R : /\ IsFiniteSet(S) /\ Cardinality(S) \in Nat
                            /\ Cardinality(S) = 0 => S = {}
                            /\ S # {} => /\ Latest(p, S) \in S
                                         /\ Cardinality(S \ {Latest(p, S)}) = Cardinality(S) - 1
    <2> SUFFICES ASSUME NEW S \in SUBSET R
                 PROVE  /\ IsFiniteSet(S) /\ Cardinality(S) \in Nat
                        /\ Cardinality(S) = 0 => S = {}
                        /\ S # {} => /\ Latest(p, S) \in S
                                     /\ Cardinality(S \ {Latest(p, S)}) = Cardinality(S) - 1
      OBVIOUS
    <2>1. IsFiniteSet(S) /\ Cardinality(S) \in Nat
      BY EnvFinite
    <2>2. Cardinality(S) = 0 => S = {}
      BY <2>1, FS_EmptySet
    <2>3. S # {} => Latest(p, S) \in S
      BY LatestIs
    <2>4. S # {} => Cardinality(S \ {Latest(p, S)}) = Cardinality(S) - 1
      BY <2>1, <2>3, FS_RemoveElement
    <2> QED BY <2>1, <2>2, <2>3, <2>4
  <1>2. 0 \in T
    <2> DEFINE g == [S \in Up(0) |-> Begin(cuda, p, r)]
    <2>1. ASSUME NEW S \in Up(0) PROVE S = {}
      <3>1. S \in SUBSET R /\ Cardinality(S) <= 0
        OBVIOUS
      <3>2. Cardinality(S) \in Nat /\ (Cardinality(S) = 0 => S = {})
        BY <1>1, <3>1
      <3> QED BY <3>1, <3>2
    <2>2. g = [S \in Up(0) |-> Body(g, S)]
      <3>1. \A S \in Up(0) : Body(g, S) = Begin(cuda, p, r)
        BY <2>1
      <3> HIDE DEF Body, Up
      <3> QED BY <3>1
    <2> HIDE DEF g, Body, Up
    <2> QED BY <2>2
  <1>3. ASSUME NEW n \in Nat, n \in T PROVE n + 1 \in T
    <2>1. PICK g : g = [S \in Up(n) |-> Body(g, S)]
      BY <1>3
    <2> DEFINE h == [S \in Up(n + 1) |-> Body(g, S)]
    <2>2. \A S \in Up(n) : S \in Up(n + 1) /\ h[S] = g[S]
      <3>1. ASSUME NEW S \in Up(n) PROVE S \in Up(n + 1)
        <4>1. S \in SUBSET R /\ Cardinality(S) <= n
          OBVIOUS
        <4>2. Cardinality(S) \in Nat
          BY <1>1, <4>1
        <4>3. Cardinality(S) <= n + 1
          BY <4>1, <4>2
        <4> QED BY <4>1, <4>3
      <3> HIDE DEF Body, Up
      <3>2. \A S \in Up(n) : g[S] = Body(g, S)
        BY <2>1
      <3> QED BY <3>1, <3>2
    <2>3. ASSUME NEW S \in Up(n + 1), S # {} PROVE S \ {Latest(p, S)} \in Up(n)
      <3> DEFINE V == S \ {Latest(p, S)}
      <3>1. S \in SUBSET R /\ Cardinality(S) <= n + 1
        OBVIOUS
      <3>2. Cardinality(S) \in Nat /\ Cardinality(V) = Cardinality(S) - 1
        BY <1>1, <3>1, <2>3
      <3>3. V \in SUBSET R
        BY <3>1
      <3> HIDE DEF V
      <3>4. Cardinality(V) <= n
        BY <3>1, <3>2
      <3>5. V \in Up(n)
        BY <3>3, <3>4
      <3> QED BY <3>5 DEF V
    <2> HIDE DEF Up
    <2>4. \A S \in Up(n + 1) : Body(h, S) = Body(g, S)
      <3> HIDE DEF h
      <3> QED BY <2>2, <2>3
    <2>5. h = [S \in Up(n + 1) |-> Body(h, S)]
      <3>1. h = [S \in Up(n + 1) |-> Body(g, S)]
        OBVIOUS
      <3> HIDE DEF h, Body
      <3> QED BY <3>1, <2>4
    <2> HIDE DEF h, Body
    <2> QED BY <2>5
  <1> HIDE DEF T
  <1>4. Cardinality(R) \in T
    <2>1. Cardinality(R) \in Nat
      BY <1>1
    <2> QED BY <2>1, <1>2, <1>3, NatInd
  <1>5. Up(Cardinality(R)) = SUBSET R
    <2>1. \A S \in SUBSET R : Cardinality(S) <= Cardinality(R)
      BY <1>1, FS_Subset
    <2> QED BY <2>1
  <1>6. PICK g : g = [S \in Up(Cardinality(R)) |-> Body(g, S)]
    BY <1>4 DEF T
  <1>7. g = [S \in SUBSET R |-> Body(g, S)]
    <2> HIDE DEF Body, Up
    <2> QED BY <1>5, <1>6
  <1> QED BY <1>7 DEF Serving

\* The two recursions, unfolded.
LEMMA ScheduleIs ==
    ASSUME NEW p, NEW r, Ranked(p)
    PROVE  \E g : /\ g[{}] = Start(p, r)
                  /\ \A S \in SUBSET Is(p, {"running"}) :
                       S # {} => g[S] = Serve(p, r, g[S \ {Latest(p, S)}], Latest(p, S))
                  /\ ScheduleResource(p, r) = g[Is(p, {"running"})].current
  <1> DEFINE R == Is(p, {"running"})
             after == CHOOSE g : Serving(FALSE, p, r, R, g)
  <1>1. R \in SUBSET Env
    BY DEF Is
  <1>2. Serving(FALSE, p, r, R, after)
    BY <1>1, ServedExists
  <1>3. ScheduleResource(p, r) = after[R].current
    BY DEF ScheduleResource, Serving, Begin, Turned
  <1> HIDE DEF after
  <1>4. /\ after[{}] = Start(p, r)
        /\ \A S \in SUBSET R : S # {} => after[S] = Serve(p, r, after[S \ {Latest(p, S)}], Latest(p, S))
    BY <1>2 DEF Serving, Begin, Turned
  <1> QED BY <1>3, <1>4

\* The recursion of the CUDA pool, unfolded.
LEMMA CudaIs ==
    ASSUME NEW p, NEW r, Ranked(p)
    PROVE  \E g : /\ g[{}] = CudaStart(p, r)
                  /\ \A S \in SUBSET CudaRunning(p) :
                       S # {} => g[S] = CudaServe(p, r, g[S \ {Latest(p, S)}], Latest(p, S))
                  /\ LimitCudaResource(p, r) = g[CudaRunning(p)].current
  <1> DEFINE R == CudaRunning(p)
             after == CHOOSE g : Serving(TRUE, p, r, R, g)
  <1>1. R \in SUBSET Env
    BY DEF Is, CudaRunning
  <1>2. Serving(TRUE, p, r, R, after)
    BY <1>1, ServedExists
  <1>3. LimitCudaResource(p, r) = after[R].current
    BY DEF LimitCudaResource, Serving, Begin, Turned
  <1> HIDE DEF after
  <1>4. /\ after[{}] = CudaStart(p, r)
        /\ \A S \in SUBSET R : S # {} => after[S] = CudaServe(p, r, after[S \ {Latest(p, S)}], Latest(p, S))
    BY <1>2 DEF Serving, Begin, Turned
  <1> QED BY <1>3, <1>4

-----------------------------------------------------------------------------
(* Policies, targets and floors.                                           *)

\* The types of a state of the platform.
Typed(p) ==
    /\ p.kind \in [Env -> Kind] /\ p.macos \in BOOLEAN
    /\ p.status \in [Env -> Status]
    /\ p.policy \in [Env -> Policies]
    /\ p.alloc \in [Env -> [Res -> Nat]]
    /\ p.pressure \in Pressure

\* max(0.0) of the source.
LEMMA PositiveIs == \A v \in Int : Positive(v) = IF v >= 0 THEN v ELSE 0
  BY MaxIs DEF Positive

\* clamp of the source, for bounds in their order.
LEMMA ClampIs ==
    ASSUME NEW v \in Int, NEW lo \in Int, NEW hi \in Int, lo <= hi
    PROVE  Clamp(v, lo, hi) = IF v < lo THEN lo ELSE IF v > hi THEN hi ELSE v
  <1>1. Max({v, lo}) = IF v >= lo THEN v ELSE lo
    BY MaxIs
  <1>2. Min({Max({v, lo}), hi}) = IF Max({v, lo}) <= hi THEN Max({v, lo}) ELSE hi
    BY <1>1, MinIs
  <1> QED BY <1>1, <1>2 DEF Clamp

\* Of every policy of the platform, the priority is one of the four and the
\* ranges are valid.
LEMMA PolicyIs ==
    ASSUME NEW p, Typed(p)
    PROVE  Ranked(p) /\ \A e \in Env : /\ p.policy[e].priority \in Priority
                                       /\ \A r \in Res : ValidRange(p.policy[e][r])
  BY PolicyAssumption DEF Typed, Ranked, Priority

\* The weight of a priority is a number of thousandths.
LEMMA WeightIs == \A k \in Priority : Weight(k) \in Nat
  <1> SUFFICES ASSUME NEW k \in Priority PROVE Weight(k) \in Nat
    OBVIOUS
  <1>1. k = 0 \/ k = 1 \/ k = 2 \/ k = 3
    BY DEF Priority
  <1> QED BY <1>1 DEF Weight

\* A share of a number, rounded down, is a number.
LEMMA ScaledIs == \A v, n \in Int, d \in Nat \ {0} : Scaled(v, n, d) \in Int
  <1> SUFFICES ASSUME NEW v \in Int, NEW n \in Int, NEW d \in Nat \ {0} PROVE Scaled(v, n, d) \in Int
    OBVIOUS
  <1> DEFINE x == v * n
  <1>1. x \in Int
    OBVIOUS
  <1> HIDE DEF x
  <1>2. x \div d \in Int
    BY <1>1
  <1> QED BY <1>2 DEF Scaled, x

\* What an environment would be given with room for all lies within its policy.
LEMMA TargetIs ==
    ASSUME NEW p, Typed(p), NEW r \in Res, NEW e \in Env
    PROVE  /\ Target(p, r, e) \in Int
           /\ p.policy[e][r].min <= Target(p, r, e) /\ Target(p, r, e) <= p.policy[e][r].max
  <1> DEFINE range == p.policy[e][r]
             w == Weight(p.policy[e].priority)
  <1>1. ValidRange(range) /\ w \in Int /\ p.pressure \in Pressure
    BY PolicyIs, WeightIs DEF Typed
  <1> HIDE DEF range, w
  <1>2. range.min \in Int /\ range.pref \in Int /\ range.max \in Int /\ range.min <= range.max
    BY <1>1 DEF ValidRange
  <1> DEFINE a == Scaled(range.pref, Min({w, 1250}), 1000)
             b == Scaled(range.pref, Clamp(Scaled(w, 850, 1000), 800, 1100), 1000)
             c == range.min + Scaled(range.pref - range.min, Min({w, 1000}), 4000)
  <1>3. Min({w, 1250}) \in Int /\ Min({w, 1000}) \in Int
    BY <1>1, MinIs
  <1>4. a \in Int
    <2> DEFINE n == Min({w, 1250})
    <2> HIDE DEF n
    <2>1. Scaled(range.pref, n, 1000) \in Int
      BY <1>2, <1>3 DEF Scaled, n
    <2> QED BY <2>1 DEF n
  <1>5. b \in Int
    <2>1. Scaled(w, 850, 1000) \in Int
      BY <1>1, ScaledIs
    <2>2. Clamp(Scaled(w, 850, 1000), 800, 1100) \in Int
      BY <2>1, ClampIs
    <2> DEFINE n == Clamp(Scaled(w, 850, 1000), 800, 1100)
    <2> HIDE DEF n
    <2>3. Scaled(range.pref, n, 1000) \in Int
      BY <1>2, <2>2 DEF Scaled, n
    <2> QED BY <2>3 DEF n
  <1>6. c \in Int
    <2>1. Scaled(range.pref - range.min, Min({w, 1000}), 4000) \in Int
      BY <1>2, <1>3 DEF Scaled
    <2> QED BY <1>2, <2>1
  <1> HIDE DEF a, b, c
  <1>7. PICK t \in Int : Allocate(range, w, p.pressure) = Clamp(t, range.min, range.max)
    <2>1. CASE p.pressure = "low"
      BY <2>1, <1>4 DEF Allocate, a
    <2>2. CASE p.pressure = "moderate"
      BY <2>2, <1>5 DEF Allocate, b
    <2>3. CASE p.pressure = "high"
      BY <2>3, <1>6 DEF Allocate, c
    <2> QED BY <1>1, <2>1, <2>2, <2>3 DEF Pressure
  <1>8. Target(p, r, e) = Clamp(t, range.min, range.max)
    BY <1>7 DEF Target, range, w
  <1> QED BY <1>8, <1>2, ClampIs DEF range

\* Rounding down never takes an environment below its minimum.
LEMMA QuantizeIs ==
    ASSUME NEW v \in Int, NEW range, ValidRange(range), v >= range.min
    PROVE  /\ QuantizeDown(v, range) \in Nat
           /\ range.min <= QuantizeDown(v, range) /\ QuantizeDown(v, range) <= range.max
           /\ QuantizeDown(v, range) <= v
  <1> DEFINE x == v - (v % Step)
  <1>1. x \in Int /\ x <= v
    BY DEF Step, ValidRange
  <1>2. range.min \in Nat /\ range.max \in Nat /\ range.min <= range.max
    BY DEF ValidRange
  <1> HIDE DEF x
  <1>3. QuantizeDown(v, range) = Clamp(x, range.min, range.max)
    BY DEF QuantizeDown, x
  <1>4. Clamp(x, range.min, range.max)
          = IF x < range.min THEN range.min ELSE IF x > range.max THEN range.max ELSE x
    BY <1>1, <1>2, ClampIs
  <1> QED BY <1>1, <1>2, <1>3, <1>4

\* Both ends of the range are whole steps.
Whole(range) == range.min % Step = 0 /\ range.max % Step = 0

\* With whole policies it leaves less than a step.
LEMMA QuantizeWhole ==
    ASSUME NEW v \in Int, NEW range, ValidRange(range), Whole(range), v >= range.min
    PROVE  /\ QuantizeDown(v, range) % Step = 0
           /\ v <= range.max => QuantizeDown(v, range) > v - Step
           /\ v % Step = 0 /\ v <= range.max => QuantizeDown(v, range) = v
           /\ v < range.min + Step => QuantizeDown(v, range) = range.min
  <1> DEFINE x == v - (v % Step)
  <1>1. x \in Int /\ x <= v /\ x > v - Step /\ x % Step = 0 /\ (v % Step = 0 => x = v)
    BY DEF Step, ValidRange
  <1>2. range.min \in Nat /\ range.max \in Nat /\ range.min <= range.max
    BY DEF ValidRange
  <1>3. range.min % Step = 0 /\ range.max % Step = 0
    BY DEF Whole
  <1> HIDE DEF x
  <1>4. QuantizeDown(v, range) = Clamp(x, range.min, range.max)
    BY DEF QuantizeDown, x
  <1>5. Clamp(x, range.min, range.max)
          = IF x < range.min THEN range.min ELSE IF x > range.max THEN range.max ELSE x
    BY <1>1, <1>2, ClampIs
  <1>6. x >= range.min
    BY <1>1, <1>2, <1>3 DEF Step
  <1>7. v < range.min + Step => x = range.min
    BY <1>1, <1>2, <1>3, <1>6 DEF Step
  <1> QED BY <1>1, <1>2, <1>3, <1>4, <1>5, <1>6, <1>7 DEF Step

\* What a frozen environment keeps is more than nothing.
LEMMA KeptIs ==
    ASSUME NEW p, Typed(p), NEW r \in Res, NEW e \in Env
    PROVE  Kept(p, r, e) \in Nat /\ Kept(p, r, e) > 0
  <1>1. ValidRange(p.policy[e][r]) /\ p.alloc[e][r] \in Nat
    BY PolicyIs DEF Typed
  <1> DEFINE x == Cpu * ((p.policy[e][r].pref + Cpu \div 2) \div Cpu)
  <1>2. x \in Int /\ Cpu \in Int /\ Cpu > 0
    BY <1>1 DEF ValidRange, Cpu, Step
  <1> HIDE DEF x
  <1>3. Max({x, Cpu}) = IF x >= Cpu THEN x ELSE Cpu
    BY <1>2, MaxIs
  <1>4. Kept(p, r, e) = IF p.alloc[e][r] > 0 THEN p.alloc[e][r]
                        ELSE IF r = "cpu" THEN Max({x, Cpu}) ELSE p.policy[e][r].pref
    BY DEF Kept, x
  <1> QED BY <1>1, <1>2, <1>3, <1>4 DEF ValidRange

\* A floor is a natural number.
LEMMA FloorIs ==
    ASSUME NEW p, Typed(p), NEW r \in Res, NEW e \in Env
    PROVE  Floor(p, r, e) \in Nat
  <1>1. Kept(p, r, e) \in Nat /\ p.policy[e][r].min \in Nat /\ p.alloc[e][r] \in Nat
    BY KeptIs, PolicyIs DEF Typed, ValidRange
  <1>2. p.status[e] \in Status
    BY DEF Typed
  <1> QED BY <1>1, <1>2 DEF Floor, Status

-----------------------------------------------------------------------------
(* One turn of schedule_for_host.                                          *)

\* The floors, the containers among the holders, and the most there is to hand
\* out of the host and of the appliance.
Floors(p, r) == [e \in Env |-> Floor(p, r, e)]
Inside(p, r) == {e \in Holders(p, r) : Container(p, e)}
Most(p, r) == Max({HostBudget(p, r), SumOver(Floors(p, r), Holders(p, r))})
MostInside(p, r) ==
    Max({ContainerCapacity(r) - Reserved(p, r, Floors(p, r)), SumOver(Floors(p, r), Inside(p, r))})

\* What holds of the schedule when the environments of U have been served.
Served(p, r, U, acc) ==
    /\ acc.current \in [Env -> Nat] /\ acc.left \in Nat /\ acc.room \in Nat
    /\ \A e \in Env : (e \notin U \/ Frozen(p, r, e)) => acc.current[e] = Floor(p, r, e)
    /\ \A e \in U : ~Frozen(p, r, e) =>
         p.policy[e][r].min <= acc.current[e] /\ acc.current[e] <= p.policy[e][r].max
    /\ SumOver(acc.current, Holders(p, r)) + acc.left = Most(p, r)
    /\ SumOver(acc.current, Inside(p, r)) + acc.room = MostInside(p, r)

\* A sum of integers is one.
LEMMA SumInt ==
    ASSUME NEW f, NEW S, \A n \in Env : f[n] \in Int
    PROVE  SumOver(f, S) \in Int
  <1>1. \A n \in Env : Part(f, S, n) \in Int
    BY DEF Part
  <1>2. PICK g \in [0..N -> Int] : SumOver(f, S) = g[N]
    BY <1>1, SumIs
  <1> QED BY <1>2, NAssumption

\* The budget of the host and the capacity of the appliance are integers.
LEMMA PoolsAre ==
    ASSUME NEW p, Typed(p), NEW r \in Res
    PROVE  /\ HostBudget(p, r) \in Int /\ ContainerCapacity(r) \in Int
           /\ \A f \in [Env -> Nat] : Reserved(p, r, f) \in Int
           /\ Floors(p, r) \in [Env -> Nat]
  <1>1. Total[r] \in Nat
    BY HostAssumption
  <1>2. HostBudget(p, r) \in Int
    <2>1. Factor(p.pressure) \in Int
      BY DEF Factor, Typed, Pressure
    <2> DEFINE n == Factor(p.pressure)
    <2> HIDE DEF n
    <2>2. Scaled(Total[r], n, 100) \in Int
      BY <1>1, <2>1 DEF Scaled, n
    <2> QED BY <2>2 DEF HostBudget, n
  <1>3. ContainerCapacity(r) \in Int
    <2>1. CASE r = "cpu"
      <3>1. 255 * Cpu \in Int
        BY DEF Cpu, Step
      <3>2. Min({Total[r], 255 * Cpu}) \in Int
        BY <1>1, <3>1, MinIs
      <3> QED BY <2>1, <3>2 DEF ContainerCapacity
    <2>2. CASE r # "cpu"
      <3> DEFINE m == Max({Total[r] \div 10, GB})
                 free == Positive(Total[r] - m - Overhead)
      <3>1. Total[r] \div 10 \in Int /\ GB \in Int /\ Overhead \in Int
        BY <1>1 DEF GB, Overhead, Step
      <3>2. m \in Int
        BY <3>1, MaxIs
      <3> HIDE DEF m
      <3>3. free \in Nat
        BY <1>1, <3>1, <3>2, PositiveIs
      <3> HIDE DEF free
      <3>4. free - (free % Step) \in Int
        BY <3>3 DEF Step
      <3> QED BY <2>2, <3>4 DEF ContainerCapacity, free, m
    <2> QED BY <2>1, <2>2
  <1>4. ASSUME NEW f \in [Env -> Nat] PROVE Reserved(p, r, f) \in Int
    <2> DEFINE h == [e \in Env |-> Max({f[e], p.policy[e][r].pref})]
               S == {e \in Active(p) : ~Container(p, e)}
    <2>1. \A e \in Env : h[e] \in Int
      BY PolicyIs, MaxIs DEF ValidRange
    <2> HIDE DEF h, S
    <2>2. SumOver(h, S) \in Int
      BY <2>1, SumInt
    <2> QED BY <2>2 DEF Reserved, h, S
  <1>5. Floors(p, r) \in [Env -> Nat]
    BY FloorIs DEF Floors
  <1> QED BY <1>2, <1>3, <1>4, <1>5

\* Before the first turn everyone has its floor, and the rest is left.
LEMMA StartServed ==
    ASSUME NEW p, Typed(p), NEW r \in Res
    PROVE  Served(p, r, {}, Start(p, r))
  <1> DEFINE F == Floors(p, r)
             H == SumOver(F, Holders(p, r))
             C == SumOver(F, Inside(p, r))
             B == HostBudget(p, r)
             K == ContainerCapacity(r) - Reserved(p, r, F)
  <1>1. F \in [Env -> Nat] /\ B \in Int /\ K \in Int
    BY PoolsAre
  <1>2. H \in Int /\ C \in Int
    BY <1>1, SumInt
  <1>3. /\ Start(p, r).current = F
        /\ Start(p, r).left = Positive(B - H)
        /\ Start(p, r).room = Positive(K - C)
    BY DEF Start, Floors, Inside
  <1>4. \A e \in Env : F[e] = Floor(p, r, e)
    BY DEF Floors
  <1>5. Most(p, r) = Max({B, H}) /\ MostInside(p, r) = Max({K, C})
    BY DEF Most, MostInside
  <1> HIDE DEF F, H, C, B, K
  <1>6. /\ Positive(B - H) \in Nat /\ H + Positive(B - H) = Max({B, H})
        /\ Positive(K - C) \in Nat /\ C + Positive(K - C) = Max({K, C})
    <2>1. B - H \in Int /\ K - C \in Int
      BY <1>1, <1>2
    <2>2. /\ Positive(B - H) = IF B - H >= 0 THEN B - H ELSE 0
          /\ Positive(K - C) = IF K - C >= 0 THEN K - C ELSE 0
      BY <2>1, PositiveIs
    <2>3. /\ Max({B, H}) = IF B >= H THEN B ELSE H
          /\ Max({K, C}) = IF K >= C THEN K ELSE C
      BY <1>1, <1>2, MaxIs
    <2> QED BY <1>1, <1>2, <2>2, <2>3
  <1>7. SumOver(Start(p, r).current, Holders(p, r)) = H /\ SumOver(Start(p, r).current, Inside(p, r)) = C
    BY <1>3 DEF H, C
  <1> QED BY <1>1, <1>3, <1>4, <1>5, <1>6, <1>7 DEF Served

\* One turn of the loop: e gets next, which is no more than there is.
Turn(p, r, acc, e, new, next) ==
    LET lo   == p.policy[e][r].min
        free == IF Container(p, e) THEN Min({acc.left, acc.room}) ELSE acc.left
    IN  /\ next = QuantizeDown(lo + Min({free, Target(p, r, e) - lo}), p.policy[e][r])
        /\ lo <= next /\ next <= p.policy[e][r].max
        /\ next - lo <= acc.left
        /\ Container(p, e) => next - lo <= acc.room
        /\ new.current = [acc.current EXCEPT ![e] = next]
        /\ new.left = acc.left - (next - lo)
        /\ new.room = IF Container(p, e) THEN acc.room - (next - lo) ELSE acc.room

\* Serve is such a turn.
LEMMA ServeIs ==
    ASSUME NEW p, Typed(p), NEW r \in Res, NEW e \in Env, ~Frozen(p, r, e),
           NEW acc, acc.current \in [Env -> Nat], acc.left \in Nat, acc.room \in Nat,
           acc.current[e] = p.policy[e][r].min
    PROVE  \E next \in Nat : Turn(p, r, acc, e, Serve(p, r, acc, e), next)
  <1> DEFINE range == p.policy[e][r]
             lo == range.min
             t == Target(p, r, e)
             free == IF Container(p, e) THEN Min({acc.left, acc.room}) ELSE acc.left
             give == Min({free, t - lo})
             next == QuantizeDown(lo + give, range)
             used == next - lo
  <1>1. ValidRange(range) /\ lo \in Nat
    BY PolicyIs DEF ValidRange
  <1>2. t \in Int /\ lo <= t
    BY TargetIs
  <1>3. Positive(t - acc.current[e]) = t - lo
    <2> HIDE DEF t
    <2> QED BY <1>1, <1>2, PositiveIs
  <1>4. free \in Nat /\ free <= acc.left /\ (Container(p, e) => free <= acc.room)
    <2>1. acc.left \in Int /\ acc.room \in Int
      OBVIOUS
    <2>2. Min({acc.left, acc.room}) = IF acc.left <= acc.room THEN acc.left ELSE acc.room
      BY <2>1, MinIs, Zenon
    <2> QED BY <2>2
  <1> HIDE DEF free, t
  <1>5. give \in Nat /\ give <= free
    <2>1. free \in Int /\ t - lo \in Int
      BY <1>1, <1>2, <1>4
    <2>2. give = IF free <= t - lo THEN free ELSE t - lo
      BY <2>1, MinIs, Zenon
    <2> HIDE DEF give, lo
    <2> QED BY <1>1, <1>2, <1>4, <2>1, <2>2
  <1> HIDE DEF give
  <1>6. next \in Nat /\ lo <= next /\ next <= range.max /\ next <= lo + give
    <2>1. lo + give \in Int /\ lo + give >= range.min
      BY <1>1, <1>5
    <2> HIDE DEF range, lo
    <2>2. /\ QuantizeDown(lo + give, range) \in Nat
          /\ range.min <= QuantizeDown(lo + give, range) /\ QuantizeDown(lo + give, range) <= range.max
          /\ QuantizeDown(lo + give, range) <= lo + give
      BY <1>1, <2>1, QuantizeIs
    <2> QED BY <2>2 DEF lo
  <1>7. next = QuantizeDown(acc.current[e] + Min({free, Positive(t - acc.current[e])}), range)
    BY <1>3 DEF give
  <1> HIDE DEF next
  <1>8. used \in Nat /\ used <= acc.left /\ (Container(p, e) => used <= acc.room)
    BY <1>1, <1>4, <1>5, <1>6
  <1>9. /\ Positive(next - acc.current[e]) = used
        /\ Positive(acc.left - used) = acc.left - used
        /\ Container(p, e) => Positive(acc.room - used) = acc.room - used
    BY <1>1, <1>6, <1>8, PositiveIs
  <1>10. /\ Serve(p, r, acc, e).current = [acc.current EXCEPT ![e] = next]
         /\ Serve(p, r, acc, e).left = acc.left - used
         /\ Serve(p, r, acc, e).room = IF Container(p, e) THEN acc.room - used ELSE acc.room
    <2>1. Serve(p, r, acc, e)
            = [current |-> [acc.current EXCEPT ![e] = next],
               left |-> Positive(acc.left - Positive(next - acc.current[e])),
               room |-> IF Container(p, e) THEN Positive(acc.room - Positive(next - acc.current[e]))
                        ELSE acc.room]
      BY <1>7 DEF Serve, free, t
    <2> HIDE DEF used
    <2> QED BY <2>1, <1>9
  <1>11. next = QuantizeDown(lo + Min({IF Container(p, e) THEN Min({acc.left, acc.room}) ELSE acc.left,
                                       Target(p, r, e) - lo}), range)
    BY DEF next, give, free, t
  <1> QED BY <1>6, <1>8, <1>10, <1>11 DEF Turn

-----------------------------------------------------------------------------
(* The loop of schedule_for_host.                                          *)

\* Serving one more keeps it so.
LEMMA ServeServed ==
    ASSUME NEW p, Typed(p), NEW r \in Res, NEW V \in SUBSET Env, NEW e \in Is(p, {"running"}), e \notin V,
           NEW acc, Served(p, r, V, acc)
    PROVE  Served(p, r, V \cup {e}, Serve(p, r, acc, e))
  <1>1. e \in Env /\ p.status[e] = "running" /\ e \in Holders(p, r)
    BY DEF Is, Holders, Active
  <1>2. acc.current \in [Env -> Nat] /\ acc.left \in Nat /\ acc.room \in Nat
    BY DEF Served
  <1>3. CASE Frozen(p, r, e)
    <2>1. Serve(p, r, acc, e) = acc
      BY <1>3 DEF Serve
    <2>2. \A f \in V \cup {e} : ~Frozen(p, r, f) => f \in V
      BY <1>3
    <2> QED BY <2>1, <2>2 DEF Served
  <1>4. CASE ~Frozen(p, r, e)
    <2> DEFINE lo == p.policy[e][r].min
               new == Serve(p, r, acc, e)
    <2>1. acc.current[e] = lo /\ lo \in Nat
      BY <1>1, <1>4, PolicyIs DEF Served, Floor, ValidRange
    <2>a. PICK next \in Nat : Turn(p, r, acc, e, new, next)
      BY <1>1, <1>2, <1>4, <2>1, ServeIs
    <2> HIDE DEF new
    <2>2. /\ lo <= next /\ next <= p.policy[e][r].max
          /\ next - lo <= acc.left
          /\ Container(p, e) => next - lo <= acc.room
          /\ new.current = [acc.current EXCEPT ![e] = next]
          /\ new.left = acc.left - (next - lo)
          /\ new.room = IF Container(p, e) THEN acc.room - (next - lo) ELSE acc.room
      BY <2>a DEF Turn
    <2> HIDE DEF lo
    <2>3. new.current \in [Env -> Nat] /\ new.left \in Nat /\ new.room \in Nat
      <3>1. new.current \in [Env -> Nat]
        BY <1>2, <2>2
      <3>2. new.left \in Nat
        BY <1>2, <2>1, <2>2
      <3>3. new.room \in Nat
        BY <1>2, <2>1, <2>2
      <3> QED BY <3>1, <3>2, <3>3
    <2>4. \A f \in Env : f # e => new.current[f] = acc.current[f]
      BY <1>2, <2>2
    <2>5. new.current[e] = next
      BY <1>1, <1>2, <2>2
    <2>6. \A f \in Env : (f \notin V \cup {e} \/ Frozen(p, r, f)) => new.current[f] = Floor(p, r, f)
      BY <2>4, <1>4 DEF Served
    <2>7. ASSUME NEW f \in V \cup {e}, ~Frozen(p, r, f)
          PROVE  p.policy[f][r].min <= new.current[f] /\ new.current[f] <= p.policy[f][r].max
      <3>1. CASE f = e
        BY <3>1, <2>2, <2>5 DEF lo
      <3>2. CASE f # e
        BY <3>2, <2>7, <2>4 DEF Served
      <3> QED BY <3>1, <3>2
    <2>8. DOMAIN acc.current = Env /\ \A n \in Env : acc.current[n] \in Int
      BY <1>2
    <2>9. SumOver(new.current, Holders(p, r)) + new.left = Most(p, r)
      <3>1. SumOver(new.current, Holders(p, r)) = SumOver(acc.current, Holders(p, r)) + (next - lo)
        BY <1>1, <2>1, <2>2, <2>8, SumUpdate
      <3>2. SumOver(acc.current, Holders(p, r)) \in Int
        BY <2>8, SumInt
      <3>3. SumOver(acc.current, Holders(p, r)) + acc.left = Most(p, r)
        BY DEF Served
      <3> QED BY <3>1, <3>2, <3>3, <2>1, <2>2, <1>2
    <2>10. SumOver(new.current, Inside(p, r)) + new.room = MostInside(p, r)
      <3>1. e \in Inside(p, r) <=> Container(p, e)
        BY <1>1 DEF Inside
      <3>2. SumOver(new.current, Inside(p, r))
              = SumOver(acc.current, Inside(p, r)) + (IF e \in Inside(p, r) THEN next - lo ELSE 0)
        BY <1>1, <2>1, <2>2, <2>8, SumUpdate
      <3>3. SumOver(acc.current, Inside(p, r)) \in Int
        BY <2>8, SumInt
      <3>4. SumOver(acc.current, Inside(p, r)) + acc.room = MostInside(p, r)
        BY DEF Served
      <3> QED BY <3>1, <3>2, <3>3, <3>4, <2>1, <2>2, <1>2
    <2>11. \A f \in V \cup {e} : ~Frozen(p, r, f) =>
             p.policy[f][r].min <= new.current[f] /\ new.current[f] <= p.policy[f][r].max
      BY <2>7
    <2>12. Served(p, r, V \cup {e}, new)
      BY <2>3, <2>6, <2>11, <2>9, <2>10, Zenon DEF Served
    <2> QED BY <2>12 DEF new
  <1> QED BY <1>3, <1>4

-----------------------------------------------------------------------------

\* An environment has less than it was to be given.
Short(p, r, x, e) == x[e] < QuantizeDown(Target(p, r, e), p.policy[e][r])

\* With whole policies, what holds besides: who was left short had used up a pool.
Ordered(p, r, U, acc) ==
    /\ \A e \in U : ~Frozen(p, r, e) =>
         /\ acc.current[e] % Step = 0
         /\ Short(p, r, acc.current, e) => acc.left < Step \/ (Container(p, e) /\ acc.room < Step)
    /\ \A e, f \in U :
         (/\ Before(p, e, f) /\ ~Frozen(p, r, e) /\ ~Frozen(p, r, f)
          /\ Container(p, e) => Container(p, f)
          /\ Short(p, r, acc.current, e))
         => acc.current[f] = p.policy[f][r].min

\* The policies of the platform are in whole steps.
WholeIn(p) == \A e \in Env, r \in Res : Whole(p.policy[e][r])

\* Of two environments one comes first.
LEMMA BeforeOnce ==
    ASSUME NEW p, Typed(p), NEW e \in Env, NEW f \in Env, Before(p, e, f)
    PROVE  ~Before(p, f, e) /\ e # f
  BY PolicyIs DEF Before, Ranked, Env

\* Serving the next one in the order keeps who was left short ahead of it.
LEMMA ServeOrdered ==
    ASSUME NEW p, Typed(p), WholeIn(p), NEW r \in Res,
           NEW V \in SUBSET Env, NEW e \in Is(p, {"running"}), e \notin V,
           \A f \in V : Before(p, f, e),
           NEW acc, Served(p, r, V, acc), Ordered(p, r, V, acc)
    PROVE  Ordered(p, r, V \cup {e}, Serve(p, r, acc, e))
  <1>1. e \in Env /\ p.status[e] = "running"
    BY DEF Is
  <1>2. acc.current \in [Env -> Nat] /\ acc.left \in Nat /\ acc.room \in Nat
    BY DEF Served
  <1>3. CASE Frozen(p, r, e)
    <2>1. Serve(p, r, acc, e) = acc
      BY <1>3 DEF Serve
    <2>2. \A f \in V \cup {e} : ~Frozen(p, r, f) => f \in V
      BY <1>3
    <2> QED BY <2>1, <2>2 DEF Ordered
  <1>4. CASE ~Frozen(p, r, e)
    <2> DEFINE range == p.policy[e][r]
               lo == range.min
               t == Target(p, r, e)
               free == IF Container(p, e) THEN Min({acc.left, acc.room}) ELSE acc.left
               give == Min({free, t - lo})
               new == Serve(p, r, acc, e)
    <2>1. /\ acc.current[e] = lo /\ lo \in Nat /\ ValidRange(range) /\ Whole(range)
          /\ range.max \in Nat
      BY <1>1, <1>4, PolicyIs DEF Served, Floor, ValidRange, WholeIn
    <2>a. PICK next \in Nat : Turn(p, r, acc, e, new, next)
      BY <1>1, <1>2, <1>4, <2>1, ServeIs
    <2> HIDE DEF new
    <2>2. /\ next = QuantizeDown(lo + give, range)
          /\ lo <= next /\ next <= range.max
          /\ next - lo <= acc.left
          /\ Container(p, e) => next - lo <= acc.room
          /\ new.current = [acc.current EXCEPT ![e] = next]
          /\ new.left = acc.left - (next - lo)
          /\ new.room = IF Container(p, e) THEN acc.room - (next - lo) ELSE acc.room
      BY <2>a DEF Turn
    <2>3. /\ new.current[e] = next /\ \A f \in Env : f # e => new.current[f] = acc.current[f]
          /\ new.left <= acc.left /\ new.room <= acc.room /\ new.left \in Int /\ new.room \in Int
      <3> HIDE DEF lo, give
      <3>1. new.current[e] = next /\ \A f \in Env : f # e => new.current[f] = acc.current[f]
        BY <1>1, <1>2, <2>2
      <3>2. new.left <= acc.left /\ new.left \in Int
        BY <1>2, <2>1, <2>2
      <3>3. new.room <= acc.room /\ new.room \in Int
        BY <1>2, <2>1, <2>2
      <3> QED BY <3>1, <3>2, <3>3
    <2>4. t \in Int /\ lo <= t /\ t <= range.max
      BY <1>1, TargetIs
    <2>5. /\ free \in Nat /\ free <= acc.left /\ (Container(p, e) => free <= acc.room)
          /\ \/ free = acc.left
             \/ Container(p, e) /\ free = acc.room
      <3>1. acc.left \in Int /\ acc.room \in Int
        BY <1>2
      <3>2. Min({acc.left, acc.room}) = IF acc.left <= acc.room THEN acc.left ELSE acc.room
        BY <3>1, MinIs, Zenon
      <3> QED BY <3>2, <1>2
    <2> HIDE DEF free, t
    <2>6. give = IF free <= t - lo THEN free ELSE t - lo
      <3>1. free \in Int /\ t - lo \in Int
        BY <2>1, <2>4, <2>5
      <3> QED BY <3>1, MinIs, Zenon
    <2>7. give \in Nat /\ lo + give \in Int /\ lo + give >= lo /\ lo + give <= range.max
      <3> HIDE DEF give, lo
      <3> QED BY <2>1, <2>4, <2>5, <2>6
    <2>8. /\ next % Step = 0 /\ next > (lo + give) - Step
          /\ lo + give < lo + Step => next = lo
      <3> DEFINE v == lo + give
      <3>1. v \in Int /\ v >= range.min /\ v <= range.max
        BY <2>7
      <3>2. next = QuantizeDown(v, range)
        BY <2>2
      <3> HIDE DEF v
      <3>3. /\ QuantizeDown(v, range) % Step = 0
            /\ v <= range.max => QuantizeDown(v, range) > v - Step
            /\ v < range.min + Step => QuantizeDown(v, range) = range.min
        BY <2>1, <3>1, QuantizeWhole
      <3>4. next % Step = 0 /\ next > v - Step /\ (v < lo + Step => next = lo)
        BY <3>1, <3>2, <3>3
      <3> QED BY <3>4, Zenon DEF v
    <2>9. Short(p, r, new.current, e) => new.left < Step \/ (Container(p, e) /\ new.room < Step)
      <3> SUFFICES ASSUME Short(p, r, new.current, e)
                   PROVE  new.left < Step \/ (Container(p, e) /\ new.room < Step)
        OBVIOUS
      <3>1. next < QuantizeDown(t, range)
        BY <2>3 DEF Short, t
      <3>2. give # t - lo
        <4> SUFFICES ASSUME give = t - lo PROVE FALSE
          OBVIOUS
        <4>1. lo + give = t
          BY <2>1, <2>4
        <4>2. next = QuantizeDown(t, range)
          BY <4>1, <2>2
        <4> HIDE DEF t, give, lo
        <4> QED BY <4>2, <3>1
      <3>3. give = free
        BY <3>2, <2>6
      <3> HIDE DEF give, lo
      <3> QED BY <3>3, <2>1, <2>2, <2>5, <2>8, <1>2 DEF Step
    <2>10. ASSUME NEW f \in V, ~Frozen(p, r, f), Short(p, r, new.current, f),
                  Container(p, f) => Container(p, e)
           PROVE  next = lo
      <3>1. f \in Env /\ f # e
        OBVIOUS
      <3>2. Short(p, r, acc.current, f)
        BY <3>1, <2>3, <2>10 DEF Short
      <3>3. acc.left < Step \/ (Container(p, e) /\ acc.room < Step)
        BY <3>2, <2>10 DEF Ordered
      <3>4. give < Step
        <4> HIDE DEF give, lo
        <4> QED BY <3>3, <1>2, <2>1, <2>4, <2>5, <2>6 DEF Step
      <3>5. lo + give < lo + Step
        <4> HIDE DEF give, lo
        <4> QED BY <3>4, <2>1, <2>7 DEF Step
      <3> QED BY <3>5, <2>8
    <2>11. ASSUME NEW f \in V \cup {e}, ~Frozen(p, r, f)
           PROVE  /\ new.current[f] % Step = 0
                  /\ Short(p, r, new.current, f) => new.left < Step \/ (Container(p, f) /\ new.room < Step)
      <3>1. CASE f = e
        BY <3>1, <2>3, <2>8, <2>9
      <3>2. CASE f # e
        <4>1. f \in V /\ f \in Env /\ new.current[f] = acc.current[f]
          BY <3>2, <2>3
        <4>2. /\ acc.current[f] % Step = 0
              /\ Short(p, r, acc.current, f) => acc.left < Step \/ (Container(p, f) /\ acc.room < Step)
          BY <4>1, <2>11 DEF Ordered
        <4>3. Short(p, r, new.current, f) => Short(p, r, acc.current, f)
          BY <4>1 DEF Short
        <4> QED BY <4>1, <4>2, <4>3, <2>3, <1>2 DEF Step
      <3> QED BY <3>1, <3>2
    <2>12. ASSUME NEW f \in V \cup {e}, NEW g \in V \cup {e},
                  Before(p, f, g), ~Frozen(p, r, f), ~Frozen(p, r, g),
                  Container(p, f) => Container(p, g), Short(p, r, new.current, f)
           PROVE  new.current[g] = p.policy[g][r].min
      <3>1. f \in Env /\ g \in Env /\ f # g /\ ~Before(p, g, f)
        BY <1>1, <2>12, BeforeOnce
      <3>2. f # e /\ f \in V
        BY <3>1
      <3>3. CASE g = e
        BY <3>2, <3>3, <2>10, <2>12, <2>3
      <3>4. CASE g # e
        <4>1. g \in V /\ new.current[g] = acc.current[g] /\ new.current[f] = acc.current[f]
          BY <3>1, <3>2, <3>4, <2>3
        <4>2. Short(p, r, acc.current, f)
          BY <4>1, <2>12 DEF Short
        <4> QED BY <4>1, <4>2, <3>2, <2>12 DEF Ordered
      <3> QED BY <3>3, <3>4
    <2>13. \A f \in V \cup {e} : ~Frozen(p, r, f) =>
             /\ new.current[f] % Step = 0
             /\ Short(p, r, new.current, f) => new.left < Step \/ (Container(p, f) /\ new.room < Step)
      BY <2>11
    <2>14. \A f, g \in V \cup {e} :
             (/\ Before(p, f, g) /\ ~Frozen(p, r, f) /\ ~Frozen(p, r, g)
              /\ Container(p, f) => Container(p, g)
              /\ Short(p, r, new.current, f))
             => new.current[g] = p.policy[g][r].min
      BY <2>12
    <2>15. Ordered(p, r, V \cup {e}, new)
      BY <2>13, <2>14, Zenon DEF Ordered
    <2> QED BY <2>15 DEF new
  <1> QED BY <1>3, <1>4

-----------------------------------------------------------------------------
\* What schedule_for_host hands out, of one resource.
LEMMA ScheduleServed ==
    ASSUME NEW p, Typed(p), NEW r \in Res
    PROVE  \E acc : /\ ScheduleResource(p, r) = acc.current
                    /\ Served(p, r, Is(p, {"running"}), acc)
                    /\ WholeIn(p) => Ordered(p, r, Is(p, {"running"}), acc)
  <1> DEFINE R == Is(p, {"running"})
  <1>1. PICK g : /\ g[{}] = Start(p, r)
                 /\ \A S \in SUBSET R :
                      S # {} => g[S] = Serve(p, r, g[S \ {Latest(p, S)}], Latest(p, S))
                 /\ ScheduleResource(p, r) = g[R].current
    BY PolicyIs, ScheduleIs
  <1>2. R \in SUBSET Env /\ IsFiniteSet(R)
    BY EnvFinite DEF Is
  <1> DEFINE T == {U \in SUBSET R : /\ Served(p, r, U, g[U])
                                    /\ WholeIn(p) => Ordered(p, r, U, g[U])}
  <1>3. {} \in T
    <2>1. Served(p, r, {}, g[{}])
      BY <1>1, StartServed
    <2>2. Ordered(p, r, {}, g[{}])
      BY DEF Ordered
    <2> QED BY <2>1, <2>2
  <1>4. ASSUME NEW U \in SUBSET R, U # {}, U \ {Latest(p, U)} \in T PROVE U \in T
    <2> DEFINE e == Latest(p, U)
               V == U \ {e}
    <2>1. e \in U /\ \A f \in V : Before(p, f, e)
      BY <1>2, <1>4, PolicyIs, LatestIs
    <2>2. g[U] = Serve(p, r, g[V], e)
      BY <1>1, <1>4
    <2>3. Served(p, r, V, g[V]) /\ (WholeIn(p) => Ordered(p, r, V, g[V]))
      BY <1>4
    <2>4. V \cup {e} = U /\ e \notin V /\ e \in Is(p, {"running"}) /\ V \in SUBSET Env
      BY <2>1, <1>2
    <2> HIDE DEF e, V
    <2>5. Served(p, r, V \cup {e}, Serve(p, r, g[V], e))
      BY <2>3, <2>4, ServeServed
    <2>6. WholeIn(p) => Ordered(p, r, V \cup {e}, Serve(p, r, g[V], e))
      BY <2>1, <2>3, <2>4, ServeOrdered
    <2> QED BY <2>2, <2>4, <2>5, <2>6
  <1> HIDE DEF T
  <1>5. \A U \in SUBSET R : (U # {} /\ U \ {Latest(p, U)} \in T) => U \in T
    BY <1>4
  <1>6. R \in T
    BY <1>2, <1>3, <1>5, PolicyIs, LatestInd
  <1> QED BY <1>6, <1>1 DEF T

-----------------------------------------------------------------------------
(* The loop of limit_cuda_pool.                                            *)

\* What the CUDA engine's containers have been given lies within their policies.
CudaWithin(p, r) ==
    \A e \in CudaRunning(p) : /\ p.policy[e][r].min <= p.alloc[e][r]
                              /\ p.alloc[e][r] <= p.policy[e][r].max

\* What holds of the CUDA pool when the containers of U have been served.
Pooled(p, r, U, acc) ==
    /\ acc.current \in [Env -> Nat] /\ acc.left \in Nat
    /\ \A e \in Env : e \notin U => acc.current[e] = p.alloc[e][r]
    /\ \A e \in U : p.policy[e][r].min <= acc.current[e] /\ acc.current[e] <= p.alloc[e][r]

\* With whole policies, what holds besides: who lost something had emptied the pool.
PooledInOrder(p, r, U, acc) ==
    /\ \A e \in U : acc.current[e] % Step = 0 /\ (acc.current[e] < p.alloc[e][r] => acc.left < Step)
    /\ \A e, f \in U : (Before(p, e, f) /\ acc.current[e] < p.alloc[e][r])
                       => acc.current[f] = p.policy[f][r].min

\* Before the first turn every container has the share it had.
LEMMA CudaStartPooled ==
    ASSUME NEW p, Typed(p), NEW r \in Res
    PROVE  Pooled(p, r, {}, CudaStart(p, r))
  <1>1. CudaPool[r] \in Nat
    BY HostAssumption
  <1>2. CudaFloor(p, r) \in Int
    <2> DEFINE f == [e \in Env |-> p.policy[e][r].min]
               h == [e \in Env |-> Max({p.alloc[e][r], p.policy[e][r].pref})]
               S == {e \in Is(p, {"paused"}) : p.kind[e] = "cuda"}
    <2>1. \A e \in Env : f[e] \in Int
      BY PolicyIs DEF ValidRange
    <2>2. ASSUME NEW e \in Env PROVE h[e] \in Int
      <3>1. p.alloc[e][r] \in Int /\ p.policy[e][r].pref \in Int
        BY PolicyIs, SMTT(30) DEF ValidRange, Typed
      <3>2. Max({p.alloc[e][r], p.policy[e][r].pref}) \in Int
        BY <3>1, MaxIs
      <3> QED BY <3>2
    <2> HIDE DEF f, h, S
    <2>3. SumOver(f, CudaRunning(p)) \in Int /\ SumOver(h, S) \in Int
      BY <2>1, <2>2, SumInt
    <2>4. CudaFloor(p, r) = SumOver(f, CudaRunning(p)) + (IF r = "cpu" THEN 0 ELSE SumOver(h, S))
      BY DEF CudaFloor, f, h, S
    <2> QED BY <2>3, <2>4
  <1>3. Positive(CudaPool[r] - CudaFloor(p, r)) \in Nat
    BY <1>1, <1>2, PositiveIs
  <1>4. /\ CudaStart(p, r).current = [e \in Env |-> p.alloc[e][r]]
        /\ CudaStart(p, r).left = Positive(CudaPool[r] - CudaFloor(p, r))
    BY DEF CudaStart
  <1> QED BY <1>3, <1>4 DEF Pooled, Typed

\* A turn takes a container back towards its minimum, at most: next is what is
\* left of its share, from what is left in the pool or from all it had.
CudaTurn(p, r, acc, e, new, next, give) ==
    LET lo == p.policy[e][r].min
    IN  /\ next = QuantizeDown(lo + give, p.policy[e][r])
        /\ give <= acc.left /\ give <= acc.current[e] - lo
        /\ give = acc.left \/ give = acc.current[e] - lo
        /\ lo <= next /\ next <= lo + give
        /\ new.current = [acc.current EXCEPT ![e] = next]
        /\ new.left = acc.left - (next - lo)

\* CudaServe is such a turn.
LEMMA CudaServeIs ==
    ASSUME NEW p, Typed(p), NEW r \in Res, NEW e \in Env,
           NEW acc, acc.current \in [Env -> Nat], acc.left \in Nat,
           p.policy[e][r].min <= acc.current[e]
    PROVE  \E next \in Nat, give \in Nat : CudaTurn(p, r, acc, e, CudaServe(p, r, acc, e), next, give)
  <1> DEFINE range == p.policy[e][r]
             lo == range.min
             cur == acc.current[e]
             give == Min({acc.left, Positive(cur - lo)})
             next == QuantizeDown(lo + give, range)
  <1>1. ValidRange(range) /\ lo \in Nat /\ cur \in Nat
    BY PolicyIs DEF ValidRange
  <1> HIDE DEF range, lo, cur
  <1>2. lo <= cur
    BY DEF range, lo, cur
  <1>3. Positive(cur - lo) = cur - lo
    BY <1>1, <1>2, PositiveIs
  <1>4. give = IF acc.left <= cur - lo THEN acc.left ELSE cur - lo
    <2>1. acc.left \in Int /\ cur - lo \in Int
      BY <1>1
    <2> QED BY <2>1, <1>3, MinIs, Zenon
  <1> HIDE DEF give
  <1>5. give \in Nat /\ give <= acc.left /\ give <= cur - lo /\ (give = acc.left \/ give = cur - lo)
    BY <1>1, <1>2, <1>4
  <1>6. next \in Nat /\ lo <= next /\ next <= lo + give
    BY <1>1, <1>5, QuantizeIs DEF lo
  <1>7. CudaServe(p, r, acc, e)
          = [current |-> [acc.current EXCEPT ![e] = next], left |-> Positive(acc.left - (next - lo))]
    BY DEF CudaServe, next, give, lo, cur, range
  <1>8. next = QuantizeDown(lo + give, range)
    OBVIOUS
  <1> HIDE DEF next
  <1>9. Positive(acc.left - (next - lo)) = acc.left - (next - lo)
    BY <1>1, <1>5, <1>6, PositiveIs
  <1>10. /\ CudaServe(p, r, acc, e).current = [acc.current EXCEPT ![e] = next]
         /\ CudaServe(p, r, acc, e).left = acc.left - (next - lo)
    BY <1>7, <1>9
  <1> QED BY <1>5, <1>6, <1>8, <1>10, Zenon DEF lo, cur, range, CudaTurn

\* Serving one more container of the CUDA engine keeps it so.
LEMMA CudaServePooled ==
    ASSUME NEW p, Typed(p), NEW r \in Res, CudaWithin(p, r),
           NEW V \in SUBSET Env, NEW e \in CudaRunning(p), e \notin V,
           \A f \in V : Before(p, f, e),
           NEW acc, Pooled(p, r, V, acc)
    PROVE  /\ Pooled(p, r, V \cup {e}, CudaServe(p, r, acc, e))
           /\ (/\ WholeIn(p) /\ \A f \in CudaRunning(p) : p.alloc[f][r] % Step = 0
               /\ PooledInOrder(p, r, V, acc))
              => PooledInOrder(p, r, V \cup {e}, CudaServe(p, r, acc, e))
  <1> DEFINE range == p.policy[e][r]
             lo == range.min
             cur == acc.current[e]
             new == CudaServe(p, r, acc, e)
  <1>1. e \in Env /\ acc.current \in [Env -> Nat] /\ acc.left \in Nat
    BY DEF CudaRunning, Is, Pooled
  <1>2. cur = p.alloc[e][r] /\ cur \in Nat /\ lo <= cur /\ cur <= range.max
    BY <1>1 DEF Pooled, CudaWithin
  <1>3. ValidRange(range) /\ lo \in Nat /\ range.max \in Nat
    BY <1>1, PolicyIs DEF ValidRange
  <1>a. PICK next \in Nat, give \in Nat : CudaTurn(p, r, acc, e, new, next, give)
    BY <1>1, <1>2, CudaServeIs
  <1> HIDE DEF new
  <1>4.      /\ next = QuantizeDown(lo + give, range)
             /\ give <= acc.left /\ give <= cur - lo
             /\ give = acc.left \/ give = cur - lo
             /\ lo <= next /\ next <= lo + give
             /\ new.current = [acc.current EXCEPT ![e] = next]
             /\ new.left = acc.left - (next - lo)
    BY <1>a DEF CudaTurn
  <1> HIDE DEF lo, cur
  <1>5. new.current \in [Env -> Nat] /\ new.current[e] = next
        /\ \A f \in Env : f # e => new.current[f] = acc.current[f]
    BY <1>1, <1>4
  <1>6. new.left \in Nat /\ new.left <= acc.left /\ next <= cur
    BY <1>1, <1>2, <1>3, <1>4
  <1>7. Pooled(p, r, V \cup {e}, new)
    <2>1. \A f \in Env : f \notin V \cup {e} => new.current[f] = p.alloc[f][r]
      BY <1>5 DEF Pooled
    <2>2. \A f \in V \cup {e} : p.policy[f][r].min <= new.current[f] /\ new.current[f] <= p.alloc[f][r]
      <3> SUFFICES ASSUME NEW f \in V \cup {e}
                   PROVE  p.policy[f][r].min <= new.current[f] /\ new.current[f] <= p.alloc[f][r]
        OBVIOUS
      <3>1. CASE f = e
        BY <3>1, <1>2, <1>4, <1>5, <1>6 DEF lo
      <3>2. CASE f # e
        BY <3>2, <1>5 DEF Pooled
      <3> QED BY <3>1, <3>2
    <2> QED BY <1>5, <1>6, <2>1, <2>2, Zenon DEF Pooled
  <1>8. ASSUME WholeIn(p), \A f \in CudaRunning(p) : p.alloc[f][r] % Step = 0, PooledInOrder(p, r, V, acc)
        PROVE  PooledInOrder(p, r, V \cup {e}, new)
    <2>1. Whole(range) /\ cur % Step = 0
      BY <1>1, <1>2, <1>8 DEF WholeIn
    <2> DEFINE v == lo + give
    <2>2. v \in Int /\ v >= range.min /\ v <= range.max
      BY <1>2, <1>3, <1>4 DEF lo
    <2>3. next = QuantizeDown(v, range)
      BY <1>4
    <2> HIDE DEF v
    <2>4. /\ QuantizeDown(v, range) % Step = 0
          /\ v <= range.max => QuantizeDown(v, range) > v - Step
          /\ v % Step = 0 /\ v <= range.max => QuantizeDown(v, range) = v
          /\ v < range.min + Step => QuantizeDown(v, range) = range.min
      BY <1>3, <2>1, <2>2, QuantizeWhole
    <2>5. next % Step = 0 /\ (next < cur => new.left < Step)
      <3>1. next % Step = 0
        BY <2>3, <2>4
      <3>2. ASSUME next < cur PROVE new.left < Step
        <4>1. give # cur - lo
          <5> SUFFICES ASSUME give = cur - lo PROVE FALSE
            OBVIOUS
          <5>1. v = cur
            BY <1>2, <1>3 DEF v
          <5> QED BY <5>1, <2>1, <2>2, <2>3, <2>4, <3>2
        <4>2. give = acc.left /\ next > v - Step
          BY <4>1, <1>4, <2>2, <2>3, <2>4
        <4> QED BY <4>2, <1>1, <1>3, <1>4 DEF v, Step
      <3> QED BY <3>1, <3>2
    <2>6. ASSUME NEW f \in V \cup {e}
          PROVE  new.current[f] % Step = 0 /\ (new.current[f] < p.alloc[f][r] => new.left < Step)
      <3>1. CASE f = e
        BY <3>1, <1>2, <1>5, <2>5
      <3>2. CASE f # e
        <4>1. f \in V /\ new.current[f] = acc.current[f]
          BY <3>2, <1>5
        <4>2. acc.current[f] % Step = 0 /\ (acc.current[f] < p.alloc[f][r] => acc.left < Step)
          BY <4>1, <1>8 DEF PooledInOrder
        <4> QED BY <4>1, <4>2, <1>1, <1>6 DEF Step
      <3> QED BY <3>1, <3>2
    <2>7. ASSUME NEW f \in V \cup {e}, NEW g \in V \cup {e},
                 Before(p, f, g), new.current[f] < p.alloc[f][r]
          PROVE  new.current[g] = p.policy[g][r].min
      <3>1. f \in Env /\ g \in Env /\ f # g /\ ~Before(p, g, f)
        BY <1>1, <2>7, BeforeOnce
      <3>2. f # e /\ f \in V /\ new.current[f] = acc.current[f]
        BY <3>1, <1>5
      <3>3. CASE g = e
        <4>1. acc.left < Step
          BY <3>2, <2>7, <1>8 DEF PooledInOrder
        <4>2. v < lo + Step
          BY <4>1, <1>1, <1>3, <1>4 DEF v, Step
        <4>3. next = lo
          BY <4>2, <2>3, <2>4 DEF lo
        <4> QED BY <4>3, <3>3, <1>5 DEF lo
      <3>4. CASE g # e
        <4>1. g \in V /\ new.current[g] = acc.current[g]
          BY <3>1, <3>4, <1>5
        <4> QED BY <4>1, <3>2, <2>7, <1>8 DEF PooledInOrder
      <3> QED BY <3>3, <3>4
    <2>8. \A f \in V \cup {e} :
             new.current[f] % Step = 0 /\ (new.current[f] < p.alloc[f][r] => new.left < Step)
      BY <2>6
    <2>9. \A f, g \in V \cup {e} : (Before(p, f, g) /\ new.current[f] < p.alloc[f][r])
                                   => new.current[g] = p.policy[g][r].min
      BY <2>7
    <2> QED BY <2>8, <2>9, Zenon DEF PooledInOrder
  <1> QED BY <1>7, <1>8 DEF new

\* What limit_cuda_pool hands out again, of one resource.
LEMMA LimitPooled ==
    ASSUME NEW p, Typed(p), NEW r \in Res, CudaWithin(p, r)
    PROVE  \E acc : /\ LimitCudaResource(p, r) = acc.current
                    /\ Pooled(p, r, CudaRunning(p), acc)
                    /\ (WholeIn(p) /\ \A f \in CudaRunning(p) : p.alloc[f][r] % Step = 0)
                       => PooledInOrder(p, r, CudaRunning(p), acc)
  <1> DEFINE R == CudaRunning(p)
             Steady == WholeIn(p) /\ \A f \in CudaRunning(p) : p.alloc[f][r] % Step = 0
  <1>1. PICK g : /\ g[{}] = CudaStart(p, r)
                 /\ \A S \in SUBSET R :
                      S # {} => g[S] = CudaServe(p, r, g[S \ {Latest(p, S)}], Latest(p, S))
                 /\ LimitCudaResource(p, r) = g[R].current
    BY PolicyIs, CudaIs
  <1>2. R \in SUBSET Env
    BY DEF Is, CudaRunning
  <1> DEFINE T == {U \in SUBSET R : /\ Pooled(p, r, U, g[U])
                                    /\ Steady => PooledInOrder(p, r, U, g[U])}
  <1>3. {} \in T
    <2>1. Pooled(p, r, {}, g[{}])
      BY <1>1, CudaStartPooled
    <2>2. PooledInOrder(p, r, {}, g[{}])
      BY DEF PooledInOrder
    <2> QED BY <2>1, <2>2
  <1>4. ASSUME NEW U \in SUBSET R, U # {}, U \ {Latest(p, U)} \in T PROVE U \in T
    <2> DEFINE e == Latest(p, U)
               V == U \ {e}
    <2>1. e \in U /\ \A f \in V : Before(p, f, e)
      BY <1>2, <1>4, PolicyIs, LatestIs
    <2>2. g[U] = CudaServe(p, r, g[V], e)
      BY <1>1, <1>4
    <2>3. Pooled(p, r, V, g[V]) /\ (Steady => PooledInOrder(p, r, V, g[V]))
      BY <1>4
    <2>4. V \cup {e} = U /\ e \notin V /\ e \in CudaRunning(p) /\ V \in SUBSET Env
      BY <2>1, <1>2
    <2> HIDE DEF e, V
    <2>5. /\ Pooled(p, r, V \cup {e}, CudaServe(p, r, g[V], e))
          /\ Steady => PooledInOrder(p, r, V \cup {e}, CudaServe(p, r, g[V], e))
      BY <2>1, <2>3, <2>4, CudaServePooled
    <2> QED BY <2>2, <2>4, <2>5
  <1> HIDE DEF T
  <1>5. \A U \in SUBSET R : (U # {} /\ U \ {Latest(p, U)} \in T) => U \in T
    BY <1>4
  <1>6. R \in T
    BY <1>2, <1>3, <1>5, PolicyIs, LatestInd
  <1> QED BY <1>6, <1>1 DEF T

-----------------------------------------------------------------------------
(* A sound state of the platform, and that the scheduler returns one.      *)

\* The shares of one resource.
Given(p, r) == [e \in Env |-> p.alloc[e][r]]

\* NoInversion, of any state of the platform.
InOrder(p) ==
    \A e, f \in Is(p, {"running"}), r \in Res :
      (/\ Before(p, e, f) /\ ~Frozen(p, r, e) /\ ~Frozen(p, r, f)
       /\ Container(p, e) => Container(p, f)
       /\ p.kind[e] = "cuda" => p.kind[f] = "cuda"
       /\ Short(p, r, Given(p, r), e))
      => p.alloc[f][r] = p.policy[f][r].min

\* WithinPolicy and WithinBudget, of any state of the platform, with what makes
\* the second one last: everyone who holds a share has at least its floor.
Sound(p) ==
    /\ \A r \in Res : \A e \in Holders(p, r) : Floor(p, r, e) <= p.alloc[e][r]
    /\ \A r \in Res : /\ SumOver(Given(p, r), Holders(p, r)) <= Most(p, r)
                      /\ SumOver(Given(p, r), Inside(p, r)) <= MostInside(p, r)
    /\ \A e \in Is(p, {"running"}), r \in Res :
         ~Frozen(p, r, e) => /\ p.policy[e][r].min <= p.alloc[e][r]
                             /\ p.alloc[e][r] <= p.policy[e][r].max
    /\ WholeIn(p) => InOrder(p)

\* Two states of the same installation under the same policies and pressure.
Alike(p, q) ==
    /\ q.kind = p.kind /\ q.macos = p.macos /\ q.policy = p.policy /\ q.pressure = p.pressure

\* Such states have the same frozen environments, targets, order and budget.
LEMMA AlikeIs ==
    ASSUME NEW p, NEW q, Alike(p, q), NEW r
    PROVE  /\ \A e : /\ Container(q, e) = Container(p, e)
                     /\ Frozen(q, r, e) = Frozen(p, r, e) /\ Fixed(q, e) = Fixed(p, e)
                     /\ Target(q, r, e) = Target(p, r, e)
           /\ \A e, f : Before(q, e, f) = Before(p, e, f)
           /\ HostBudget(q, r) = HostBudget(p, r)
           /\ WholeIn(q) = WholeIn(p)
           /\ \A x, e : Short(q, r, x, e) = Short(p, r, x, e)
  <1>1. \A e : Container(q, e) = Container(p, e)
    BY DEF Alike, Container
  <1>2. \A e : Fixed(q, e) = Fixed(p, e)
    BY <1>1 DEF Alike, Fixed
  <1>3. \A e : Frozen(q, r, e) = Frozen(p, r, e)
    BY <1>2 DEF Alike, Frozen
  <1>4. \A e : Target(q, r, e) = Target(p, r, e)
    BY DEF Alike, Target
  <1>5. \A e, f : Before(q, e, f) = Before(p, e, f)
    BY DEF Alike, Before
  <1>6. HostBudget(q, r) = HostBudget(p, r) /\ WholeIn(q) = WholeIn(p)
    BY DEF Alike, HostBudget, WholeIn
  <1>7. \A x, e : Short(q, r, x, e) = Short(p, r, x, e)
    BY <1>4 DEF Alike, Short
  <1> QED BY <1>1, <1>2, <1>3, <1>4, <1>5, <1>6, <1>7

\* The pools depend on the allocation only through the floors.
LEMMA PoolsSame ==
    ASSUME NEW p, NEW q, Alike(p, q), q.status = p.status, NEW r, Floors(q, r) = Floors(p, r)
    PROVE  /\ Holders(q, r) = Holders(p, r) /\ Inside(q, r) = Inside(p, r)
           /\ Most(q, r) = Most(p, r) /\ MostInside(q, r) = MostInside(p, r)
  <1>1. \A s : Is(q, s) = Is(p, s)
    BY DEF Is
  <1>2. Holders(q, r) = Holders(p, r) /\ Active(q) = Active(p)
    BY <1>1 DEF Holders, Active
  <1>3. \A e : Container(q, e) = Container(p, e)
    BY AlikeIs
  <1>4. Inside(q, r) = Inside(p, r)
    BY <1>2, <1>3 DEF Inside
  <1>5. {e \in Active(q) : ~Container(q, e)} = {e \in Active(p) : ~Container(p, e)}
    BY <1>2, <1>3
  <1>6. Reserved(q, r, Floors(q, r)) = Reserved(p, r, Floors(p, r))
    BY <1>5 DEF Reserved, Alike
  <1>7. HostBudget(q, r) = HostBudget(p, r)
    BY AlikeIs
  <1> QED BY <1>2, <1>4, <1>6, <1>7 DEF Most, MostInside

-----------------------------------------------------------------------------
\* What the scheduler returns is sound, in whatever state it is called, and it
\* takes nothing away that the next schedule would have to give back.
LEMMA ScheduleSound ==
    ASSUME NEW p, Typed(p), NEW q, Alike(p, q), q.status = p.status, q.alloc = Schedule(p)
    PROVE  /\ Typed(q) /\ Sound(q)
           /\ WholeIn(q) => \A e \in Is(q, {"running"}), r \in Res :
                              ~Frozen(q, r, e) => q.alloc[e][r] % Step = 0
  <1> DEFINE R == Is(p, {"running"})
  <1>1. ASSUME NEW r \in Res
        PROVE  \E acc : /\ Served(p, r, R, acc) /\ (WholeIn(p) => Ordered(p, r, R, acc))
                        /\ \A e \in Env : q.alloc[e][r] = acc.current[e]
    <2>1. PICK acc : /\ ScheduleResource(p, r) = acc.current
                     /\ Served(p, r, R, acc)
                     /\ WholeIn(p) => Ordered(p, r, R, acc)
      BY ScheduleServed
    <2>2. \A e \in Env : q.alloc[e][r] = acc.current[e]
      BY <2>1 DEF Schedule
    <2> QED BY <2>1, <2>2
  <1>2. q.alloc \in [Env -> [Res -> Nat]]
    <2>1. \A r \in Res : ScheduleResource(p, r) \in [Env -> Nat]
      BY ScheduleServed DEF Served
    <2> QED BY <2>1 DEF Schedule
  <1>3. Typed(q)
    BY <1>2 DEF Typed, Alike
  <1>4. \A s : Is(q, s) = Is(p, s)
    BY DEF Is
  <1>5. ASSUME NEW r \in Res PROVE Floors(q, r) = Floors(p, r)
    <2>1. PICK acc : Served(p, r, R, acc) /\ \A e \in Env : q.alloc[e][r] = acc.current[e]
      BY <1>1
    <2>2. ASSUME NEW e \in Env PROVE Floor(q, r, e) = Floor(p, r, e)
      <3>1. e \notin R \/ Frozen(p, r, e) => q.alloc[e][r] = Floor(p, r, e)
        BY <2>1 DEF Served
      <3>2. Kept(p, r, e) \in Nat /\ Kept(p, r, e) > 0
        BY KeptIs
      <3>3. Frozen(q, r, e) = Frozen(p, r, e) /\ Fixed(q, e) = Fixed(p, e)
        BY AlikeIs
      <3>4. q.policy = p.policy /\ q.status = p.status
        BY DEF Alike
      <3>5. q.alloc[e][r] > 0 => Kept(q, r, e) = q.alloc[e][r]
        BY DEF Kept
      <3>6. CASE p.status[e] = "running" /\ Frozen(p, r, e)
        <4>1. Floor(p, r, e) = Kept(p, r, e) /\ Floor(q, r, e) = Kept(q, r, e)
          BY <3>6, <3>3, <3>4 DEF Floor
        <4> QED BY <4>1, <3>1, <3>2, <3>5, <3>6
      <3>7. CASE p.status[e] = "running" /\ ~Frozen(p, r, e)
        BY <3>7, <3>3, <3>4 DEF Floor
      <3>8. CASE p.status[e] = "paused" /\ r = "mem"
        <4>1. Floor(p, r, e) = Kept(p, r, e) /\ Floor(q, r, e) = Kept(q, r, e)
          BY <3>8, <3>4 DEF Floor
        <4>2. e \notin R
          BY <3>8 DEF Is
        <4> QED BY <4>1, <4>2, <3>1, <3>2, <3>5
      <3>9. CASE p.status[e] = "paused" /\ r # "mem"
        <4>1. e \notin R
          BY <3>9 DEF Is
        <4> QED BY <4>1, <3>1, <3>3, <3>4, <3>9 DEF Floor
      <3>10. CASE p.status[e] \notin {"running", "paused"}
        BY <3>10, <3>4 DEF Floor
      <3> QED BY <3>6, <3>7, <3>8, <3>9, <3>10
    <2> QED BY <2>2 DEF Floors
  <1>6. ASSUME NEW r \in Res
        PROVE  /\ \A e \in Holders(q, r) : Floor(q, r, e) <= q.alloc[e][r]
               /\ SumOver(Given(q, r), Holders(q, r)) <= Most(q, r)
               /\ SumOver(Given(q, r), Inside(q, r)) <= MostInside(q, r)
    <2>1. PICK acc : Served(p, r, R, acc) /\ \A e \in Env : q.alloc[e][r] = acc.current[e]
      BY <1>1
    <2>2. Floors(q, r) = Floors(p, r)
      BY <1>5
    <2>3. /\ Holders(q, r) = Holders(p, r) /\ Inside(q, r) = Inside(p, r)
          /\ Most(q, r) = Most(p, r) /\ MostInside(q, r) = MostInside(p, r)
      BY <2>2, PoolsSame
    <2>4. acc.current \in [Env -> Nat] /\ acc.left \in Nat /\ acc.room \in Nat
      BY <2>1 DEF Served
    <2>5. Given(q, r) = acc.current
      BY <2>1, <2>4 DEF Given
    <2>6. SumOver(acc.current, Holders(p, r)) \in Int /\ SumOver(acc.current, Inside(p, r)) \in Int
      BY <2>4, SumInt
    <2>7. /\ SumOver(acc.current, Holders(p, r)) + acc.left = Most(p, r)
          /\ SumOver(acc.current, Inside(p, r)) + acc.room = MostInside(p, r)
      BY <2>1 DEF Served
    <2>8. ASSUME NEW e \in Holders(q, r) PROVE Floor(q, r, e) <= q.alloc[e][r]
      <3>1. e \in Env
        BY DEF Holders, Active, Is
      <3>2. Floor(q, r, e) = Floor(p, r, e)
        BY <3>1, <2>2 DEF Floors
      <3>3. Floor(p, r, e) \in Nat
        BY <3>1, FloorIs
      <3>4. CASE e \notin R \/ Frozen(p, r, e)
        BY <3>1, <3>2, <3>3, <3>4, <2>1 DEF Served
      <3>5. CASE e \in R /\ ~Frozen(p, r, e)
        <4>1. Floor(p, r, e) = p.policy[e][r].min
          BY <3>5 DEF Floor, Is
        <4> QED BY <4>1, <3>1, <3>2, <3>5, <2>1 DEF Served
      <3> QED BY <3>4, <3>5
    <2>9. /\ SumOver(Given(q, r), Holders(q, r)) <= Most(q, r)
          /\ SumOver(Given(q, r), Inside(q, r)) <= MostInside(q, r)
      BY <2>3, <2>4, <2>5, <2>6, <2>7
    <2> QED BY <2>8, <2>9
  <1>7. ASSUME NEW e \in Is(q, {"running"}), NEW r \in Res, ~Frozen(q, r, e)
        PROVE  /\ q.policy[e][r].min <= q.alloc[e][r] /\ q.alloc[e][r] <= q.policy[e][r].max
               /\ WholeIn(q) => q.alloc[e][r] % Step = 0
    <2>1. e \in R /\ e \in Env /\ ~Frozen(p, r, e) /\ q.policy = p.policy /\ WholeIn(q) = WholeIn(p)
      BY <1>4, <1>7, AlikeIs DEF Is, Alike
    <2>2. PICK acc : /\ Served(p, r, R, acc) /\ (WholeIn(p) => Ordered(p, r, R, acc))
                     /\ \A f \in Env : q.alloc[f][r] = acc.current[f]
      BY <1>1
    <2>3. q.policy[e][r].min <= q.alloc[e][r] /\ q.alloc[e][r] <= q.policy[e][r].max
      BY <2>1, <2>2 DEF Served
    <2>4. WholeIn(q) => q.alloc[e][r] % Step = 0
      BY <2>1, <2>2 DEF Ordered
    <2> QED BY <2>3, <2>4
  <1>8. ASSUME WholeIn(q) PROVE InOrder(q)
    <2> SUFFICES ASSUME NEW e \in Is(q, {"running"}), NEW f \in Is(q, {"running"}), NEW r \in Res,
                        Before(q, e, f), ~Frozen(q, r, e), ~Frozen(q, r, f),
                        Container(q, e) => Container(q, f),
                        Short(q, r, Given(q, r), e)
                 PROVE  q.alloc[f][r] = q.policy[f][r].min
      BY DEF InOrder
    <2>1. /\ e \in R /\ f \in R /\ e \in Env /\ f \in Env /\ q.policy = p.policy
      BY <1>4 DEF Is, Alike
    <2>2. /\ Before(p, e, f) /\ ~Frozen(p, r, e) /\ ~Frozen(p, r, f)
          /\ Container(p, e) => Container(p, f)
          /\ Short(p, r, Given(q, r), e) /\ WholeIn(p)
      BY <1>8, AlikeIs
    <2>3. PICK acc : /\ Served(p, r, R, acc) /\ (WholeIn(p) => Ordered(p, r, R, acc))
                     /\ \A g \in Env : q.alloc[g][r] = acc.current[g]
      BY <1>1
    <2>4. Short(p, r, acc.current, e)
      BY <2>1, <2>2, <2>3 DEF Short, Given
    <2>5. acc.current[f] = p.policy[f][r].min
      BY <2>1, <2>2, <2>3, <2>4 DEF Ordered
    <2> QED BY <2>1, <2>3, <2>5
  <1>9. Sound(q)
    BY <1>6, <1>7, <1>8 DEF Sound
  <1> QED BY <1>3, <1>7, <1>9

-----------------------------------------------------------------------------
(* What the CUDA pool and an environment that falls out leave of it.       *)

\* Handing the CUDA engine's share out again keeps it sound.
LEMMA LimitSound ==
    ASSUME NEW p, Typed(p), Sound(p),
           WholeIn(p) => \A e \in Is(p, {"running"}), r \in Res :
                           ~Frozen(p, r, e) => p.alloc[e][r] % Step = 0,
           NEW q, Alike(p, q), q.status = p.status, q.alloc = LimitCudaPool(p)
    PROVE  Typed(q) /\ Sound(q)
  <1> DEFINE R == CudaRunning(p)
  <1>1. /\ R \subseteq Is(p, {"running"}) /\ R \subseteq Env
        /\ \A e \in R : p.kind[e] = "cuda" /\ Container(p, e) /\ \A r \in Res : ~Frozen(p, r, e)
    BY DEF CudaRunning, Is, Frozen, Fixed, Container
  <1>2. \A r \in Res : CudaWithin(p, r)
    BY <1>1 DEF CudaWithin, Sound
  <1>3. WholeIn(p) => \A r \in Res : \A e \in R : p.alloc[e][r] % Step = 0
    BY <1>1
  <1>4. ASSUME NEW r \in Res
        PROVE  \E acc : /\ Pooled(p, r, R, acc) /\ (WholeIn(p) => PooledInOrder(p, r, R, acc))
                        /\ \A e \in Env : q.alloc[e][r] = acc.current[e]
    <2>1. PICK acc : /\ LimitCudaResource(p, r) = acc.current
                     /\ Pooled(p, r, R, acc)
                     /\ (WholeIn(p) /\ \A f \in R : p.alloc[f][r] % Step = 0)
                        => PooledInOrder(p, r, R, acc)
      BY <1>2, LimitPooled
    <2>2. \A e \in Env : q.alloc[e][r] = acc.current[e]
      BY <2>1 DEF LimitCudaPool
    <2> QED BY <1>3, <2>1, <2>2
  <1>5. q.alloc \in [Env -> [Res -> Nat]]
    <2>1. \A r \in Res : LimitCudaResource(p, r) \in [Env -> Nat]
      BY <1>2, LimitPooled DEF Pooled
    <2> QED BY <2>1 DEF LimitCudaPool
  <1>6. Typed(q)
    BY <1>5 DEF Typed, Alike
  <1>7. ASSUME NEW r \in Res, NEW e \in Env
        PROVE  /\ q.alloc[e][r] \in Nat /\ p.alloc[e][r] \in Nat /\ q.alloc[e][r] <= p.alloc[e][r]
               /\ e \notin R => q.alloc[e][r] = p.alloc[e][r]
               /\ e \in R => p.policy[e][r].min <= q.alloc[e][r]
    <2>1. PICK acc : Pooled(p, r, R, acc) /\ \A f \in Env : q.alloc[f][r] = acc.current[f]
      BY <1>4
    <2>2. q.alloc[e][r] \in Nat /\ p.alloc[e][r] \in Nat
      BY <1>5 DEF Typed
    <2> QED BY <2>1, <2>2 DEF Pooled
  <1>8. ASSUME NEW r \in Res, NEW e \in Env PROVE Floor(q, r, e) = Floor(p, r, e)
    <2>1. Frozen(q, r, e) = Frozen(p, r, e) /\ Fixed(q, e) = Fixed(p, e)
      BY AlikeIs
    <2>2. q.policy = p.policy /\ q.status = p.status
      BY DEF Alike
    <2>3. CASE e \in R
      <3>1. p.status[e] = "running" /\ ~Frozen(p, r, e)
        BY <1>1, <2>3 DEF Is
      <3> QED BY <3>1, <2>1, <2>2 DEF Floor
    <2>4. CASE e \notin R
      <3>1. q.alloc[e][r] = p.alloc[e][r]
        BY <1>7, <2>4
      <3>2. Kept(q, r, e) = Kept(p, r, e)
        BY <3>1, <2>2 DEF Kept
      <3> QED BY <3>1, <3>2, <2>1, <2>2 DEF Floor
    <2> QED BY <2>3, <2>4
  <1>9. ASSUME NEW r \in Res
        PROVE  /\ \A e \in Holders(q, r) : Floor(q, r, e) <= q.alloc[e][r]
               /\ SumOver(Given(q, r), Holders(q, r)) <= Most(q, r)
               /\ SumOver(Given(q, r), Inside(q, r)) <= MostInside(q, r)
    <2>1. Floors(q, r) = Floors(p, r)
      BY <1>8 DEF Floors
    <2>2. /\ Holders(q, r) = Holders(p, r) /\ Inside(q, r) = Inside(p, r)
          /\ Most(q, r) = Most(p, r) /\ MostInside(q, r) = MostInside(p, r)
      BY <2>1, PoolsSame
    <2>3. ASSUME NEW e \in Holders(q, r) PROVE Floor(q, r, e) <= q.alloc[e][r]
      <3>1. e \in Env /\ e \in Holders(p, r)
        BY <2>2 DEF Holders, Active, Is
      <3>2. Floor(p, r, e) <= p.alloc[e][r] /\ Floor(q, r, e) = Floor(p, r, e)
        BY <3>1, <1>8 DEF Sound
      <3>3. CASE e \in R
        <4>1. Floor(p, r, e) = p.policy[e][r].min
          BY <1>1, <3>3 DEF Floor, Is
        <4> QED BY <4>1, <3>1, <3>2, <3>3, <1>7
      <3>4. CASE e \notin R
        BY <3>1, <3>2, <3>4, <1>7
      <3> QED BY <3>3, <3>4
    <2>4. ASSUME NEW S
          PROVE  SumOver(Given(q, r), S) <= SumOver(Given(p, r), S)
                 /\ SumOver(Given(q, r), S) \in Int /\ SumOver(Given(p, r), S) \in Int
      <3>1. \A n \in Env : /\ Part(Given(q, r), S, n) \in Int /\ Part(Given(p, r), S, n) \in Int
                           /\ Part(Given(q, r), S, n) <= Part(Given(p, r), S, n)
        BY <1>7 DEF Part, Given
      <3> QED BY <3>1, SumMono
    <2>5. \A S : SumOver(Floors(p, r), S) \in Int
      BY PoolsAre, SumInt
    <2>6. Most(p, r) \in Int /\ MostInside(p, r) \in Int
      <3>1. HostBudget(p, r) \in Int /\ ContainerCapacity(r) - Reserved(p, r, Floors(p, r)) \in Int
        BY PoolsAre
      <3> QED BY <3>1, <2>5, MaxIs DEF Most, MostInside
    <2>7. SumOver(Given(p, r), Holders(p, r)) <= Most(p, r) /\ SumOver(Given(p, r), Inside(p, r)) <= MostInside(p, r)
      BY DEF Sound
    <2> QED BY <2>2, <2>3, <2>4, <2>6, <2>7
  <1>10. \A s : Is(q, s) = Is(p, s)
    BY DEF Is
  <1>11. ASSUME NEW e \in Is(q, {"running"}), NEW r \in Res, ~Frozen(q, r, e)
         PROVE  q.policy[e][r].min <= q.alloc[e][r] /\ q.alloc[e][r] <= q.policy[e][r].max
    <2>1. e \in Is(p, {"running"}) /\ e \in Env /\ ~Frozen(p, r, e) /\ q.policy = p.policy
      BY <1>10, <1>11, AlikeIs DEF Is, Alike
    <2>2. p.policy[e][r].min <= p.alloc[e][r] /\ p.alloc[e][r] <= p.policy[e][r].max
      BY <2>1 DEF Sound
    <2>3. p.policy[e][r].max \in Nat
      BY <2>1, PolicyIs DEF ValidRange
    <2>4. CASE e \in R
      BY <2>1, <2>2, <2>3, <2>4, <1>7
    <2>5. CASE e \notin R
      BY <2>1, <2>2, <2>5, <1>7
    <2> QED BY <2>4, <2>5
  <1>12. ASSUME WholeIn(q) PROVE InOrder(q)
    <2> SUFFICES ASSUME NEW e \in Is(q, {"running"}), NEW f \in Is(q, {"running"}), NEW r \in Res,
                        Before(q, e, f), ~Frozen(q, r, e), ~Frozen(q, r, f),
                        Container(q, e) => Container(q, f),
                        q.kind[e] = "cuda" => q.kind[f] = "cuda",
                        Short(q, r, Given(q, r), e)
                 PROVE  q.alloc[f][r] = q.policy[f][r].min
      BY DEF InOrder
    <2>1. /\ e \in Is(p, {"running"}) /\ f \in Is(p, {"running"}) /\ e \in Env /\ f \in Env
          /\ q.policy = p.policy /\ q.kind = p.kind
      BY <1>10 DEF Is, Alike
    <2>2. /\ Before(p, e, f) /\ ~Frozen(p, r, e) /\ ~Frozen(p, r, f)
          /\ Container(p, e) => Container(p, f)
          /\ Short(p, r, Given(q, r), e) /\ WholeIn(p)
      BY <1>12, AlikeIs
    <2>3. p.policy[f][r].min \in Nat
      BY <2>1, PolicyIs DEF ValidRange
    <2>4. CASE Short(p, r, Given(p, r), e)
      <3>1. p.alloc[f][r] = p.policy[f][r].min
        BY <2>1, <2>2, <2>4 DEF Sound, InOrder
      <3>2. CASE f \in R
        BY <3>1, <3>2, <2>1, <2>3, <1>7
      <3>3. CASE f \notin R
        BY <3>1, <3>3, <2>1, <1>7
      <3> QED BY <3>2, <3>3
    <2>5. CASE ~Short(p, r, Given(p, r), e)
      <3>1. q.alloc[e][r] # p.alloc[e][r]
        BY <2>1, <2>2, <2>5 DEF Short, Given
      <3>2. e \in R /\ q.alloc[e][r] < p.alloc[e][r]
        BY <3>1, <2>1, <1>7
      <3>3. f \in R
        BY <3>2, <1>1, <2>1 DEF CudaRunning
      <3>4. PICK acc : /\ PooledInOrder(p, r, R, acc)
                       /\ \A g \in Env : q.alloc[g][r] = acc.current[g]
        BY <1>4, <2>2
      <3>5. acc.current[f] = p.policy[f][r].min
        BY <2>1, <2>2, <3>2, <3>3, <3>4 DEF PooledInOrder
      <3> QED BY <3>4, <3>5, <2>1
    <2> QED BY <2>4, <2>5
  <1>13. Sound(q)
    BY <1>9, <1>11, <1>12 DEF Sound
  <1> QED BY <1>6, <1>13

-----------------------------------------------------------------------------
\* Environments that stop holding a share, until the next schedule, leave it
\* sound: nobody else has more, and no floor is lower.
LEMMA DropSound ==
    ASSUME NEW p, Typed(p), Sound(p), NEW q, Typed(q), Alike(p, q), NEW X,
           \A e \in Env : e \in X => q.status[e] \notin {"running", "paused"},
           \A e \in Env : e \notin X => q.status[e] = p.status[e] /\ q.alloc[e] = p.alloc[e]
    PROVE  Sound(q)
  <1>1. ASSUME NEW r \in Res
        PROVE  Holders(q, r) = Holders(p, r) \ X /\ Inside(q, r) = Inside(p, r) \ X
    <2>1. \A e : Container(q, e) = Container(p, e)
      BY AlikeIs
    <2>2. Holders(q, r) = Holders(p, r) \ X
      BY DEF Holders, Active, Is
    <2> QED BY <2>1, <2>2 DEF Inside
  <1>2. ASSUME NEW r \in Res, NEW e \in Env, e \notin X
        PROVE  Floor(q, r, e) = Floor(p, r, e) /\ q.alloc[e][r] = p.alloc[e][r]
    <2>1. Frozen(q, r, e) = Frozen(p, r, e) /\ Fixed(q, e) = Fixed(p, e)
      BY AlikeIs
    <2>2. q.policy = p.policy /\ q.status[e] = p.status[e] /\ q.alloc[e] = p.alloc[e]
      BY <1>2 DEF Alike
    <2>3. Kept(q, r, e) = Kept(p, r, e)
      BY <2>2 DEF Kept
    <2> QED BY <2>1, <2>2, <2>3 DEF Floor
  <1>3. ASSUME NEW r \in Res, NEW S, S \subseteq Holders(p, r)
        PROVE  /\ SumOver(Given(q, r), S \ X) \in Int /\ SumOver(Given(p, r), S) \in Int
               /\ SumOver(Floors(q, r), S \ X) \in Int /\ SumOver(Floors(p, r), S) \in Int
               /\ SumOver(Given(q, r), S \ X) <= SumOver(Given(p, r), S)
               /\ SumOver(Given(q, r), S \ X) + SumOver(Floors(p, r), S)
                    <= SumOver(Given(p, r), S) + SumOver(Floors(q, r), S \ X)
    <2>1. ASSUME NEW n \in Env
          PROVE  /\ Part(Given(q, r), S \ X, n) \in Int /\ Part(Given(p, r), S, n) \in Int
                 /\ Part(Floors(q, r), S \ X, n) \in Int /\ Part(Floors(p, r), S, n) \in Int
                 /\ Part(Given(q, r), S \ X, n) <= Part(Given(p, r), S, n)
                 /\ Part(Given(q, r), S \ X, n) + Part(Floors(p, r), S, n)
                    <= Part(Given(p, r), S, n) + Part(Floors(q, r), S \ X, n)
      <3>1. /\ Given(q, r)[n] = q.alloc[n][r] /\ Given(p, r)[n] = p.alloc[n][r]
            /\ Floors(q, r)[n] = Floor(q, r, n) /\ Floors(p, r)[n] = Floor(p, r, n)
        BY DEF Given, Floors
      <3>2. /\ q.alloc[n][r] \in Nat /\ p.alloc[n][r] \in Nat
            /\ Floor(q, r, n) \in Nat /\ Floor(p, r, n) \in Nat
        BY FloorIs DEF Typed
      <3>3. n \in S => Floor(p, r, n) <= p.alloc[n][r]
        BY <1>3 DEF Sound
      <3>4. CASE n \in S /\ n \notin X
        BY <3>1, <3>2, <3>4, <1>2 DEF Part
      <3>5. CASE n \in S /\ n \in X
        BY <3>1, <3>2, <3>3, <3>5 DEF Part
      <3>6. CASE n \notin S
        BY <3>6 DEF Part
      <3> QED BY <3>4, <3>5, <3>6
    <2>2. /\ SumOver(Given(q, r), S \ X) \in Int /\ SumOver(Given(p, r), S) \in Int
          /\ SumOver(Given(q, r), S \ X) <= SumOver(Given(p, r), S)
      <3>1. \A n \in Env : /\ Part(Given(q, r), S \ X, n) \in Int /\ Part(Given(p, r), S, n) \in Int
                           /\ Part(Given(q, r), S \ X, n) <= Part(Given(p, r), S, n)
        BY <2>1
      <3> QED BY <3>1, SumMono, Zenon
    <2>3. /\ SumOver(Floors(q, r), S \ X) \in Int /\ SumOver(Floors(p, r), S) \in Int
          /\ SumOver(Given(q, r), S \ X) + SumOver(Floors(p, r), S)
               <= SumOver(Given(p, r), S) + SumOver(Floors(q, r), S \ X)
      <3>1. \A n \in Env : /\ Part(Given(q, r), S \ X, n) \in Int /\ Part(Floors(q, r), S \ X, n) \in Int
                           /\ Part(Given(p, r), S, n) \in Int /\ Part(Floors(p, r), S, n) \in Int
                           /\ Part(Given(q, r), S \ X, n) + Part(Floors(p, r), S, n)
                                <= Part(Given(p, r), S, n) + Part(Floors(q, r), S \ X, n)
        BY <2>1
      <3> QED BY <3>1, SumFour, ZenonT(60)
    <2> QED BY <2>2, <2>3
  <1>4. ASSUME NEW r \in Res
        PROVE  /\ SumOver(Given(q, r), Holders(q, r)) <= Most(q, r)
               /\ SumOver(Given(q, r), Inside(q, r)) <= MostInside(q, r)
    <2> DEFINE B == HostBudget(p, r)
               K == ContainerCapacity(r) - Reserved(p, r, Floors(p, r))
               L == ContainerCapacity(r) - Reserved(q, r, Floors(q, r))
    <2>1. B \in Int /\ K \in Int /\ L \in Int /\ HostBudget(q, r) = B
      <3>1. HostBudget(q, r) = B
        BY AlikeIs
      <3> QED BY <3>1, PoolsAre
    <2>2. K <= L
      <3> DEFINE a == [e \in Env |-> Max({Floors(q, r)[e], q.policy[e][r].pref})]
                 c == [e \in Env |-> Max({Floors(p, r)[e], p.policy[e][r].pref})]
                 A == {e \in Active(q) : ~Container(q, e)}
                 C == {e \in Active(p) : ~Container(p, e)}
      <3>1. Reserved(q, r, Floors(q, r)) = (IF r = "cpu" THEN 0 ELSE SumOver(a, A))
            /\ Reserved(p, r, Floors(p, r)) = (IF r = "cpu" THEN 0 ELSE SumOver(c, C))
        BY DEF Reserved
      <3>2. A = C \ X
        <4>1. \A e : Container(q, e) = Container(p, e)
          BY AlikeIs
        <4> QED BY <4>1 DEF Active, Is
      <3>3. ASSUME NEW n \in Env
            PROVE  /\ a[n] \in Int /\ c[n] \in Int /\ c[n] >= 0
                   /\ n \notin X => a[n] = c[n]
        <4>1. Floor(q, r, n) \in Int /\ Floor(p, r, n) \in Int /\ Floor(p, r, n) >= 0
          BY FloorIs
        <4>2. p.policy[n][r].pref \in Int /\ q.policy = p.policy
          BY PolicyIs DEF ValidRange, Alike
        <4>3. n \notin X => Floor(q, r, n) = Floor(p, r, n)
          BY <1>2
        <4>4. Max({Floor(q, r, n), p.policy[n][r].pref}) \in Int
          BY <4>1, <4>2, MaxIs
        <4>5. Max({Floor(p, r, n), p.policy[n][r].pref}) \in Int
              /\ Max({Floor(p, r, n), p.policy[n][r].pref}) >= 0
          BY <4>1, <4>2, MaxIs
        <4>6. a[n] = Max({Floor(q, r, n), p.policy[n][r].pref})
              /\ c[n] = Max({Floor(p, r, n), p.policy[n][r].pref})
          BY <4>2 DEF Floors
        <4> QED BY <4>3, <4>4, <4>5, <4>6
      <3> HIDE DEF a, c, A, C
      <3>4. \A n \in Env : Part(a, A, n) \in Int /\ Part(c, C, n) \in Int /\ Part(a, A, n) <= Part(c, C, n)
        BY <3>2, <3>3 DEF Part
      <3>5. SumOver(a, A) \in Int /\ SumOver(c, C) \in Int /\ SumOver(a, A) <= SumOver(c, C)
        BY <3>4, SumMono
      <3>6. ContainerCapacity(r) \in Int
        BY PoolsAre
      <3> QED BY <3>1, <3>5, <3>6
    <2>3. Holders(q, r) = Holders(p, r) \ X /\ Inside(q, r) = Inside(p, r) \ X /\ Inside(p, r) \subseteq Holders(p, r)
      BY <1>1 DEF Inside
    <2>4. /\ SumOver(Given(p, r), Holders(p, r)) <= Max({B, SumOver(Floors(p, r), Holders(p, r))})
          /\ SumOver(Given(p, r), Inside(p, r)) <= Max({K, SumOver(Floors(p, r), Inside(p, r))})
      BY DEF Sound, Most, MostInside
    <2>5. /\ Most(q, r) = Max({B, SumOver(Floors(q, r), Holders(q, r))})
          /\ MostInside(q, r) = Max({L, SumOver(Floors(q, r), Inside(q, r))})
      BY <2>1 DEF Most, MostInside
    <2> HIDE DEF B, K, L
    <2>6. SumOver(Given(q, r), Holders(q, r)) <= Max({B, SumOver(Floors(q, r), Holders(q, r))})
      <3> DEFINE g == SumOver(Given(p, r), Holders(p, r))
                 f == SumOver(Floors(p, r), Holders(p, r))
                 gq == SumOver(Given(q, r), Holders(q, r))
                 fq == SumOver(Floors(q, r), Holders(q, r))
      <3>1. g \in Int /\ f \in Int /\ gq \in Int /\ fq \in Int /\ gq <= g /\ gq + f <= g + fq
        BY <1>3, <2>3
      <3>2. g <= Max({B, f})
        BY <2>4
      <3> HIDE DEF g, f, gq, fq
      <3>3. gq <= Max({B, fq})
        BY <3>1, <3>2, <2>1, MaxIs
      <3> QED BY <3>3 DEF gq, fq
    <2>7. SumOver(Given(q, r), Inside(q, r)) <= Max({L, SumOver(Floors(q, r), Inside(q, r))})
      <3> DEFINE g == SumOver(Given(p, r), Inside(p, r))
                 f == SumOver(Floors(p, r), Inside(p, r))
                 gq == SumOver(Given(q, r), Inside(q, r))
                 fq == SumOver(Floors(q, r), Inside(q, r))
      <3>1. g \in Int /\ f \in Int /\ gq \in Int /\ fq \in Int /\ gq <= g /\ gq + f <= g + fq
        BY <1>3, <2>3
      <3>2. g <= Max({K, f})
        BY <2>4
      <3> HIDE DEF g, f, gq, fq
      <3>3. gq <= Max({L, fq})
        BY <3>1, <3>2, <2>1, <2>2, MaxIs
      <3> QED BY <3>3 DEF gq, fq
    <2> QED BY <2>5, <2>6, <2>7
  <1>5. ASSUME NEW r \in Res, NEW e \in Holders(q, r) PROVE Floor(q, r, e) <= q.alloc[e][r]
    <2>1. e \in Holders(p, r) /\ e \notin X /\ e \in Env
      BY <1>1, <1>5 DEF Holders, Active, Is
    <2> QED BY <2>1, <1>2 DEF Sound
  <1>6. \A e \in Is(q, {"running"}) : e \in Is(p, {"running"}) /\ e \notin X /\ e \in Env
    BY DEF Is
  <1>7. ASSUME NEW e \in Is(q, {"running"}), NEW r \in Res, ~Frozen(q, r, e)
        PROVE  q.policy[e][r].min <= q.alloc[e][r] /\ q.alloc[e][r] <= q.policy[e][r].max
    <2>1. e \in Is(p, {"running"}) /\ e \notin X /\ e \in Env /\ ~Frozen(p, r, e) /\ q.policy = p.policy
      BY <1>6, <1>7, AlikeIs DEF Alike
    <2> QED BY <2>1, <1>2 DEF Sound
  <1>8. ASSUME WholeIn(q) PROVE InOrder(q)
    <2> SUFFICES ASSUME NEW e \in Is(q, {"running"}), NEW f \in Is(q, {"running"}), NEW r \in Res,
                        Before(q, e, f), ~Frozen(q, r, e), ~Frozen(q, r, f),
                        Container(q, e) => Container(q, f),
                        q.kind[e] = "cuda" => q.kind[f] = "cuda",
                        Short(q, r, Given(q, r), e)
                 PROVE  q.alloc[f][r] = q.policy[f][r].min
      BY DEF InOrder
    <2>1. /\ e \in Is(p, {"running"}) /\ f \in Is(p, {"running"}) /\ e \in Env /\ f \in Env
          /\ q.policy = p.policy /\ q.kind = p.kind
          /\ q.alloc[e][r] = p.alloc[e][r] /\ q.alloc[f][r] = p.alloc[f][r]
      BY <1>2, <1>6 DEF Alike
    <2>2. /\ Before(p, e, f) /\ ~Frozen(p, r, e) /\ ~Frozen(p, r, f)
          /\ Container(p, e) => Container(p, f)
          /\ Short(p, r, Given(q, r), e) /\ WholeIn(p)
      BY <1>8, AlikeIs
    <2>3. Short(p, r, Given(p, r), e)
      BY <2>1, <2>2 DEF Short, Given
    <2> QED BY <2>1, <2>2, <2>3 DEF Sound, InOrder
  <1> QED BY <1>4, <1>5, <1>7, <1>8 DEF Sound

-----------------------------------------------------------------------------
(* The inductive invariant, and a new schedule.                            *)

\* The limits of every environment.
Limits == [Env -> [Res -> Nat]]

\* What the holder of the lock works with.
OpTyped ==
    \/ op = Idle
    \/ /\ op.job = "refresh" /\ DOMAIN op = {"job", "todo", "goal", "exited"}
       /\ op.todo \subseteq Containers /\ op.goal \in Limits
    \/ /\ op.job \in Job /\ DOMAIN op = Fields
       /\ op.env \in Env /\ op.pol \in Policies
       /\ op.todo \subseteq Containers /\ op.undo \in Seq(Containers)
       /\ op.goal \in Limits /\ op.prev \in Limits

\* The inductive invariant of the shares.
ShareInv == TypeOK /\ OpTyped /\ Sound(Platform)

\* The fields of a state of the platform.
PlatformFields == {"kind", "macos", "status", "policy", "alloc", "pressure"}

\* The fields of the platform's state.
LEMMA PlatformIs ==
    /\ DOMAIN Platform = PlatformFields
    /\ Platform.kind = kind /\ Platform.macos = macos /\ Platform.status = status
    /\ Platform.policy = policy /\ Platform.alloc = alloc /\ Platform.pressure = pressure
  BY DEF Platform, PlatformFields

\* The types of the variables are those of the platform's state.
LEMMA PlatformTyped == TypeOK => Typed(Platform)
  BY DEF TypeOK, Typed, Platform

\* A policy prefers a natural number of each resource.
LEMMA PreferredIs == \A pol \in Policies : Preferred(pol) \in [Res -> Nat]
  BY PolicyAssumption DEF Preferred, ValidRange

\* A new schedule is sound, whatever it replaces.
LEMMA RescheduleSound ==
    ASSUME NEW q, Typed(q), q.kind = kind, q.macos = macos, UNCHANGED machine, Reschedule(q)
    PROVE  Typed(Platform)' /\ Sound(Platform)'
  <1>1. Alike(q, Platform') /\ Platform'.status = q.status /\ Platform'.alloc = Schedule(q)
    BY DEF Reschedule, machine, Alike, Platform
  <1> QED BY <1>1, ScheduleSound

\* The schedule of a command or a refresh is sound, with the CUDA pool applied or
\* not.
LEMMA ScheduledSound ==
    ASSUME NEW q, Typed(q), DOMAIN q = PlatformFields, NEW cuda, NEW t \in Scheduled(q, cuda)
    PROVE  Typed(t) /\ Sound(t) /\ Alike(q, t) /\ t.status = q.status
  <1> DEFINE s == [q EXCEPT !.alloc = Schedule(q)]
             u == [s EXCEPT !.alloc = LimitCudaPool(s)]
  <1>1. Alike(q, s) /\ s.status = q.status /\ s.alloc = Schedule(q)
    BY DEF Alike, PlatformFields
  <1>2. /\ Typed(s) /\ Sound(s)
        /\ WholeIn(s) => \A e \in Is(s, {"running"}), r \in Res :
                           ~Frozen(s, r, e) => s.alloc[e][r] % Step = 0
    <2> HIDE DEF s
    <2> QED BY <1>1, ScheduleSound
  <1>3. Alike(s, u) /\ u.status = s.status /\ u.alloc = LimitCudaPool(s)
    BY DEF Alike, PlatformFields
  <1>4. t = s \/ t = u
    BY DEF Scheduled
  <1>5. Alike(q, u) /\ u.status = q.status
    BY DEF Alike, PlatformFields
  <1>6. Typed(u) /\ Sound(u)
    <2> HIDE DEF s, u
    <2> QED BY <1>2, <1>3, LimitSound
  <1> HIDE DEF s, u
  <1> QED BY <1>1, <1>2, <1>4, <1>5, <1>6

\* Environments that fall out of the schedule.
LEMMA FallenSound ==
    ASSUME ShareInv, UNCHANGED <<machine, policy, pressure>>, NEW X,
           status' \in [Env -> Status], alloc' \in Limits,
           \A e \in Env : e \in X => status'[e] \notin {"running", "paused"},
           \A e \in Env : e \notin X => status'[e] = status[e] /\ alloc'[e] = alloc[e]
    PROVE  Typed(Platform)' /\ Sound(Platform)'
  <1>1. Typed(Platform) /\ Sound(Platform)
    BY PlatformTyped DEF ShareInv
  <1>2. Alike(Platform, Platform') /\ Typed(Platform')
    BY <1>1 DEF Alike, Platform, machine, Typed, Limits
  <1>3. /\ Platform.status = status /\ Platform.alloc = alloc
        /\ Platform'.status = status' /\ Platform'.alloc = alloc'
    BY DEF Platform
  <1> QED BY <1>1, <1>2, <1>3, DropSound

-----------------------------------------------------------------------------

\* Nothing runs at first, and no share is handed out.
LEMMA InitShares == Init => ShareInv
  <1> SUFFICES ASSUME Init PROVE ShareInv
    OBVIOUS
  <1>1. PICK fleet \in Fleets : kind = fleet.kind /\ policy = fleet.policy /\ macos = fleet.macos
    BY DEF Init
  <1>2. kind \in [Env -> Kind] /\ policy \in [Env -> Policies] /\ macos \in BOOLEAN
    BY <1>1, FleetAssumption
  <1>3. TypeOK
    <2>1. limit \in [Env -> [Res -> Nat]]
      BY <1>2, PreferredIs DEF Init
    <2>2. alloc \in [Env -> [Res -> Nat]] /\ cache \in [Env -> [Res -> Nat]]
      BY DEF Init, NoLimit
    <2>3. status \in [Env -> Status] /\ pressure \in Pressure /\ doubt \subseteq Containers
      BY DEF Init, Status, Pressure
    <2>4. commands \in 0..MaxCommands /\ faults \in 0..MaxFaults
      BY BoundAssumption DEF Init
    <2> QED BY <1>2, <2>1, <2>2, <2>3, <2>4 DEF TypeOK
  <1>4. OpTyped
    BY DEF Init, OpTyped
  <1>5. Sound(Platform)
    <2>1. Typed(Platform)
      BY <1>3, PlatformTyped
    <2>2. \A s \in SUBSET {"running", "paused"} : Is(Platform, s) = {}
      BY PlatformIs DEF Init, Is
    <2>3. Is(Platform, {"running"}) = {} /\ Active(Platform) = {}
      BY <2>2 DEF Active
    <2>4. ASSUME NEW r \in Res
          PROVE  /\ \A e \in Holders(Platform, r) : Floor(Platform, r, e) <= Platform.alloc[e][r]
                 /\ SumOver(Given(Platform, r), Holders(Platform, r)) <= Most(Platform, r)
                 /\ SumOver(Given(Platform, r), Inside(Platform, r)) <= MostInside(Platform, r)
      <3>1. Holders(Platform, r) = {} /\ Inside(Platform, r) = {}
        BY <2>3 DEF Holders, Inside
      <3> DEFINE F == Floors(Platform, r)
                 G == Given(Platform, r)
      <3>2. SumOver(G, {}) = SumOver(F, {}) /\ SumOver(F, {}) \in Int /\ SumOver(G, {}) \in Int
        <4>1. \A n \in Env : Part(G, {}, n) \in Int /\ Part(G, {}, n) = Part(F, {}, n)
          BY DEF Part
        <4> HIDE DEF F, G
        <4> QED BY <4>1, SumSame
      <3>3. /\ HostBudget(Platform, r) \in Int
            /\ ContainerCapacity(r) - Reserved(Platform, r, F) \in Int
        BY <2>1, PoolsAre
      <3>4. \A b \in Int : SumOver(G, {}) <= Max({b, SumOver(F, {})})
        <4> HIDE DEF F, G
        <4> QED BY <3>2, MaxIs
      <3> QED BY <3>1, <3>3, <3>4 DEF Most, MostInside
    <2> QED BY <2>3, <2>4 DEF Sound, InOrder
  <1> QED BY <1>3, <1>4, <1>5 DEF ShareInv

-----------------------------------------------------------------------------
(* What each action does to the shares.                                    *)

\* The state with one environment in another state, policy or share.
LEMMA OneTyped ==
    ASSUME TypeOK, NEW e \in Env, NEW st \in Status, NEW pol \in Policies, NEW a \in [Res -> Nat]
    PROVE  \A q : (/\ q.kind = kind /\ q.macos = macos /\ q.pressure = pressure
                   /\ \/ q.status = status \/ q.status = [status EXCEPT ![e] = st]
                   /\ \/ q.policy = policy \/ q.policy = [policy EXCEPT ![e] = pol]
                   /\ \/ q.alloc = alloc \/ q.alloc = [alloc EXCEPT ![e] = a])
                  => Typed(q)
  <1> SUFFICES ASSUME NEW q, q.kind = kind, q.macos = macos, q.pressure = pressure,
                      q.status = status \/ q.status = [status EXCEPT ![e] = st],
                      q.policy = policy \/ q.policy = [policy EXCEPT ![e] = pol],
                      q.alloc = alloc \/ q.alloc = [alloc EXCEPT ![e] = a]
               PROVE  Typed(q)
    OBVIOUS
  <1>1. q.kind \in [Env -> Kind] /\ q.macos \in BOOLEAN /\ q.pressure \in Pressure
    BY DEF TypeOK
  <1>2. q.status \in [Env -> Status]
    BY DEF TypeOK
  <1>3. q.policy \in [Env -> Policies]
    BY DEF TypeOK
  <1>4. q.alloc \in [Env -> [Res -> Nat]]
    BY DEF TypeOK
  <1> QED BY <1>1, <1>2, <1>3, <1>4 DEF Typed

\* No limit at all has the type of one.
LEMMA NoLimitIs == NoLimit \in [Res -> Nat]
  BY DEF NoLimit

\* A command that is saved schedules anew.
LEMMA PersistShares == ShareInv /\ Persist => Typed(Platform)' /\ Sound(Platform)'
  <1> SUFFICES ASSUME ShareInv, Persist PROVE Typed(Platform)' /\ Sound(Platform)'
    OBVIOUS
  <1> DEFINE q == [Platform EXCEPT !.status[op.env] = "running", !.policy[op.env] = op.pol,
                                   !.alloc[op.env] = Preferred(op.pol)]
  <1>1. TypeOK /\ op.env \in Env /\ op.pol \in Policies /\ Preferred(op.pol) \in [Res -> Nat]
    BY PreferredIs DEF ShareInv, OpTyped, Persist, Working, Job
  <1>2. Reschedule(q) /\ UNCHANGED machine
    BY DEF Persist
  <1>3. /\ q.kind = kind /\ q.macos = macos /\ q.pressure = pressure
        /\ q.status = [status EXCEPT ![op.env] = "running"]
        /\ q.policy = [policy EXCEPT ![op.env] = op.pol]
        /\ q.alloc = [alloc EXCEPT ![op.env] = Preferred(op.pol)]
    BY DEF Platform
  <1> HIDE DEF q
  <1>4. Typed(q)
    <2>1. "running" \in Status
      BY DEF Status
    <2> QED BY <1>1, <1>3, <2>1, OneTyped
  <1> QED BY <1>2, <1>3, <1>4, RescheduleSound

\* So does the new policy of a container that does not run.
LEMMA SaveIdleShares ==
    ASSUME ShareInv, NEW e \in Env, NEW pol \in Policies, SaveIdle(e, pol)
    PROVE  Typed(Platform)' /\ Sound(Platform)'
  <1> DEFINE q == [Platform EXCEPT !.policy[e] = pol]
  <1>1. Reschedule(q) /\ UNCHANGED machine
    BY DEF SaveIdle
  <1>2. /\ q.kind = kind /\ q.macos = macos /\ q.pressure = pressure
        /\ q.status = status /\ q.policy = [policy EXCEPT ![e] = pol] /\ q.alloc = alloc
    BY DEF Platform
  <1> HIDE DEF q
  <1>3. Typed(q)
    BY <1>2, OneTyped, NoLimitIs DEF ShareInv, Status
  <1> QED BY <1>1, <1>2, <1>3, RescheduleSound

\* A machine or a container stops, pauses or starts.
LEMMA PowerShares ==
    ASSUME ShareInv, NEW e \in Env, NEW st \in Status, NEW a \in [Res -> Nat], UNCHANGED machine,
           \/ Reschedule([Platform EXCEPT !.status[e] = st])
           \/ Reschedule([Platform EXCEPT !.status[e] = st, !.alloc[e] = a])
    PROVE  Typed(Platform)' /\ Sound(Platform)'
  <1> DEFINE q == [Platform EXCEPT !.status[e] = st]
             s == [Platform EXCEPT !.status[e] = st, !.alloc[e] = a]
  <1>1. PICK pol \in Policies : TRUE
    BY DEF ShareInv, TypeOK
  <1>2. CASE Reschedule(q)
    <2>1. /\ q.kind = kind /\ q.macos = macos /\ q.pressure = pressure
          /\ q.status = [status EXCEPT ![e] = st] /\ q.policy = policy /\ q.alloc = alloc
      BY DEF Platform
    <2> HIDE DEF q
    <2>2. Typed(q)
      BY <1>1, <2>1, OneTyped DEF ShareInv
    <2> QED BY <1>2, <2>1, <2>2, RescheduleSound
  <1>3. CASE Reschedule(s)
    <2>1. /\ s.kind = kind /\ s.macos = macos /\ s.pressure = pressure
          /\ s.status = [status EXCEPT ![e] = st] /\ s.policy = policy
          /\ s.alloc = [alloc EXCEPT ![e] = a]
      BY DEF Platform
    <2> HIDE DEF s
    <2>2. Typed(s)
      BY <1>1, <2>1, OneTyped DEF ShareInv
    <2> QED BY <1>3, <2>1, <2>2, RescheduleSound
  <1> QED BY <1>2, <1>3

\* A machine that comes up is scheduled with its share in whole CPUs.
LEMMA MachineOnShares ==
    ASSUME ShareInv, NEW e \in Env, MachineOn(e)
    PROVE  Typed(Platform)' /\ Sound(Platform)'
  <1> DEFINE pref == Preferred(policy[e])
             up == [pref EXCEPT !["cpu"] = Max({Cpu * ((@ + Cpu \div 2) \div Cpu), Cpu})]
             booted == IF macos /\ status[e] = "paused" THEN alloc[e] ELSE IF macos THEN up ELSE pref
  <1>1. alloc[e] \in [Res -> Nat] /\ pref \in [Res -> Nat]
    BY PreferredIs DEF ShareInv, TypeOK
  <1>2. up \in [Res -> Nat]
    <2> DEFINE x == Cpu * ((pref["cpu"] + Cpu \div 2) \div Cpu)
    <2>1. pref["cpu"] \in Nat
      BY <1>1 DEF Res
    <2> HIDE DEF pref
    <2>2. x \in Int /\ Cpu \in Nat
      BY <2>1 DEF Cpu, Step
    <2>3. Max({x, Cpu}) \in Nat
      <3> HIDE DEF x
      <3>1. Max({x, Cpu}) = IF x >= Cpu THEN x ELSE Cpu
        BY <2>2, MaxIs
      <3> QED BY <3>1, <2>2
    <2>4. up = [pref EXCEPT !["cpu"] = Max({x, Cpu})]
      OBVIOUS
    <2> HIDE DEF x
    <2> QED BY <1>1, <2>3, <2>4
  <1>3. booted \in [Res -> Nat]
    BY <1>1, <1>2
  <1>4. Reschedule([Platform EXCEPT !.status[e] = "running", !.alloc[e] = booted]) /\ UNCHANGED machine
    BY DEF MachineOn
  <1> HIDE DEF booted
  <1> QED BY <1>3, <1>4, PowerShares DEF Status

\* So is one whose policy is saved, live or not.
LEMMA MachineSaveShares ==
    ASSUME ShareInv, NEW e \in Env, NEW pol \in Policies, MachineSave(e, pol)
    PROVE  Typed(Platform)' /\ Sound(Platform)'
  <1> DEFINE live == status[e] = "running" /\ ~macos
             now == IF ~live THEN alloc[e]
                    ELSE IF kind[e] = "micro" THEN [Preferred(pol) EXCEPT !["mem"] = alloc[e]["mem"]]
                    ELSE Preferred(pol)
             q == [Platform EXCEPT !.policy[e] = pol, !.alloc[e] = now]
  <1>1. alloc[e] \in [Res -> Nat] /\ Preferred(pol) \in [Res -> Nat]
    BY PreferredIs DEF ShareInv, TypeOK
  <1>2. [Preferred(pol) EXCEPT !["mem"] = alloc[e]["mem"]] \in [Res -> Nat]
    BY <1>1 DEF Res
  <1>3. now \in [Res -> Nat]
    BY <1>1, <1>2
  <1>4. Reschedule(q) /\ UNCHANGED machine
    BY DEF MachineSave
  <1> HIDE DEF now
  <1>5. /\ q.kind = kind /\ q.macos = macos /\ q.pressure = pressure
        /\ q.status = status /\ q.policy = [policy EXCEPT ![e] = pol]
        /\ q.alloc = [alloc EXCEPT ![e] = now]
    BY DEF Platform
  <1> HIDE DEF q
  <1>6. Typed(q)
    BY <1>3, <1>5, OneTyped DEF ShareInv, Status
  <1> QED BY <1>4, <1>5, <1>6, RescheduleSound

\* A start that failed leaves its environment in error, without a new schedule.
LEMMA UndoEndsShares == ShareInv /\ UndoEnds => Typed(Platform)' /\ Sound(Platform)'
  <1> SUFFICES ASSUME ShareInv, UndoEnds PROVE Typed(Platform)' /\ Sound(Platform)'
    OBVIOUS
  <1>1. /\ status \in [Env -> Status] /\ alloc \in Limits /\ op.env \in Env
        /\ UNCHANGED <<machine, policy, pressure>> /\ alloc' = alloc
        /\ status' = status \/ status' = [status EXCEPT ![op.env] = "error"]
    BY DEF ShareInv, TypeOK, OpTyped, UndoEnds, Working, Limits, Job
  <1>2. CASE status' = status
    <2> DEFINE X == {}
    <2>1. /\ \A e \in Env : e \in X => status'[e] \notin {"running", "paused"}
          /\ \A e \in Env : e \notin X => status'[e] = status[e] /\ alloc'[e] = alloc[e]
      BY <1>1, <1>2
    <2>2. status' \in [Env -> Status] /\ alloc' \in Limits
      BY <1>1, <1>2
    <2> HIDE DEF X
    <2> QED BY <1>1, <2>1, <2>2, FallenSound
  <1>3. CASE status' = [status EXCEPT ![op.env] = "error"]
    <2> DEFINE X == {op.env}
    <2>1. status' \in [Env -> Status] /\ alloc' \in Limits
      BY <1>1, <1>3 DEF Status
    <2>2. /\ \A e \in Env : e \in X => status'[e] \notin {"running", "paused"}
          /\ \A e \in Env : e \notin X => status'[e] = status[e] /\ alloc'[e] = alloc[e]
      BY <1>1, <1>3
    <2> HIDE DEF X
    <2> QED BY <1>1, <2>1, <2>2, FallenSound
  <1> QED BY <1>1, <1>2, <1>3

\* So does a power command that failed.
LEMMA PowerFailsShares ==
    ASSUME ShareInv, NEW e \in Env, PowerFails(e)
    PROVE  Typed(Platform)' /\ Sound(Platform)'
  <1>1. /\ status \in [Env -> Status] /\ alloc \in Limits
        /\ UNCHANGED <<machine, policy, pressure>> /\ alloc' = alloc
        /\ status' = [status EXCEPT ![e] = "error"]
    BY DEF ShareInv, TypeOK, PowerFails, Limits
  <1> DEFINE X == {e}
  <1>2. status' \in [Env -> Status] /\ alloc' \in Limits
    BY <1>1 DEF Status
  <1>3. /\ \A f \in Env : f \in X => status'[f] \notin {"running", "paused"}
        /\ \A f \in Env : f \notin X => status'[f] = status[f] /\ alloc'[f] = alloc[f]
    BY <1>1
  <1> HIDE DEF X
  <1> QED BY <1>1, <1>2, <1>3, FallenSound

\* A machine found gone gives its share up, without a new schedule.
LEMMA MachineLostShares ==
    ASSUME ShareInv, NEW e \in Env, MachineLost(e)
    PROVE  Typed(Platform)' /\ Sound(Platform)'
  <1>1. PICK s \in {"stopped", "error"} : status' = [status EXCEPT ![e] = s]
    BY DEF MachineLost
  <1>2. /\ status \in [Env -> Status] /\ alloc \in Limits
        /\ UNCHANGED <<machine, policy, pressure>> /\ alloc' = [alloc EXCEPT ![e] = NoLimit]
    BY DEF ShareInv, TypeOK, MachineLost, Limits
  <1> DEFINE X == {e}
  <1>3. status' \in [Env -> Status] /\ alloc' \in Limits
    BY <1>1, <1>2, NoLimitIs DEF Status, Limits
  <1>4. /\ \A f \in Env : f \in X => status'[f] \notin {"running", "paused"}
        /\ \A f \in Env : f \notin X => status'[f] = status[f] /\ alloc'[f] = alloc[f]
    BY <1>1, <1>2 DEF Limits
  <1> HIDE DEF X
  <1> QED BY <1>2, <1>3, <1>4, FallenSound

\* Containers found exited fall out of the schedule, without a new one.
LEMMA RefreshEndsShares == ShareInv /\ RefreshEnds => Typed(Platform)' /\ Sound(Platform)'
  <1> SUFFICES ASSUME ShareInv, RefreshEnds PROVE Typed(Platform)' /\ Sound(Platform)'
    OBVIOUS
  <1>1. /\ status \in [Env -> Status] /\ alloc \in Limits
        /\ UNCHANGED <<machine, policy, pressure>> /\ alloc' = alloc
        /\ status' = [e \in Env |-> IF e \in op.exited THEN "error" ELSE status[e]]
    BY DEF ShareInv, TypeOK, RefreshEnds, Limits
  <1> DEFINE X == op.exited
  <1>2. status' \in [Env -> Status] /\ alloc' \in Limits
    BY <1>1 DEF Status
  <1>3. /\ \A f \in Env : f \in X => status'[f] \notin {"running", "paused"}
        /\ \A f \in Env : f \notin X => status'[f] = status[f] /\ alloc'[f] = alloc[f]
    BY <1>1
  <1> HIDE DEF X
  <1> QED BY <1>1, <1>2, <1>3, FallenSound

\* A refresh takes over the schedule for the pressure it measured, with the CUDA
\* pool applied.
LEMMA RefreshBeginsShares ==
    ASSUME ShareInv, RefreshBegins
    PROVE  /\ Typed(Platform)' /\ Sound(Platform)'
           /\ op'.job = "refresh" /\ DOMAIN op' = {"job", "todo", "goal", "exited"}
           /\ op'.todo \subseteq Containers /\ op'.goal \in Limits
  <1>1. PICK now \in Loads, cuda \in BOOLEAN :
          \E s \in Scheduled([Platform EXCEPT !.pressure = now], cuda) :
                /\ pressure' = now /\ alloc' = s.alloc
                /\ op' = [job |-> "refresh", todo |-> RunningContainers(s),
                          goal |-> s.alloc, exited |-> {}]
    BY DEF RefreshBegins
  <1> DEFINE q == [Platform EXCEPT !.pressure = now]
  <1>2. PICK s \in Scheduled(q, cuda) :
                /\ pressure' = now /\ alloc' = s.alloc
                /\ op' = [job |-> "refresh", todo |-> RunningContainers(s),
                          goal |-> s.alloc, exited |-> {}]
    BY <1>1
  <1>3. /\ q.kind = kind /\ q.macos = macos /\ q.pressure = now
        /\ q.status = status /\ q.policy = policy /\ q.alloc = alloc
        /\ DOMAIN q = PlatformFields
    BY DEF Platform, PlatformFields
  <1> HIDE DEF q
  <1>4. Typed(q)
    BY <1>3, LoadAssumption DEF ShareInv, TypeOK, Typed
  <1>5. Typed(s) /\ Sound(s) /\ Alike(q, s) /\ s.status = q.status
    BY <1>2, <1>3, <1>4, ScheduledSound
  <1>6. s.kind = kind /\ s.macos = macos /\ s.policy = policy /\ s.pressure = now /\ s.status = status
    BY <1>3, <1>5 DEF Alike
  <1>7. /\ Platform'.kind = kind /\ Platform'.macos = macos /\ Platform'.policy = policy
        /\ Platform'.pressure = now /\ Platform'.status = status /\ Platform'.alloc = s.alloc
    BY <1>2 DEF RefreshBegins, machine, Platform
  <1>8. /\ Alike(s, Platform') /\ Typed(Platform')
    BY <1>5, <1>6, <1>7 DEF Alike, Typed
  <1>9. Sound(Platform')
    <2> DEFINE X == {}
    <2>1. /\ \A e \in Env : e \in X => Platform'.status[e] \notin {"running", "paused"}
          /\ \A e \in Env : e \notin X => /\ Platform'.status[e] = s.status[e]
                                          /\ Platform'.alloc[e] = s.alloc[e]
      BY <1>6, <1>7
    <2> HIDE DEF X
    <2> QED BY <1>5, <1>8, <2>1, DropSound
  <1>10. RunningContainers(s) \subseteq Containers
    BY <1>6 DEF RunningContainers, Is, Containers, Container
  <1>11. s.alloc \in Limits
    BY <1>5 DEF Typed, Limits
  <1>12. /\ op'.job = "refresh" /\ DOMAIN op' = {"job", "todo", "goal", "exited"}
         /\ op'.todo = RunningContainers(s) /\ op'.goal = s.alloc
    BY <1>2
  <1> QED BY <1>8, <1>9, <1>10, <1>11, <1>12

-----------------------------------------------------------------------------
(* Every action keeps the invariant.                                       *)

\* The bounds on commands and faults.
Counted == commands \in 0..MaxCommands /\ faults \in 0..MaxFaults

\* The types of the limits and of their record.
LimitsTyped == limit \in Limits /\ cache \in Limits /\ doubt \subseteq Containers

\* TypeOK in three parts.
LEMMA TypeIs == TypeOK <=> Typed(Platform) /\ LimitsTyped /\ Counted
  BY DEF TypeOK, Typed, Platform, LimitsTyped, Counted, Limits

\* The same of the next state.
LEMMA TypeIsNext == Typed(Platform)' /\ LimitsTyped' /\ Counted' => TypeOK'
  BY DEF TypeOK, Typed, Platform, LimitsTyped, Counted, Limits

\* Commands stay within their bound.
LEMMA CommandCounts == Counted /\ Command => commands' \in 0..MaxCommands
  BY BoundAssumption DEF Counted, Command

\* Faults stay within theirs.
LEMMA FaultCounts == Counted /\ Fault => faults' \in 0..MaxFaults
  BY BoundAssumption DEF Counted, Fault

\* A call to the runtime, successful or not, leaves the limits well typed.
LEMMA UpdateTyped ==
    ASSUME LimitsTyped, Counted, kind' = kind, NEW f \in Containers, NEW a \in [Res -> Nat],
           (Update(f, a) /\ faults' = faults) \/ UpdateFails(f, a)
    PROVE  LimitsTyped' /\ faults' \in 0..MaxFaults
  <1>1. f \in Env /\ Containers' = Containers
    BY DEF Containers
  <1>2. limit \in Limits /\ cache \in Limits /\ doubt \subseteq Containers
    BY DEF LimitsTyped
  <1>3. [limit EXCEPT ![f] = a] \in Limits /\ [cache EXCEPT ![f] = a] \in Limits
    BY <1>1, <1>2 DEF Limits
  <1>4. CASE Update(f, a) /\ faults' = faults
    BY <1>1, <1>2, <1>3, <1>4 DEF Update, LimitsTyped, Counted
  <1>5. CASE UpdateFails(f, a)
    <2>1. /\ cache' = cache /\ (limit' = limit \/ limit' = [limit EXCEPT ![f] = a])
          /\ doubt' = doubt \/ doubt' = doubt \cup {f}
          /\ faults' = faults \/ Fault
      BY <1>5 DEF UpdateFails
    <2>2. LimitsTyped'
      BY <1>1, <1>2, <1>3, <2>1 DEF LimitsTyped
    <2>3. faults' \in 0..MaxFaults
      BY <2>1, FaultCounts DEF Counted
    <2> QED BY <2>2, <2>3
  <1> QED BY <1>4, <1>5

\* A command that is admitted has a goal and something to go back to for every
\* environment.
LEMMA PrepareTyped ==
    ASSUME ShareInv, NEW e \in Env, NEW job \in Job, NEW q, Typed(q), DOMAIN q = PlatformFields,
           q.kind = kind, Prepare(job, e, q)
    PROVE  OpTyped' /\ (faults' = faults \/ Fault) /\ UNCHANGED <<machine, state, limits>>
  <1>1. PICK now \in Loads, cuda \in BOOLEAN :
          /\ faults' = faults \/ Fault
          /\ \E s \in Scheduled(Candidate(q, e, now), cuda) :
                op' = [job |-> job, phase |-> "apply", env |-> e, pol |-> q.policy[e],
                       todo |-> RunningContainers(s), goal |-> s.alloc,
                       prev |-> [f \in Env |-> Previous(q, f)], undo |-> <<>>,
                       base |-> limit, lost |-> {}, error |-> FALSE]
    BY DEF Prepare
  <1> DEFINE c == Candidate(q, e, now)
  <1>2. PICK s \in Scheduled(c, cuda) :
                op' = [job |-> job, phase |-> "apply", env |-> e, pol |-> q.policy[e],
                       todo |-> RunningContainers(s), goal |-> s.alloc,
                       prev |-> [f \in Env |-> Previous(q, f)], undo |-> <<>>,
                       base |-> limit, lost |-> {}, error |-> FALSE]
    BY <1>1
  <1>3. q.policy[e] \in Policies /\ Preferred(q.policy[e]) \in [Res -> Nat]
    BY PreferredIs DEF Typed
  <1>4. /\ c.kind = kind /\ c.macos = q.macos /\ c.pressure = now
        /\ c.status = [q.status EXCEPT ![e] = "running"] /\ c.policy = q.policy
        /\ c.alloc = [q.alloc EXCEPT ![e] = Preferred(q.policy[e])]
        /\ DOMAIN c = PlatformFields
    BY DEF Candidate, PlatformFields
  <1> HIDE DEF c
  <1>5. Typed(c)
    BY <1>3, <1>4, LoadAssumption DEF Typed, Status
  <1>6. Typed(s) /\ Alike(c, s)
    BY <1>2, <1>4, <1>5, ScheduledSound
  <1>7. RunningContainers(s) \subseteq Containers
    BY <1>4, <1>6 DEF RunningContainers, Is, Containers, Container, Alike
  <1>8. s.alloc \in Limits
    BY <1>6 DEF Typed, Limits
  <1>9. [f \in Env |-> Previous(q, f)] \in Limits
    <2>1. ASSUME NEW f \in Env, NEW r \in Res PROVE q.alloc[f][r] \in Nat /\ q.policy[f][r].pref \in Nat
      BY PolicyIs DEF Typed, ValidRange
    <2> QED BY <2>1 DEF Previous, Limits
  <1>10. UNCHANGED <<machine, state, limits>>
    BY DEF Prepare
  <1>11. Containers' = Containers
    BY <1>10 DEF machine, Containers
  <1>12. <<>> \in Seq(Containers)
    OBVIOUS
  <1>13. /\ op'.job = job /\ DOMAIN op' = Fields /\ op'.env = e /\ op'.pol = q.policy[e]
         /\ op'.todo = RunningContainers(s) /\ op'.undo = <<>>
         /\ op'.goal = s.alloc /\ op'.prev = [f \in Env |-> Previous(q, f)]
    BY <1>2 DEF Fields
  <1>14. OpTyped'
    BY <1>3, <1>7, <1>8, <1>9, <1>11, <1>12, <1>13 DEF OpTyped
  <1> QED BY <1>1, <1>10, <1>14

\* A start begins.
LEMMA StartTyped ==
    ASSUME ShareInv, NEW e \in Env, StartBegins(e)
    PROVE  ShareInv'
  <1>1. Command /\ Prepare("start", e, Platform) /\ "start" \in Job
    BY DEF StartBegins, Job
  <1>2. Typed(Platform) /\ LimitsTyped /\ Counted /\ Sound(Platform)
    BY TypeIs DEF ShareInv
  <1>3. OpTyped' /\ (faults' = faults \/ Fault) /\ UNCHANGED <<machine, state, limits>>
    BY <1>1, <1>2, PlatformIs, PrepareTyped
  <1>4. Platform' = Platform /\ LimitsTyped'
    BY <1>2, <1>3 DEF machine, state, limits, Platform, LimitsTyped, Containers
  <1>5. Counted'
    BY <1>1, <1>2, <1>3, CommandCounts, FaultCounts DEF Counted
  <1>6. TypeOK'
    BY <1>2, <1>4, <1>5, TypeIsNext
  <1> QED BY <1>2, <1>3, <1>4, <1>6 DEF ShareInv

\* A save of a policy begins.
LEMMA SaveTyped ==
    ASSUME ShareInv, NEW e \in Env, NEW pol \in Policies, SaveBegins(e, pol)
    PROVE  ShareInv'
  <1> DEFINE q == [Platform EXCEPT !.policy[e] = pol]
  <1>1. Command /\ Prepare("save", e, q) /\ "save" \in Job
    BY DEF SaveBegins, Job
  <1>2. Typed(Platform) /\ LimitsTyped /\ Counted /\ Sound(Platform) /\ TypeOK
    BY TypeIs DEF ShareInv
  <1>3. /\ q.kind = kind /\ q.macos = macos /\ q.pressure = pressure
        /\ q.status = status /\ q.policy = [policy EXCEPT ![e] = pol] /\ q.alloc = alloc
        /\ DOMAIN q = PlatformFields
    BY DEF Platform, PlatformFields
  <1> HIDE DEF q
  <1>4. Typed(q)
    BY <1>2, <1>3, OneTyped, NoLimitIs DEF Status
  <1>5. OpTyped' /\ (faults' = faults \/ Fault) /\ UNCHANGED <<machine, state, limits>>
    BY <1>1, <1>3, <1>4, PrepareTyped
  <1>6. Platform' = Platform /\ LimitsTyped'
    BY <1>2, <1>5 DEF machine, state, limits, Platform, LimitsTyped, Containers
  <1>7. Counted'
    BY <1>1, <1>2, <1>5, CommandCounts, FaultCounts DEF Counted
  <1>8. TypeOK'
    BY <1>2, <1>6, <1>7, TypeIsNext
  <1> QED BY <1>2, <1>5, <1>6, <1>8 DEF ShareInv

\* A job that is under way, and how its steps keep it what it is.
LEMMA JobIs ==
    ASSUME OpTyped, op # Idle, op.job \in Job
    PROVE  /\ DOMAIN op = Fields /\ op.env \in Env /\ op.pol \in Policies
           /\ op.todo \subseteq Containers /\ op.undo \in Seq(Containers)
           /\ op.goal \in Limits /\ op.prev \in Limits
  BY DEF OpTyped, Job

\* A step that changes only what is still to be done or undone keeps it so.
LEMMA JobKept ==
    ASSUME OpTyped, op # Idle, op.job \in Job, kind' = kind,
           DOMAIN op' = Fields /\ op'.job = op.job /\ op'.env = op.env /\ op'.pol = op.pol
           /\ op'.goal = op.goal /\ op'.prev = op.prev,
           op'.todo \subseteq op.todo, op'.undo \in Seq(Containers)
    PROVE  OpTyped'
  <1>1. Containers' = Containers
    BY DEF Containers
  <1> QED BY <1>1, JobIs DEF OpTyped

\* A limit is applied, or fails to be.
LEMMA ApplyTyped == ShareInv /\ (ApplyNext \/ ApplyFails) => ShareInv'
  <1> SUFFICES ASSUME ShareInv, ApplyNext \/ ApplyFails PROVE ShareInv'
    OBVIOUS
  <1>1. /\ op # Idle /\ op.job \in Job /\ OpTyped /\ UNCHANGED <<machine, state>>
        /\ commands' = commands
    <2>1. OpTyped
      BY DEF ShareInv
    <2>2. op # Idle /\ op.job \in Job
      BY DEF ApplyNext, ApplyFails, Working, Job
    <2>3. UNCHANGED <<machine, state>> /\ commands' = commands
      BY DEF ApplyNext, ApplyFails
    <2> QED BY <2>1, <2>2, <2>3
  <1>2. Typed(Platform) /\ LimitsTyped /\ Counted /\ Sound(Platform)
    BY TypeIs DEF ShareInv
  <1>3. kind' = kind /\ Platform' = Platform /\ Containers' = Containers
    BY <1>1 DEF machine, state, Platform, Containers
  <1>4. PICK f \in First(op.todo) :
             \/ op' = [op EXCEPT !.todo = @ \ {f}] /\ UNCHANGED limits /\ faults' = faults
             \/ /\ Update(f, op.goal[f]) /\ faults' = faults
                /\ op' = [op EXCEPT !.todo = @ \ {f}, !.undo = Append(@, f)]
             \/ /\ UpdateFails(f, op.goal[f])
                /\ op' = [op EXCEPT !.phase = "undo", !.lost = IF limit' = limit THEN @ ELSE @ \cup {f}]
    BY DEF ApplyNext, ApplyFails
  <1>5. /\ DOMAIN op = Fields /\ op.todo \subseteq Containers /\ op.undo \in Seq(Containers)
        /\ f \in Containers /\ f \in Env /\ op.goal[f] \in [Res -> Nat]
    BY <1>1, JobIs DEF First, Limits, Containers
  <1>6. LimitsTyped' /\ faults' \in 0..MaxFaults
    <2>1. CASE UNCHANGED limits /\ faults' = faults
      BY <2>1, <1>2, <1>3 DEF limits, LimitsTyped, Counted
    <2>2. CASE (Update(f, op.goal[f]) /\ faults' = faults) \/ UpdateFails(f, op.goal[f])
      BY <2>2, <1>2, <1>3, <1>5, UpdateTyped
    <2> QED BY <2>1, <2>2, <1>4
  <1>7. Append(op.undo, f) \in Seq(Containers)
    BY <1>5
  <1>8. /\ DOMAIN op' = Fields /\ op'.job = op.job /\ op'.env = op.env /\ op'.pol = op.pol
        /\ op'.goal = op.goal /\ op'.prev = op.prev
        /\ op'.todo \subseteq op.todo /\ op'.undo \in {op.undo, Append(op.undo, f)}
    BY <1>4, <1>5 DEF Fields
  <1>9. OpTyped'
    BY <1>1, <1>3, <1>5, <1>7, <1>8, JobKept
  <1>10. Counted'
    BY <1>1, <1>2, <1>6 DEF Counted
  <1>11. TypeOK'
    BY <1>2, <1>3, <1>6, <1>10, TypeIsNext
  <1> QED BY <1>2, <1>3, <1>9, <1>11 DEF ShareInv

\* A limit is taken back, or fails to be.
LEMMA UndoTyped == ShareInv /\ UndoNext => ShareInv'
  <1> SUFFICES ASSUME ShareInv, UndoNext PROVE ShareInv'
    OBVIOUS
  <1>1. /\ op # Idle /\ op.job \in Job /\ OpTyped /\ UNCHANGED <<machine, state>>
        /\ commands' = commands /\ op.undo # <<>>
    BY DEF UndoNext, Working, Job, ShareInv
  <1>2. Typed(Platform) /\ LimitsTyped /\ Counted /\ Sound(Platform)
    BY TypeIs DEF ShareInv
  <1>3. kind' = kind /\ Platform' = Platform /\ Containers' = Containers
    BY <1>1 DEF machine, state, Platform, Containers
  <1> DEFINE f == op.undo[Len(op.undo)]
  <1>4. \/ Update(f, op.prev[f]) /\ faults' = faults /\ op' = [op EXCEPT !.undo = Front(@)]
        \/ UpdateFails(f, op.prev[f]) /\ op' = [op EXCEPT !.undo = Front(@), !.lost = @ \cup {f}]
    BY DEF UndoNext, Last
  <1>5. DOMAIN op = Fields /\ op.undo \in Seq(Containers) /\ op.prev \in Limits
    BY <1>1, JobIs
  <1>6. f \in Containers /\ Front(op.undo) \in Seq(Containers)
    BY <1>1, <1>5 DEF Front
  <1> HIDE DEF f
  <1>7. f \in Env /\ op.prev[f] \in [Res -> Nat]
    BY <1>5, <1>6 DEF Containers, Limits
  <1>8. LimitsTyped' /\ faults' \in 0..MaxFaults
    BY <1>2, <1>3, <1>4, <1>6, <1>7, UpdateTyped
  <1>9. /\ DOMAIN op' = Fields /\ op'.job = op.job /\ op'.env = op.env /\ op'.pol = op.pol
        /\ op'.goal = op.goal /\ op'.prev = op.prev
        /\ op'.todo = op.todo /\ op'.undo = Front(op.undo)
    BY <1>4, <1>5 DEF Fields
  <1>10. OpTyped'
    BY <1>1, <1>3, <1>6, <1>9, JobKept
  <1>11. Counted'
    BY <1>1, <1>2, <1>8 DEF Counted
  <1>12. TypeOK'
    BY <1>2, <1>3, <1>8, <1>11, TypeIsNext
  <1> QED BY <1>2, <1>3, <1>10, <1>12 DEF ShareInv

\* The container starts, or the command is given up.
LEMMA ActTyped == ShareInv /\ (Act \/ PersistFails) => ShareInv'
  <1> SUFFICES ASSUME ShareInv, Act \/ PersistFails PROVE ShareInv'
    OBVIOUS
  <1>1. /\ op # Idle /\ op.job \in Job /\ OpTyped /\ UNCHANGED <<machine, state, limits>>
        /\ commands' = commands /\ (faults' = faults \/ Fault)
        /\ \/ op' = [op EXCEPT !.phase = "persist"]
           \/ op' = [op EXCEPT !.phase = "undo"]
           \/ op' = [op EXCEPT !.phase = "undo", !.error = TRUE]
    BY DEF Act, PersistFails, Working, Job, ShareInv
  <1>2. Typed(Platform) /\ LimitsTyped /\ Counted /\ Sound(Platform)
    BY TypeIs DEF ShareInv
  <1>3. kind' = kind /\ Platform' = Platform /\ LimitsTyped'
    BY <1>1, <1>2 DEF machine, state, limits, LimitsTyped, Platform, Containers
  <1>4. DOMAIN op = Fields /\ op.undo \in Seq(Containers)
    BY <1>1, JobIs
  <1>5. /\ DOMAIN op' = Fields /\ op'.job = op.job /\ op'.env = op.env /\ op'.pol = op.pol
        /\ op'.goal = op.goal /\ op'.prev = op.prev
        /\ op'.todo = op.todo /\ op'.undo = op.undo
    BY <1>1, <1>4 DEF Fields
  <1>6. OpTyped'
    BY <1>1, <1>3, <1>4, <1>5, JobKept
  <1>7. Counted'
    BY <1>1, <1>2, FaultCounts DEF Counted
  <1>8. TypeOK'
    BY <1>2, <1>3, <1>7, TypeIsNext
  <1> QED BY <1>2, <1>3, <1>6, <1>8 DEF ShareInv

\* A refresh applies the next limit.
LEMMA RefreshNextTyped == ShareInv /\ RefreshNext => ShareInv'
  <1> SUFFICES ASSUME ShareInv, RefreshNext PROVE ShareInv'
    OBVIOUS
  <1>1. /\ op # Idle /\ op.job = "refresh" /\ OpTyped /\ UNCHANGED <<machine, state>>
        /\ commands' = commands
    BY DEF RefreshNext, Refreshing, ShareInv
  <1>2. Typed(Platform) /\ LimitsTyped /\ Counted /\ Sound(Platform)
    BY TypeIs DEF ShareInv
  <1>3. kind' = kind /\ Platform' = Platform /\ Containers' = Containers
    BY <1>1 DEF machine, state, Platform, Containers
  <1>4. /\ DOMAIN op = {"job", "todo", "goal", "exited"}
        /\ op.todo \subseteq Containers /\ op.goal \in Limits
    BY <1>1 DEF OpTyped, Job
  <1>5. PICK f \in First(op.todo) :
            /\ \/ op' = [op EXCEPT !.todo = @ \ {f}]
               \/ op' = [op EXCEPT !.todo = @ \ {f}, !.exited = @ \cup {f}]
            /\ \/ UNCHANGED limits /\ (faults' = faults \/ Fault)
               \/ Update(f, op.goal[f]) /\ faults' = faults
               \/ UpdateFails(f, op.goal[f])
    BY DEF RefreshNext
  <1>6. f \in Containers /\ f \in Env /\ op.goal[f] \in [Res -> Nat]
    BY <1>4 DEF First, Containers, Limits
  <1>7. LimitsTyped' /\ faults' \in 0..MaxFaults
    <2>1. CASE UNCHANGED limits /\ (faults' = faults \/ Fault)
      BY <2>1, <1>2, <1>3, FaultCounts DEF limits, LimitsTyped, Counted
    <2>2. CASE (Update(f, op.goal[f]) /\ faults' = faults) \/ UpdateFails(f, op.goal[f])
      BY <2>2, <1>2, <1>3, <1>6, UpdateTyped
    <2> QED BY <2>1, <2>2, <1>5
  <1>8. /\ op'.job = "refresh" /\ DOMAIN op' = {"job", "todo", "goal", "exited"}
        /\ op'.todo \subseteq op.todo /\ op'.goal = op.goal
    BY <1>1, <1>4, <1>5
  <1>9. OpTyped'
    BY <1>3, <1>4, <1>8 DEF OpTyped
  <1>10. Counted'
    BY <1>1, <1>2, <1>7 DEF Counted
  <1>11. TypeOK'
    BY <1>2, <1>3, <1>7, <1>10, TypeIsNext
  <1> QED BY <1>2, <1>3, <1>9, <1>11 DEF ShareInv

\* Steps that change the platform state and leave the limits alone.
LEMMA StateStep ==
    ASSUME ShareInv, UNCHANGED machine, Typed(Platform)', Sound(Platform)',
           UNCHANGED limits \/ \E e \in Env : /\ cache' = [cache EXCEPT ![e] = NoLimit]
                                              /\ limit' = limit /\ doubt' = doubt,
           op' = op \/ OpTyped', commands' = commands \/ Command, faults' = faults \/ Fault
    PROVE  ShareInv'
  <1>1. LimitsTyped /\ Counted /\ OpTyped
    BY TypeIs DEF ShareInv
  <1>2. Containers' = Containers
    BY DEF machine, Containers
  <1>3. LimitsTyped'
    BY <1>1, <1>2, NoLimitIs DEF limits, LimitsTyped, Limits
  <1>4. Counted'
    BY <1>1, CommandCounts, FaultCounts DEF Counted
  <1>5. OpTyped'
    BY <1>1, <1>2 DEF OpTyped
  <1>6. TypeOK'
    BY <1>3, <1>4, TypeIsNext
  <1> QED BY <1>5, <1>6 DEF ShareInv

\* Every step keeps the invariant.
LEMMA NextShares == ShareInv /\ [Next]_vars => ShareInv'
  <1> SUFFICES ASSUME ShareInv, [Next]_vars PROVE ShareInv'
    OBVIOUS
  <1>1. ASSUME NEW e \in Env, Stop(e) PROVE ShareInv'
    <2>1. Typed(Platform)' /\ Sound(Platform)'
      BY <1>1, PowerShares, NoLimitIs DEF Stop, Status
    <2> QED BY <1>1, <2>1, StateStep DEF Stop
  <1>2. ASSUME NEW e \in Env, Pause(e) PROVE ShareInv'
    <2>1. Typed(Platform)' /\ Sound(Platform)'
      BY <1>2, PowerShares, NoLimitIs DEF Pause, Status
    <2> QED BY <1>2, <2>1, StateStep DEF Pause
  <1>3. ASSUME NEW e \in Env, PowerFails(e) PROVE ShareInv'
    BY <1>3, PowerFailsShares, StateStep DEF PowerFails
  <1>4. ASSUME NEW e \in Env, MachineOn(e) PROVE ShareInv'
    BY <1>4, MachineOnShares, StateStep DEF MachineOn
  <1>5. ASSUME NEW e \in Env, MachineOff(e) PROVE ShareInv'
    <2>1. Typed(Platform)' /\ Sound(Platform)'
      BY <1>5, PowerShares, NoLimitIs DEF MachineOff, Status
    <2> QED BY <1>5, <2>1, StateStep DEF MachineOff
  <1>6. ASSUME NEW e \in Env, MachinePause(e) PROVE ShareInv'
    <2>1. Typed(Platform)' /\ Sound(Platform)'
      BY <1>6, PowerShares, NoLimitIs DEF MachinePause, Status
    <2> QED BY <1>6, <2>1, StateStep DEF MachinePause
  <1>7. ASSUME NEW e \in Env, MachineLost(e) PROVE ShareInv'
    BY <1>7, MachineLostShares, StateStep DEF MachineLost
  <1>8. ASSUME NEW e \in Env, NEW pol \in Policies, SaveIdle(e, pol) PROVE ShareInv'
    BY <1>8, SaveIdleShares, StateStep DEF SaveIdle
  <1>9. ASSUME NEW e \in Env, NEW pol \in Policies, MachineSave(e, pol) PROVE ShareInv'
    BY <1>9, MachineSaveShares, StateStep DEF MachineSave
  <1>10. CASE RefreshBegins
    <2>1. /\ Typed(Platform)' /\ Sound(Platform)'
          /\ op'.job = "refresh" /\ DOMAIN op' = {"job", "todo", "goal", "exited"}
          /\ op'.todo \subseteq Containers /\ op'.goal \in Limits
      BY <1>10, RefreshBeginsShares
    <2>2. UNCHANGED machine /\ UNCHANGED limits /\ commands' = commands /\ (faults' = faults \/ Fault)
      BY <1>10 DEF RefreshBegins
    <2>3. OpTyped'
      BY <2>1, <2>2 DEF OpTyped, Containers, machine
    <2> QED BY <2>1, <2>2, <2>3, StateStep
  <1>11. CASE UndoEnds
    <2>1. UNCHANGED machine /\ UNCHANGED limits /\ commands' = commands /\ (faults' = faults \/ Fault) /\ op' = Idle
      BY <1>11 DEF UndoEnds
    <2> QED BY <1>11, <2>1, UndoEndsShares, StateStep DEF OpTyped
  <1>12. CASE Persist
    <2>1. UNCHANGED machine /\ UNCHANGED limits /\ commands' = commands /\ faults' = faults /\ op' = Idle
      BY <1>12 DEF Persist
    <2> QED BY <1>12, <2>1, PersistShares, StateStep DEF OpTyped
  <1>13. CASE RefreshEnds
    <2>1. UNCHANGED machine /\ UNCHANGED limits /\ commands' = commands /\ faults' = faults /\ op' = Idle
      BY <1>13 DEF RefreshEnds
    <2> QED BY <1>13, <2>1, RefreshEndsShares, StateStep DEF OpTyped
  <1>14. CASE UNCHANGED vars
    <2>1. /\ UNCHANGED machine /\ UNCHANGED limits /\ op' = op /\ commands' = commands /\ faults' = faults
          /\ Platform' = Platform
      BY <1>14 DEF vars, machine, limits, Platform
    <2>2. Typed(Platform) /\ Sound(Platform)
      BY PlatformTyped DEF ShareInv
    <2> QED BY <2>1, <2>2, StateStep
  <1> QED
    BY <1>1, <1>2, <1>3, <1>4, <1>5, <1>6, <1>7, <1>8, <1>9, <1>10, <1>11, <1>12, <1>13, <1>14,
       StartTyped, SaveTyped, ApplyTyped, UndoTyped, ActTyped, RefreshNextTyped DEF Next, Holding

-----------------------------------------------------------------------------

\* The inductive invariant of the shares: the platform's state is sound, floors
\* included, and what the holder of the lock works with is well typed.
THEOREM ShareInvariant == Spec => []ShareInv
  BY InitShares, NextShares, PTL DEF Spec

\* Every variable keeps its type: no share, limit or record of one ever falls
\* below zero or is missing for an environment (commands.rs, scheduler.rs).
THEOREM TypeCorrect == Spec => []TypeOK
  BY ShareInvariant, PTL DEF ShareInv

\* Whatever commands, refreshes and failures come in whatever order, every share
\* that schedule_for_host or limit_cuda_pool sets for a running environment lies
\* between the minimum and the maximum of its policy.
THEOREM SharesWithinPolicy == Spec => []WithinPolicy
  <1>1. ShareInv => WithinPolicy
    BY PlatformIs DEF ShareInv, Sound, WithinPolicy, Is
  <1> QED BY ShareInvariant, <1>1, PTL

\* What the host and the container appliance have handed out never exceeds their
\* budget, or the floors where these alone are more: also after the steps that
\* end an environment without a new schedule.
THEOREM SharesWithinBudget == Spec => []WithinBudget
  <1>1. ShareInv => WithinBudget
    <2> SUFFICES ASSUME ShareInv, NEW r \in Res
                 PROVE  LET floor == [e \in Env |-> Floor(Platform, r, e)]
                            given == [e \in Env |-> alloc[e][r]]
                            holders == Holders(Platform, r)
                            containers == holders \cap Containers
                        IN  /\ SumOver(given, holders) <= Max({HostBudget(Platform, r), SumOver(floor, holders)})
                            /\ SumOver(given, containers) <= Max({ContainerCapacity(r) - Reserved(Platform, r, floor),
                                                                  SumOver(floor, containers)})
      BY DEF WithinBudget
    <2>1. Given(Platform, r) = [e \in Env |-> alloc[e][r]]
      BY PlatformIs DEF Given
    <2>2. Inside(Platform, r) = Holders(Platform, r) \cap Containers
      BY PlatformIs DEF Inside, Container, Containers, Holders, Active, Is
    <2>3. /\ SumOver(Given(Platform, r), Holders(Platform, r)) <= Most(Platform, r)
          /\ SumOver(Given(Platform, r), Inside(Platform, r)) <= MostInside(Platform, r)
      BY DEF ShareInv, Sound
    <2> QED BY <2>1, <2>2, <2>3 DEF Most, MostInside, Floors
  <1> QED BY ShareInvariant, <1>1, PTL

\* Every minimum and maximum is a multiple of the step.
WholePolicies == \A pol \in Policies, r \in Res : Whole(pol[r])

\* An environment that got less than it could use, where every policy is in whole
\* steps, leaves the ones served after it nothing beyond their minimum: the loop
\* of schedule_for_host serves by priority, and limit_cuda_pool takes back in the
\* same order.
THEOREM ServedInOrder == WholePolicies => (Spec => []NoInversion)
  <1> SUFFICES ASSUME WholePolicies PROVE Spec => []NoInversion
    OBVIOUS
  <1>1. ShareInv => NoInversion
    <2> SUFFICES ASSUME ShareInv PROVE NoInversion
      OBVIOUS
    <2>1. WholeIn(Platform)
      BY PlatformIs DEF ShareInv, TypeOK, WholeIn, WholePolicies
    <2>2. InOrder(Platform)
      BY <2>1 DEF ShareInv, Sound
    <2> SUFFICES ASSUME NEW e \in Is(Platform, {"running"}), NEW f \in Is(Platform, {"running"}), NEW r \in Res,
                        Before(Platform, e, f), ~Frozen(Platform, r, e), ~Frozen(Platform, r, f),
                        e \in Containers => f \in Containers,
                        kind[e] = "cuda" => kind[f] = "cuda",
                        alloc[e][r] < QuantizeDown(Target(Platform, r, e), policy[e][r])
                 PROVE  alloc[f][r] = policy[f][r].min
      BY DEF NoInversion
    <2>3. e \in Env /\ f \in Env
      BY DEF Is
    <2>4. Container(Platform, e) => Container(Platform, f)
      BY <2>3, PlatformIs DEF Container, Containers
    <2>5. Short(Platform, r, Given(Platform, r), e)
      BY <2>3, PlatformIs DEF Short, Given
    <2> QED BY <2>2, <2>4, <2>5, PlatformIs DEF InOrder
  <1> QED BY ShareInvariant, <1>1, PTL

=============================================================================
