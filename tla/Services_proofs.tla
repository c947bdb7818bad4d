--------------------------- MODULE Services_proofs ---------------------------
(* What services of the host keep, proved of each alone and for every value of   *)
(* its constants: the agent's locks, the host terminal, the bridge to a cloud    *)
(* node, the processes of the application, the agent's skill files, the CUDA     *)
(* engine and the routes to it, the private network and the connections over     *)
(* it, and the machine of the containers with its disk and its memory. Each part *)
(* has an inductive invariant, lemmas for its actions, and the theorem at the    *)
(* end.                                                                          *)
EXTENDS KeyedLocker, HostTerminal, CloudBridge, Startup, AgentSkill, CudaRuntime, ProviderRoutes,
        Fabric, Connections, Appliance, ApplianceCapacity, FiniteSetTheorems, TLAPS

-------------------------------------------------------------------------------
(* The agent's locks (KeyedLocker). A call has gone through its keys in order;   *)
(* the entries it refers to are those of the map, which count their calls; a     *)
(* mutex is held by the one call that locked its key.                            *)
CallStep == {"none", "locking", "held", "unlocking"}
Entries  == UNION {[S -> Entry] : S \in SUBSET Key}
LockerShape ==
    /\ registry \in [Key -> Entry \cup {NoEntry}] /\ refs \in [Entry -> Nat]
    /\ mutex \in [Entry -> Call \cup {Nobody}]
    /\ call \in [Call -> [step : CallStep, entry : Entries, locked : SUBSET Key, nests : BOOLEAN]]

\* How far a call is.
CallInv(c) ==
    /\ call[c].locked \subseteq Keys(c)
    /\ call[c].step = "none" => call[c] = NoCall
    /\ call[c].step # "none" => Keys(c) # {}
    /\ call[c].step = "locking" =>
         /\ call[c].locked # Keys(c)
         /\ \A j \in call[c].locked, k \in Keys(c) \ call[c].locked : j < k
    /\ call[c].step = "held" => call[c].locked = Keys(c)
CallsInv == \A c \in Call : CallInv(c)

\* A call works with the entries of the map, and no two keys have one entry.
EntriesInv ==
    /\ \A c \in Call : \A k \in Keys(c) : call[c].entry[k] = registry[k]
    /\ \A j, k \in Key : registry[j] = registry[k] /\ registry[k] # NoEntry => j = k

\* Counts and owners of the entries.
CountsInv ==
    /\ \A k \in Key : registry[k] # NoEntry =>
         Refer(k) # {} /\ refs[registry[k]] = Cardinality(Refer(k))
    /\ \A e \in Entry : (\A k \in Key : registry[k] # e) => refs[e] = 0
OwnersInv ==
    /\ \A k \in Key : registry[k] # NoEntry =>
         \A c \in Call : mutex[registry[k]] = c <=> k \in call[c].locked
    /\ \A e \in Entry : (\A k \in Key : registry[k] # e) => mutex[e] = Nobody

\* The second lock of a handler is for the quotas, which come after what it holds.
NestedInv ==
    \A r \in Request :
        /\ call[Inner(r)] # NoCall =>
             /\ call[Outer(r)].step = "held" /\ ~call[Outer(r)].nests
             /\ Keys(Inner(r)) = {Quota} /\ Quota \notin Keys(Outer(r))
        /\ ~call[Inner(r)].nests
        /\ call[Outer(r)].nests => Quota \notin Keys(Outer(r))

LockerInv == LockerShape /\ CallsInv /\ EntriesInv /\ CountsInv /\ OwnersInv /\ NestedInv
-----------------------------------------------------------------------------
Less == {p \in Nat \X Nat : p[1] < p[2]}

LEMMA LeastExists ==
  ASSUME NEW T \in SUBSET Nat, T # {}
  PROVE  \E x \in T : \A y \in T : x <= y
<1>1. OpToRel(<,Nat) = Less
  BY Zenon DEF OpToRel, Less
<1>2. IsWellFoundedOn(Less, Nat)
  BY <1>1, NatLessThanWellFounded, Zenon
<1>3. PICK x \in T : \A y \in T : ~(<<y, x>> \in Less)
  BY <1>2, WFMin
<1>4. ASSUME NEW y \in T PROVE x <= y
  <2>1. ~(<<y, x>> \in Less)
    BY <1>3
  <2> QED BY <2>1 DEF Less
<1> QED BY <1>4

LEMMA GreatestExists ==
  ASSUME NEW n \in Nat, NEW T \in SUBSET (0..n), T # {}
  PROVE  \E x \in T : \A y \in T : x >= y
<1> DEFINE U == {n - x : x \in T}
<1>1. U \in SUBSET Nat /\ U # {}
  <2>1. \A x \in T : n - x \in Nat
    OBVIOUS
  <2> QED BY <2>1
<1>2. PICK u \in U : \A v \in U : u <= v
  BY <1>1, LeastExists
<1>3. PICK x \in T : u = n - x
  OBVIOUS
<1>4. ASSUME NEW y \in T PROVE x >= y
  <2>1. u <= n - y
    BY <1>2
  <2> QED BY <2>1, <1>3
<1> QED BY <1>4

LEMMA InjectionExists ==
  ASSUME NEW S, NEW T, IsFiniteSet(S), IsFiniteSet(T), Cardinality(S) <= Cardinality(T)
  PROVE  \E f \in [S -> T] : \A x, y \in S : f[x] = f[y] => x = y
<1> DEFINE n == Cardinality(S) m == Cardinality(T)
<1>1. n \in Nat /\ m \in Nat
  BY FS_CardinalityType
<1>2. IsFiniteSet(1..n) /\ Cardinality(1..n) = n
  BY <1>1, FS_Interval
<1>3. ExistsBijection(S, 1..n)
  BY <1>2, FS_SameCardinalityBij
<1>4. ExistsBijection(1..m, T)
  BY FS_CardinalityType
<1>5. PICK b \in [S -> 1..n] : \A x, y \in S : b[x] = b[y] => x = y
  BY <1>3 DEF ExistsBijection, Bijection, Injection, IsInjective
<1>6. PICK d \in [1..m -> T] : \A i, j \in 1..m : d[i] = d[j] => i = j
  BY <1>4 DEF ExistsBijection, Bijection, Injection, IsInjective
<1> DEFINE f == [x \in S |-> d[b[x]]]
<1>7. \A x \in S : b[x] \in 1..m
  BY <1>1, <1>5
<1>8. f \in [S -> T]
  BY <1>6, <1>7
<1>9. \A x, y \in S : f[x] = f[y] => x = y
  BY <1>5, <1>6, <1>7
<1> QED BY <1>8, <1>9

LEMMA EntriesAre ==
  /\ \A e \in Entries : DOMAIN e \subseteq Key /\ e \in [DOMAIN e -> Entry]
  /\ \A S \in SUBSET Key : [S -> Entry] \subseteq Entries
BY DEF Entries

LEMMA CallsAre ==
  /\ Nobody \notin Call /\ <<>> \in Entries /\ DOMAIN <<>> = {}
  /\ \A r \in Request : Outer(r) \in Call /\ Inner(r) \in Call
  /\ \A r, q \in Request : /\ Outer(r) # Inner(q)
                           /\ Outer(r) = Outer(q) => r = q
                           /\ Inner(r) = Inner(q) => r = q
  /\ \A c \in Call : \E r \in Request : c = Outer(r) \/ c = Inner(r)
<1>1. <<>> \in [{} -> Entry]
  OBVIOUS
<1>2. <<>> \in Entries /\ DOMAIN <<>> = {}
  BY <1>1, EntriesAre
<1>3. Nobody \notin Call
  BY DEF Nobody, Call
<1> QED BY <1>2, <1>3 DEF Call, Outer, Inner

LEMMA FinitelyMany ==
  ASSUME LockerConstants
  PROVE  IsFiniteSet(Key) /\ IsFiniteSet(Call) /\ Key \subseteq 0..Quota /\ Quota \in Nat
<1>1. Quota \in Nat /\ Key \in SUBSET Nat
  BY DEF LockerConstants
<1>2. IsFiniteSet(Key)
  BY <1>1, FS_BoundedSetOfNaturals DEF LockerConstants
<1>3. IsFiniteSet({"outer", "inner"})
  <2>1. IsFiniteSet({"outer"}) BY FS_Singleton
  <2>2. IsFiniteSet({"outer"} \cup {"inner"}) BY <2>1, FS_AddElement
  <2>3. {"outer", "inner"} = {"outer"} \cup {"inner"} OBVIOUS
  <2> QED BY <2>2, <2>3
<1>4. IsFiniteSet(Call)
  BY <1>3, FS_Product DEF LockerConstants, Call
<1> QED BY <1>1, <1>2, <1>4 DEF LockerConstants

LEMMA LeastIs ==
  ASSUME NEW S \in SUBSET Nat, S # {}
  PROVE  Least(S) \in S /\ \A j \in S : Least(S) <= j
<1>1. \E k \in S : \A j \in S : k <= j
  BY LeastExists
<1> QED BY <1>1 DEF Least

LEMMA LastIs ==
  ASSUME LockerConstants, NEW S \in SUBSET Key, S # {}
  PROVE  Last(S) \in S
<1>1. S \in SUBSET (0..Quota) /\ Quota \in Nat
  BY FinitelyMany
<1>2. \E k \in S : \A j \in S : k >= j
  BY <1>1, GreatestExists
<1> QED BY <1>2 DEF Last

LEMMA FreshEntries ==
  ASSUME LockerConstants, LockerShape, EntriesInv, NEW keys \in SUBSET Key
  PROVE  LET made == {k \in keys : registry[k] = NoEntry}
         IN  \E f \in [made -> Unused] : \A j, k \in made : f[j] = f[k] => j = k
<1> DEFINE made == {k \in keys : registry[k] = NoEntry}
           used == {k \in Key : registry[k] # NoEntry}
           ents == {registry[k] : k \in used}
           f == [k \in used |-> registry[k]]
<1>1. IsFiniteSet(Key) /\ IsFiniteSet(used) /\ IsFiniteSet(made) /\ Cardinality(Key) \in Nat
  BY FinitelyMany, FS_Subset, FS_CardinalityType
<1>2. ExistsBijection(used, ents)
  <2>1. f \in [used -> ents]
    OBVIOUS
  <2>2. f \in Bijection(used, ents)
    BY <2>1 DEF EntriesInv, Bijection, Injection, Surjection, IsInjective
  <2> QED BY <2>2 DEF ExistsBijection
<1>3. IsFiniteSet(ents) /\ Cardinality(ents) = Cardinality(used)
  BY <1>1, <1>2, FS_Bijection
<1>4. Unused = Entry \ ents
  <2>1. ASSUME NEW e \in Entry, \A k \in Key : registry[k] # e,
               NEW c \in Call, NEW k \in Key, k \in Keys(c)
        PROVE  call[c].entry[k] # e
    BY <2>1 DEF EntriesInv
  <2> QED BY <2>1 DEF Unused, LockerShape, LockerConstants
<1>5. ents \subseteq Entry
  BY DEF LockerShape
<1>6. /\ IsFiniteSet(Unused)
      /\ Cardinality(Unused) = Cardinality(Entry) - Cardinality(used)
      /\ Cardinality(Entry) \in Nat /\ Cardinality(used) \in Nat
  <2>1. Entry \cap ents = ents
    BY <1>5
  <2>2. IsFiniteSet(Entry)
    BY DEF LockerConstants
  <2> HIDE DEF ents, used
  <2>3. IsFiniteSet(Entry \ ents) /\ Cardinality(Entry \ ents) = Cardinality(Entry) - Cardinality(ents)
    BY <2>1, <2>2, FS_Difference
  <2> QED BY <1>1, <1>3, <1>4, <2>2, <2>3, FS_CardinalityType
<1>7. Cardinality(Key \ used) = Cardinality(Key) - Cardinality(used) /\ IsFiniteSet(Key \ used)
  <2>1. Key \cap used = used
    OBVIOUS
  <2> QED BY <1>1, <2>1, FS_Difference
<1>8. Cardinality(made) <= Cardinality(Key \ used) /\ Cardinality(made) \in Nat
  <2>1. made \in SUBSET (Key \ used)
    OBVIOUS
  <2> HIDE DEF made, used
  <2> QED BY <1>1, <1>7, <2>1, FS_Subset, FS_CardinalityType
<1>9. Cardinality(made) <= Cardinality(Unused)
  <2> HIDE DEF made, used
  <2> QED BY <1>1, <1>6, <1>7, <1>8 DEF LockerConstants
<1> HIDE DEF made
<1>10. \E g \in [made -> Unused] : \A j, k \in made : g[j] = g[k] => j = k
  BY <1>1, <1>6, <1>9, InjectionExists
<1> QED BY <1>10 DEF made
CallRecord == [step : CallStep, entry : Entries, locked : SUBSET Key, nests : BOOLEAN]

LEMMA CallShape ==
  ASSUME LockerShape, NEW c \in Call
  PROVE  /\ call[c] \in CallRecord /\ Keys(c) \subseteq Key
         /\ \A k \in Keys(c) : call[c].entry[k] \in Entry
<1>1. call[c] \in CallRecord
  BY DEF LockerShape, CallRecord
<1>2. call[c].entry \in Entries
  BY <1>1 DEF CallRecord
<1>3. DOMAIN call[c].entry \subseteq Key /\ call[c].entry \in [DOMAIN call[c].entry -> Entry]
  BY <1>2, EntriesAre
<1> QED BY <1>1, <1>3 DEF Keys

LEMMA EntryBehindKey ==
  ASSUME LockerConstants, LockerShape, EntriesInv, NEW c \in Call, NEW k \in Keys(c)
  PROVE  k \in Key /\ registry[k] \in Entry /\ registry[k] # NoEntry /\ call[c].entry[k] = registry[k]
BY CallShape DEF EntriesInv, LockerConstants

RegisterEffect(c, keys, nests, calls, entry) ==
    /\ \A k \in keys : IF registry[k] = NoEntry THEN entry[k] \in Unused
                       ELSE entry[k] = registry[k]
    /\ \A j, k \in keys : entry[j] = entry[k] => j = k
    /\ registry' = [k \in Key |-> IF k \in keys THEN entry[k] ELSE registry[k]]
    /\ refs' = [e \in Entry |-> IF \E k \in keys : entry[k] = e THEN refs[e] + 1 ELSE refs[e]]
    /\ call' = [calls EXCEPT ![c] = [step |-> "locking", entry |-> entry,
                                      locked |-> {}, nests |-> nests]]
    /\ mutex' = mutex

LEMMA RegisterMakes ==
  ASSUME LockerConstants, LockerInv, NEW c \in Call, NEW keys \in SUBSET Key, NEW nests,
         NEW calls, Register(c, keys, nests, calls)
  PROVE  \E entry \in [keys -> Entry] : RegisterEffect(c, keys, nests, calls, entry)
<1> DEFINE made == {k \in keys : registry[k] = NoEntry}
           fresh == CHOOSE f \in [made -> Unused] : \A j, k \in made : f[j] = f[k] => j = k
           entry == [k \in keys |-> IF k \in made THEN fresh[k] ELSE registry[k]]
<1>1. fresh \in [made -> Unused] /\ \A j, k \in made : fresh[j] = fresh[k] => j = k
  <2>1. \E f \in [made -> Unused] : \A j, k \in made : f[j] = f[k] => j = k
    BY FreshEntries DEF LockerInv
  <2> HIDE DEF made
  <2> QED BY <2>1
<1>2. /\ registry' = [k \in Key |-> IF k \in keys THEN entry[k] ELSE registry[k]]
      /\ refs' = [e \in Entry |-> IF \E k \in keys : entry[k] = e THEN refs[e] + 1 ELSE refs[e]]
      /\ call' = [calls EXCEPT ![c] = [step |-> "locking", entry |-> entry,
                                        locked |-> {}, nests |-> nests]]
      /\ mutex' = mutex
  BY DEF Register
<1> HIDE DEF fresh
<1>3. \A k \in keys : /\ registry[k] = NoEntry => entry[k] = fresh[k] /\ entry[k] \in Unused
                      /\ registry[k] # NoEntry => entry[k] = registry[k]
  BY <1>1
<1>4. \A k \in keys : entry[k] \in Entry
  <2>1. Unused \subseteq Entry
    BY DEF Unused
  <2> QED BY <1>3, <2>1 DEF LockerInv, LockerShape
<1>5. entry \in [keys -> Entry]
  BY <1>4
<1>6. \A j, k \in keys : entry[j] = entry[k] => j = k
  <2> SUFFICES ASSUME NEW j \in keys, NEW k \in keys, entry[j] = entry[k] PROVE j = k
    OBVIOUS
  <2>1. CASE registry[j] = NoEntry /\ registry[k] = NoEntry
    BY <1>1, <1>3, <2>1
  <2>2. CASE registry[j] # NoEntry /\ registry[k] # NoEntry
    BY <1>3, <2>2 DEF LockerInv, EntriesInv
  <2>3. CASE registry[j] = NoEntry /\ registry[k] # NoEntry
    BY <1>3, <2>3 DEF Unused
  <2>4. CASE registry[j] # NoEntry /\ registry[k] = NoEntry
    BY <1>3, <2>4 DEF Unused
  <2> QED BY <2>1, <2>2, <2>3, <2>4
<1> HIDE DEF entry
<1> QED BY <1>2, <1>3, <1>5, <1>6 DEF RegisterEffect

LEMMA RegisterKeeps ==
  ASSUME LockerConstants, LockerInv, NEW c \in Call, NEW keys \in SUBSET Key, keys # {},
         NEW nests \in BOOLEAN, NEW calls \in [Call -> CallRecord], call[c] = NoCall,
         \A d \in Call : /\ calls[d].step = call[d].step /\ calls[d].entry = call[d].entry
                         /\ calls[d].locked = call[d].locked
                         /\ call[d].step = "none" => calls[d] = call[d],
         Register(c, keys, nests, calls)
  PROVE  /\ LockerShape' /\ CallsInv' /\ EntriesInv' /\ CountsInv' /\ OwnersInv'
         /\ call'[c].step = "locking" /\ Keys(c)' = keys /\ call'[c].nests = nests
         /\ \A d \in Call \ {c} : call'[d] = calls[d] /\ Keys(d)' = Keys(d)
<1>0. PICK entry \in [keys -> Entry] : RegisterEffect(c, keys, nests, calls, entry)
  BY RegisterMakes
<1>1. /\ \A k \in keys : IF registry[k] = NoEntry THEN entry[k] \in Unused
                         ELSE entry[k] = registry[k]
      /\ \A j, k \in keys : entry[j] = entry[k] => j = k
      /\ registry' = [k \in Key |-> IF k \in keys THEN entry[k] ELSE registry[k]]
      /\ refs' = [e \in Entry |-> IF \E k \in keys : entry[k] = e THEN refs[e] + 1 ELSE refs[e]]
      /\ call' = [calls EXCEPT ![c] = [step |-> "locking", entry |-> entry,
                                        locked |-> {}, nests |-> nests]]
      /\ mutex' = mutex
  BY <1>0 DEF RegisterEffect
<1> DEFINE new == [step |-> "locking", entry |-> entry, locked |-> {}, nests |-> nests]
<1>2. new \in CallRecord /\ call' \in [Call -> CallRecord] /\ call'[c] = new
      /\ \A d \in Call \ {c} : call'[d] = calls[d]
  <2>1. entry \in Entries
    BY EntriesAre
  <2>2. new \in CallRecord
    BY <2>1 DEF CallRecord, CallStep
  <2> HIDE DEF new
  <2> QED BY <2>2, <1>1 DEF new
<1>3. /\ Keys(c)' = keys /\ call'[c].entry = entry /\ call'[c].locked = {}
      /\ call'[c].step = "locking" /\ call'[c].nests = nests
  BY <1>2 DEF Keys
<1>4. \A d \in Call \ {c} : /\ Keys(d)' = Keys(d) /\ call'[d].entry = call[d].entry
                            /\ call'[d].locked = call[d].locked /\ call'[d].step = call[d].step
  BY <1>2 DEF Keys
<1>5. Keys(c) = {} /\ call[c].locked = {}
  BY CallsAre DEF Keys, NoCall
<1>6. LockerShape'
  <2>1. registry' \in [Key -> Entry \cup {NoEntry}]
    BY <1>1 DEF LockerInv, LockerShape
  <2>2. refs' \in [Entry -> Nat]
    BY <1>1 DEF LockerInv, LockerShape
  <2> QED BY <1>1, <1>2, <2>1, <2>2 DEF LockerInv, LockerShape, CallRecord
<1>7. CallsInv'
  <2> SUFFICES ASSUME NEW d \in Call PROVE CallInv(d)'
    BY DEF CallsInv
  <2>1. CASE d = c
    BY <1>3, <2>1 DEF CallInv
  <2>2. CASE d # c
    BY <1>2, <1>4, <2>2 DEF LockerInv, CallsInv, CallInv
  <2> QED BY <2>1, <2>2
<1>8. EntriesInv'
  <2>1. ASSUME NEW d \in Call, NEW k \in Keys(d)' PROVE call'[d].entry[k] = registry'[k]
    <3>1. CASE d = c
      BY <1>1, <1>3, <2>1, <3>1
    <3>2. CASE d # c
      <4>1. k \in Keys(d) /\ k \in Key /\ registry[k] # NoEntry /\ call[d].entry[k] = registry[k]
        BY <1>4, <2>1, <3>2, EntryBehindKey DEF LockerInv
      <4> QED BY <1>1, <1>4, <3>2, <4>1
    <3> QED BY <3>1, <3>2
  <2>2. ASSUME NEW j \in Key, NEW k \in Key, registry'[j] = registry'[k], registry'[k] # NoEntry
        PROVE  j = k
    <3>1. CASE j \in keys /\ k \in keys
      BY <1>1, <2>2, <3>1
    <3>2. CASE j \notin keys /\ k \notin keys
      BY <1>1, <2>2, <3>2 DEF LockerInv, EntriesInv
    <3>3. CASE j \in keys /\ k \notin keys
      BY <1>1, <2>2, <3>3 DEF LockerInv, EntriesInv, Unused
    <3>4. CASE j \notin keys /\ k \in keys
      BY <1>1, <2>2, <3>4 DEF LockerInv, EntriesInv, Unused
    <3> QED BY <3>1, <3>2, <3>3, <3>4
  <2> QED BY <2>1, <2>2 DEF EntriesInv
<1>9. CountsInv'
  <2>1. \A k \in Key : IF k \in keys THEN Refer(k)' = Refer(k) \cup {c} ELSE Refer(k)' = Refer(k)
    BY <1>3, <1>4, <1>5 DEF Refer
  <2>2. \A k \in Key : c \notin Refer(k) /\ IsFiniteSet(Refer(k))
    <3>1. \A k \in Key : Refer(k) \in SUBSET Call
      BY DEF Refer
    <3> QED BY <1>5, <3>1, FinitelyMany, FS_Subset DEF Refer
  <2>3. ASSUME NEW k \in Key, registry'[k] # NoEntry
        PROVE  Refer(k)' # {} /\ refs'[registry'[k]] = Cardinality(Refer(k)')
    <3>1. CASE k \in keys /\ registry[k] = NoEntry
      <4>1. Refer(k) = {}
        BY <3>1, EntryBehindKey DEF Refer, LockerInv
      <4>2. Refer(k)' = {c}
        BY <2>1, <3>1, <4>1
      <4>3. refs[entry[k]] = 0
        BY <1>1, <3>1 DEF LockerInv, CountsInv, Unused
      <4>4. registry'[k] = entry[k] /\ entry[k] \in Entry /\ refs'[entry[k]] = 1
        BY <1>1, <3>1, <4>3
      <4>5. Cardinality({c}) = 1
        BY FS_Singleton
      <4> QED BY <4>2, <4>4, <4>5
    <3>2. CASE k \in keys /\ registry[k] # NoEntry
      <4>1. Refer(k)' = Refer(k) \cup {c} /\ Cardinality(Refer(k)') = Cardinality(Refer(k)) + 1
        <5>1. Refer(k)' = Refer(k) \cup {c} /\ c \notin Refer(k) /\ IsFiniteSet(Refer(k))
          BY <2>1, <2>2, <3>2
        <5>2. Cardinality(Refer(k) \cup {c}) = Cardinality(Refer(k)) + 1
          BY <5>1, FS_AddElement
        <5> QED BY <5>1, <5>2
      <4>2. refs[registry[k]] = Cardinality(Refer(k))
        BY <3>2 DEF LockerInv, CountsInv
      <4>3. entry[k] = registry[k] /\ registry'[k] = registry[k] /\ registry[k] \in Entry
        BY <1>1, <3>2
      <4>4. refs'[registry[k]] = refs[registry[k]] + 1
        BY <1>1, <4>3, <3>2
      <4> QED BY <4>1, <4>2, <4>3, <4>4
    <3>3. CASE k \notin keys
      <4>1. registry'[k] = registry[k] /\ registry[k] \in Entry
        BY <1>1, <2>3, <3>3 DEF LockerInv, LockerShape
      <4>2. \A j \in keys : entry[j] # registry[k]
        BY <1>1, <3>3, <2>3, <4>1 DEF LockerInv, EntriesInv, Unused
      <4>3. refs'[registry[k]] = refs[registry[k]]
        BY <1>1, <4>1, <4>2
      <4> QED BY <2>1, <2>3, <3>3, <4>1, <4>3 DEF LockerInv, CountsInv
    <3> QED BY <3>1, <3>2, <3>3
  <2>4. ASSUME NEW e \in Entry, \A k \in Key : registry'[k] # e PROVE refs'[e] = 0
    <3>1. \A k \in keys : entry[k] # e
      BY <1>1, <2>4
    <3>2. \A k \in Key : registry[k] # e
      BY <1>1, <2>4 DEF LockerConstants
    <3> QED BY <1>1, <3>1, <3>2 DEF LockerInv, CountsInv
  <2> QED BY <2>3, <2>4 DEF CountsInv
<1>10. OwnersInv'
  <2>1. \A d \in Call : call'[d].locked = call[d].locked
    BY <1>3, <1>4, <1>5
  <2>2. ASSUME NEW k \in Key, registry'[k] # NoEntry, NEW d \in Call
        PROVE  mutex'[registry'[k]] = d <=> k \in call'[d].locked
    <3>1. CASE k \in keys /\ registry[k] = NoEntry
      <4>1. mutex[entry[k]] = Nobody
        BY <1>1, <3>1 DEF LockerInv, OwnersInv, Unused
      <4>2. k \notin Keys(d)
        BY <3>1, EntryBehindKey DEF LockerInv
      <4>3. k \notin call[d].locked
        BY <4>2 DEF LockerInv, CallsInv, CallInv
      <4> QED BY <1>1, <2>1, <3>1, <4>1, <4>3, CallsAre
    <3>2. CASE ~(k \in keys /\ registry[k] = NoEntry)
      <4>1. registry'[k] = registry[k]
        BY <1>1, <3>2
      <4> QED BY <1>1, <2>1, <2>2, <4>1 DEF LockerInv, OwnersInv
    <3> QED BY <3>1, <3>2
  <2>3. ASSUME NEW e \in Entry, \A k \in Key : registry'[k] # e PROVE mutex'[e] = Nobody
    <3>1. \A k \in Key : registry[k] # e
      BY <1>1, <2>3 DEF LockerConstants
    <3> QED BY <1>1, <3>1 DEF LockerInv, OwnersInv
  <2> QED BY <2>2, <2>3 DEF OwnersInv
<1> QED BY <1>2, <1>3, <1>4, <1>6, <1>7, <1>8, <1>9, <1>10

LEMMA NestedNext ==
  ASSUME NestedInv, NEW c \in Call,
         \A d \in Call \ {c} : call'[d] = call[d],
         Keys(c)' = Keys(c), call'[c].nests = call[c].nests, call[c] # NoCall,
         \A r \in Request : c = Outer(r) => call[Inner(r)] = NoCall
  PROVE  NestedInv'
<1> SUFFICES ASSUME NEW r \in Request
             PROVE  /\ call'[Inner(r)] # NoCall =>
                         /\ call'[Outer(r)].step = "held" /\ ~call'[Outer(r)].nests
                         /\ Keys(Inner(r))' = {Quota} /\ Quota \notin Keys(Outer(r))'
                    /\ ~call'[Inner(r)].nests
                    /\ call'[Outer(r)].nests => Quota \notin Keys(Outer(r))'
  BY DEF NestedInv, Inner, Outer
<1>1. Outer(r) \in Call /\ Inner(r) \in Call /\ Outer(r) # Inner(r)
  BY CallsAre
<1>2. \A d \in Call : Keys(d)' = Keys(d) /\ call'[d].nests = call[d].nests
  BY DEF Keys
<1>3. CASE c = Outer(r)
  BY <1>1, <1>2, <1>3 DEF NestedInv
<1>4. CASE c # Outer(r)
  BY <1>1, <1>2, <1>4 DEF NestedInv
<1> QED BY <1>3, <1>4

LEMMA EntriesNext ==
  ASSUME EntriesInv, CountsInv, UNCHANGED <<registry, refs>>,
         \A d \in Call : call'[d].entry = call[d].entry
  PROVE  EntriesInv' /\ CountsInv'
<1>1. \A d \in Call : Keys(d)' = Keys(d)
  BY DEF Keys
<1>2. \A k \in Key : Refer(k)' = Refer(k)
  BY <1>1 DEF Refer
<1>3. EntriesInv'
  BY <1>1 DEF EntriesInv
<1>4. CountsInv'
  BY <1>2 DEF CountsInv
<1> QED BY <1>3, <1>4

LEMMA BeginKeeps ==
  ASSUME LockerConstants, LockerInv, NEW r \in Request, NEW w \in Work, Begin(r, w)
  PROVE  LockerInv'
<1> DEFINE c == Outer(r)
<1>1. /\ c \in Call /\ w.keys \in SUBSET Key /\ w.keys # {} /\ w.nests \in BOOLEAN
      /\ w.nests => Quota \notin w.keys
  BY CallsAre DEF LockerConstants
<1>2. call[c] = NoCall /\ call \in [Call -> CallRecord] /\ Register(c, w.keys, w.nests, call)
  BY DEF Begin, Register, LockerInv, LockerShape, CallRecord
<1>3. /\ LockerShape' /\ CallsInv' /\ EntriesInv' /\ CountsInv' /\ OwnersInv'
      /\ call'[c].step = "locking" /\ Keys(c)' = w.keys /\ call'[c].nests = w.nests
      /\ \A d \in Call \ {c} : call'[d] = call[d] /\ Keys(d)' = Keys(d)
  BY <1>1, <1>2, RegisterKeeps
<1>4. NestedInv'
  <2> SUFFICES ASSUME NEW q \in Request
               PROVE  /\ call'[Inner(q)] # NoCall =>
                           /\ call'[Outer(q)].step = "held" /\ ~call'[Outer(q)].nests
                           /\ Keys(Inner(q))' = {Quota} /\ Quota \notin Keys(Outer(q))'
                      /\ ~call'[Inner(q)].nests
                      /\ call'[Outer(q)].nests => Quota \notin Keys(Outer(q))'
    BY DEF NestedInv, Inner, Outer
  <2>1. Outer(q) \in Call /\ Inner(q) \in Call /\ Inner(q) # c
    BY CallsAre
  <2>2. CASE q = r
    <3>1. call[Outer(q)].step # "held"
      BY <1>2, <2>2 DEF NoCall
    <3>2. call[Inner(q)] = NoCall /\ ~call[Inner(q)].nests
      BY <3>1 DEF LockerInv, NestedInv
    <3> QED BY <1>1, <1>3, <2>1, <2>2, <3>2
  <2>3. CASE q # r
    <3>1. Outer(q) # c
      BY <2>3, CallsAre
    <3> QED BY <1>3, <2>1, <3>1 DEF LockerInv, NestedInv
  <2> QED BY <2>2, <2>3
<1> QED BY <1>3, <1>4 DEF LockerInv

LEMMA NestKeeps ==
  ASSUME LockerConstants, LockerInv, NEW r \in Request, Nest(r)
  PROVE  LockerInv'
<1> DEFINE c == Inner(r)
           calls == [call EXCEPT ![Outer(r)].nests = FALSE]
<1>1. c \in Call /\ Outer(r) \in Call /\ c # Outer(r) /\ {Quota} \in SUBSET Key /\ {Quota} # {}
      /\ FALSE \in BOOLEAN
  BY CallsAre DEF LockerConstants
<1>2. /\ call[c] = NoCall /\ call \in [Call -> CallRecord] /\ Register(c, {Quota}, FALSE, calls)
      /\ call[Outer(r)].step = "held" /\ call[Outer(r)].nests
  BY DEF Nest, Register, LockerInv, LockerShape, CallRecord
<1>3. /\ calls \in [Call -> CallRecord] /\ \A d \in Call \ {Outer(r)} : calls[d] = call[d]
      /\ calls[Outer(r)] = [call[Outer(r)] EXCEPT !.nests = FALSE]
  BY <1>1, <1>2 DEF CallRecord
<1>4. \A d \in Call : /\ calls[d].step = call[d].step /\ calls[d].entry = call[d].entry
                      /\ calls[d].locked = call[d].locked
                      /\ call[d].step = "none" => calls[d] = call[d]
  BY <1>1, <1>2, <1>3 DEF CallRecord
<1>5. calls[Outer(r)].step = "held" /\ ~calls[Outer(r)].nests
  BY <1>1, <1>2, <1>3 DEF CallRecord
<1> HIDE DEF calls
<1>6. /\ LockerShape' /\ CallsInv' /\ EntriesInv' /\ CountsInv' /\ OwnersInv'
      /\ call'[c].step = "locking" /\ Keys(c)' = {Quota} /\ call'[c].nests = FALSE
      /\ \A d \in Call \ {c} : call'[d] = calls[d] /\ Keys(d)' = Keys(d)
  BY <1>1, <1>2, <1>3, <1>4, RegisterKeeps
<1>7. NestedInv'
  <2> SUFFICES ASSUME NEW q \in Request
               PROVE  /\ call'[Inner(q)] # NoCall =>
                           /\ call'[Outer(q)].step = "held" /\ ~call'[Outer(q)].nests
                           /\ Keys(Inner(q))' = {Quota} /\ Quota \notin Keys(Outer(q))'
                      /\ ~call'[Inner(q)].nests
                      /\ call'[Outer(q)].nests => Quota \notin Keys(Outer(q))'
    BY DEF NestedInv, Inner, Outer
  <2>1. Outer(q) \in Call /\ Inner(q) \in Call /\ Outer(q) # c /\ Inner(q) # Outer(r)
    BY CallsAre
  <2>2. CASE q = r
    <3>1. Quota \notin Keys(Outer(r))
      BY <1>2 DEF LockerInv, NestedInv
    <3> QED BY <1>1, <1>5, <1>6, <2>1, <2>2, <3>1
  <2>3. CASE q # r
    <3>1. Outer(q) # Outer(r) /\ Inner(q) # c
      BY <2>3, CallsAre
    <3> QED BY <1>3, <1>6, <2>1, <3>1 DEF LockerInv, NestedInv
  <2> QED BY <2>2, <2>3
<1> QED BY <1>6, <1>7 DEF LockerInv

LEMMA ReturnKeeps ==
  ASSUME LockerConstants, LockerInv, NEW c \in Call, Return(c)
  PROVE  LockerInv'
<1>1. /\ call[c] \in CallRecord /\ call[c].step = "held" /\ call[c] # NoCall
      /\ \A r \in Request : c = Outer(r) => call[Inner(r)] = NoCall
      /\ UNCHANGED <<registry, refs, mutex>>
  BY CallShape DEF LockerInv, Return, NoCall
<1>2. /\ call' \in [Call -> CallRecord] /\ call'[c] = [call[c] EXCEPT !.step = "unlocking"]
      /\ \A d \in Call \ {c} : call'[d] = call[d]
  BY DEF LockerInv, LockerShape, Return, CallRecord, CallStep
<1>3. /\ call'[c].step = "unlocking" /\ call'[c].entry = call[c].entry
      /\ call'[c].locked = call[c].locked /\ call'[c].nests = call[c].nests
  BY <1>1, <1>2 DEF CallRecord
<1>4. \A d \in Call : call'[d].entry = call[d].entry /\ call'[d].locked = call[d].locked
                      /\ Keys(d)' = Keys(d)
  BY <1>2, <1>3 DEF Keys
<1>5. LockerShape'
  BY <1>1, <1>2 DEF LockerInv, LockerShape, CallRecord
<1>6. CallsInv'
  <2>1. ASSUME NEW d \in Call, d # c PROVE CallInv(d)'
    BY <1>2, <1>4, <2>1 DEF LockerInv, CallsInv, CallInv
  <2>2. CallInv(c)'
    BY <1>1, <1>3, <1>4 DEF LockerInv, CallsInv, CallInv
  <2> QED BY <2>1, <2>2 DEF CallsInv
<1>7. EntriesInv' /\ CountsInv'
  BY <1>1, <1>4, EntriesNext DEF LockerInv
<1>8. OwnersInv'
  BY <1>1, <1>4 DEF LockerInv, OwnersInv
<1>9. NestedInv'
  BY <1>1, <1>2, <1>3, <1>4, NestedNext DEF LockerInv
<1> QED BY <1>5, <1>6, <1>7, <1>8, <1>9 DEF LockerInv

LEMMA LockEffect ==
  ASSUME LockerConstants, LockerInv, NEW c \in Call, Lock(c)
  PROVE  \E k \in Keys(c) \ call[c].locked :
           /\ k = Least(Keys(c) \ call[c].locked)
           /\ \A j \in Keys(c) \ call[c].locked : k <= j
           /\ call[c].step = "locking" /\ registry[k] \in Entry /\ mutex[registry[k]] = Nobody
           /\ mutex' = [mutex EXCEPT ![registry[k]] = c] /\ UNCHANGED <<registry, refs>>
           /\ call' \in [Call -> CallRecord] /\ \A d \in Call \ {c} : call'[d] = call[d]
           /\ call'[c].entry = call[c].entry /\ call'[c].nests = call[c].nests
           /\ call'[c].locked = call[c].locked \cup {k}
           /\ call'[c].step = IF Keys(c) = call[c].locked \cup {k} THEN "held" ELSE "locking"
<1> DEFINE S == Keys(c) \ call[c].locked
           k == Least(S)
<1>1. call[c].step = "locking" /\ call[c] \in CallRecord /\ Keys(c) \subseteq Key
  BY CallShape DEF Lock, LockerInv
<1>2. S \in SUBSET Nat /\ S # {}
  BY <1>1 DEF LockerConstants, LockerInv, CallsInv, CallInv
<1>3. k \in S /\ \A j \in S : k <= j
  BY <1>2, LeastIs
<1>4. registry[k] \in Entry /\ call[c].entry[k] = registry[k] /\ k \in Key
  BY <1>3, EntryBehindKey DEF LockerInv
<1>5. /\ mutex[registry[k]] = Nobody /\ mutex' = [mutex EXCEPT ![registry[k]] = c]
      /\ call' = [call EXCEPT ![c].locked = @ \cup {k},
                              ![c].step = IF Keys(c) = call[c].locked \cup {k} THEN "held" ELSE @]
      /\ UNCHANGED <<registry, refs>>
  BY <1>4 DEF Lock
<1> HIDE DEF k
<1>6. /\ call'[c] = [call[c] EXCEPT !.locked = call[c].locked \cup {k},
                                    !.step = IF Keys(c) = call[c].locked \cup {k}
                                             THEN "held" ELSE call[c].step]
      /\ call' \in [Call -> CallRecord] /\ \A d \in Call \ {c} : call'[d] = call[d]
  BY <1>1, <1>4, <1>5 DEF LockerInv, LockerShape, CallRecord, CallStep
<1>7. /\ call'[c].entry = call[c].entry /\ call'[c].nests = call[c].nests
      /\ call'[c].locked = call[c].locked \cup {k}
      /\ call'[c].step = IF Keys(c) = call[c].locked \cup {k} THEN "held" ELSE "locking"
  BY <1>1, <1>6 DEF CallRecord
<1> QED BY <1>1, <1>3, <1>4, <1>5, <1>6, <1>7 DEF k

LEMMA OthersKeep ==
  ASSUME CallsInv, NEW c \in Call, \A d \in Call \ {c} : call'[d] = call[d], CallInv(c)'
  PROVE  CallsInv'
<1>1. ASSUME NEW d \in Call, d # c PROVE CallInv(d)'
  <2>1. call'[d] = call[d] /\ Keys(d)' = Keys(d) /\ CallInv(d)
    BY <1>1 DEF CallsInv, Keys
  <2> QED BY <2>1 DEF CallInv
<1> QED BY <1>1 DEF CallsInv

LEMMA LockKeeps ==
  ASSUME LockerConstants, LockerInv, NEW c \in Call, Lock(c)
  PROVE  LockerInv'
<1>1. PICK k \in Keys(c) \ call[c].locked :
           /\ k = Least(Keys(c) \ call[c].locked)
           /\ \A j \in Keys(c) \ call[c].locked : k <= j
           /\ call[c].step = "locking" /\ registry[k] \in Entry /\ mutex[registry[k]] = Nobody
           /\ mutex' = [mutex EXCEPT ![registry[k]] = c] /\ UNCHANGED <<registry, refs>>
           /\ call' \in [Call -> CallRecord] /\ \A d \in Call \ {c} : call'[d] = call[d]
           /\ call'[c].entry = call[c].entry /\ call'[c].nests = call[c].nests
           /\ call'[c].locked = call[c].locked \cup {k}
           /\ call'[c].step = IF Keys(c) = call[c].locked \cup {k} THEN "held" ELSE "locking"
  BY LockEffect
<1>2. \A d \in Call : Keys(d)' = Keys(d) /\ call'[d].entry = call[d].entry
  BY <1>1 DEF Keys
<1>3. Keys(c) \subseteq Nat /\ Keys(c) \subseteq Key /\ k \in Key
  BY <1>1, CallShape DEF LockerInv, LockerConstants
<1>4. LockerShape'
  <2>1. mutex' \in [Entry -> Call \cup {Nobody}]
    BY <1>1 DEF LockerInv, LockerShape
  <2> QED BY <1>1, <2>1 DEF LockerInv, LockerShape, CallRecord
<1>5. CallsInv'
  <2>1. CallInv(c)
    BY DEF LockerInv, CallsInv
  <2>2. call'[c].locked \subseteq Keys(c)
    BY <1>1, <2>1 DEF CallInv
  <2>3. ASSUME NEW j \in call'[c].locked, NEW m \in Keys(c) \ call'[c].locked PROVE j < m
    <3>1. m \in Keys(c) \ call[c].locked /\ m # k /\ k <= m /\ k \in Nat /\ m \in Nat
      BY <1>1, <1>3
    <3>2. CASE j = k
      BY <3>1, <3>2
    <3>3. CASE j \in call[c].locked
      BY <1>1, <2>1, <3>1, <3>3 DEF CallInv
    <3> QED BY <1>1, <3>2, <3>3
  <2>4. CallInv(c)'
    BY <1>1, <1>2, <2>2, <2>3 DEF CallInv
  <2> QED BY <1>1, <2>4, OthersKeep DEF LockerInv
<1>6. EntriesInv' /\ CountsInv'
  BY <1>1, <1>2, EntriesNext DEF LockerInv
<1>7. OwnersInv'
  <2>1. ASSUME NEW j \in Key, registry[j] # NoEntry, NEW d \in Call
        PROVE  mutex'[registry[j]] = d <=> j \in call'[d].locked
    <3>1. registry[j] \in Entry
      BY <2>1 DEF LockerInv, LockerShape
    <3>2. mutex[registry[j]] = d <=> j \in call[d].locked
      BY <2>1 DEF LockerInv, OwnersInv
    <3>3. CASE j = k
      <4>1. d # c => k \notin call'[d].locked
        BY <1>1, <3>2, <3>3, CallsAre
      <4> QED BY <1>1, <3>1, <3>3, <4>1 DEF LockerInv, LockerShape
    <3>4. CASE j # k
      <4>1. registry[j] # registry[k]
        BY <1>3, <2>1, <3>4 DEF LockerInv, EntriesInv
      <4>2. mutex'[registry[j]] = mutex[registry[j]]
        BY <1>1, <3>1, <4>1 DEF LockerInv, LockerShape
      <4>3. j \in call'[d].locked <=> j \in call[d].locked
        BY <1>1, <3>4
      <4> QED BY <3>2, <4>2, <4>3
    <3> QED BY <3>3, <3>4
  <2>2. ASSUME NEW e \in Entry, \A j \in Key : registry[j] # e PROVE mutex'[e] = Nobody
    BY <1>1, <1>3, <2>2 DEF LockerInv, LockerShape, OwnersInv
  <2>3. registry' = registry
    BY <1>1
  <2> QED BY <2>1, <2>2, <2>3 DEF OwnersInv
<1>8. NestedInv'
  <2>1. \A r \in Request : c = Outer(r) => call[Inner(r)] = NoCall
    BY <1>1 DEF LockerInv, NestedInv
  <2>2. call[c] # NoCall
    BY <1>1 DEF NoCall
  <2> QED BY <1>1, <1>2, <2>1, <2>2, NestedNext DEF LockerInv
<1> QED BY <1>4, <1>5, <1>6, <1>7, <1>8 DEF LockerInv

LEMMA UnlockKeeps ==
  ASSUME LockerConstants, LockerInv, NEW c \in Call, Unlock(c)
  PROVE  LockerInv'
<1> DEFINE k == Last(call[c].locked)
<1>1. /\ call[c].step = "unlocking" /\ call[c] \in CallRecord /\ call[c].locked # {}
      /\ call[c].locked \subseteq Keys(c) /\ Keys(c) \subseteq Key
  BY CallShape DEF Unlock, LockerInv, CallsInv, CallInv
<1>2. k \in call[c].locked /\ k \in Keys(c) /\ k \in Key
  BY <1>1, LastIs
<1>3. call[c].entry[k] = registry[k] /\ registry[k] \in Entry /\ registry[k] # NoEntry
  BY <1>2, EntryBehindKey DEF LockerInv
<1>4. /\ mutex' = [mutex EXCEPT ![registry[k]] = Nobody] /\ UNCHANGED <<registry, refs>>
      /\ call' = [call EXCEPT ![c].locked = @ \ {k}]
  BY <1>3 DEF Unlock
<1> HIDE DEF k
<1>5. /\ call'[c] = [call[c] EXCEPT !.locked = call[c].locked \ {k}]
      /\ call' \in [Call -> CallRecord] /\ \A d \in Call \ {c} : call'[d] = call[d]
  BY <1>1, <1>4 DEF LockerInv, LockerShape, CallRecord
<1>6. /\ call'[c].entry = call[c].entry /\ call'[c].nests = call[c].nests
      /\ call'[c].step = "unlocking" /\ call'[c].locked = call[c].locked \ {k}
  BY <1>1, <1>5 DEF CallRecord
<1>7. \A d \in Call : Keys(d)' = Keys(d) /\ call'[d].entry = call[d].entry
  BY <1>5, <1>6 DEF Keys
<1>8. LockerShape'
  <2>1. mutex' \in [Entry -> Call \cup {Nobody}]
    BY <1>4 DEF LockerInv, LockerShape
  <2> QED BY <1>4, <1>5, <2>1 DEF LockerInv, LockerShape, CallRecord
<1>9. CallsInv'
  <2>1. CallInv(c)'
    BY <1>1, <1>2, <1>6, <1>7 DEF CallInv
  <2> QED BY <1>5, <2>1, OthersKeep DEF LockerInv
<1>10. EntriesInv' /\ CountsInv'
  BY <1>4, <1>7, EntriesNext DEF LockerInv
<1>11. OwnersInv'
  <2>1. ASSUME NEW j \in Key, registry[j] # NoEntry, NEW d \in Call
        PROVE  mutex'[registry[j]] = d <=> j \in call'[d].locked
    <3>1. registry[j] \in Entry
      BY <2>1 DEF LockerInv, LockerShape
    <3>2. mutex[registry[j]] = d <=> j \in call[d].locked
      BY <2>1 DEF LockerInv, OwnersInv
    <3>3. CASE j = k
      <4>1. mutex[registry[k]] = c
        BY <1>2, <1>3 DEF LockerInv, OwnersInv
      <4>2. k \notin call'[d].locked
        BY <1>5, <1>6, <3>2, <3>3, <4>1
      <4>3. mutex'[registry[k]] = Nobody
        BY <1>3, <1>4 DEF LockerInv, LockerShape
      <4> QED BY <3>3, <4>2, <4>3, CallsAre
    <3>4. CASE j # k
      <4>1. registry[j] # registry[k]
        BY <1>2, <2>1, <3>4 DEF LockerInv, EntriesInv
      <4>2. mutex'[registry[j]] = mutex[registry[j]]
        BY <1>4, <3>1, <4>1 DEF LockerInv, LockerShape
      <4>3. j \in call'[d].locked <=> j \in call[d].locked
        BY <1>5, <1>6, <3>4
      <4> QED BY <3>2, <4>2, <4>3
    <3> QED BY <3>3, <3>4
  <2>2. ASSUME NEW e \in Entry, \A j \in Key : registry[j] # e PROVE mutex'[e] = Nobody
    BY <1>2, <1>4, <2>2 DEF LockerInv, LockerShape, OwnersInv
  <2>3. registry' = registry
    BY <1>4
  <2> QED BY <2>1, <2>2, <2>3 DEF OwnersInv
<1>12. NestedInv'
  <2>1. \A r \in Request : c = Outer(r) => call[Inner(r)] = NoCall
    BY <1>1 DEF LockerInv, NestedInv
  <2>2. call[c] # NoCall
    BY <1>1 DEF NoCall
  <2> QED BY <1>5, <1>6, <1>7, <2>1, <2>2, NestedNext DEF LockerInv
<1> QED BY <1>8, <1>9, <1>10, <1>11, <1>12 DEF LockerInv

LEMMA ReleaseKeeps ==
  ASSUME LockerConstants, LockerInv, NEW c \in Call, Release(c)
  PROVE  LockerInv'
<1>1. /\ call[c].step = "unlocking" /\ call[c].locked = {} /\ Keys(c) \subseteq Key
      /\ \A k \in Keys(c) : call[c].entry[k] = registry[k] /\ registry[k] \in Entry
  BY CallShape, EntryBehindKey DEF Release, LockerInv
<1>2. /\ call' = [call EXCEPT ![c] = NoCall] /\ mutex' = mutex
      /\ refs' = [e \in Entry |-> IF \E k \in Keys(c) : registry[k] = e THEN refs[e] - 1 ELSE refs[e]]
      /\ registry' = [k \in Key |-> IF k \in Keys(c) /\ refs'[registry[k]] = 0
                                     THEN NoEntry ELSE registry[k]]
  <2>1. /\ call' = [call EXCEPT ![c] = NoCall] /\ mutex' = mutex
        /\ refs' = [e \in Entry |-> IF \E k \in Keys(c) : call[c].entry[k] = e
                                     THEN refs[e] - 1 ELSE refs[e]]
        /\ registry' = [k \in Key |-> IF /\ k \in Keys(c) /\ registry[k] = call[c].entry[k]
                                          /\ refs'[registry[k]] = 0
                                       THEN NoEntry ELSE registry[k]]
    BY DEF Release
  <2> QED BY <1>1, <2>1
<1>3. /\ call' \in [Call -> CallRecord] /\ call'[c] = NoCall
      /\ \A d \in Call \ {c} : call'[d] = call[d]
  <2>1. NoCall \in CallRecord
    BY CallsAre DEF NoCall, CallRecord, CallStep
  <2> QED BY <1>2, <2>1 DEF LockerInv, LockerShape, CallRecord
<1>4. /\ Keys(c)' = {} /\ call'[c].locked = {} /\ call'[c].step = "none" /\ ~call'[c].nests
      /\ \A d \in Call \ {c} : Keys(d)' = Keys(d)
  BY <1>3, CallsAre DEF Keys, NoCall
<1>5. \A k \in Key : IF k \in Keys(c) THEN c \in Refer(k) /\ Refer(k)' = Refer(k) \ {c}
                      ELSE Refer(k)' = Refer(k)
  BY <1>4 DEF Refer
<1>6. \A k \in Key : IsFiniteSet(Refer(k)) /\ Cardinality(Refer(k)) \in Nat
  <2>1. \A k \in Key : Refer(k) \in SUBSET Call
    BY DEF Refer
  <2> QED BY <2>1, FinitelyMany, FS_Subset, FS_CardinalityType
<1>7. ASSUME NEW k \in Keys(c)
      PROVE  /\ refs'[registry[k]] = Cardinality(Refer(k)') /\ refs'[registry[k]] \in Nat
             /\ refs'[registry[k]] = 0 <=> Refer(k)' = {}
  <2>1. k \in Key /\ registry[k] \in Entry /\ registry[k] # NoEntry
    BY EntryBehindKey DEF LockerInv
  <2>2. refs[registry[k]] = Cardinality(Refer(k))
    BY <2>1 DEF LockerInv, CountsInv
  <2>3. refs'[registry[k]] = refs[registry[k]] - 1
    BY <1>2, <2>1
  <2>4. Cardinality(Refer(k)') = Cardinality(Refer(k)) - 1 /\ IsFiniteSet(Refer(k)')
    BY <1>5, <1>6, <2>1, FS_RemoveElement
  <2>5. Cardinality(Refer(k)') \in Nat /\ (Cardinality(Refer(k)') = 0 <=> Refer(k)' = {})
    BY <2>4, FS_CardinalityType, FS_EmptySet
  <2> QED BY <2>2, <2>3, <2>4, <2>5
<1>8. ASSUME NEW e \in Entry, \A k \in Keys(c) : registry[k] # e PROVE refs'[e] = refs[e]
  BY <1>2, <1>8
<1>9. LockerShape'
  <2>1. ASSUME NEW e \in Entry PROVE refs'[e] \in Nat
    <3>1. CASE \E k \in Keys(c) : registry[k] = e
      BY <1>7, <3>1
    <3>2. CASE \A k \in Keys(c) : registry[k] # e
      BY <1>8, <3>2 DEF LockerInv, LockerShape
    <3> QED BY <3>1, <3>2
  <2>2. refs' \in [Entry -> Nat]
    BY <1>2, <2>1
  <2>3. registry' \in [Key -> Entry \cup {NoEntry}]
    BY <1>2 DEF LockerInv, LockerShape
  <2> QED BY <1>2, <1>3, <2>2, <2>3 DEF LockerInv, LockerShape, CallRecord
<1>10. CallsInv'
  <2>1. CallInv(c)'
    BY <1>3, <1>4 DEF CallInv
  <2> QED BY <1>3, <2>1, OthersKeep DEF LockerInv
<1>11. \A k \in Key : Refer(k)' # {} => registry'[k] = registry[k]
  BY <1>2, <1>7
<1>12. EntriesInv'
  <2>1. ASSUME NEW d \in Call, NEW k \in Keys(d)' PROVE call'[d].entry[k] = registry'[k]
    <3>1. d # c /\ k \in Keys(d) /\ call'[d] = call[d] /\ k \in Key
      BY <1>3, <1>4, <2>1, EntryBehindKey DEF LockerInv
    <3>2. d \in Refer(k)'
      BY <2>1 DEF Refer
    <3> QED BY <1>11, <3>1, <3>2 DEF LockerInv, EntriesInv
  <2>2. ASSUME NEW j \in Key, NEW k \in Key, registry'[j] = registry'[k], registry'[k] # NoEntry
        PROVE  j = k
    BY <1>2, <2>2 DEF LockerInv, EntriesInv
  <2> QED BY <2>1, <2>2 DEF EntriesInv
<1>13. CountsInv'
  <2>1. ASSUME NEW k \in Key, registry'[k] # NoEntry
        PROVE  Refer(k)' # {} /\ refs'[registry'[k]] = Cardinality(Refer(k)')
    <3>1. registry'[k] = registry[k] /\ registry[k] \in Entry
      BY <1>2, <2>1 DEF LockerInv, LockerShape
    <3>2. CASE k \in Keys(c)
      BY <1>2, <1>7, <2>1, <3>1, <3>2
    <3>3. CASE k \notin Keys(c)
      <4>1. \A j \in Keys(c) : registry[j] # registry[k]
        BY <1>1, <2>1, <3>1, <3>3 DEF LockerInv, EntriesInv
      <4>2. refs'[registry[k]] = refs[registry[k]]
        BY <1>8, <3>1, <4>1
      <4> QED BY <1>5, <2>1, <3>1, <3>3, <4>2 DEF LockerInv, CountsInv
    <3> QED BY <3>2, <3>3
  <2>2. ASSUME NEW e \in Entry, \A k \in Key : registry'[k] # e PROVE refs'[e] = 0
    <3>1. CASE \E k \in Keys(c) : registry[k] = e
      BY <1>1, <1>2, <2>2, <3>1
    <3>2. CASE \A k \in Keys(c) : registry[k] # e
      <4>1. \A k \in Key : registry[k] # e
        BY <1>2, <2>2, <3>2
      <4> QED BY <1>8, <3>2, <4>1 DEF LockerInv, CountsInv
    <3> QED BY <3>1, <3>2
  <2> QED BY <2>1, <2>2 DEF CountsInv
<1>14. OwnersInv'
  <2>1. \A d \in Call : call'[d].locked = call[d].locked
    BY <1>1, <1>3, <1>4
  <2>2. ASSUME NEW k \in Key, registry'[k] # NoEntry, NEW d \in Call
        PROVE  mutex'[registry'[k]] = d <=> k \in call'[d].locked
    <3>1. registry'[k] = registry[k]
      BY <1>2, <2>2
    <3> QED BY <1>2, <2>1, <2>2, <3>1 DEF LockerInv, OwnersInv
  <2>3. ASSUME NEW e \in Entry, \A k \in Key : registry'[k] # e PROVE mutex'[e] = Nobody
    <3>1. CASE \A k \in Key : registry[k] # e
      BY <1>2, <3>1 DEF LockerInv, OwnersInv
    <3>2. CASE \E k \in Key : registry[k] = e
      <4>1. PICK k \in Key : registry[k] = e
        BY <3>2
      <4>2. k \in Keys(c) /\ Refer(k)' = {} /\ registry[k] # NoEntry
        BY <1>2, <1>7, <2>3, <4>1 DEF LockerConstants
      <4>3. \A d \in Call : k \notin call[d].locked
        <5>1. ASSUME NEW d \in Call, k \in call[d].locked PROVE FALSE
          <6>1. d # c /\ k \in Keys(d)
            BY <1>1, <5>1 DEF LockerInv, CallsInv, CallInv
          <6>2. d \in Refer(k)'
            BY <1>4, <6>1 DEF Refer
          <6> QED BY <4>2, <6>2
        <5> QED BY <5>1
      <4>4. mutex[e] \notin Call /\ mutex[e] \in Call \cup {Nobody}
        BY <4>1, <4>2, <4>3 DEF LockerInv, OwnersInv, LockerShape
      <4> QED BY <1>2, <4>4
    <3> QED BY <3>1, <3>2
  <2> QED BY <2>2, <2>3 DEF OwnersInv
<1>15. NestedInv'
  <2> SUFFICES ASSUME NEW r \in Request
               PROVE  /\ call'[Inner(r)] # NoCall =>
                           /\ call'[Outer(r)].step = "held" /\ ~call'[Outer(r)].nests
                           /\ Keys(Inner(r))' = {Quota} /\ Quota \notin Keys(Outer(r))'
                      /\ ~call'[Inner(r)].nests
                      /\ call'[Outer(r)].nests => Quota \notin Keys(Outer(r))'
    BY DEF NestedInv, Inner, Outer
  <2>1. Outer(r) \in Call /\ Inner(r) \in Call /\ Outer(r) # Inner(r)
    BY CallsAre
  <2>2. CASE c = Outer(r)
    <3>1. call[Inner(r)] = NoCall /\ ~call[Inner(r)].nests
      BY <1>1, <2>2 DEF LockerInv, NestedInv
    <3> QED BY <1>3, <1>4, <2>1, <2>2, <3>1
  <2>3. CASE c = Inner(r)
    BY <1>3, <1>4, <2>1, <2>3 DEF LockerInv, NestedInv
  <2>4. CASE c # Outer(r) /\ c # Inner(r)
    BY <1>3, <1>4, <2>1, <2>4 DEF LockerInv, NestedInv
  <2> QED BY <2>2, <2>3, <2>4
<1> QED BY <1>9, <1>10, <1>12, <1>13, <1>14, <1>15 DEF LockerInv

LEMMA LockerInitial ==
  ASSUME LockerConstants, LockerInit
  PROVE  LockerInv
<1>1. \A c \in Call : call[c] = NoCall /\ Keys(c) = {} /\ call[c].locked = {}
                      /\ call[c].step = "none" /\ ~call[c].nests
  BY CallsAre DEF LockerInit, Keys, NoCall
<1>2. LockerShape
  <2>1. NoCall \in CallRecord
    BY CallsAre DEF NoCall, CallRecord, CallStep
  <2> QED BY <2>1 DEF LockerInit, LockerShape, CallRecord
<1>3. CallsInv
  BY <1>1 DEF CallsInv, CallInv
<1>4. EntriesInv
  BY <1>1 DEF EntriesInv, LockerInit
<1>5. CountsInv
  BY DEF CountsInv, LockerInit
<1>6. OwnersInv
  BY DEF OwnersInv, LockerInit
<1>7. NestedInv
  BY <1>1, CallsAre DEF NestedInv
<1> QED BY <1>2, <1>3, <1>4, <1>5, <1>6, <1>7 DEF LockerInv

LEMMA LockerStep ==
  ASSUME LockerConstants, LockerInv, [LockerNext]_lockerVars
  PROVE  LockerInv'
<1>1. CASE \E r \in Request : Nest(r)
  BY <1>1, NestKeeps
<1>2. CASE \E r \in Request, w \in Work : Begin(r, w)
  BY <1>2, BeginKeeps
<1>3. CASE \E c \in Call : Lock(c)
  BY <1>3, LockKeeps
<1>4. CASE \E c \in Call : Return(c)
  BY <1>4, ReturnKeeps
<1>5. CASE \E c \in Call : Unlock(c)
  BY <1>5, UnlockKeeps
<1>6. CASE \E c \in Call : Release(c)
  BY <1>6, ReleaseKeeps
<1>7. CASE UNCHANGED lockerVars
  <2>1. \A c \in Call : Keys(c)' = Keys(c)
    BY <1>7 DEF lockerVars, Keys
  <2>2. \A k \in Key : Refer(k)' = Refer(k)
    BY <2>1 DEF Refer
  <2>3. LockerShape' /\ OwnersInv'
    BY <1>7 DEF lockerVars, LockerInv, LockerShape, OwnersInv
  <2>4. \A r \in Request : Keys(Inner(r))' = Keys(Inner(r)) /\ Keys(Outer(r))' = Keys(Outer(r))
    BY <1>7 DEF lockerVars, Keys, Inner, Outer
  <2>5. EntriesInv' /\ CountsInv'
    BY <1>7, EntriesNext DEF lockerVars, LockerInv
  <2>6. CallsInv'
    BY <1>7, <2>1 DEF lockerVars, LockerInv, CallsInv, CallInv
  <2>7. NestedInv'
    BY <1>7, <2>4 DEF lockerVars, LockerInv, NestedInv, Inner, Outer
  <2> QED BY <2>3, <2>5, <2>6, <2>7 DEF LockerInv
<1> QED BY <1>1, <1>2, <1>3, <1>4, <1>5, <1>6, <1>7 DEF LockerNext

LEMMA LockerTyped ==
  ASSUME LockerConstants, LockerInv
  PROVE  LockerType
<1>1. ASSUME NEW c \in Call
      PROVE  /\ call[c].step \in {"none", "locking", "held", "unlocking"}
             /\ Keys(c) \subseteq Key /\ call[c].locked \subseteq Keys(c)
  BY CallShape DEF LockerInv, CallsInv, CallInv, CallRecord, CallStep
<1> QED BY <1>1 DEF LockerInv, LockerShape, LockerType

LEMMA LockerCounts ==
  ASSUME LockerConstants, LockerInv
  PROVE  EntriesCounted
<1> SUFFICES ASSUME NEW k \in Key
             PROVE  IF registry[k] = NoEntry THEN Refer(k) = {}
                    ELSE /\ Refer(k) # {} /\ refs[registry[k]] = Cardinality(Refer(k))
                         /\ \A c \in Refer(k) : call[c].entry[k] = registry[k]
  BY DEF EntriesCounted
<1>1. \A c \in Refer(k) : c \in Call /\ k \in Keys(c)
  BY DEF Refer
<1>2. \A c \in Refer(k) : call[c].entry[k] = registry[k] /\ registry[k] # NoEntry
  BY <1>1, EntryBehindKey DEF LockerInv
<1> QED BY <1>2 DEF LockerInv, CountsInv

LEMMA LockerExcludes ==
  ASSUME LockerConstants, LockerInv
  PROVE  KeysExclusive
<1> SUFFICES ASSUME NEW c \in Call, NEW d \in Call, NEW k \in call[c].locked \cap call[d].locked
             PROVE  c = d
  BY DEF KeysExclusive
<1>1. k \in Keys(c)
  BY DEF LockerInv, CallsInv, CallInv
<1>2. k \in Key /\ registry[k] # NoEntry
  BY <1>1, EntryBehindKey DEF LockerInv
<1> QED BY <1>2 DEF LockerInv, OwnersInv

\* The key at which a call waits.
Wanted(c) == Least(Keys(c) \ call[c].locked)

LEMMA WantedIs ==
  ASSUME LockerConstants, LockerInv, NEW c \in Call, call[c].step = "locking"
  PROVE  /\ Wanted(c) \in Keys(c) \ call[c].locked /\ Wanted(c) \in Key
         /\ \A j \in call[c].locked : j < Wanted(c)
         /\ call[c].entry[Wanted(c)] = registry[Wanted(c)]
<1>1. Keys(c) \ call[c].locked \in SUBSET Nat /\ Keys(c) \subseteq Key
  BY CallShape DEF LockerInv, LockerConstants
<1>2. Keys(c) \ call[c].locked # {}
  BY DEF LockerInv, CallsInv, CallInv
<1>3. Wanted(c) \in Keys(c) \ call[c].locked
  BY <1>1, <1>2, LeastIs DEF Wanted
<1> QED BY <1>1, <1>3, EntryBehindKey DEF LockerInv, CallsInv, CallInv

LEMMA WaitsHigher ==
  ASSUME LockerConstants, LockerInv, NEW c \in Call, call[c].step = "locking", Waiting(c),
         \A d \in Call : call[d] # NoCall => Waiting(d)
  PROVE  \E d \in Call : call[d].step = "locking" /\ Waiting(d) /\ Wanted(c) < Wanted(d)
<1> DEFINE k == Wanted(c)
<1>1. k \in Keys(c) /\ k \in Key /\ k \in Nat /\ registry[k] \in Entry /\ registry[k] # NoEntry
  BY WantedIs, EntryBehindKey DEF LockerInv, LockerConstants
<1>2. mutex[registry[k]] # Nobody
  BY WantedIs DEF Waiting, Wanted
<1>3. PICK d \in Call : mutex[registry[k]] = d
  BY <1>1, <1>2 DEF LockerInv, LockerShape
<1>4. k \in call[d].locked
  BY <1>1, <1>3 DEF LockerInv, OwnersInv
<1>5. call[d] # NoCall /\ Waiting(d)
  BY <1>4 DEF NoCall
<1>6. CASE call[d].step = "locking"
  <2>1. k < Wanted(d)
    BY <1>4, <1>6, WantedIs
  <2> QED BY <1>5, <1>6, <2>1
<1>7. CASE call[d].step # "locking"
  <2>1. PICK r \in Request : d = Outer(r) /\ call[Inner(r)] # NoCall /\ call[d].step = "held"
    BY <1>5, <1>7 DEF Waiting
  <2>2. Inner(r) \in Call /\ Waiting(Inner(r)) /\ \A q \in Request : Inner(r) # Outer(q)
    BY <2>1, CallsAre
  <2>3. call[Inner(r)].step = "locking" /\ Keys(Inner(r)) = {Quota} /\ Quota \notin Keys(d)
    BY <2>1, <2>2 DEF Waiting, LockerInv, NestedInv
  <2>4. Wanted(Inner(r)) = Quota
    BY <2>2, <2>3, WantedIs
  <2>5. k \in Keys(d) /\ k # Quota
    BY <1>4, <2>3 DEF LockerInv, CallsInv, CallInv
  <2>6. k < Quota
    <3>1. k <= Quota /\ Quota \in Nat
      BY <1>1 DEF LockerConstants
    <3> HIDE DEF k
    <3> QED BY <1>1, <2>5, <3>1
  <2> QED BY <2>2, <2>3, <2>4, <2>6
<1> QED BY <1>6, <1>7

LEMMA LockerGoesOn ==
  ASSUME LockerConstants, LockerInv
  PROVE  SomeoneGoesOn
<1> SUFFICES ASSUME NEW c \in Call, call[c] # NoCall, \A d \in Call : call[d] # NoCall => Waiting(d)
             PROVE  FALSE
  BY DEF SomeoneGoesOn
<1> DEFINE stuck == {d \in Call : call[d].step = "locking" /\ Waiting(d)}
           T == {Wanted(d) : d \in stuck}
<1>1. stuck # {}
  <2>1. CASE call[c].step = "locking"
    BY <2>1
  <2>2. CASE call[c].step # "locking"
    <3>1. PICK r \in Request : c = Outer(r) /\ call[Inner(r)] # NoCall
      BY <2>2 DEF Waiting
    <3>2. Inner(r) \in Call /\ Waiting(Inner(r)) /\ \A q \in Request : Inner(r) # Outer(q)
      BY <3>1, CallsAre
    <3> QED BY <3>2 DEF Waiting
  <2> QED BY <2>1, <2>2
<1>2. T \in SUBSET (0..Quota) /\ T # {} /\ Quota \in Nat
  BY <1>1, FinitelyMany, WantedIs
<1>3. PICK m \in T : \A j \in T : m >= j
  BY <1>2, GreatestExists
<1>4. PICK d \in stuck : m = Wanted(d)
  OBVIOUS
<1>5. PICK e \in Call : call[e].step = "locking" /\ Waiting(e) /\ Wanted(d) < Wanted(e)
  BY WaitsHigher
<1>6. Wanted(e) \in T
  BY <1>5
<1>7. m >= Wanted(e) /\ m \in Nat /\ Wanted(e) \in Nat
  BY <1>2, <1>3, <1>6
<1> QED BY <1>4, <1>5, <1>7

\* The inductive invariant of the agent's locks: what calls, entries and mutexes know of each
\* other in every state (appliance/agent/main.go, lock() and the function it returns).
THEOREM LockerInvariant ==
  ASSUME LockerConstants
  PROVE  LockerSpec => []LockerInv
<1>1. LockerInit => LockerInv
  BY LockerInitial
<1>2. LockerInv /\ [LockerNext]_lockerVars => LockerInv'
  BY LockerStep
<1> QED BY <1>1, <1>2, PTL DEF LockerSpec

\* For any number of requests and keys: no two calls hold a key, an entry is there exactly as
\* long as calls refer to its key and counts them, and never everyone waits, because keys are
\* taken in their order and the quotas come last (appliance/agent/main.go, container_quota.go).
THEOREM LocksKept ==
  ASSUME LockerConstants
  PROVE  LockerSpec => [](LockerType /\ EntriesCounted /\ KeysExclusive /\ SomeoneGoesOn)
<1>1. LockerInv => LockerType /\ EntriesCounted /\ KeysExclusive /\ SomeoneGoesOn
  BY LockerTyped, LockerCounts, LockerExcludes, LockerGoesOn
<1> QED BY <1>1, LockerInvariant, PTL

LEMMA HolderIs ==
  ASSUME LockerConstants, LockerInv, NEW k \in Key
  PROVE  /\ Holder(k) \in Call \cup {Nobody}
         /\ \A c \in Call : Holder(k) = c <=> k \in call[c].locked
<1>1. KeysExclusive
  BY LockerExcludes
<1>2. CASE \E c \in Call : k \in call[c].locked
  <2>1. Holder(k) \in Call /\ k \in call[Holder(k)].locked
    BY <1>2 DEF Holder
  <2> QED BY <1>1, <2>1 DEF KeysExclusive
<1>3. CASE ~\E c \in Call : k \in call[c].locked
  BY <1>3, CallsAre DEF Holder
<1> QED BY <1>2, <1>3

\* Who has a key is who has locked it.
HoldersRight ==
    \A k \in Key : /\ Holder(k) \in Call \cup {Nobody}
                   /\ \A c \in Call : Holder(k) = c <=> k \in call[c].locked

LEMMA HoldersNext ==
  ASSUME LockerConstants
  PROVE  /\ LockerInv => HoldersRight
         /\ (LockerInv => HoldersRight)'
<1>1. LockerInv => HoldersRight
  BY HolderIs DEF HoldersRight
<1> QED BY <1>1, PTL

LEMMA SameHolds ==
  ASSUME HoldersRight, HoldersRight', NEW k \in Key,
         \A c \in Call : k \in call'[c].locked <=> k \in call[c].locked
  PROVE  Hold'[k] = Hold[k]
<1>1. Holder(k)' = Holder(k)
  BY DEF HoldersRight
<1> QED BY <1>1 DEF Hold

LEMMA PromisedStep ==
  ASSUME LockerConstants, LockerInv, LockerInv', [LockerNext]_lockerVars
  PROVE  StepAsPromised
<1>1. HoldersRight /\ HoldersRight'
  BY HoldersNext
<1>2. /\ DOMAIN Hold = Key /\ DOMAIN Hold' = Key /\ Hold = [k \in Key |-> Hold[k]]
      /\ Hold' = [k \in Key |-> Hold'[k]]
  BY DEF Hold
<1>3. \A k \in Key : Hold[k] = Holder(k) /\ Hold'[k] = Holder(k)'
  BY DEF Hold
<1>4. CASE \A d \in Call : call'[d].locked = call[d].locked
  <2>1. \A k \in Key : Hold'[k] = Hold[k]
    BY <1>1, <1>4, SameHolds
  <2>2. Hold' = Hold
    BY <1>2, <2>1
  <2> QED BY <2>2 DEF StepAsPromised
<1>5. ASSUME NEW c \in Call, Lock(c) PROVE StepAsPromised
  <2>1. PICK k \in Keys(c) \ call[c].locked :
           /\ k = Least(Keys(c) \ call[c].locked)
           /\ \A j \in Keys(c) \ call[c].locked : k <= j
           /\ call[c].step = "locking" /\ registry[k] \in Entry /\ mutex[registry[k]] = Nobody
           /\ mutex' = [mutex EXCEPT ![registry[k]] = c] /\ UNCHANGED <<registry, refs>>
           /\ call' \in [Call -> CallRecord] /\ \A d \in Call \ {c} : call'[d] = call[d]
           /\ call'[c].entry = call[c].entry /\ call'[c].nests = call[c].nests
           /\ call'[c].locked = call[c].locked \cup {k}
           /\ call'[c].step = IF Keys(c) = call[c].locked \cup {k} THEN "held" ELSE "locking"
    BY <1>5, LockEffect
  <2>2. k \in Key /\ registry[k] # NoEntry
    BY EntryBehindKey DEF LockerInv
  <2>3. \A d \in Call : k \notin call[d].locked
    <3>1. mutex[registry[k]] \notin Call
      BY <2>1, CallsAre
    <3>2. \A d \in Call : mutex[registry[k]] = d <=> k \in call[d].locked
      BY <2>2 DEF LockerInv, OwnersInv
    <3> QED BY <3>1, <3>2
  <2>4. Hold[k] = Nobody /\ Hold'[k] = c
    <3>1. k \in call'[c].locked
      BY <2>1
    <3>2. Holder(k) = Nobody /\ Holder(k)' = c
      BY <1>1, <2>2, <2>3, <3>1 DEF HoldersRight
    <3> QED BY <1>3, <2>2, <3>2
  <2>5. \A j \in Key \ {k} : Hold'[j] = Hold[j]
    <3>1. \A j \in Key \ {k}, d \in Call : j \in call'[d].locked <=> j \in call[d].locked
      BY <2>1
    <3> QED BY <1>1, <3>1, SameHolds
  <2>6. Hold' = [Hold EXCEPT ![k] = c]
    BY <1>2, <2>2, <2>4, <2>5
  <2>7. Promised!Take(c, k)
    BY <2>4, <2>6 DEF Promised!Take
  <2> QED BY <2>2, <2>7 DEF StepAsPromised, Promised!KeysNext
<1>6. ASSUME NEW c \in Call, Unlock(c) PROVE StepAsPromised
  <2> DEFINE k == Last(call[c].locked)
  <2>1. /\ call[c].locked # {} /\ call[c].locked \subseteq Keys(c) /\ Keys(c) \subseteq Key
        /\ call' = [call EXCEPT ![c].locked = @ \ {k}] /\ call[c] \in CallRecord
        /\ call \in [Call -> CallRecord]
    BY <1>6, CallShape DEF Unlock, LockerInv, CallsInv, CallInv, LockerShape, CallRecord
  <2>2. k \in call[c].locked /\ k \in Key
    BY <2>1, LastIs
  <2> HIDE DEF k
  <2>3. call'[c].locked = call[c].locked \ {k} /\ \A d \in Call \ {c} : call'[d] = call[d]
    BY <2>1 DEF CallRecord
  <2>4. Hold[k] = c
    BY <1>1, <1>3, <2>2 DEF HoldersRight
  <2>5. Hold'[k] = Nobody
    <3>1. \A d \in Call : k \notin call'[d].locked
      BY <1>1, <1>3, <2>2, <2>3, <2>4 DEF HoldersRight
    <3> QED BY <1>1, <1>3, <2>2, <3>1 DEF HoldersRight
  <2>6. \A j \in Key \ {k} : Hold'[j] = Hold[j]
    <3>1. \A j \in Key \ {k}, d \in Call : j \in call'[d].locked <=> j \in call[d].locked
      BY <2>3
    <3> QED BY <1>1, <3>1, SameHolds
  <2>7. Hold' = [Hold EXCEPT ![k] = Nobody]
    BY <1>2, <2>2, <2>5, <2>6
  <2>8. Promised!Give(c, k)
    BY <2>4, <2>7 DEF Promised!Give
  <2> QED BY <2>2, <2>8 DEF StepAsPromised, Promised!KeysNext
<1>7. ASSUME NEW r \in Request, NEW w \in Work, Begin(r, w) PROVE StepAsPromised
  <2>1. Outer(r) \in Call /\ call[Outer(r)] = NoCall /\ call \in [Call -> CallRecord]
    BY <1>7, CallsAre DEF Begin, Register, LockerInv, LockerShape, CallRecord
  <2>2. call'[Outer(r)].locked = {} /\ \A d \in Call \ {Outer(r)} : call'[d] = call[d]
    BY <1>7, <2>1 DEF Begin, Register
  <2>3. \A d \in Call : call'[d].locked = call[d].locked
    <3>1. call[Outer(r)].locked = {}
      BY <2>1 DEF NoCall
    <3> QED BY <2>2, <3>1
  <2> QED BY <1>4, <2>3
<1>8. ASSUME NEW r \in Request, Nest(r) PROVE StepAsPromised
  <2>1. /\ Inner(r) \in Call /\ call[Inner(r)] = NoCall /\ call \in [Call -> CallRecord]
        /\ Outer(r) \in Call /\ Outer(r) # Inner(r)
    BY <1>8, CallsAre DEF Nest, Register, LockerInv, LockerShape, CallRecord
  <2>2. /\ call'[Inner(r)].locked = {}
        /\ \A d \in Call \ {Inner(r)} : call'[d] = [call EXCEPT ![Outer(r)].nests = FALSE][d]
    BY <1>8, <2>1 DEF Nest, Register
  <2>3. \A d \in Call \ {Inner(r)} : call'[d].locked = call[d].locked
    BY <2>1, <2>2 DEF CallRecord
  <2>4. \A d \in Call : call'[d].locked = call[d].locked
    <3>1. call[Inner(r)].locked = {}
      BY <2>1 DEF NoCall
    <3> QED BY <2>2, <2>3, <3>1
  <2> QED BY <1>4, <2>4
<1>9. ASSUME NEW c \in Call, Return(c) PROVE StepAsPromised
  <2>1. call \in [Call -> CallRecord] /\ call' = [call EXCEPT ![c].step = "unlocking"]
    BY <1>9 DEF Return, LockerInv, LockerShape, CallRecord
  <2>2. \A d \in Call : call'[d].locked = call[d].locked
    BY <2>1 DEF CallRecord
  <2> QED BY <1>4, <2>2
<1>10. ASSUME NEW c \in Call, Release(c) PROVE StepAsPromised
  <2>1. call \in [Call -> CallRecord] /\ call' = [call EXCEPT ![c] = NoCall] /\ call[c].locked = {}
    BY <1>10 DEF Release, LockerInv, LockerShape, CallRecord
  <2>2. \A d \in Call : call'[d].locked = call[d].locked
    BY <2>1 DEF NoCall
  <2> QED BY <1>4, <2>2
<1>11. CASE UNCHANGED lockerVars
  BY <1>4, <1>11 DEF lockerVars
<1> QED BY <1>5, <1>6, <1>7, <1>8, <1>9, <1>10, <1>11 DEF LockerNext

\* The entries that come and go implement one lock for each key, step by step (KeyLocks).
THEOREM LocksImplementKeyLocks ==
  ASSUME LockerConstants
  PROVE  LockerSpec => OneLockPerKey
<1>1. LockerInit => Promised!KeysFree
  <2> SUFFICES ASSUME LockerInit PROVE Promised!KeysFree
    OBVIOUS
  <2>1. \A c \in Call : call[c].locked = {}
    BY DEF LockerInit, NoCall
  <2>2. \A k \in Key : Holder(k) = Nobody
    BY <2>1 DEF Holder
  <2> QED BY <2>2 DEF Promised!KeysFree, Hold
<1>2. LockerInv /\ LockerInv' /\ [LockerNext]_lockerVars => [Promised!KeysNext]_Hold
  BY PromisedStep DEF StepAsPromised
<1> QED BY <1>1, <1>2, LockerInvariant, PTL DEF LockerSpec, OneLockPerKey, Promised!KeysSpec

-------------------------------------------------------------------------------
(* The host terminal (HostTerminal). A reader is behind its buffer, and the      *)
(* buffer behind its shell; the difference is never negative, and nothing        *)
(* follows the end.                                                              *)
BufferShape == [wrote : 0..MaxOutput, end : 0..MaxOutput, kept : 0..BufferLimit, done : BOOLEAN]
ClientShape == [offset : 0..MaxOutput, lost : 0..MaxOutput, told : BOOLEAN, ended : BOOLEAN]

\* What the thread of a shell, its buffer and its reader know of each other.
ReaderInv(s) ==
    /\ buffer[s].kept <= buffer[s].end /\ buffer[s].end <= buffer[s].wrote
    /\ client[s].lost <= client[s].offset /\ client[s].offset <= buffer[s].end
    /\ buffer[s].done => /\ shell[s] \in {"exited", "reaped"} /\ buffer[s].end = buffer[s].wrote
    /\ client[s].ended => buffer[s].done /\ client[s].offset = buffer[s].wrote
    /\ client[s].lost > 0 => client[s].told

\* The place that a create has chosen stays free until it is filled.
OpeningInv == opening # NoOpening => table[opening.tab] = 0

TerminalInv ==
    HostTerminalType /\ (\A s \in Shell : ReaderInv(s)) /\ OpeningInv /\ NoStrayShell

LEMMA TerminalInitial ==
  ASSUME TerminalConstants, TerminalInit
  PROVE  TerminalInv
<1>1. HostTerminalType
  BY DEF TerminalInit, HostTerminalType, TerminalConstants, Shell
<1>2. \A s \in Shell : ReaderInv(s)
  BY DEF TerminalInit, ReaderInv
<1> QED BY <1>1, <1>2 DEF TerminalInit, TerminalInv, OpeningInv, NoStrayShell

\* The shapes of what a shell and its reader have.
LEMMA Shapes ==
  ASSUME TerminalConstants, HostTerminalType, NEW s \in Shell
  PROVE  /\ buffer[s] \in BufferShape /\ client[s] \in ClientShape
         /\ buffer[s].wrote \in Nat /\ buffer[s].end \in Nat /\ buffer[s].kept \in Nat
         /\ buffer[s].wrote <= MaxOutput /\ buffer[s].end <= MaxOutput
         /\ buffer[s].kept <= BufferLimit /\ client[s].offset \in Nat /\ client[s].lost \in Nat
BY DEF TerminalConstants, HostTerminalType, BufferShape, ClientShape

LEMMA CreateKeeps ==
  ASSUME TerminalConstants, TerminalInv,
         NEW t \in Tab, NEW s \in Shell, NEW o \in HostOwner, CreateSession(t, s, o)
  PROVE  TerminalInv'
<1>1. /\ opening = NoOpening /\ table[t] = 0 /\ shell[s] = "none"
      /\ owned' = [owned EXCEPT ![s] = o]
      /\ \/ shell' = [shell EXCEPT ![s] = "running"] /\ opening' = [tab |-> t, shell |-> s]
         \/ shell' = [shell EXCEPT ![s] = "reaped"] /\ UNCHANGED opening
      /\ UNCHANGED <<table, buffer, polling, closing, client>>
  BY DEF CreateSession, Unlocked
<1>2. HostTerminalType'
  BY <1>1 DEF TerminalInv, HostTerminalType
<1>3. \A r \in Shell : ReaderInv(r)'
  BY <1>1 DEF TerminalInv, HostTerminalType, ReaderInv
<1>4. OpeningInv'
  BY <1>1 DEF OpeningInv, NoOpening
<1>5. NoStrayShell'
  <2> SUFFICES ASSUME NEW r \in Shell, shell'[r] = "running"
               PROVE  r \in (Listed \cup closing \cup {opening.shell})'
    BY DEF NoStrayShell
  <2>1. CASE r = s
    <3>1. opening' = [tab |-> t, shell |-> s]
      BY <1>1, <2>1 DEF TerminalInv, HostTerminalType
    <3> QED BY <2>1, <3>1
  <2>2. CASE r # s
    <3>1. shell[r] = "running"
      BY <1>1, <2>2 DEF TerminalInv, HostTerminalType
    <3>2. r \in Listed \cup closing \cup {0}
      BY <1>1, <3>1 DEF TerminalInv, NoStrayShell, NoOpening
    <3>3. r # 0
      BY DEF Shell
    <3> QED BY <1>1, <3>2, <3>3 DEF Listed
  <2> QED BY <2>1, <2>2
<1> QED BY <1>2, <1>3, <1>4, <1>5 DEF TerminalInv

LEMMA InitializedKeeps ==
  ASSUME TerminalConstants, TerminalInv, Initialized
  PROVE  TerminalInv'
<1>1. /\ opening # NoOpening /\ opening' = NoOpening
      /\ table' = [table EXCEPT ![opening.tab] = opening.shell]
      /\ UNCHANGED <<shell, owned, buffer, polling, closing, client>>
  BY DEF Initialized, Unlocked
<1>2. opening.tab \in Tab /\ opening.shell \in Shell /\ table[opening.tab] = 0
  BY <1>1 DEF TerminalInv, HostTerminalType, OpeningInv
<1>3. HostTerminalType'
  BY <1>1, <1>2 DEF TerminalInv, HostTerminalType, Shell
<1>4. \A r \in Shell : ReaderInv(r)'
  BY <1>1 DEF TerminalInv, ReaderInv
<1>5. OpeningInv'
  BY <1>1 DEF OpeningInv
<1>6. Listed \cup {opening.shell} \subseteq Listed'
  <2>1. \A t \in Tab : t # opening.tab => table'[t] = table[t]
    BY <1>1 DEF TerminalInv, HostTerminalType
  <2>2. table'[opening.tab] = opening.shell /\ opening.shell # 0
    BY <1>1, <1>2 DEF TerminalInv, HostTerminalType, Shell
  <2> QED BY <1>2, <2>1, <2>2 DEF Listed
<1>7. NoStrayShell'
  BY <1>1, <1>6 DEF TerminalInv, NoStrayShell
<1> QED BY <1>3, <1>4, <1>5, <1>7 DEF TerminalInv

\* A shell that a step ends, or leaves alone, is no worse to its reader.
LEMMA EndedShells ==
  ASSUME TerminalInv, UNCHANGED <<buffer, client>>,
         \A s \in Shell : shell'[s] = shell[s] \/ shell'[s] = "reaped"
  PROVE  \A s \in Shell : ReaderInv(s)'
BY DEF TerminalInv, ReaderInv

LEMMA NotInitializedKeeps ==
  ASSUME TerminalConstants, TerminalInv, NotInitialized
  PROVE  TerminalInv'
<1>1. /\ opening # NoOpening /\ opening' = NoOpening
      /\ shell' = [shell EXCEPT ![opening.shell] = CloseSession(opening.shell)]
      /\ UNCHANGED <<table, owned, buffer, polling, closing, client>>
  BY DEF NotInitialized, Unlocked
<1>2. opening.shell \in Shell
  BY <1>1 DEF TerminalInv, HostTerminalType
<1>3. \A s \in Shell : /\ shell'[s] = shell[s] \/ shell'[s] = "reaped"
                       /\ s = opening.shell => shell'[s] # "running"
  BY <1>1, <1>2 DEF TerminalInv, HostTerminalType, CloseSession
<1>4. HostTerminalType'
  BY <1>1, <1>2 DEF TerminalInv, HostTerminalType, CloseSession
<1>5. \A s \in Shell : ReaderInv(s)'
  BY <1>1, <1>3, EndedShells
<1>6. OpeningInv'
  BY <1>1 DEF OpeningInv
<1>7. NoStrayShell'
  BY <1>1, <1>3 DEF TerminalInv, NoStrayShell, Listed
<1> QED BY <1>4, <1>5, <1>6, <1>7 DEF TerminalInv

\* All output together is within the bound.
LEMMA WroteBound ==
  ASSUME TerminalConstants, HostTerminalType, NEW s \in Shell, Cardinality(Written) < MaxOutput
  PROVE  buffer[s].wrote < MaxOutput
<1> DEFINE n == buffer[s].wrote
           f == [i \in 1..n |-> <<s, i>>]
           W == {w \in Shell \X (1..MaxOutput) : w[2] <= buffer[w[1]].wrote}
           D == {f[i] : i \in 1..n}
<1>1. n \in Nat /\ n <= MaxOutput /\ MaxOutput \in Nat /\ MaxShells \in Nat
  BY Shapes DEF TerminalConstants
<1>2. IsFiniteSet(W)
  <2>1. IsFiniteSet(Shell) /\ IsFiniteSet(1..MaxOutput)
    BY <1>1, FS_Interval DEF Shell
  <2>2. IsFiniteSet(Shell \X (1..MaxOutput))
    BY <2>1, FS_Product
  <2>3. W \in SUBSET (Shell \X (1..MaxOutput))
    OBVIOUS
  <2> QED BY <2>2, <2>3, FS_Subset
<1>3. D \in SUBSET W
  <2> SUFFICES ASSUME NEW i \in 1..n PROVE <<s, i>> \in W
    OBVIOUS
  <2>1. i \in 1..MaxOutput /\ i <= n
    BY <1>1
  <2> QED BY <2>1
<1>4. IsFiniteSet(1..n) /\ Cardinality(1..n) = n
  <2>1. 1 \in Int /\ n \in Int /\ (IF 1 > n THEN 0 ELSE n - 1 + 1) = n
    BY <1>1
  <2> HIDE DEF n
  <2> QED BY <2>1, FS_Interval
<1>5. f \in Bijection(1..n, D)
  <2>1. f \in [1..n -> D]
    OBVIOUS
  <2>2. \A i, j \in 1..n : f[i] = f[j] => i = j
    OBVIOUS
  <2>3. \A d \in D : \E i \in 1..n : f[i] = d
    OBVIOUS
  <2> HIDE DEF D, f
  <2> QED BY <2>1, <2>2, <2>3 DEF Bijection, Injection, Surjection, IsInjective
<1>6. Cardinality(D) = n
  BY <1>4, <1>5, FS_Bijection DEF ExistsBijection
<1>7. Cardinality(W) < MaxOutput
  BY DEF Written
<1> HIDE DEF D, W, f, n
<1>8. Cardinality(D) <= Cardinality(W) /\ Cardinality(W) \in Nat
  BY <1>2, <1>3, FS_Subset, FS_CardinalityType
<1>9. n < MaxOutput
  BY <1>1, <1>6, <1>7, <1>8
<1> QED BY <1>9 DEF n

LEMMA ShellWritesKeeps ==
  ASSUME TerminalConstants, TerminalInv, NEW s \in Shell, ShellWrites(s)
  PROVE  TerminalInv'
<1>1. /\ shell[s] = "running" /\ Cardinality(Written) < MaxOutput
      /\ buffer' = [buffer EXCEPT ![s].wrote = @ + 1]
      /\ UNCHANGED <<table, opening, shell, owned, polling, closing, client>>
  BY DEF ShellWrites
<1>2. HostTerminalType
  BY DEF TerminalInv
<1>3. buffer[s].wrote < MaxOutput
  BY <1>1, <1>2, WroteBound
<1>4. /\ buffer' \in [Shell -> BufferShape] /\ \A r \in Shell : r # s => buffer'[r] = buffer[r]
      /\ buffer'[s].wrote = buffer[s].wrote + 1 /\ buffer'[s].end = buffer[s].end
      /\ buffer'[s].kept = buffer[s].kept /\ buffer'[s].done = buffer[s].done
  <2>1. [buffer[s] EXCEPT !.wrote = @ + 1] \in BufferShape
    BY <1>2, <1>3, Shapes DEF BufferShape, TerminalConstants
  <2>2. buffer \in [Shell -> BufferShape]
    BY <1>2 DEF HostTerminalType, BufferShape
  <2>3. buffer' = [buffer EXCEPT ![s] = [buffer[s] EXCEPT !.wrote = @ + 1]]
    BY <1>1
  <2>4. buffer[s] \in BufferShape
    BY <2>2
  <2> QED BY <2>1, <2>2, <2>3, <2>4 DEF BufferShape
<1>5. HostTerminalType'
  BY <1>1, <1>4 DEF TerminalInv, HostTerminalType, BufferShape
<1>6. ASSUME NEW r \in Shell PROVE ReaderInv(r)'
  <2>1. CASE r = s
    <3>1. ~buffer[s].done /\ ~client[s].ended
      BY <1>1 DEF TerminalInv, ReaderInv
    <3>2. /\ buffer[s].wrote \in Nat /\ buffer[s].end \in Nat /\ buffer[s].kept \in Nat
      BY <1>2, Shapes
    <3> QED BY <1>1, <1>4, <2>1, <3>1, <3>2 DEF TerminalInv, ReaderInv
  <2>2. CASE r # s
    BY <1>1, <1>4, <2>2 DEF TerminalInv, ReaderInv
  <2> QED BY <2>1, <2>2
<1>7. OpeningInv' /\ NoStrayShell'
  BY <1>1 DEF TerminalInv, OpeningInv, NoStrayShell, Listed
<1> QED BY <1>5, <1>6, <1>7 DEF TerminalInv

LEMMA ShellExitsKeeps ==
  ASSUME TerminalConstants, TerminalInv, NEW s \in Shell, ShellExits(s)
  PROVE  TerminalInv'
<1>1. /\ shell[s] = "running" /\ shell' = [shell EXCEPT ![s] = "exited"]
      /\ UNCHANGED <<table, opening, owned, buffer, polling, closing, client>>
  BY DEF ShellExits
<1>2. HostTerminalType'
  BY <1>1 DEF TerminalInv, HostTerminalType
<1>3. \A r \in Shell : ReaderInv(r)'
  BY <1>1 DEF TerminalInv, HostTerminalType, ReaderInv
<1>4. OpeningInv'
  BY <1>1 DEF TerminalInv, OpeningInv
<1>5. NoStrayShell'
  BY <1>1 DEF TerminalInv, HostTerminalType, NoStrayShell, Listed
<1> QED BY <1>2, <1>3, <1>4, <1>5 DEF TerminalInv

LEMMA PushKeeps ==
  ASSUME TerminalConstants, TerminalInv, NEW s \in Shell, Push(s)
  PROVE  TerminalInv'
<1>1. PICK n \in 1..(buffer[s].wrote - buffer[s].end) :
        buffer' = [buffer EXCEPT ![s].end = @ + n,
                   ![s].kept = IF @ + n > BufferLimit THEN BufferLimit ELSE @ + n]
  BY DEF Push
<1>2. UNCHANGED <<table, opening, shell, owned, polling, closing, client>>
  BY DEF Push
<1>3. HostTerminalType
  BY DEF TerminalInv
<1>4. /\ buffer[s] \in BufferShape /\ buffer[s].wrote \in Nat /\ buffer[s].end \in Nat
      /\ buffer[s].kept \in Nat /\ buffer[s].wrote <= MaxOutput /\ buffer[s].kept <= BufferLimit
      /\ buffer[s].kept <= buffer[s].end /\ n \in Nat /\ n >= 1
      /\ buffer[s].end + n <= buffer[s].wrote /\ BufferLimit \in Nat /\ MaxOutput \in Nat
  BY <1>3, Shapes DEF TerminalInv, ReaderInv, TerminalConstants
<1>5. /\ buffer' \in [Shell -> BufferShape] /\ \A r \in Shell : r # s => buffer'[r] = buffer[r]
      /\ buffer'[s].wrote = buffer[s].wrote /\ buffer'[s].end = buffer[s].end + n
      /\ buffer'[s].kept \in Nat /\ buffer'[s].kept <= buffer[s].kept + n
      /\ buffer'[s].done = buffer[s].done
  <2> DEFINE k == IF buffer[s].kept + n > BufferLimit THEN BufferLimit ELSE buffer[s].kept + n
             b == [buffer[s] EXCEPT !.end = @ + n, !.kept = k]
  <2>1. k \in 0..BufferLimit /\ k <= buffer[s].kept + n
    BY <1>4
  <2>2. buffer[s].end + n \in 0..MaxOutput
    BY <1>4
  <2> HIDE DEF k
  <2>3. b \in BufferShape
    BY <1>4, <2>1, <2>2 DEF BufferShape
  <2>4. buffer \in [Shell -> BufferShape]
    BY <1>3 DEF HostTerminalType, BufferShape
  <2>5. buffer' = [buffer EXCEPT ![s] = b]
    BY <1>1 DEF k
  <2>6. b.wrote = buffer[s].wrote /\ b.end = buffer[s].end + n /\ b.kept = k /\ b.done = buffer[s].done
    BY <1>4 DEF BufferShape
  <2>7. buffer'[s] = b
    BY <2>4, <2>5
  <2> HIDE DEF b
  <2>8. buffer' \in [Shell -> BufferShape] /\ \A r \in Shell : r # s => buffer'[r] = buffer[r]
    BY <2>3, <2>4, <2>5
  <2> QED BY <2>1, <2>6, <2>7, <2>8
<1>6. HostTerminalType'
  BY <1>2, <1>5 DEF TerminalInv, HostTerminalType, BufferShape
<1>7. ASSUME NEW r \in Shell PROVE ReaderInv(r)'
  <2>1. CASE r = s
    <3>1. client[s].offset \in Nat /\ client[s].lost \in Nat
      BY <1>3, Shapes
    <3>2. ~buffer[s].done
      BY <1>4 DEF TerminalInv, ReaderInv
    <3>3. ReaderInv(s)
      BY DEF TerminalInv
    <3> QED BY <1>2, <1>4, <1>5, <2>1, <3>1, <3>2, <3>3 DEF ReaderInv
  <2>2. CASE r # s
    BY <1>2, <1>5, <2>2 DEF TerminalInv, ReaderInv
  <2> QED BY <2>1, <2>2
<1>8. OpeningInv' /\ NoStrayShell'
  BY <1>2 DEF TerminalInv, OpeningInv, NoStrayShell, Listed
<1> QED BY <1>6, <1>7, <1>8 DEF TerminalInv

LEMMA DrainedKeeps ==
  ASSUME TerminalConstants, TerminalInv, NEW s \in Shell, Drained(s)
  PROVE  TerminalInv'
<1>1. /\ shell[s] \in {"exited", "reaped"} /\ buffer[s].end = buffer[s].wrote
      /\ buffer' = [buffer EXCEPT ![s].done = TRUE]
      /\ UNCHANGED <<table, opening, shell, owned, polling, closing, client>>
  BY DEF Drained
<1>2. /\ buffer' \in [Shell -> BufferShape] /\ \A r \in Shell : r # s => buffer'[r] = buffer[r]
      /\ buffer'[s].wrote = buffer[s].wrote /\ buffer'[s].end = buffer[s].end
      /\ buffer'[s].kept = buffer[s].kept /\ buffer'[s].done
  <2>1. buffer \in [Shell -> BufferShape]
    BY DEF TerminalInv, HostTerminalType, BufferShape
  <2>2. buffer[s] \in BufferShape
    BY <2>1
  <2>3. [buffer[s] EXCEPT !.done = TRUE] \in BufferShape
    BY <2>2 DEF BufferShape
  <2>4. buffer' = [buffer EXCEPT ![s] = [buffer[s] EXCEPT !.done = TRUE]]
    BY <1>1
  <2> QED BY <2>1, <2>2, <2>3, <2>4 DEF BufferShape
<1>3. HostTerminalType'
  BY <1>1, <1>2 DEF TerminalInv, HostTerminalType, BufferShape
<1>4. ASSUME NEW r \in Shell PROVE ReaderInv(r)'
  <2>1. CASE r = s
    BY <1>1, <1>2, <2>1 DEF TerminalInv, ReaderInv
  <2>2. CASE r # s
    BY <1>1, <1>2, <2>2 DEF TerminalInv, ReaderInv
  <2> QED BY <2>1, <2>2
<1>5. OpeningInv' /\ NoStrayShell'
  BY <1>1 DEF TerminalInv, OpeningInv, NoStrayShell, Listed
<1> QED BY <1>3, <1>4, <1>5 DEF TerminalInv

LEMMA BeginReadKeeps ==
  ASSUME TerminalConstants, TerminalInv, NEW t \in Tab, BeginRead(t)
  PROVE  TerminalInv'
<1>1. /\ table[t] # 0 /\ polling' = polling \cup {table[t]}
      /\ UNCHANGED <<table, opening, shell, owned, buffer, closing, client>>
  BY DEF BeginRead
<1>2. HostTerminalType'
  <2>1. table[t] \in Shell
    BY <1>1 DEF TerminalInv, HostTerminalType, Shell, TerminalConstants
  <2> QED BY <1>1, <2>1 DEF TerminalInv, HostTerminalType
<1>3. \A r \in Shell : ReaderInv(r)'
  BY <1>1 DEF TerminalInv, ReaderInv
<1>4. OpeningInv' /\ NoStrayShell'
  BY <1>1 DEF TerminalInv, OpeningInv, NoStrayShell, Listed
<1> QED BY <1>2, <1>3, <1>4 DEF TerminalInv

\* An answer starts where the last one ended or at the oldest unit kept, and goes forward.
LEMMA AnswerIs ==
  ASSUME TerminalConstants, HostTerminalType, NEW s \in Shell, ReaderInv(s)
  PROVE  /\ From(s) \in Nat /\ client[s].offset <= From(s) /\ From(s) <= Following(s)
         /\ Following(s) \in Nat /\ Following(s) <= buffer[s].end
         /\ ~Truncated(s) => From(s) = client[s].offset
<1>1. /\ buffer[s].end \in Nat /\ buffer[s].kept \in Nat /\ client[s].offset \in Nat
      /\ buffer[s].kept <= buffer[s].end /\ client[s].offset <= buffer[s].end /\ ChunkLimit \in Nat
  BY Shapes DEF ReaderInv, TerminalConstants
<1>2. Base(s) \in Nat /\ Base(s) <= buffer[s].end
  BY <1>1 DEF Base
<1>3. /\ From(s) \in Nat /\ client[s].offset <= From(s) /\ From(s) <= buffer[s].end
      /\ ~Truncated(s) => From(s) = client[s].offset
  BY <1>1, <1>2 DEF From, Truncated
<1> QED BY <1>1, <1>3 DEF Following

LEMMA EndReadKeeps ==
  ASSUME TerminalConstants, TerminalInv, NEW s \in Shell, EndRead(s)
  PROVE  TerminalInv'
<1> DEFINE c == [offset |-> Following(s), lost |-> client[s].lost + (From(s) - client[s].offset),
                 told |-> client[s].told \/ Truncated(s), ended |-> Finished(s)]
<1>1. /\ s \in polling /\ polling' = polling \ {s}
      /\ shell' = [shell EXCEPT ![s] = IF @ = "exited" THEN "reaped" ELSE @]
      /\ client' = [client EXCEPT ![s] = c]
      /\ UNCHANGED <<table, opening, owned, buffer, closing>>
  BY DEF EndRead
<1>2. HostTerminalType /\ ReaderInv(s)
  BY DEF TerminalInv
<1>3. /\ From(s) \in Nat /\ client[s].offset <= From(s) /\ From(s) <= Following(s)
      /\ Following(s) \in Nat /\ Following(s) <= buffer[s].end
      /\ ~Truncated(s) => From(s) = client[s].offset
  BY <1>2, AnswerIs
<1>4. /\ client[s] \in ClientShape /\ client[s].offset \in Nat /\ client[s].lost \in Nat
      /\ buffer[s].end \in Nat /\ buffer[s].end <= MaxOutput /\ MaxOutput \in Nat
      /\ client[s].lost <= client[s].offset
  BY <1>2, Shapes DEF TerminalConstants, ReaderInv
<1>5. /\ c.lost \in Nat /\ c.lost <= c.offset /\ c.offset \in Nat /\ c.offset <= MaxOutput
      /\ ~Truncated(s) => c.lost = client[s].lost
  BY <1>3, <1>4
<1>6. c.told \in BOOLEAN /\ c.ended \in BOOLEAN
  <2>1. client[s].told \in BOOLEAN /\ buffer[s].done \in BOOLEAN
    BY <1>2 DEF HostTerminalType
  <2> QED BY <2>1 DEF Truncated, Finished
<1>7. c \in ClientShape
  <2>1. c.offset \in 0..MaxOutput /\ c.lost \in 0..MaxOutput
    BY <1>4, <1>5
  <2>2. c = [offset |-> c.offset, lost |-> c.lost, told |-> c.told, ended |-> c.ended]
    OBVIOUS
  <2> HIDE DEF c
  <2> QED BY <1>6, <2>1, <2>2 DEF ClientShape
<1>8. c.offset = Following(s) /\ c.ended = Finished(s) /\ c.told = (client[s].told \/ Truncated(s))
  OBVIOUS
<1> HIDE DEF c
<1>9. /\ client' \in [Shell -> ClientShape] /\ client'[s] = c
      /\ \A r \in Shell : r # s => client'[r] = client[r]
  <2>1. client \in [Shell -> ClientShape]
    BY <1>2 DEF HostTerminalType, ClientShape
  <2> QED BY <1>1, <1>7, <2>1
<1>10. HostTerminalType'
  <2>1. shell' \in [Shell -> {"none", "running", "exited", "reaped"}]
    BY <1>1, <1>2 DEF HostTerminalType
  <2> QED BY <1>1, <1>2, <1>9, <2>1 DEF HostTerminalType, ClientShape
<1>11. \A r \in Shell : shell'[r] = shell[r] \/ (shell'[r] = "reaped" /\ shell[r] = "exited")
  BY <1>1, <1>2 DEF HostTerminalType
<1>12. ASSUME NEW r \in Shell PROVE ReaderInv(r)'
  <2>1. CASE r = s
    <3>1. c.lost > 0 => c.told
      <4>1. client[s].lost > 0 => client[s].told
        BY <1>2 DEF ReaderInv
      <4> QED BY <1>5, <1>8, <4>1
    <3>2. c.ended => buffer[s].done /\ c.offset = buffer[s].wrote
      BY <1>2, <1>8 DEF Finished, ReaderInv
    <3>3. c.offset <= buffer[s].end
      BY <1>3, <1>8
    <3> QED BY <1>1, <1>2, <1>5, <1>9, <1>11, <2>1, <3>1, <3>2, <3>3 DEF ReaderInv
  <2>2. CASE r # s
    <3>1. ReaderInv(r)
      BY DEF TerminalInv
    <3> QED BY <1>1, <1>9, <1>11, <2>2, <3>1 DEF ReaderInv
  <2> QED BY <2>1, <2>2
<1>13. OpeningInv' /\ NoStrayShell'
  BY <1>1, <1>11 DEF TerminalInv, OpeningInv, NoStrayShell, Listed
<1> QED BY <1>10, <1>12, <1>13 DEF TerminalInv

LEMMA TakeOutKeeps ==
  ASSUME TerminalConstants, TerminalInv, NEW tabs \in SUBSET Tab, TakeOut(tabs)
  PROVE  TerminalInv'
<1>1. /\ opening = NoOpening /\ closing' = closing \cup ({table[t] : t \in tabs} \ {0})
      /\ table' = [t \in Tab |-> IF t \in tabs THEN 0 ELSE table[t]]
      /\ UNCHANGED <<opening, shell, owned, buffer, polling, client>>
  BY DEF TakeOut, Unlocked
<1>2. HostTerminalType'
  <2>1. {table[t] : t \in tabs} \ {0} \subseteq Shell
    BY DEF TerminalInv, HostTerminalType, Shell, TerminalConstants
  <2>2. table' \in [Tab -> 0..MaxShells]
    BY <1>1 DEF TerminalInv, HostTerminalType, TerminalConstants
  <2> QED BY <1>1, <2>1, <2>2 DEF TerminalInv, HostTerminalType
<1>3. \A r \in Shell : ReaderInv(r)'
  BY <1>1 DEF TerminalInv, ReaderInv
<1>4. OpeningInv'
  BY <1>1 DEF OpeningInv
<1>5. Listed \subseteq Listed' \cup closing'
  BY <1>1 DEF Listed
<1>6. NoStrayShell'
  BY <1>1, <1>5 DEF TerminalInv, NoStrayShell
<1> QED BY <1>2, <1>3, <1>4, <1>6 DEF TerminalInv

LEMMA CloseTakenKeeps ==
  ASSUME TerminalConstants, TerminalInv, NEW s \in Shell, CloseTaken(s)
  PROVE  TerminalInv'
<1>1. /\ closing' = closing \ {s} /\ shell' = [shell EXCEPT ![s] = CloseSession(s)]
      /\ UNCHANGED <<table, opening, owned, buffer, polling, client>>
  BY DEF CloseTaken
<1>2. \A r \in Shell : /\ shell'[r] = shell[r] \/ shell'[r] = "reaped"
                       /\ r = s => shell'[r] # "running"
  BY <1>1 DEF TerminalInv, HostTerminalType, CloseSession
<1>3. HostTerminalType'
  BY <1>1 DEF TerminalInv, HostTerminalType, CloseSession
<1>4. \A r \in Shell : ReaderInv(r)'
  BY <1>1, <1>2, EndedShells
<1>5. OpeningInv' /\ NoStrayShell'
  BY <1>1, <1>2 DEF TerminalInv, OpeningInv, NoStrayShell, Listed
<1> QED BY <1>3, <1>4, <1>5 DEF TerminalInv

LEMMA ShutdownKeeps ==
  ASSUME TerminalConstants, TerminalInv, ShutdownTerminals
  PROVE  TerminalInv'
<1>1. /\ opening = NoOpening /\ table' = [t \in Tab |-> 0]
      /\ shell' = [s \in Shell |-> IF s \in Listed THEN CloseSession(s) ELSE shell[s]]
      /\ UNCHANGED <<opening, owned, buffer, polling, closing, client>>
  BY DEF ShutdownTerminals, Unlocked
<1>2. \A r \in Shell : /\ shell'[r] = shell[r] \/ shell'[r] = "reaped"
                       /\ r \in Listed => shell'[r] # "running"
  BY <1>1 DEF CloseSession
<1>3. HostTerminalType'
  BY <1>1 DEF TerminalInv, HostTerminalType, CloseSession, TerminalConstants
<1>4. \A r \in Shell : ReaderInv(r)'
  BY <1>1, <1>2, EndedShells
<1>5. OpeningInv' /\ NoStrayShell'
  BY <1>1, <1>2 DEF TerminalInv, OpeningInv, NoStrayShell
<1> QED BY <1>3, <1>4, <1>5 DEF TerminalInv

LEMMA TerminalStep ==
  ASSUME TerminalConstants, TerminalInv, [TerminalNext]_terminalVars
  PROVE  TerminalInv'
<1>1. CASE UNCHANGED terminalVars
  BY <1>1 DEF TerminalInv, HostTerminalType, ReaderInv, OpeningInv, NoStrayShell, Listed, terminalVars
<1>2. ASSUME NEW t \in Tab, CloseTab(t) PROVE TerminalInv'
  BY <1>2, TakeOutKeeps DEF CloseTab
<1>3. ASSUME NEW o \in HostOwner, CloseOwner(o) PROVE TerminalInv'
  BY <1>3, TakeOutKeeps DEF CloseOwner, OwnedBy
<1> QED
  BY <1>1, <1>2, <1>3, CreateKeeps, InitializedKeeps, NotInitializedKeeps, ShutdownKeeps,
     ShellWritesKeeps, ShellExitsKeeps, PushKeeps, DrainedKeeps, EndReadKeeps, CloseTakenKeeps,
     BeginReadKeeps
  DEF TerminalNext

\* For any limits: a hole in what a reader got of a shell's output was told to it, the end is
\* told only after the last output, and a shell that runs has a session or is about to get
\* one (host_terminal.rs).
THEOREM TerminalWhole ==
  ASSUME TerminalConstants
  PROVE  TerminalSpec => [](HostTerminalType /\ HolesTold /\ DoneAfterLast /\ NoStrayShell)
<1>1. TerminalInit => TerminalInv
  BY TerminalInitial
<1>2. TerminalInv /\ [TerminalNext]_terminalVars => TerminalInv'
  BY TerminalStep
<1>3. TerminalInv => HostTerminalType /\ HolesTold /\ DoneAfterLast /\ NoStrayShell
  BY DEF TerminalInv, ReaderInv, HolesTold, DoneAfterLast
<1> QED BY <1>1, <1>2, <1>3, PTL DEF TerminalSpec

-------------------------------------------------------------------------------
(* The bridge (CloudBridge). In each direction what was sent is what has         *)
(* arrived and what is still on its way, and the end is the last of it.          *)
Final == {"eof", "closed"}
Data(s) == Cardinality({i \in 1..Len(s) : s[i] = "data"})
Has(s, S) == \E i \in 1..Len(s) : s[i] \in S

\* From the peer to the connector: nothing is lost before the end is told.
RequestInv ==
    /\ agentGot.units + Data(outbox) + received = peerSent
    /\ \A i, j \in 1..Len(outbox) : i < j /\ outbox[i] \in Final => outbox[j] = "closed"
    /\ \A i, j \in 1..Len(outbox) : i < j => outbox[i] # "closed"
    /\ agentGot.told # "nothing" => \A i \in 1..Len(outbox) : outbox[i] = "closed"
    /\ agentGot.told = "closed" => outbox = <<>>
    /\ agentGot.told = "closed" \/ Has(outbox, {"closed"}) => ~present
    /\ agentGot.told # "nothing" \/ Has(outbox, Final) =>
         /\ slot.eof \/ ~present
         /\ received = 0 \/ (~present /\ ~slot.open)
    /\ slot.eof => received = 0 /\ sock \in {"peerClosed", "both", "aborted"}
    /\ ~present => sock \in {"both", "aborted"}

\* From the connector to the peer: the end comes behind all units, unless the socket is
\* aborted or the request to open the stream was given up.
Sum == peerGot.units + slot.pending + Data(events) = agentSent.units
EndLast ==
    /\ sock = "both" => Sum
    /\ \A i, j \in 1..Len(events) : i < j /\ events[i] \in Final => events[j] # "data"
    /\ slot.closing => ~Has(events, {"data"})
    /\ slot.closing \/ Has(events, Final) => agentSent.ended \/ opened = "failed"
    /\ peerGot.fin => slot.closing /\ slot.pending = 0
    /\ sock \in {"weClosed", "both"} => peerGot.fin
ReplyInv ==
    /\ sock \notin {"aborted", "both"} => Sum
    /\ reported # "gaveUp" => EndLast

\* Who opened the stream, and what of it is known.
OpenInv ==
    /\ opened \in {"asked", "failed"} \/ reported = "gaveUp" => inward
    /\ Has(outbox, {"result"}) => ~inward
    /\ inward /\ sock = "connecting" => opened = "no"
    /\ Has(events, {"closed"}) => opened = "failed" \/ reported = "gaveUp"

BridgeInv == BridgeType /\ RequestInv /\ ReplyInv /\ OpenInv

LEMMA AppendIs ==
  ASSUME NEW s \in Seq(Kind), NEW x \in Kind
  PROVE  /\ Append(s, x) \in Seq(Kind) /\ Len(Append(s, x)) = Len(s) + 1 /\ Len(s) \in Nat
         /\ Append(s, x)[Len(s) + 1] = x
         /\ \A i \in 1..Len(s) : Append(s, x)[i] = s[i]
OBVIOUS

LEMMA TailIs ==
  ASSUME NEW s \in Seq(Kind), s # <<>>
  PROVE  /\ Tail(s) \in Seq(Kind) /\ Len(Tail(s)) = Len(s) - 1 /\ Len(s) \in Nat \ {0}
         /\ \A i \in 1..(Len(s) - 1) : Tail(s)[i] = s[i + 1]
         /\ Head(s) = s[1] /\ s[1] \in Kind
OBVIOUS

LEMMA DataAppend ==
  ASSUME NEW s \in Seq(Kind), NEW x \in Kind
  PROVE  Data(Append(s, x)) = Data(s) + (IF x = "data" THEN 1 ELSE 0) /\ Data(s) \in Nat
<1> DEFINE t == Append(s, x)
           D == {i \in 1..Len(s) : s[i] = "data"}
           E == {i \in 1..Len(t) : t[i] = "data"}
<1>1. /\ Len(t) = Len(s) + 1 /\ t[Len(s) + 1] = x /\ \A i \in 1..Len(s) : t[i] = s[i]
      /\ Len(s) \in Nat
  BY AppendIs
<1> HIDE DEF t
<1>2. IF x = "data" THEN E = D \cup {Len(s) + 1} ELSE E = D
  BY <1>1
<1>3. Len(s) + 1 \notin D
  BY <1>1
<1>4. IsFiniteSet(D)
  <2>1. IsFiniteSet(1..Len(s)) /\ D \in SUBSET (1..Len(s))
    BY <1>1, FS_Interval
  <2> QED BY <2>1, FS_Subset
<1>5. Data(t) = Cardinality(E) /\ Data(s) = Cardinality(D)
  BY DEF Data
<1> HIDE DEF D, E
<1>6. Cardinality(D) \in Nat
  BY <1>4, FS_CardinalityType
<1>7. CASE x = "data"
  <2>1. Cardinality(E) = Cardinality(D) + 1
    BY <1>2, <1>3, <1>4, <1>7, FS_AddElement
  <2> QED BY <1>5, <1>6, <1>7, <2>1 DEF t
<1>8. CASE x # "data"
  BY <1>2, <1>5, <1>6, <1>8 DEF t
<1> QED BY <1>7, <1>8

LEMMA DataTail ==
  ASSUME NEW s \in Seq(Kind), s # <<>>
  PROVE  /\ Data(s) = Data(Tail(s)) + (IF Head(s) = "data" THEN 1 ELSE 0)
         /\ Data(Tail(s)) \in Nat
<1> DEFINE t == Tail(s)
           D == {i \in 1..Len(s) : s[i] = "data"}
           E == {i \in 1..Len(t) : t[i] = "data"}
           f == [i \in E |-> i + 1]
<1>1. /\ Len(t) = Len(s) - 1 /\ Len(s) \in Nat \ {0} /\ Head(s) = s[1]
      /\ \A i \in 1..(Len(s) - 1) : t[i] = s[i + 1]
  BY TailIs
<1> HIDE DEF t
<1>2. IsFiniteSet(E) /\ IsFiniteSet(D)
  <2>1. IsFiniteSet(1..Len(s)) /\ D \in SUBSET (1..Len(s))
    BY <1>1, FS_Interval
  <2>2. IsFiniteSet(1..Len(t)) /\ E \in SUBSET (1..Len(t))
    <3>1. Len(t) \in Int
      BY <1>1
    <3> QED BY <3>1, FS_Interval
  <2> QED BY <2>1, <2>2, FS_Subset
<1>3. f \in Bijection(E, D \ {1})
  <2>1. \A i \in E : i + 1 \in D \ {1}
    BY <1>1
  <2>2. \A i \in D \ {1} : i - 1 \in E /\ (i - 1) + 1 = i
    BY <1>1
  <2>3. f \in [E -> D \ {1}]
    BY <2>1
  <2>4. \A i, j \in E : f[i] = f[j] => i = j
    OBVIOUS
  <2>5. \A i \in D \ {1} : \E j \in E : f[j] = i
    BY <2>2
  <2> HIDE DEF f, D, E
  <2> QED BY <2>3, <2>4, <2>5 DEF Bijection, Injection, Surjection, IsInjective
<1>4. Cardinality(D \ {1}) = Cardinality(E)
  BY <1>2, <1>3, FS_Bijection DEF ExistsBijection
<1>5. 1 \in D <=> Head(s) = "data"
  BY <1>1
<1>6. Data(t) = Cardinality(E) /\ Data(s) = Cardinality(D)
  BY DEF Data
<1> HIDE DEF D, E, f
<1>7. Cardinality(E) \in Nat /\ Cardinality(D) \in Nat
  BY <1>2, FS_CardinalityType
<1>8. Cardinality(D \ {1}) = IF 1 \in D THEN Cardinality(D) - 1 ELSE Cardinality(D)
  BY <1>2, FS_RemoveElement
<1> QED BY <1>4, <1>5, <1>6, <1>7, <1>8 DEF t

LEMMA DataNone ==
  /\ Data(<<>>) = 0
  /\ \A s \in Seq(Kind) : ~Has(s, {"data"}) => Data(s) = 0
  /\ \A s \in Seq(Kind) : Data(s) \in Nat
<1>1. ASSUME NEW s \in Seq(Kind) PROVE Data(s) \in Nat /\ (~Has(s, {"data"}) => Data(s) = 0)
  <2> DEFINE D == {i \in 1..Len(s) : s[i] = "data"}
  <2>1. IsFiniteSet(1..Len(s)) /\ D \in SUBSET (1..Len(s))
    BY FS_Interval
  <2>2. IsFiniteSet(D) /\ Cardinality(D) \in Nat
    BY <2>1, FS_Subset, FS_CardinalityType
  <2>3. ~Has(s, {"data"}) => D = {}
    BY DEF Has
  <2> QED BY <2>2, <2>3, FS_EmptySet DEF Data
<1>2. <<>> \in Seq(Kind) /\ ~Has(<<>>, {"data"})
  BY DEF Has
<1> QED BY <1>1, <1>2

LEMMA HasIs ==
  /\ \A S : ~Has(<<>>, S)
  /\ \A S : \A s \in Seq(Kind), x \in Kind : Has(Append(s, x), S) <=> Has(s, S) \/ x \in S
  /\ \A S : \A s \in Seq(Kind) : s # <<>> => /\ Has(Tail(s), S) => Has(s, S)
                                             /\ Head(s) \in S => Has(s, S)
<1>1. \A S : ~Has(<<>>, S)
  BY DEF Has
<1>2. ASSUME NEW s \in Seq(Kind), NEW x \in Kind, NEW S
      PROVE  Has(Append(s, x), S) <=> Has(s, S) \/ x \in S
  BY AppendIs DEF Has
<1>3. ASSUME NEW s \in Seq(Kind), NEW S, s # <<>>
      PROVE  (Has(Tail(s), S) => Has(s, S)) /\ (Head(s) \in S => Has(s, S))
  <2>1. ASSUME NEW i \in 1..Len(Tail(s)) PROVE Tail(s)[i] = s[i + 1] /\ i + 1 \in 1..Len(s)
    BY <1>3, TailIs
  <2>2. 1 \in 1..Len(s) /\ Head(s) = s[1]
    BY <1>3, TailIs
  <2> QED BY <2>1, <2>2 DEF Has
<1> QED BY <1>1, <1>2, <1>3

LEMMA BridgeInitial ==
  ASSUME BridgeConstants, BridgeInit
  PROVE  BridgeInv
<1>1. Data(outbox) = 0 /\ Data(events) = 0 /\ \A S : ~Has(outbox, S) /\ ~Has(events, S)
  BY DataNone, HasIs DEF BridgeInit
<1>2. BridgeType
  <2>0. inward \in BOOLEAN /\ present \in BOOLEAN /\ reported \in {"no", "yes", "gaveUp"}
    BY Zenon DEF BridgeInit
  <2>1. received \in Units /\ peerSent \in Units
    BY DEF BridgeConstants, BridgeInit, Units
  <2>2. slot \in [open : BOOLEAN, opening : BOOLEAN, closing : BOOLEAN, eof : BOOLEAN,
                  pending : 0..PendingLimit]
    BY DEF BridgeConstants, BridgeInit
  <2>3. events \in Seq(Kind) /\ outbox \in Seq(Kind) /\ Len(outbox) <= ChannelSize
    BY DEF BridgeConstants, BridgeInit
  <2>4. /\ agentSent \in [units : Units, ended : BOOLEAN] /\ peerGot \in [units : Units, fin : BOOLEAN]
        /\ agentGot \in [units : Units, told : {"nothing", "eof", "closed"}]
    BY DEF BridgeConstants, BridgeInit, Units
  <2>5. sock \in {"connecting", "both", "aborted"} \cup Established /\ opened \in {"no", "asked", "yes", "failed"}
    BY DEF BridgeInit
  <2> QED BY <2>0, <2>1, <2>2, <2>3, <2>4, <2>5 DEF BridgeType
<1>3. RequestInv
  BY <1>1 DEF BridgeInit, RequestInv
<1>4. ReplyInv
  BY <1>1 DEF BridgeInit, ReplyInv, EndLast, Sum
<1>5. OpenInv
  BY <1>1 DEF BridgeInit, OpenInv
<1> QED BY <1>2, <1>3, <1>4, <1>5 DEF BridgeInv

LEMMA EstablishKeeps ==
  ASSUME BridgeConstants, BridgeInv, Establish
  PROVE  BridgeInv'
<1>1. outbox \in Seq(Kind) /\ "result" \in Kind /\ Len(outbox) \in Nat
  BY DEF BridgeInv, BridgeType, Kind
<1>2. outbox' = outbox \/ (outbox' = Append(outbox, "result") /\ Room /\ ~inward)
  BY DEF Establish
<1>3. /\ Data(outbox') = Data(outbox) /\ \A S : "result" \notin S => (Has(outbox', S) <=> Has(outbox, S))
      /\ Has(outbox', {"result"}) => ~inward
  <2>1. CASE outbox' = outbox
    BY <2>1 DEF BridgeInv, OpenInv
  <2>2. CASE outbox' = Append(outbox, "result") /\ ~inward
    <3>1. Data(outbox') = Data(outbox)
      BY <1>1, <2>2, DataAppend, DataNone
    <3> QED BY <1>1, <2>2, <3>1, HasIs
  <2> QED BY <1>2, <2>1, <2>2
<1>4. /\ slot' = [slot EXCEPT !.opening = TRUE] /\ sock = "connecting" /\ sock' = "open" /\ present
      /\ UNCHANGED <<inward, reported, received, peerSent, present, events, agentSent, agentGot, peerGot>>
      /\ opened' = IF inward THEN "asked" ELSE opened
  BY DEF Establish
<1>5. /\ slot' \in [open : BOOLEAN, opening : BOOLEAN, closing : BOOLEAN, eof : BOOLEAN,
                     pending : 0..PendingLimit]
      /\ slot'.open = slot.open /\ slot'.closing = slot.closing /\ slot'.eof = slot.eof
      /\ slot'.pending = slot.pending
  BY <1>4 DEF BridgeInv, BridgeType
<1>6. BridgeType'
  <2>1. outbox' \in Seq(Kind) /\ Len(outbox') <= ChannelSize
    <3>1. CASE outbox' = outbox
      BY <3>1 DEF BridgeInv, BridgeType
    <3>2. CASE outbox' = Append(outbox, "result") /\ Room
      BY <1>1, <3>2, AppendIs DEF Room, BridgeConstants
    <3> QED BY <1>2, <3>1, <3>2
  <2> QED BY <1>4, <1>5, <2>1 DEF BridgeInv, BridgeType, Established
<1>7. RequestInv'
  <2>1. ~slot.eof /\ ~Has(outbox, Final) /\ agentGot.told = "nothing"
    BY <1>4 DEF BridgeInv, RequestInv
  <2>2. ~Has(outbox', Final) /\ ~Has(outbox', {"closed"})
    BY <1>3, <2>1, HasIs DEF Final, Has
  <2>3. \A i \in 1..Len(outbox') : outbox'[i] \notin Final
    BY <2>2 DEF Has
  <2> QED BY <1>3, <1>4, <1>5, <2>1, <2>2, <2>3 DEF BridgeInv, RequestInv, Final
<1>8. ReplyInv'
  BY <1>4, <1>5 DEF BridgeInv, ReplyInv, EndLast, Sum, OpenInv
<1>9. OpenInv'
  BY <1>3, <1>4 DEF BridgeInv, OpenInv
<1> QED BY <1>6, <1>7, <1>8, <1>9 DEF BridgeInv

SlotShape == [open : BOOLEAN, opening : BOOLEAN, closing : BOOLEAN, eof : BOOLEAN,
              pending : 0..PendingLimit]

LEMMA NoEndYet ==
  ASSUME BridgeInv, present, received > 0 \/ sock \in {"connecting", "open", "weClosed"} \/ ~slot.eof
  PROVE  /\ agentGot.told = "nothing" /\ ~Has(outbox, Final) /\ ~Has(outbox, {"closed"})
         /\ \A i \in 1..Len(outbox) : outbox[i] \notin Final
<1>1. agentGot.told = "nothing" /\ ~Has(outbox, Final)
  BY DEF BridgeInv, RequestInv, BridgeType, Units
<1>2. \A i \in 1..Len(outbox) : outbox[i] \notin Final
  BY <1>1 DEF Has
<1> QED BY <1>1, <1>2 DEF Has, Final

LEMMA PeerSendsKeeps ==
  ASSUME BridgeConstants, BridgeInv, PeerSends
  PROVE  BridgeInv'
<1>1. /\ sock \in {"open", "weClosed"} /\ peerSent < MaxUnits
      /\ peerSent' = peerSent + 1 /\ received' = received + 1
      /\ UNCHANGED <<inward, reported, sock, slot, present, events, outbox, opened, agentSent, agentGot,
                     peerGot>>
  BY DEF PeerSends
<1>2. /\ received \in Nat /\ peerSent \in Nat /\ agentGot.units \in Nat /\ Data(outbox) \in Nat
      /\ agentGot.units + Data(outbox) + received = peerSent
  BY DataNone DEF BridgeInv, BridgeType, RequestInv, Units, BridgeConstants
<1>3. present
  BY <1>1 DEF BridgeInv, RequestInv
<1>4. /\ agentGot.told = "nothing" /\ ~Has(outbox, Final) /\ ~Has(outbox, {"closed"})
      /\ \A i \in 1..Len(outbox) : outbox[i] \notin Final
  BY <1>1, <1>3, NoEndYet
<1>5. BridgeType'
  <2>1. received' \in Units /\ peerSent' \in Units
    BY <1>1, <1>2 DEF Units, BridgeConstants
  <2> QED BY <1>1, <2>1 DEF BridgeInv, BridgeType
<1>6. RequestInv'
  <2>1. agentGot'.units + Data(outbox') + received' = peerSent'
    BY <1>1, <1>2
  <2>2. ~slot.eof
    BY <1>1 DEF BridgeInv, RequestInv
  <2> QED BY <1>1, <1>3, <1>4, <2>1, <2>2 DEF BridgeInv, RequestInv, Final
<1>7. ReplyInv'
  BY <1>1 DEF BridgeInv, ReplyInv, EndLast, Sum
<1>8. OpenInv'
  BY <1>1 DEF BridgeInv, OpenInv
<1> QED BY <1>5, <1>6, <1>7, <1>8 DEF BridgeInv

LEMMA PeerClosesKeeps ==
  ASSUME BridgeConstants, BridgeInv, PeerCloses
  PROVE  BridgeInv'
<1>1. /\ \/ sock = "open" /\ sock' = "peerClosed"
         \/ sock = "weClosed" /\ sock' = "both"
      /\ UNCHANGED <<inward, reported, received, peerSent, slot, present, events, outbox, opened,
                     agentSent, agentGot, peerGot>>
  BY DEF PeerCloses
<1>2. BridgeType'
  BY <1>1 DEF BridgeInv, BridgeType, Established
<1>3. present
  BY <1>1 DEF BridgeInv, RequestInv
<1>4. RequestInv'
  BY <1>1, <1>3 DEF BridgeInv, RequestInv
<1>5. ReplyInv'
  BY <1>1 DEF BridgeInv, ReplyInv, EndLast, Sum
<1>6. OpenInv'
  BY <1>1 DEF BridgeInv, OpenInv
<1> QED BY <1>2, <1>4, <1>5, <1>6 DEF BridgeInv

LEMMA ForwardKeeps ==
  ASSUME BridgeConstants, BridgeInv, ForwardBytes
  PROVE  BridgeInv'
<1>1. /\ present /\ received > 0 /\ slot.open /\ Room
      /\ received' = received - 1 /\ outbox' = Append(outbox, "data")
      /\ UNCHANGED <<inward, reported, sock, peerSent, slot, present, events, opened, agentSent,
                     agentGot, peerGot>>
  BY DEF ForwardBytes
<1>2. outbox \in Seq(Kind) /\ "data" \in Kind /\ received \in Nat /\ received <= MaxUnits
  BY DEF BridgeInv, BridgeType, Kind, Units, BridgeConstants
<1>3. /\ agentGot.told = "nothing" /\ ~Has(outbox, Final) /\ ~Has(outbox, {"closed"})
      /\ \A i \in 1..Len(outbox) : outbox[i] \notin Final
  BY <1>1, NoEndYet
<1>4. /\ Data(outbox') = Data(outbox) + 1 /\ Data(outbox) \in Nat
      /\ \A S : "data" \notin S => (Has(outbox', S) <=> Has(outbox, S))
  BY <1>1, <1>2, DataAppend, HasIs
<1>5. ~Has(outbox', Final) /\ ~Has(outbox', {"closed"}) /\ (Has(outbox', {"result"}) <=> Has(outbox, {"result"}))
  <2>1. "data" \notin Final /\ "data" \notin {"closed"} /\ "data" \notin {"result"}
    BY DEF Final
  <2> QED BY <1>3, <1>4, <2>1
<1>6. \A i \in 1..Len(outbox') : outbox'[i] \notin Final
  BY <1>5 DEF Has
<1>7. BridgeType'
  <2>1. outbox' \in Seq(Kind) /\ Len(outbox') <= ChannelSize
    BY <1>1, <1>2, AppendIs DEF Room, BridgeConstants
  <2>2. received' \in Units
    BY <1>1, <1>2 DEF Units, BridgeConstants
  <2> QED BY <1>1, <2>1, <2>2 DEF BridgeInv, BridgeType
<1>8. RequestInv'
  <2>1. agentGot'.units + Data(outbox') + received' = peerSent'
    BY <1>1, <1>2, <1>4, SMTT(30) DEF BridgeInv, BridgeType, RequestInv, Units, BridgeConstants
  <2>2. ~slot.eof
    BY <1>1 DEF BridgeInv, RequestInv
  <2> QED BY <1>1, <1>3, <1>5, <1>6, <2>1, <2>2 DEF BridgeInv, RequestInv, Final
<1>9. ReplyInv'
  BY <1>1 DEF BridgeInv, ReplyInv, EndLast, Sum
<1>10. OpenInv'
  BY <1>1, <1>5 DEF BridgeInv, OpenInv
<1> QED BY <1>7, <1>8, <1>9, <1>10 DEF BridgeInv

LEMMA ForwardEofKeeps ==
  ASSUME BridgeConstants, BridgeInv, ForwardEof
  PROVE  BridgeInv'
<1>1. /\ present /\ sock = "peerClosed" /\ received = 0 /\ slot.open /\ ~slot.eof /\ Room
      /\ slot' = [slot EXCEPT !.eof = TRUE] /\ outbox' = Append(outbox, "eof")
      /\ UNCHANGED <<inward, reported, sock, received, peerSent, present, events, opened, agentSent,
                     agentGot, peerGot>>
  BY DEF ForwardEof
<1>2. outbox \in Seq(Kind) /\ "eof" \in Kind /\ slot \in SlotShape /\ Len(outbox) \in Nat
  BY DEF BridgeInv, BridgeType, Kind, SlotShape
<1>3. /\ slot' \in SlotShape /\ slot'.open = slot.open /\ slot'.closing = slot.closing
      /\ slot'.eof /\ slot'.pending = slot.pending
  BY <1>1, <1>2 DEF SlotShape
<1>4. /\ agentGot.told = "nothing" /\ ~Has(outbox, Final) /\ ~Has(outbox, {"closed"})
      /\ \A i \in 1..Len(outbox) : outbox[i] \notin Final
  BY <1>1, NoEndYet
<1>5. /\ Data(outbox') = Data(outbox) /\ ~Has(outbox', {"closed"})
      /\ (Has(outbox', {"result"}) <=> Has(outbox, {"result"}))
  <2>1. Data(outbox') = Data(outbox)
    BY <1>1, <1>2, DataAppend, DataNone
  <2> QED BY <1>1, <1>2, <1>4, <2>1, HasIs
<1>6. /\ outbox' \in Seq(Kind) /\ Len(outbox') = Len(outbox) + 1
      /\ \A i \in 1..Len(outbox) : outbox'[i] = outbox[i]
  BY <1>1, <1>2, AppendIs
<1>7. BridgeType'
  <2>1. outbox' \in Seq(Kind) /\ Len(outbox') <= ChannelSize
    BY <1>1, <1>2, <1>6 DEF Room, BridgeConstants
  <2> QED BY <1>1, <1>3, <2>1 DEF BridgeInv, BridgeType, SlotShape
<1>8. RequestInv'
  <2>1. \A i, j \in 1..Len(outbox') : i < j => outbox'[i] \notin Final
    BY <1>2, <1>4, <1>6
  <2>2. \A i, j \in 1..Len(outbox') : i < j => outbox'[i] # "closed"
    BY <2>1 DEF Final
  <2> QED BY <1>1, <1>3, <1>4, <1>5, <2>1, <2>2 DEF BridgeInv, RequestInv
<1>9. ReplyInv'
  BY <1>1, <1>3 DEF BridgeInv, ReplyInv, EndLast, Sum
<1>10. OpenInv'
  BY <1>1, <1>5 DEF BridgeInv, OpenInv
<1> QED BY <1>7, <1>8, <1>9, <1>10 DEF BridgeInv

LEMMA DeliverKeeps ==
  ASSUME BridgeConstants, BridgeInv, Deliver
  PROVE  BridgeInv'
<1>1. /\ present /\ sock \in {"open", "peerClosed"} /\ slot.pending > 0
      /\ slot' = [slot EXCEPT !.pending = @ - 1] /\ peerGot' = [peerGot EXCEPT !.units = @ + 1]
      /\ UNCHANGED <<inward, reported, sock, received, peerSent, present, events, outbox, opened,
                     agentSent, agentGot>>
  BY DEF Deliver
<1>2. /\ slot \in SlotShape /\ peerGot \in [units : Units, fin : BOOLEAN]
      /\ agentSent \in [units : Units, ended : BOOLEAN] /\ Data(events) \in Nat
      /\ peerGot.units + slot.pending + Data(events) = agentSent.units
  BY <1>1, DataNone DEF BridgeInv, BridgeType, SlotShape, ReplyInv, Sum
<1>3. /\ slot' \in SlotShape /\ slot'.open = slot.open /\ slot'.closing = slot.closing
      /\ slot'.eof = slot.eof /\ slot'.pending = slot.pending - 1
  BY <1>1, <1>2 DEF SlotShape, BridgeConstants
<1>4. peerGot' \in [units : Units, fin : BOOLEAN] /\ peerGot'.fin = peerGot.fin
      /\ peerGot'.units = peerGot.units + 1
  BY <1>1, <1>2 DEF SlotShape, Units, BridgeConstants
<1>5. BridgeType'
  BY <1>1, <1>3, <1>4 DEF BridgeInv, BridgeType, SlotShape
<1>6. RequestInv'
  BY <1>1, <1>3 DEF BridgeInv, RequestInv
<1>7. ReplyInv'
  <2>1. peerGot'.units + slot'.pending + Data(events') = agentSent'.units
    BY <1>1, <1>2, <1>3, <1>4 DEF SlotShape, Units, BridgeConstants
  <2>2. reported # "gaveUp" => ~peerGot.fin
    BY <1>1 DEF BridgeInv, ReplyInv, EndLast
  <2> QED BY <1>1, <1>3, <1>4, <2>1, <2>2 DEF BridgeInv, ReplyInv, EndLast, Sum
<1>8. OpenInv'
  BY <1>1 DEF BridgeInv, OpenInv
<1> QED BY <1>5, <1>6, <1>7, <1>8 DEF BridgeInv

LEMMA CloseHalfKeeps ==
  ASSUME BridgeConstants, BridgeInv, CloseHalf
  PROVE  BridgeInv'
<1>1. /\ present /\ slot.closing /\ slot.pending = 0 /\ sock \in {"connecting", "open", "peerClosed"}
      /\ peerGot' = [peerGot EXCEPT !.fin = TRUE]
      /\ \/ sock = "open" /\ sock' = "weClosed"
         \/ sock = "peerClosed" /\ sock' = "both"
         \/ sock' = "aborted"
      /\ UNCHANGED <<inward, reported, received, peerSent, slot, present, events, outbox, opened,
                     agentSent, agentGot>>
  BY DEF CloseHalf
<1>2. peerGot' \in [units : Units, fin : BOOLEAN] /\ peerGot'.fin /\ peerGot'.units = peerGot.units
  BY <1>1 DEF BridgeInv, BridgeType
<1>3. BridgeType'
  BY <1>1, <1>2 DEF BridgeInv, BridgeType, Established
<1>4. RequestInv'
  BY <1>1 DEF BridgeInv, RequestInv
<1>5. ReplyInv'
  BY <1>1, <1>2 DEF BridgeInv, ReplyInv, EndLast, Sum
<1>6. OpenInv'
  BY <1>1 DEF BridgeInv, OpenInv
<1> QED BY <1>3, <1>4, <1>5, <1>6 DEF BridgeInv

LEMMA AbortKeeps ==
  ASSUME BridgeConstants, BridgeInv, Abort
  PROVE  BridgeInv'
<1>1. /\ present /\ sock' = "aborted"
      /\ UNCHANGED <<inward, reported, received, peerSent, slot, present, events, outbox, opened,
                     agentSent, agentGot, peerGot>>
  BY DEF Abort
<1>2. BridgeType'
  BY <1>1 DEF BridgeInv, BridgeType
<1>3. RequestInv'
  BY <1>1 DEF BridgeInv, RequestInv
<1>4. ReplyInv'
  BY <1>1 DEF BridgeInv, ReplyInv, EndLast, Sum
<1>5. OpenInv'
  BY <1>1 DEF BridgeInv, OpenInv
<1> QED BY <1>2, <1>3, <1>4, <1>5 DEF BridgeInv

LEMMA RemoveSlotKeeps ==
  ASSUME BridgeConstants, BridgeInv, RemoveSlot
  PROVE  BridgeInv'
<1>1. /\ present /\ sock \in {"both", "aborted"} /\ (received = 0 \/ ~slot.open) /\ present' = FALSE
      /\ outbox' = outbox \/ (outbox' = Append(outbox, "closed") /\ Room)
      /\ UNCHANGED <<inward, reported, sock, received, peerSent, slot, events, opened, agentSent,
                     agentGot, peerGot>>
  BY DEF RemoveSlot
<1>2. outbox \in Seq(Kind) /\ "closed" \in Kind /\ Len(outbox) \in Nat
  BY DEF BridgeInv, BridgeType, Kind
<1>3. agentGot.told # "closed" /\ ~Has(outbox, {"closed"})
  BY <1>1 DEF BridgeInv, RequestInv
<1>4. \A i \in 1..Len(outbox) : outbox[i] # "closed"
  BY <1>3 DEF Has
<1>5. CASE outbox' = outbox
  <2>1. BridgeType'
    BY <1>1, <1>5, ZenonT(60) DEF BridgeInv, BridgeType
  <2>2. RequestInv'
    <3>1. RequestInv /\ present
      BY <1>1 DEF BridgeInv
    <3>2. /\ UNCHANGED <<sock, received, peerSent, slot, outbox, agentGot>> /\ ~present'
          /\ sock \in {"both", "aborted"} /\ (received = 0 \/ ~slot.open)
      BY <1>1, <1>5
    <3>3. Data(outbox)' = Data(outbox) /\ \A S : Has(outbox, S)' = Has(outbox, S)
      BY <3>2
    <3> QED BY <3>1, <3>2, <3>3 DEF RequestInv
  <2>3. ReplyInv'
    BY <1>1 DEF BridgeInv, ReplyInv, EndLast, Sum
  <2>4. OpenInv'
    BY <1>1, <1>5 DEF BridgeInv, OpenInv
  <2> QED BY <2>1, <2>2, <2>3, <2>4 DEF BridgeInv
<1>6. CASE outbox' = Append(outbox, "closed") /\ Room
  <2>1. /\ outbox' \in Seq(Kind) /\ Len(outbox') = Len(outbox) + 1 /\ outbox'[Len(outbox) + 1] = "closed"
        /\ \A i \in 1..Len(outbox) : outbox'[i] = outbox[i]
    BY <1>2, <1>6, AppendIs
  <2>2. Data(outbox') = Data(outbox)
    BY <1>2, <1>6, DataAppend, DataNone
  <2>3. Has(outbox', {"result"}) <=> Has(outbox, {"result"})
    BY <1>2, <1>6, HasIs
  <2>4. BridgeType'
    <3>1. Len(outbox') <= ChannelSize
      BY <1>2, <1>6, <2>1 DEF Room, BridgeConstants
    <3>2. /\ UNCHANGED <<inward, reported, sock, received, peerSent, slot, events, opened, agentSent,
                         agentGot, peerGot>>
          /\ present' \in BOOLEAN /\ BridgeType
      BY <1>1 DEF BridgeInv
    <3> QED BY <2>1, <3>1, <3>2 DEF BridgeType
  <2>5. RequestInv'
    <3>1. \A i, j \in 1..Len(outbox') : i < j => i \in 1..Len(outbox) /\ outbox'[i] = outbox[i]
      BY <1>2, <2>1
    <3>2. \A i, j \in 1..Len(outbox') : i < j => outbox'[i] # "closed"
      BY <1>4, <3>1
    <3>3. \A i, j \in 1..Len(outbox') : i < j /\ outbox'[i] \in Final => outbox'[j] = "closed"
      <4> SUFFICES ASSUME NEW i \in 1..Len(outbox'), NEW j \in 1..Len(outbox'), i < j,
                          outbox'[i] \in Final
                   PROVE  outbox'[j] = "closed"
        OBVIOUS
      <4>1. i \in 1..Len(outbox) /\ outbox[i] \in Final
        BY <3>1
      <4>2. CASE j \in 1..Len(outbox)
        BY <2>1, <4>1, <4>2 DEF BridgeInv, RequestInv
      <4>3. CASE j \notin 1..Len(outbox)
        BY <1>2, <2>1, <4>3
      <4> QED BY <4>2, <4>3
    <3>4. agentGot'.told # "nothing" => \A i \in 1..Len(outbox') : outbox'[i] = "closed"
      <4> SUFFICES ASSUME agentGot.told # "nothing", NEW i \in 1..Len(outbox')
                   PROVE  outbox'[i] = "closed"
        BY <1>1
      <4>1. CASE i \in 1..Len(outbox)
        BY <2>1, <4>1 DEF BridgeInv, RequestInv
      <4>2. CASE i \notin 1..Len(outbox)
        BY <1>2, <2>1, <4>2
      <4> QED BY <4>1, <4>2
    <3> QED BY <1>1, <1>3, <2>2, <3>2, <3>3, <3>4 DEF BridgeInv, RequestInv
  <2>6. ReplyInv'
    BY <1>1 DEF BridgeInv, ReplyInv, EndLast, Sum
  <2>7. OpenInv'
    BY <1>1, <2>3 DEF BridgeInv, OpenInv
  <2> QED BY <2>4, <2>5, <2>6, <2>7 DEF BridgeInv
<1> QED BY <1>1, <1>5, <1>6

LEMMA AgentOpensKeeps ==
  ASSUME BridgeConstants, BridgeInv, AgentOpens
  PROVE  BridgeInv'
<1>1. /\ opened = "asked" /\ opened' \in {"yes", "failed"}
      /\ UNCHANGED <<inward, reported, sock, received, peerSent, slot, present, events, outbox,
                     agentSent, agentGot, peerGot>>
  BY DEF AgentOpens
<1>2. BridgeType'
  BY <1>1 DEF BridgeInv, BridgeType
<1>3. RequestInv'
  BY <1>1 DEF BridgeInv, RequestInv
<1>4. ReplyInv'
  BY <1>1 DEF BridgeInv, ReplyInv, EndLast, Sum
<1>5. OpenInv'
  BY <1>1 DEF BridgeInv, OpenInv
<1> QED BY <1>2, <1>3, <1>4, <1>5 DEF BridgeInv

LEMMA TakeEventKeeps ==
  ASSUME BridgeConstants, BridgeInv, TakeEvent
  PROVE  BridgeInv'
<1> DEFINE e == Head(events)
<1>1. /\ events # <<>> /\ events' = Tail(events)
      /\ UNCHANGED <<inward, reported, received, peerSent, present, outbox, opened, agentSent,
                     agentGot, peerGot>>
      /\ \/ ~present /\ UNCHANGED <<slot, sock>>
         \/ present /\ e = "data" /\ slot.pending # PendingLimit /\ UNCHANGED sock
            /\ slot' = [slot EXCEPT !.pending = @ + 1]
         \/ present /\ e = "data" /\ sock' = "aborted" /\ UNCHANGED slot
         \/ present /\ e = "ready" /\ UNCHANGED sock /\ slot' = [slot EXCEPT !.open = TRUE]
         \/ present /\ e \in Final /\ UNCHANGED sock /\ slot' = [slot EXCEPT !.closing = TRUE]
         \/ present /\ e \notin Final \cup {"data"} /\ UNCHANGED <<slot, sock>>
  BY DEF TakeEvent, Final
<1>2. events \in Seq(Kind) /\ slot \in SlotShape
  BY DEF BridgeInv, BridgeType, SlotShape
<1>3. /\ events' \in Seq(Kind) /\ Len(events') = Len(events) - 1 /\ Len(events) \in Nat \ {0}
      /\ \A i \in 1..(Len(events) - 1) : events'[i] = events[i + 1]
      /\ e = events[1]
  BY <1>1, <1>2, TailIs
<1>4. /\ Data(events) = Data(events') + (IF e = "data" THEN 1 ELSE 0) /\ Data(events') \in Nat
  BY <1>1, <1>2, DataTail
<1>5. \A S : (Has(events', S) => Has(events, S)) /\ (e \in S => Has(events, S))
  BY <1>1, <1>2, HasIs
<1> HIDE DEF e
<1>6. reported # "gaveUp" /\ e = "data" => ~slot.closing /\ ~peerGot.fin /\ sock \notin {"weClosed", "both"}
  <2>1. e = "data" => Has(events, {"data"})
    BY <1>5
  <2> QED BY <2>1 DEF BridgeInv, ReplyInv, EndLast, Sum
<1>7. reported # "gaveUp" /\ e \in Final => ~Has(events', {"data"})
  <2> SUFFICES ASSUME reported # "gaveUp", e \in Final, NEW i \in 1..Len(events') PROVE events'[i] # "data"
    BY DEF Has
  <2>1. 1 \in 1..Len(events) /\ i + 1 \in 1..Len(events) /\ 1 < i + 1 /\ events'[i] = events[i + 1]
    BY <1>3
  <2> QED BY <1>3, <2>1 DEF BridgeInv, ReplyInv, EndLast, Sum
<1>8. reported # "gaveUp" =>
        \A i, j \in 1..Len(events') : i < j /\ events'[i] \in Final => events'[j] # "data"
  <2> SUFFICES ASSUME reported # "gaveUp", NEW i \in 1..Len(events'), NEW j \in 1..Len(events'), i < j,
                      events'[i] \in Final
               PROVE  events'[j] # "data"
    OBVIOUS
  <2>1. /\ i + 1 \in 1..Len(events) /\ j + 1 \in 1..Len(events) /\ i + 1 < j + 1
        /\ events'[i] = events[i + 1] /\ events'[j] = events[j + 1]
    BY <1>3
  <2> QED BY <2>1 DEF BridgeInv, ReplyInv, EndLast, Sum
<1>9. /\ slot' \in SlotShape /\ slot'.eof = slot.eof
      /\ slot'.open => slot.open \/ present
      /\ slot'.closing <=> slot.closing \/ (present /\ e \in Final)
      /\ slot'.pending = slot.pending + (IF present /\ e = "data" /\ sock' = sock THEN 1 ELSE 0)
         \/ sock' = "aborted" \/ ~present
      /\ slot'.pending = slot.pending \/ e = "data"
  <2>1. CASE ~present /\ UNCHANGED <<slot, sock>>
    BY <1>2, <2>1
  <2>2. CASE present /\ e = "data" /\ slot.pending # PendingLimit /\ UNCHANGED sock
             /\ slot' = [slot EXCEPT !.pending = @ + 1]
    <3>1. /\ slot' \in SlotShape /\ slot'.eof = slot.eof /\ slot'.open = slot.open
          /\ slot'.closing = slot.closing /\ slot'.pending = slot.pending + 1
      BY <1>2, <2>2 DEF SlotShape, BridgeConstants
    <3> QED BY <2>2, <3>1 DEF Final
  <2>3. CASE present /\ e = "data" /\ sock' = "aborted" /\ UNCHANGED slot
    BY <1>2, <2>3 DEF Final
  <2>4. CASE present /\ e = "ready" /\ UNCHANGED sock /\ slot' = [slot EXCEPT !.open = TRUE]
    <3>1. /\ slot' \in SlotShape /\ slot'.eof = slot.eof
          /\ slot'.closing = slot.closing /\ slot'.pending = slot.pending
      BY <1>2, <2>4 DEF SlotShape
    <3>2. slot.pending + 0 = slot.pending
      BY <1>2 DEF SlotShape, BridgeConstants
    <3> QED BY <2>4, <3>1, <3>2 DEF Final
  <2>5. CASE present /\ e \in Final /\ UNCHANGED sock /\ slot' = [slot EXCEPT !.closing = TRUE]
    <3>1. /\ slot' \in SlotShape /\ slot'.eof = slot.eof /\ slot'.open = slot.open
          /\ slot'.closing /\ slot'.pending = slot.pending
      BY <1>2, <2>5 DEF SlotShape
    <3>2. slot.pending + 0 = slot.pending
      BY <1>2 DEF SlotShape, BridgeConstants
    <3> QED BY <2>5, <3>1, <3>2 DEF Final
  <2>6. CASE present /\ e \notin Final \cup {"data"} /\ UNCHANGED <<slot, sock>>
    <3>2. slot.pending + 0 = slot.pending
      BY <1>2 DEF SlotShape, BridgeConstants
    <3> QED BY <1>2, <2>6, <3>2
  <2> QED BY <1>1, <2>1, <2>2, <2>3, <2>4, <2>5, <2>6
<1>10. sock' = sock \/ (sock' = "aborted" /\ present)
  BY <1>1
<1>11. BridgeType'
  BY <1>1, <1>3, <1>9, <1>10 DEF BridgeInv, BridgeType, SlotShape
<1>12. RequestInv'
  BY <1>1, <1>9, <1>10 DEF BridgeInv, RequestInv
<1>13. ReplyInv'
  <2>1. sock' # "aborted" /\ (sock' = "both" => reported # "gaveUp") => Sum'
    <3> SUFFICES ASSUME sock' # "aborted", sock' = "both" => reported # "gaveUp"
                 PROVE  peerGot.units + slot'.pending + Data(events') = agentSent.units
      BY <1>1 DEF Sum
    <3>1. /\ peerGot.units + slot.pending + Data(events) = agentSent.units
          /\ sock' = sock /\ peerGot.units \in Nat /\ slot.pending \in Nat
      BY <1>2, <1>10 DEF BridgeInv, BridgeType, ReplyInv, EndLast, Sum, SlotShape, Units, BridgeConstants
    <3>2. CASE present
      BY <1>4, <1>9, <3>1, <3>2
    <3>3. CASE ~present
      <4>1. sock = "both"
        BY <3>1, <3>3 DEF BridgeInv, RequestInv
      <4>2. e # "data" /\ slot' = slot
        BY <1>1, <1>6, <3>1, <3>3, <4>1
      <4> QED BY <1>4, <3>1, <4>2
    <3> QED BY <3>2, <3>3
  <2>2. ASSUME reported # "gaveUp" PROVE EndLast'
    <3>1. sock' = "both" => Sum'
      BY <2>1, <2>2
    <3>2. slot'.closing => ~Has(events', {"data"})
      BY <1>5, <1>7, <1>9, <2>2 DEF BridgeInv, ReplyInv, EndLast
    <3>3. slot'.closing \/ Has(events', Final) => agentSent'.ended \/ opened' = "failed"
      BY <1>1, <1>5, <1>9, <2>2 DEF BridgeInv, ReplyInv, EndLast
    <3>4. peerGot'.fin => slot'.closing /\ slot'.pending = 0
      BY <1>1, <1>6, <1>9, <2>2 DEF BridgeInv, ReplyInv, EndLast
    <3>5. sock' \in {"weClosed", "both"} => peerGot'.fin
      BY <1>1, <1>10, <2>2 DEF BridgeInv, ReplyInv, EndLast
    <3> QED BY <1>8, <2>2, <3>1, <3>2, <3>3, <3>4, <3>5 DEF EndLast
  <2> QED BY <1>1, <2>1, <2>2 DEF ReplyInv
<1>14. OpenInv'
  BY <1>1, <1>5, <1>10 DEF BridgeInv, OpenInv
<1> QED BY <1>11, <1>12, <1>13, <1>14 DEF BridgeInv

LEMMA AnswerArrivesKeeps ==
  ASSUME BridgeConstants, BridgeInv, AnswerArrives
  PROVE  BridgeInv'
<1> DEFINE e == IF opened = "yes" THEN "ready" ELSE "closed"
<1>1. /\ inward /\ opened \in {"yes", "failed"} /\ reported = "no" /\ reported' = "yes"
      /\ events' = Append(events, e)
      /\ UNCHANGED <<inward, sock, received, peerSent, slot, present, outbox, opened, agentSent,
                     agentGot, peerGot>>
  BY DEF AnswerArrives
<1>2. events \in Seq(Kind) /\ e \in Kind /\ Len(events) \in Nat
  BY DEF BridgeInv, BridgeType, Kind
<1>3. /\ e # "data" /\ (e = "closed" <=> opened = "failed")
      /\ e \in Final => opened = "failed"
  BY <1>1 DEF Final
<1> HIDE DEF e
<1>4. /\ events' \in Seq(Kind) /\ Len(events') = Len(events) + 1
      /\ events'[Len(events) + 1] = e
      /\ \A i \in 1..Len(events) : events'[i] = events[i]
  BY <1>1, <1>2, AppendIs
<1>5. Data(events') = Data(events)
  BY <1>1, <1>2, <1>3, DataAppend, DataNone
<1>6. \A S : Has(events', S) <=> Has(events, S) \/ e \in S
  BY <1>1, <1>2, HasIs
<1>7. BridgeType'
  BY <1>1, <1>4 DEF BridgeInv, BridgeType
<1>8. RequestInv'
  BY <1>1 DEF BridgeInv, RequestInv
<1>9. ReplyInv'
  <2>1. \A i, j \in 1..Len(events') : i < j /\ events'[i] \in Final => events'[j] # "data"
    <3> SUFFICES ASSUME NEW i \in 1..Len(events'), NEW j \in 1..Len(events'), i < j,
                        events'[i] \in Final
                 PROVE  events'[j] # "data"
      OBVIOUS
    <3>1. i \in 1..Len(events) /\ events'[i] = events[i]
      BY <1>2, <1>4
    <3>2. j = Len(events) + 1 \/ j \in 1..Len(events)
      BY <1>2, <1>4
    <3> QED BY <1>1, <1>3, <1>4, <3>1, <3>2 DEF BridgeInv, ReplyInv, EndLast, Sum
  <2>2. Has(events', {"data"}) <=> Has(events, {"data"})
    BY <1>3, <1>6
  <2>3. Has(events', Final) => Has(events, Final) \/ opened = "failed"
    BY <1>3, <1>6
  <2> QED BY <1>1, <1>5, <2>1, <2>2, <2>3 DEF BridgeInv, ReplyInv, EndLast, Sum
<1>10. OpenInv'
  <2>1. Has(events', {"closed"}) => Has(events, {"closed"}) \/ opened = "failed"
    BY <1>3, <1>6
  <2> QED BY <1>1, <2>1 DEF BridgeInv, OpenInv
<1> QED BY <1>7, <1>8, <1>9, <1>10 DEF BridgeInv

LEMMA OpenGivenUpKeeps ==
  ASSUME BridgeConstants, BridgeInv, OpenGivenUp
  PROVE  BridgeInv'
<1>1. /\ inward /\ opened # "no" /\ reported' = "gaveUp" /\ events' = Append(events, "closed")
      /\ UNCHANGED <<inward, sock, received, peerSent, slot, present, outbox, opened, agentSent,
                     agentGot, peerGot>>
  BY DEF OpenGivenUp
<1>2. events \in Seq(Kind) /\ "closed" \in Kind
  BY DEF BridgeInv, BridgeType, Kind
<1>3. events' \in Seq(Kind) /\ Data(events') = Data(events)
  BY <1>1, <1>2, AppendIs, DataAppend, DataNone
<1>4. BridgeType'
  BY <1>1, <1>3 DEF BridgeInv, BridgeType
<1>5. RequestInv'
  BY <1>1 DEF BridgeInv, RequestInv
<1>6. ReplyInv'
  BY <1>1, <1>3 DEF BridgeInv, ReplyInv, Sum
<1>7. OpenInv'
  BY <1>1 DEF BridgeInv, OpenInv
<1> QED BY <1>4, <1>5, <1>6, <1>7 DEF BridgeInv

LEMMA AgentSendsKeeps ==
  ASSUME BridgeConstants, BridgeInv, AgentSends
  PROVE  BridgeInv'
<1>1. /\ opened = "yes" /\ ~agentSent.ended /\ agentSent.units < MaxUnits
      /\ events' = Append(events, "data") /\ agentSent' = [agentSent EXCEPT !.units = @ + 1]
      /\ UNCHANGED <<inward, reported, sock, received, peerSent, slot, present, outbox, opened,
                     agentGot, peerGot>>
  BY DEF AgentSends
<1>2. /\ events \in Seq(Kind) /\ "data" \in Kind /\ Len(events) \in Nat
      /\ agentSent \in [units : Units, ended : BOOLEAN]
  BY DEF BridgeInv, BridgeType, Kind
<1>3. /\ agentSent' \in [units : Units, ended : BOOLEAN] /\ agentSent'.ended = agentSent.ended
      /\ agentSent'.units = agentSent.units + 1
  BY <1>1, <1>2 DEF Units, BridgeConstants
<1>4. reported # "gaveUp" =>
        ~slot.closing /\ ~Has(events, Final) /\ ~peerGot.fin /\ sock \notin {"weClosed", "both"}
  <2>1. reported # "gaveUp" => ~slot.closing /\ ~Has(events, Final)
    BY <1>1 DEF BridgeInv, ReplyInv, EndLast
  <2> QED BY <1>1, <2>1 DEF BridgeInv, ReplyInv, EndLast
<1>5. /\ events' \in Seq(Kind) /\ Len(events') = Len(events) + 1
      /\ \A i \in 1..Len(events) : events'[i] = events[i]
  BY <1>1, <1>2, AppendIs
<1>6. Data(events') = Data(events) + 1 /\ Data(events) \in Nat
  BY <1>1, <1>2, DataAppend
<1>7. /\ Has(events', Final) <=> Has(events, Final)
      /\ Has(events', {"closed"}) <=> Has(events, {"closed"})
  <2>1. "data" \notin Final /\ "data" \notin {"closed"}
    BY DEF Final
  <2> QED BY <1>1, <1>2, <2>1, HasIs
<1>8. BridgeType'
  BY <1>1, <1>3, <1>5 DEF BridgeInv, BridgeType
<1>9. RequestInv'
  BY <1>1 DEF BridgeInv, RequestInv
<1>10. ReplyInv'
  <2>1. reported # "gaveUp" => \A i \in 1..Len(events') : events'[i] \notin Final
    BY <1>4, <1>7 DEF Has
  <2>2. Sum => Sum'
    BY <1>1, <1>2, <1>3, <1>6, SMTT(30) DEF BridgeInv, BridgeType, Sum, Units, BridgeConstants
  <2>3. reported # "gaveUp" => EndLast'
    BY <1>1, <1>4, <1>7, <2>1 DEF EndLast
  <2> QED BY <1>1, <2>2, <2>3 DEF BridgeInv, ReplyInv
<1>11. OpenInv'
  BY <1>1, <1>7 DEF BridgeInv, OpenInv
<1> QED BY <1>8, <1>9, <1>10, <1>11 DEF BridgeInv

LEMMA AgentEndsKeeps ==
  ASSUME BridgeConstants, BridgeInv, AgentEnds
  PROVE  BridgeInv'
<1>1. /\ opened = "yes" /\ ~agentSent.ended
      /\ events' = Append(events, "eof") /\ agentSent' = [agentSent EXCEPT !.ended = TRUE]
      /\ UNCHANGED <<inward, reported, sock, received, peerSent, slot, present, outbox, opened,
                     agentGot, peerGot>>
  BY DEF AgentEnds
<1>2. /\ events \in Seq(Kind) /\ "eof" \in Kind /\ Len(events) \in Nat
      /\ agentSent \in [units : Units, ended : BOOLEAN]
  BY DEF BridgeInv, BridgeType, Kind
<1>3. /\ agentSent' \in [units : Units, ended : BOOLEAN] /\ agentSent'.ended
      /\ agentSent'.units = agentSent.units
  BY <1>1, <1>2
<1>4. reported # "gaveUp" =>
        ~slot.closing /\ ~Has(events, Final) /\ ~peerGot.fin /\ sock \notin {"weClosed", "both"}
  <2>1. reported # "gaveUp" => ~slot.closing /\ ~Has(events, Final)
    BY <1>1 DEF BridgeInv, ReplyInv, EndLast
  <2> QED BY <2>1 DEF BridgeInv, ReplyInv, EndLast
<1>5. /\ events' \in Seq(Kind) /\ Len(events') = Len(events) + 1
      /\ \A i \in 1..Len(events) : events'[i] = events[i]
  BY <1>1, <1>2, AppendIs
<1>6. Data(events') = Data(events)
  BY <1>1, <1>2, DataAppend, DataNone
<1>7. Has(events', {"closed"}) <=> Has(events, {"closed"})
  BY <1>1, <1>2, HasIs
<1>8. BridgeType'
  BY <1>1, <1>3, <1>5 DEF BridgeInv, BridgeType
<1>9. RequestInv'
  BY <1>1 DEF BridgeInv, RequestInv
<1>10. ReplyInv'
  <2>1. reported # "gaveUp" => \A i, j \in 1..Len(events') : i < j => events'[i] \notin Final
    <3>1. reported # "gaveUp" => \A i \in 1..Len(events) : events[i] \notin Final
      BY <1>4 DEF Has
    <3> QED BY <1>2, <1>5, <3>1
  <2>2. (Sum => Sum') /\ ~Has(<<>>, {"data"})
    BY <1>1, <1>3, <1>6, HasIs DEF Sum
  <2>3. reported # "gaveUp" => EndLast'
    BY <1>1, <1>3, <1>4, <2>1, <2>2 DEF EndLast
  <2> QED BY <1>1, <2>2, <2>3 DEF BridgeInv, ReplyInv
<1>11. OpenInv'
  BY <1>1, <1>7 DEF BridgeInv, OpenInv
<1> QED BY <1>8, <1>9, <1>10, <1>11 DEF BridgeInv

LEMMA AgentTakesKeeps ==
  ASSUME BridgeConstants, BridgeInv, AgentTakes
  PROVE  BridgeInv'
<1> DEFINE f == Head(outbox)
           Got == [units : Units, told : {"nothing", "eof", "closed"}]
<1>0. outbox # <<>> /\ agentGot.told # "closed"
  BY DEF AgentTakes, BridgeInv, RequestInv
<1>1. /\ outbox' = Tail(outbox)
      /\ UNCHANGED <<inward, reported, sock, received, peerSent, slot, present, agentSent, peerGot>>
      /\ \/ f = "data" /\ agentGot' = [agentGot EXCEPT !.units = @ + 1]
         \/ f \in Final /\ agentGot' = [agentGot EXCEPT !.told = f]
         \/ f \notin Final \cup {"data"} /\ agentGot' = agentGot
      /\ \/ f = "result" /\ opened' = "yes" /\ events' = Append(events, "ready")
         \/ UNCHANGED <<opened, events>>
  BY <1>0 DEF AgentTakes, Final
<1>2. /\ outbox \in Seq(Kind) /\ events \in Seq(Kind) /\ agentGot \in Got /\ "ready" \in Kind
      /\ Len(events) \in Nat /\ peerSent \in Nat /\ peerSent <= MaxUnits /\ received \in Nat
  BY DEF BridgeInv, BridgeType, Kind, Units, BridgeConstants
<1>3. /\ outbox' \in Seq(Kind) /\ Len(outbox') = Len(outbox) - 1 /\ Len(outbox) \in Nat \ {0}
      /\ \A i \in 1..(Len(outbox) - 1) : outbox'[i] = outbox[i + 1]
      /\ f = outbox[1]
  BY <1>0, <1>1, <1>2, TailIs
<1>4. Data(outbox) = Data(outbox') + (IF f = "data" THEN 1 ELSE 0) /\ Data(outbox') \in Nat
  BY <1>0, <1>1, <1>2, DataTail
<1>5. \A S : (Has(outbox', S) => Has(outbox, S)) /\ (f \in S => Has(outbox, S))
  BY <1>0, <1>1, <1>2, HasIs
<1> HIDE DEF f
<1>6. agentGot.units + Data(outbox) + received = peerSent
  BY DEF BridgeInv, RequestInv
<1>7. /\ agentGot' \in Got
      /\ agentGot'.units = agentGot.units + (IF f = "data" THEN 1 ELSE 0)
      /\ agentGot'.told = IF f \in Final THEN f ELSE agentGot.told
  <2>1. CASE f = "data" /\ agentGot' = [agentGot EXCEPT !.units = @ + 1]
    <3>1. agentGot.units + 1 \in Units
      BY <1>2, <1>4, <1>6, <2>1 DEF Units, BridgeConstants
    <3> QED BY <1>2, <2>1, <3>1 DEF Final
  <2>2. CASE f \in Final /\ agentGot' = [agentGot EXCEPT !.told = f]
    BY <1>2, <2>2 DEF Final, Units, BridgeConstants
  <2>3. CASE f \notin Final \cup {"data"} /\ agentGot' = agentGot
    BY <1>2, <2>3 DEF Final, Units, BridgeConstants
  <2> QED BY <1>1, <2>1, <2>2, <2>3
<1>8. f = "result" => ~inward /\ reported # "gaveUp" /\ opened \in {"no", "yes"} /\ ~Has(events, {"closed"})
  <2>1. f = "result" => Has(outbox, {"result"})
    BY <1>5
  <2> QED BY <2>1 DEF BridgeInv, BridgeType, OpenInv
<1>9. BridgeType'
  <2>1. events' \in Seq(Kind) /\ opened' \in {"no", "asked", "yes", "failed"}
    <3>1. Append(events, "ready") \in Seq(Kind)
      BY <1>2, AppendIs
    <3> QED BY <1>1, <1>2, <3>1 DEF BridgeInv, BridgeType
  <2>2. Len(outbox') <= ChannelSize
    BY <1>3 DEF BridgeInv, BridgeType, BridgeConstants
  <2> QED BY <1>1, <1>3, <1>7, <2>1, <2>2 DEF BridgeInv, BridgeType
<1>10. RequestInv'
  <2>0. \A i \in 1..Len(outbox') : i + 1 \in 1..Len(outbox) /\ outbox'[i] = outbox[i + 1]
    BY <1>3
  <2>1. agentGot'.units + Data(outbox') + received' = peerSent'
    BY <1>1, <1>2, <1>4, <1>6, <1>7 DEF Units, BridgeConstants
  <2>2. \A i, j \in 1..Len(outbox') : i < j => outbox'[i] # "closed"
    <3> SUFFICES ASSUME NEW i \in 1..Len(outbox'), NEW j \in 1..Len(outbox'), i < j
                 PROVE  outbox'[i] # "closed"
      OBVIOUS
    <3>1. i + 1 < j + 1 /\ i + 1 \in 1..Len(outbox) /\ j + 1 \in 1..Len(outbox)
      BY <2>0
    <3> QED BY <2>0, <3>1 DEF BridgeInv, RequestInv
  <2>3. \A i, j \in 1..Len(outbox') : i < j /\ outbox'[i] \in Final => outbox'[j] = "closed"
    <3> SUFFICES ASSUME NEW i \in 1..Len(outbox'), NEW j \in 1..Len(outbox'), i < j,
                        outbox'[i] \in Final
                 PROVE  outbox'[j] = "closed"
      OBVIOUS
    <3>1. i + 1 < j + 1 /\ i + 1 \in 1..Len(outbox) /\ j + 1 \in 1..Len(outbox)
      BY <2>0
    <3> QED BY <2>0, <3>1 DEF BridgeInv, RequestInv
  <2>4. agentGot'.told # "nothing" => \A i \in 1..Len(outbox') : outbox'[i] = "closed"
    <3> SUFFICES ASSUME agentGot'.told # "nothing", NEW i \in 1..Len(outbox')
                 PROVE  outbox'[i] = "closed"
      OBVIOUS
    <3>1. i + 1 \in 1..Len(outbox) /\ 1 \in 1..Len(outbox) /\ 1 < i + 1 /\ outbox'[i] = outbox[i + 1]
      BY <1>3, <2>0
    <3>2. CASE f \in Final
      BY <1>3, <3>1, <3>2 DEF BridgeInv, RequestInv
    <3>3. CASE f \notin Final
      BY <1>7, <3>1, <3>3 DEF BridgeInv, RequestInv
    <3> QED BY <3>2, <3>3
  <2>5. agentGot'.told = "closed" => outbox' = <<>>
    <3> SUFFICES ASSUME agentGot'.told = "closed" PROVE outbox' = <<>>
      OBVIOUS
    <3>1. f = "closed"
      BY <1>0, <1>7
    <3>2. Len(outbox) = 1
      <4> SUFFICES ASSUME Len(outbox) # 1 PROVE FALSE
        OBVIOUS
      <4>1. 1 \in 1..Len(outbox) /\ 2 \in 1..Len(outbox) /\ 1 < 2
        BY <1>3
      <4> QED BY <1>3, <3>1, <4>1 DEF BridgeInv, RequestInv
    <3>3. Len(outbox') = 0
      BY <1>3, <3>2
    <3> QED BY <1>3, <3>3
  <2>6. agentGot'.told = "closed" \/ Has(outbox', {"closed"}) => ~present'
    <3>1. agentGot'.told = "closed" => Has(outbox, {"closed"})
      BY <1>0, <1>5, <1>7
    <3> QED BY <1>1, <1>5, <3>1 DEF BridgeInv, RequestInv
  <2>7. agentGot'.told # "nothing" \/ Has(outbox', Final) =>
          agentGot.told # "nothing" \/ Has(outbox, Final)
    BY <1>5, <1>7
  <2> QED BY <1>1, <2>1, <2>2, <2>3, <2>4, <2>5, <2>6, <2>7 DEF BridgeInv, RequestInv
<1>11. CASE UNCHANGED <<opened, events>>
  <2>1. ReplyInv'
    BY <1>1, <1>11 DEF BridgeInv, ReplyInv, EndLast, Sum
  <2>2. OpenInv'
    BY <1>1, <1>5, <1>11 DEF BridgeInv, OpenInv
  <2> QED BY <1>9, <1>10, <2>1, <2>2 DEF BridgeInv
<1>12. CASE f = "result" /\ opened' = "yes" /\ events' = Append(events, "ready")
  <2>1. /\ Len(events') = Len(events) + 1 /\ events'[Len(events) + 1] = "ready"
        /\ \A i \in 1..Len(events) : events'[i] = events[i]
    BY <1>2, <1>12, AppendIs
  <2>2. Data(events') = Data(events)
    BY <1>2, <1>12, DataAppend, DataNone
  <2>3. /\ Has(events', {"data"}) <=> Has(events, {"data"})
        /\ Has(events', {"closed"}) <=> Has(events, {"closed"})
        /\ Has(events', Final) <=> Has(events, Final)
    <3>1. "ready" \notin Final /\ "ready" \notin {"closed"} /\ "ready" \notin {"data"}
      BY DEF Final
    <3> QED BY <1>2, <1>12, <3>1, HasIs
  <2>4. \A i, j \in 1..Len(events') : i < j /\ events'[i] \in Final => events'[j] # "data"
    <3> SUFFICES ASSUME NEW i \in 1..Len(events'), NEW j \in 1..Len(events'), i < j,
                        events'[i] \in Final
                 PROVE  events'[j] # "data"
      OBVIOUS
    <3>1. i \in 1..Len(events) /\ events'[i] = events[i]
      BY <1>2, <2>1
    <3>2. j = Len(events) + 1 \/ j \in 1..Len(events)
      BY <1>2, <2>1
    <3> QED BY <1>8, <1>12, <2>1, <3>1, <3>2 DEF BridgeInv, ReplyInv, EndLast, Sum
  <2>5. ReplyInv'
    BY <1>1, <1>8, <1>12, <2>2, <2>3, <2>4 DEF BridgeInv, ReplyInv, EndLast, Sum
  <2>6. OpenInv'
    BY <1>1, <1>5, <1>8, <1>12, <2>3 DEF BridgeInv, OpenInv
  <2> QED BY <1>9, <1>10, <2>5, <2>6 DEF BridgeInv
<1> QED BY <1>1, <1>11, <1>12

LEMMA BridgeStep ==
  ASSUME BridgeConstants, BridgeInv, [BridgeNext]_bridgeVars
  PROVE  BridgeInv'
<1>1. CASE UNCHANGED bridgeVars
  <2>1. BridgeType'
    BY <1>1 DEF BridgeInv, BridgeType, bridgeVars
  <2>2. RequestInv'
    BY <1>1 DEF BridgeInv, RequestInv, bridgeVars
  <2>3. ReplyInv'
    BY <1>1 DEF BridgeInv, ReplyInv, EndLast, Sum, bridgeVars
  <2>4. OpenInv'
    BY <1>1 DEF BridgeInv, OpenInv, bridgeVars
  <2> QED BY <2>1, <2>2, <2>3, <2>4 DEF BridgeInv
<1> QED
  BY <1>1, EstablishKeeps, PeerSendsKeeps, PeerClosesKeeps, ForwardKeeps, ForwardEofKeeps,
     DeliverKeeps, CloseHalfKeeps, AbortKeeps, RemoveSlotKeeps, TakeEventKeeps, AgentOpensKeeps,
     AnswerArrivesKeeps, OpenGivenUpKeeps, AgentSendsKeeps, AgentEndsKeeps, AgentTakesKeeps
  DEF BridgeNext

\* What the invariant says of a stream whose end has been told.
LEMMA BridgeEnds ==
  ASSUME BridgeConstants, BridgeInv
  PROVE  WholeReply /\ WholeRequest
<1>1. ASSUME peerGot.fin, sock # "aborted", reported # "gaveUp" PROVE peerGot.units = agentSent.units
  <2>1. slot.pending = 0 /\ Data(events) = 0
    <3>1. slot.closing /\ slot.pending = 0 /\ ~Has(events, {"data"}) /\ events \in Seq(Kind)
      BY <1>1 DEF BridgeInv, BridgeType, ReplyInv, EndLast, Sum
    <3> QED BY <3>1, DataNone
  <2> QED BY <1>1, <2>1 DEF BridgeInv, BridgeType, ReplyInv, EndLast, Sum, Units, BridgeConstants
<1>2. ASSUME agentGot.told # "nothing", slot.open PROVE agentGot.units = peerSent
  <2>1. received = 0
    BY <1>2 DEF BridgeInv, RequestInv
  <2>2. Data(outbox) = 0
    <3>1. ~Has(outbox, {"data"}) /\ outbox \in Seq(Kind)
      BY <1>2 DEF BridgeInv, BridgeType, RequestInv, Has
    <3> QED BY <3>1, DataNone
  <2> QED BY <2>1, <2>2 DEF BridgeInv, BridgeType, RequestInv, Units, BridgeConstants
<1> QED BY <1>1, <1>2 DEF WholeReply, WholeRequest

\* For any sizes of the channel and the buffer: the peer of a stream sees its end only after
\* all that the node sent, unless the socket broke or the request to open the stream was given
\* up, and the node sees an end only after all
\* that the peer sent (runtime/cloud/bridge.rs).
THEOREM BridgeWhole ==
  ASSUME BridgeConstants
  PROVE  BridgeSpec => [](BridgeType /\ WholeReply /\ WholeRequest)
<1>1. BridgeInit => BridgeInv
  BY BridgeInitial
<1>2. BridgeInv /\ [BridgeNext]_bridgeVars => BridgeInv'
  BY BridgeStep
<1>3. BridgeInv => BridgeType /\ WholeReply /\ WholeRequest
  BY BridgeEnds DEF BridgeInv
<1> QED BY <1>1, <1>2, <1>3, PTL DEF BridgeSpec
-------------------------------------------------------------------------------
(* The processes of the application (Startup). Whoever is past acquire() has the *)
(* lock, until its process ends.                                                 *)
Stages == {"none", "launched", "locked", "loaded", "serving", "stopping", "ended"}
StartupInv ==
    /\ stage \in [Process -> Stages]
    /\ \A p \in Process :
         stage[p] \in {"locked", "loaded", "serving", "stopping"} => singleton = p

LEMMA StartupInitial == ASSUME StartupInit PROVE StartupInv
  BY DEF StartupInit, StartupInv, Stages

LEMMA StartupStep ==
  ASSUME StartupConstants, StartupInv, [StartupNext]_startupVars
  PROVE  StartupInv'
<1> USE DEF StartupConstants, StartupInv, Stages, To
<1>1. CASE AskEngine
  BY <1>1 DEF AskEngine
<1>2. CASE StartReports
  BY <1>2 DEF StartReports
<1>3. ASSUME NEW p \in Process, Open(p) \/ StartEngine(p) \/ Load(p) \/ Exit(p)
      PROVE  StartupInv'
  BY <1>3 DEF Open, StartEngine, Load, Exit
<1>4. ASSUME NEW p \in Process, Acquire(p)
      PROVE  StartupInv'
  BY <1>4 DEF Acquire
<1>5. ASSUME NEW p \in Process, stage[p] # "none", Ends(p)
      PROVE  StartupInv'
  BY <1>5 DEF Ends
<1>6. ASSUME NEW p \in Process, SetupFails(p) \/ Ended(p)
      PROVE  StartupInv'
  BY <1>5, <1>6 DEF SetupFails, Ended
<1>7. ASSUME NEW p \in Process, Bind(p)
      PROVE  StartupInv'
  BY <1>5, <1>7 DEF Bind
<1>8. CASE UNCHANGED startupVars
  BY <1>8 DEF startupVars
<1> QED BY <1>1, <1>2, <1>3, <1>4, <1>6, <1>7, <1>8 DEF StartupNext

(* Two processes never have the state and the machines at once, although one is  *)
(* still stopping them while the next one starts (instance_lock.rs, lib.rs).     *)
THEOREM OneEngineAtOnce ==
  ASSUME StartupConstants
  PROVE  StartupSpec => []OneEngine
<1>1. StartupInv => OneEngine
  <2> SUFFICES ASSUME StartupInv PROVE OneEngine OBVIOUS
  <2> DEFINE Engine == {p \in Process : stage[p] \in {"loaded", "serving", "stopping"}}
  <2>1. Engine \subseteq {singleton}
    BY DEF StartupInv
  <2>2. Cardinality(Engine) <= Cardinality({singleton}) /\ Cardinality({singleton}) = 1
        /\ IsFiniteSet(Engine)
    BY <2>1, FS_Singleton, FS_Subset
  <2>3. Cardinality(Engine) \in Nat
    BY <2>2, FS_CardinalityType
  <2> QED BY <2>2, <2>3 DEF OneEngine
<1> QED BY <1>1, StartupInitial, StartupStep, PTL DEF StartupSpec

-------------------------------------------------------------------------------
(* The agent's skill files (AgentSkill). As long as the user wrote nothing, a    *)
(* file is missing, of the marker's version or of the one before.  What he       *)
(* wrote and the marker or an update that may write takes for its own was        *)
(* written where an update does not look again.                                  *)
Versions  == 0..(MaxVersion + MaxEdits)
SetupStep == {"idle", "read", "folder", "journal", "skill", "guide", "done"}
SkillShape ==
    /\ text \in [File -> Versions] /\ directory \in BOOLEAN /\ version \in 1..MaxVersion
    /\ journal \in [files : 0..MaxVersion, previous : [File -> Versions]]
    /\ setup \in SetupStep /\ before \in [File -> Versions]
    /\ edits \in 0..MaxEdits
Untouched ==
    /\ setup \in {"journal", "skill"} => text = before
    /\ setup \in {"skill", "guide", "done"} => journal.files = version
    /\ setup \in {"guide", "done"} => text["skill"] = version
    /\ setup = "done" => text["guide"] = version
    /\ journal # NoJournal => Known
Raced(t) == ByUser(t) => t \in raced
Overlooked ==
    \A f \in File :
        /\ Raced(journal.previous[f])
        /\ setup \in {"folder", "journal", "skill", "guide"} => Raced(before[f])
        /\ Unseen(f) => Raced(text[f])
SkillInv ==
    /\ SkillShape
    /\ ~directory => text = Missing
    /\ setup \notin {"idle", "read", "folder"} => directory
    /\ edits = 0 => Untouched
    /\ Overlooked

LEMMA SkillInitial == ASSUME SkillConstants, SkillInit PROVE SkillInv
<1>1. Missing \in [File -> Versions] /\ \A f \in File : ~ByUser(Missing[f])
  BY DEF SkillConstants, Missing, Versions, ByUser
<1>2. /\ NoJournal \in [files : 0..MaxVersion, previous : [File -> Versions]]
      /\ NoJournal.previous = Missing
      /\ 1 \in 1..MaxVersion /\ 0 \in 0..MaxEdits
  BY <1>1 DEF SkillConstants, NoJournal
<1>3. SkillShape
  BY <1>1, <1>2, Zenon DEF SkillInit, SkillShape, SetupStep
<1>4. Overlooked
  BY <1>1, <1>2 DEF SkillInit, Overlooked, Raced
<1> QED BY <1>3, <1>4 DEF SkillInit, SkillInv, Untouched

LEMMA SkillStep ==
  ASSUME SkillConstants, SkillInv, [SkillNext]_skillVars
  PROVE  SkillInv'
<1> USE DEF SkillConstants, SkillInv, SkillShape, Versions, SetupStep, ByUser, Unseen, Raced, File
<1>1. CASE BeginSetup
  <2>1. ASSUME NEW f \in File PROVE Raced(text[f])
    BY <1>1, <2>1 DEF BeginSetup, Status, Known, Generated, Missing, Overlooked
  <2> QED BY <1>1, <2>1 DEF BeginSetup, Known, Untouched, Overlooked
<1>2. CASE ReadFiles
  BY <1>2 DEF ReadFiles, Known, Untouched, Overlooked
<1>3. CASE MakeFolder
  BY <1>3 DEF MakeFolder, Untouched, Known, Overlooked
<1>4. CASE WriteJournal
  BY <1>4 DEF WriteJournal, Untouched, Known, Overlooked
<1>5. CASE WriteFile("skill", "guide")
  BY <1>5 DEF WriteFile, Untouched, Known, Overlooked
<1>6. CASE WriteFile("guide", "done")
  BY <1>6 DEF WriteFile, Untouched, Known, Overlooked
<1>7. CASE ClearJournal
  BY <1>7 DEF ClearJournal, Untouched, Known, Missing, Overlooked
<1>8. CASE Interrupt
  BY <1>8 DEF Interrupt, Untouched, Known, Overlooked
<1>9. ASSUME NEW f \in File, Edit(f) PROVE SkillInv'
  BY <1>9 DEF Edit, Mine, Overlooked
<1>10. CASE UNCHANGED skillVars
  BY <1>10 DEF skillVars, Untouched, Known, Overlooked
<1> QED BY <1>1, <1>2, <1>3, <1>4, <1>5, <1>6, <1>7, <1>8, <1>9, <1>10 DEF SkillNext

(* An update of the agent's skill files that was interrupted can be repeated, by *)
(* a newer version too, and no update replaces what the user wrote, except where *)
(* he wrote it behind the last look of an update (install_at and known_files in  *)
(* skills.rs).                                                                   *)
THEOREM SkillFilesKept ==
  ASSUME SkillConstants
  PROVE  SkillSpec => []Retryable /\ EditsKept
<1>1. SkillInv => Retryable
  BY DEF SkillInv, Untouched, Retryable, Status
<1>2. SkillInv /\ [SkillNext]_skillVars =>
        [\A f \in File : ByUser(text[f]) /\ ~ByUser(text'[f]) => text[f] \in raced]_skillVars
  <2> SUFFICES ASSUME SkillConstants, SkillInv, SkillNext, NEW f \in File,
                      ByUser(text[f]), ~ByUser(text'[f])
               PROVE  text[f] \in raced
    OBVIOUS
  <2> USE DEF SkillConstants, SkillInv, SkillShape, Versions, File
  <2>1. ~\E g \in File : Edit(g)
    BY DEF Edit, ByUser, Mine
  <2>2. CASE WriteFile("skill", "guide")
    BY <2>2 DEF WriteFile, Overlooked, Unseen, Raced
  <2>3. CASE WriteFile("guide", "done")
    BY <2>3 DEF WriteFile, Overlooked, Unseen, Raced
  <2> QED
    BY <2>1, <2>2, <2>3
    DEF SkillNext, BeginSetup, ReadFiles, MakeFolder, WriteJournal, ClearJournal, Interrupt
<1> QED BY <1>1, <1>2, SkillInitial, SkillStep, PTL DEF SkillSpec, EditsKept

-------------------------------------------------------------------------------
(* The engine for CUDA (CudaRuntime). Who works under the lock file, or has a    *)
(* process that was not yet forgotten, holds it; who works under it has no       *)
(* process; and one that is to start the daemon found the payload installed,     *)
(* which a setup that goes on without its instance can only be installing too.   *)
Owning == {"verify", "recover", "install", "stopped?", "compacting"}
CudaShape ==
    /\ up \subseteq App /\ proc \in [App -> {"none", "alive", "dead"}]
    /\ cuda \in [App -> Owning \cup {"idle", "terminate", "compact?"}]
    /\ payload \in Nat /\ expected \in Nat /\ unattended \in Nat /\ payload <= expected
    /\ payload = expected => unattended \in {0, expected}
    /\ unattended <= expected /\ forced \subseteq {"own", "other"}
InstanceInv(i) ==
    /\ proc[i] # "none" \/ cuda[i] \in Owning => owner = i
    /\ proc[i] # "none" \/ cuda[i] # "idle" => i \in up
    /\ cuda[i] \in Owning \cup {"compact?"} => proc[i] = "none"
    /\ cuda[i] = "terminate" => proc[i] = "dead"
    /\ daemon = i => proc[i] = "alive"
    /\ proc[i] = "alive" \/ cuda[i] = "verify" => payload = expected
    /\ cuda[i] = "compacting" => daemon = "stopped"
CudaInv == CudaShape /\ \A i \in App : InstanceInv(i)

LEMMA CudaInitial == ASSUME CudaConstants, CudaInit PROVE CudaInv
  BY DEF CudaConstants, CudaInit, CudaInv, CudaShape, InstanceInv, Owning

LEMMA CudaStep ==
  ASSUME CudaConstants, CudaInv, [CudaNext]_cudaVars
  PROVE  CudaInv'
<1> USE DEF CudaConstants, CudaInv, CudaShape, InstanceInv, Owning, Idle, OwnerWithout, Done, Takes, NoApp, Kill, Killed, versions, scripts
<1>1. CASE UpdateApp
  BY <1>1 DEF UpdateApp
<1>2. CASE DaemonEnds
  BY <1>2 DEF DaemonEnds
<1>3. ASSUME NEW i \in App, LaunchApp(i) PROVE CudaInv'
  BY <1>3 DEF LaunchApp
<1>4. ASSUME NEW i \in App, CrashApp(i) PROVE CudaInv'
  BY <1>4 DEF CrashApp
<1>5. ASSUME NEW i \in App, NEW step \in Owning \ {"compacting"}, BeginOwned(i, step),
             step = "verify" => payload = expected
      PROVE CudaInv'
  BY <1>5 DEF BeginOwned
<1>6. ASSUME NEW i \in App, EnsureStarted(i) \/ Recover(i) \/ Install(i) \/ CompactStopped(i)
      PROVE  CudaInv'
  BY <1>5, <1>6 DEF EnsureStarted, Recover, Install, CompactStopped
<1>7. ASSUME NEW i \in App, SpawnWsl(i) PROVE CudaInv'
  BY <1>7 DEF SpawnWsl
<1>8. ASSUME NEW i \in App, DaemonStarts(i) PROVE CudaInv'
  BY <1>8 DEF DaemonStarts
<1>9. ASSUME NEW i \in App, WslEnds(i) PROVE CudaInv'
  BY <1>9 DEF WslEnds
<1>10. ASSUME NEW i \in App, AskShutdown(i) PROVE CudaInv'
  BY <1>10 DEF AskShutdown
<1>11. ASSUME NEW i \in App, Terminate(i) PROVE CudaInv'
  BY <1>11 DEF Terminate
<1>12. ASSUME NEW i \in App, Recovered(i) PROVE CudaInv'
  BY <1>12 DEF Recovered
<1>13. ASSUME NEW i \in App, Installed(i) PROVE CudaInv'
  BY <1>13 DEF Installed
<1>14. ASSUME NEW i \in App, CompactIdle(i) PROVE CudaInv'
  BY <1>14 DEF CompactIdle
<1>15. ASSUME NEW i \in App, VerifyStopped(i) PROVE CudaInv'
  BY <1>15 DEF VerifyStopped
<1>16. ASSUME NEW i \in App, Compacted(i) PROVE CudaInv'
  BY <1>16 DEF Compacted
<1>17. CASE LateTerminate
  BY <1>17 DEF LateTerminate
<1>18. CASE LateSetup
  <2>1. /\ unattended \in Nat /\ unattended' = 0 /\ payload' \in {payload, unattended}
        /\ UNCHANGED <<up, owner, cuda, booted, expected, late>>
        /\ payload' \in Nat /\ payload' <= expected /\ (payload = expected => payload' = expected)
    BY <1>18 DEF LateSetup
  <2>2. CASE Kill("other") /\ proc' = Killed
    BY <2>1, <2>2
  <2>3. CASE UNCHANGED <<daemon, forced, proc>>
    BY <2>1, <2>3
  <2> QED BY <1>18, <2>2, <2>3, Zenon DEF LateSetup
<1>19. CASE UNCHANGED cudaVars
  BY <1>19 DEF cudaVars
<1> HIDE DEF CudaInv
<1> QED
  BY <1>1, <1>2, <1>3, <1>4, <1>6, <1>7, <1>8, <1>9, <1>10, <1>11, <1>12, <1>13, <1>14, <1>15,
     <1>16, <1>17, <1>18, <1>19 DEF CudaNext

(* A daemon that starts is of the payload the application came with.             *)
LEMMA DaemonMoves ==
  ASSUME CudaConstants, CudaInv, CudaNext, NEW i \in App
  PROVE  daemon # i /\ daemon' = i => booted' = expected
<1> USE DEF CudaConstants, CudaInv, CudaShape, InstanceInv, Owning, Idle, OwnerWithout, Done, Takes, NoApp, Kill, Killed, versions, scripts
<1> DEFINE Goal == daemon # i /\ daemon' = i => booted' = expected
<1>1. ASSUME UpdateApp \/ DaemonEnds \/ LateTerminate \/ LateSetup PROVE Goal
  BY <1>1 DEF UpdateApp, DaemonEnds, LateTerminate, LateSetup
<1>2. ASSUME NEW j \in App, CrashApp(j) PROVE Goal
  BY <1>2 DEF CrashApp
<1>3. ASSUME NEW j \in App, DaemonStarts(j) PROVE Goal
  BY <1>3 DEF DaemonStarts
<1>4. ASSUME NEW j \in App, WslEnds(j) \/ AskShutdown(j) PROVE Goal
  BY <1>4 DEF WslEnds, AskShutdown
<1>5. ASSUME NEW j \in App, Terminate(j) \/ Recovered(j) PROVE Goal
  BY <1>5 DEF Terminate, Recovered
<1>6. ASSUME UNCHANGED daemon PROVE Goal
  BY <1>6
<1>7. ASSUME NEW j \in App,
             \/ LaunchApp(j) \/ EnsureStarted(j) \/ SpawnWsl(j) \/ Recover(j) \/ Install(j)
             \/ Installed(j) \/ CompactIdle(j) \/ CompactStopped(j) \/ VerifyStopped(j)
             \/ Compacted(j)
      PROVE  UNCHANGED daemon
  BY <1>7 DEF LaunchApp, EnsureStarted, SpawnWsl, Recover, Install, BeginOwned, Installed, CompactIdle,
     CompactStopped, VerifyStopped, Compacted
<1> HIDE DEF Goal, CudaInv, CudaConstants
<1>8. Goal
  BY <1>1, <1>2, <1>3, <1>4, <1>5, <1>6, <1>7 DEF CudaNext
<1> QED BY <1>8 DEF Goal

(* The disk of the CUDA engine is compacted while no daemon has it; a daemon     *)
(* that its instance reaches is terminated at most by a script that was given up *)
(* or lost its instance; and no daemon is started from a payload older than the  *)
(* application that starts it, for any number of instances                       *)
(* (runtime/cuda/host/src/lib.rs, runtime/cuda.rs).                              *)
THEOREM CudaEngineKept ==
  ASSUME CudaConstants
  PROVE  CudaSpec => [](CompactionAlone /\ RecoverySparesLive) /\ NeverBootsObsolete
<1>1. CudaInv => CompactionAlone /\ RecoverySparesLive
  BY DEF CudaInv, CudaShape, InstanceInv, CompactionAlone, RecoverySparesLive
<1>2. CudaInv /\ [CudaNext]_cudaVars =>
        [\A i \in App : daemon # i /\ daemon' = i => booted' = expected]_cudaVars
  BY DaemonMoves
<1> QED BY <1>1, <1>2, CudaInitial, CudaStep, PTL DEF CudaSpec, NeverBootsObsolete

-------------------------------------------------------------------------------
(* The routes (ProviderRoutes). The data of a container is where the saved state *)
(* says, and a file that says something says that; while a container is made,    *)
(* the file says what it is made as once it is written.                          *)
RoutesShape ==
    /\ server \in {"down", "starting", "up", "failed"} /\ writing \in Id \cup {"none"}
    /\ file \in [Id -> {"absent", "empty"} \cup Engines]
    /\ known \in [Id -> {"none"} \cup Engines] /\ engine \in [Id -> {"none"} \cup Engines]
    /\ making \in [Id -> {"none"} \cup Engines] /\ sent \in [Id -> SUBSET Engines]
RouteInv(c) ==
    /\ known[c] \in Engines =>
         engine[c] = known[c] /\ file[c] \in {"absent", "empty", known[c]} /\ making[c] = "none"
    /\ server = "up" /\ known[c] \in Engines => file[c] = known[c]
    /\ sent[c] \subseteq {engine[c]}
    /\ making[c] \in Engines =>
         server = "up" /\ engine[c] \in {"none", making[c]} /\ (writing = c \/ file[c] = making[c])
    /\ writing = c =>
         \/ server = "starting" /\ known[c] \in Engines
         \/ server = "up" /\ making[c] \in Engines /\ engine[c] = "none"
RoutesInv == RoutesShape /\ \A c \in Id : RouteInv(c)

LEMMA RoutesInitial == ASSUME RoutesConstants, RoutesInit PROVE RoutesInv
  BY DEF RoutesConstants, RoutesInit, RoutesInv, RoutesShape, RouteInv, Engines

LEMMA RoutesStep ==
  ASSUME RoutesConstants, RoutesInv, [RoutesNext]_routeVars
  PROVE  RoutesInv'
<1> USE DEF RoutesConstants, RoutesInv, RoutesShape, RouteInv, Engines, OpenNew, ReadRoute
<1>1. CASE LoseRoutes
  BY <1>1 DEF LoseRoutes
<1>2. CASE Launch
  BY <1>2 DEF Launch
<1>3. CASE RestoreWritten
  BY <1>3 DEF RestoreWritten
<1>4. CASE Restored
  BY <1>4 DEF Restored, Conflict
<1>5. CASE CrashServer
  BY <1>5 DEF CrashServer
<1>6. ASSUME NEW c \in Id, RestoreRoute(c) PROVE RoutesInv'
  BY <1>6 DEF RestoreRoute
<1>7. ASSUME NEW c \in Id, NEW p \in Engines, CreateRoute(c, p) PROVE RoutesInv'
  BY <1>7 DEF CreateRoute
<1>8. ASSUME NEW c \in Id, CreateWritten(c) PROVE RoutesInv'
  BY <1>8 DEF CreateWritten
<1>9. ASSUME NEW c \in Id, Provision(c) PROVE RoutesInv'
  BY <1>9 DEF Provision
<1>10. ASSUME NEW c \in Id, SaveEnvironment(c) PROVE RoutesInv'
  BY <1>10 DEF SaveEnvironment
<1>11. ASSUME NEW c \in Id, RequestAgent(c) PROVE RoutesInv'
  BY <1>11 DEF RequestAgent
<1>12. CASE RestoreFails
  BY <1>12 DEF RestoreFails
<1>13. ASSUME NEW c \in Id, CreateFails(c) PROVE RoutesInv'
  BY <1>13 DEF CreateFails
<1>14. CASE UNCHANGED routeVars
  BY <1>14 DEF routeVars
<1> HIDE DEF RoutesInv, Engines
<1> QED
  BY <1>1, <1>2, <1>3, <1>4, <1>5, <1>6, <1>7, <1>8, <1>9, <1>10, <1>11, <1>12, <1>13, <1>14
  DEF RoutesNext

(* A container is only ever asked for at the engine that has its data, the route *)
(* of a saved one never names another engine, and an application that started    *)
(* has the whole route of each, however often it is killed or a call fails while *)
(* routes are written (write_route, read_route and restore_container_routes in   *)
(* runtime/cuda.rs).                                                             *)
THEOREM RoutesKept ==
  ASSUME RoutesConstants
  PROVE  RoutesSpec => [](AskedWhereItIs /\ RoutesAgree)
<1>1. RoutesInv => AskedWhereItIs /\ RoutesAgree
  BY DEF RoutesInv, RouteInv, AskedWhereItIs, RoutesAgree
<1> QED BY <1>1, RoutesInitial, RoutesStep, PTL DEF RoutesSpec
-------------------------------------------------------------------------------
(* The private network (Fabric). A flow was opened by a segment that its rule    *)
(* permits, between environments of the map, and goes with either of them; the   *)
(* socket of the map is one that was attached.                                   *)
FlowKey == [source : Peer, target : Peer, proto : STRING, from : Nat, to : Nat]
Flow    == [key : FlowKey, live : BOOLEAN]
FabricShape ==
    /\ peers \in [Peer -> Nat] /\ tasks \in [Peer -> Seq({"open", "left", "done"})]
    /\ rules \in [Conn -> Policy \cup {NoRule}] /\ flows \in [Conn -> SUBSET Flow]
    /\ \A e \in Peer : peers[e] <= Len(tasks[e])
\* The rule of c would let a flow open, and both its ends are there.
Fits(c, f) ==
    /\ rules[c] # NoRule /\ MayOpen(c, f.key.source, f.key.target)
    /\ rules[c].network \/ (f.key.proto = "tcp" /\ f.key.to \in rules[c].ports)
    /\ peers[f.key.source] # 0 /\ peers[f.key.target] # 0
FlowsFit == \A c \in Conn : \A f \in flows[c] : Fits(c, f)
FabricInv == FabricShape /\ FlowsFit /\ OneReceiver

LEMMA FabricInitial == ASSUME FabricInit PROVE FabricInv
  BY DEF FabricInit, FabricInv, FabricShape, FlowsFit, OneReceiver

(* Flows that are dropped, or that grow old, do not harm.                        *)
LEMMA FewerFlows ==
  ASSUME FabricInv, UNCHANGED <<peers, tasks, rules>>,
         flows' \in [Conn -> SUBSET Flow],
         \A c \in Conn : \A f \in flows'[c] : \E g \in flows[c] : g.key = f.key
  PROVE  FabricInv'
<1>1. FabricShape' /\ OneReceiver'
  BY DEF FabricInv, FabricShape, OneReceiver
<1>2. ASSUME NEW c \in Conn, NEW f \in flows'[c] PROVE Fits(c, f)'
  <2>1. PICK g \in flows[c] : g.key = f.key OBVIOUS
  <2>2. Fits(c, g)
    BY DEF FabricInv, FlowsFit
  <2> QED BY <2>1, <2>2 DEF Fits, MayOpen, Forward, Backward
<1> QED BY <1>1, <1>2 DEF FabricInv, FlowsFit

LEMMA AttachKeeps ==
  ASSUME FabricConstants, FabricInv, NEW e \in Peer, Attach(e) PROVE FabricInv'
<1>1. /\ tasks' = [tasks EXCEPT ![e] = Append(@, "open")]
      /\ peers' = [peers EXCEPT ![e] = Len(tasks[e]) + 1]
      /\ Len(tasks[e]) \in Nat /\ Append(tasks[e], "open") \in Seq({"open", "left", "done"})
      /\ Len(Append(tasks[e], "open")) = Len(tasks[e]) + 1
      /\ rules' = rules /\ flows' = flows
  BY DEF Attach, FabricInv, FabricShape
<1>2. FabricShape'
  BY <1>1 DEF FabricInv, FabricShape
<1>3. \A o \in Peer : peers[o] # 0 => peers'[o] # 0
  BY <1>1 DEF FabricInv, FabricShape
<1>4. FlowsFit'
  <2> SUFFICES ASSUME NEW c \in Conn, NEW f \in flows[c] PROVE Fits(c, f)'
    BY <1>1 DEF FlowsFit
  <2>1. Fits(c, f) /\ f.key.source \in Peer /\ f.key.target \in Peer
    BY DEF FabricInv, FlowsFit, FabricShape, Flow, FlowKey
  <2> QED BY <2>1, <1>1, <1>3 DEF Fits, MayOpen, Forward, Backward
<1>5. OneReceiver'
  BY <1>1 DEF Attach, FabricInv, FabricShape, OneReceiver
<1> QED BY <1>2, <1>4, <1>5 DEF FabricInv

(* The task of a socket ends: its environment, and its flows, leave the map only *)
(* if it is the socket of the map.                                               *)
LEMMA DetachKeeps ==
  ASSUME FabricInv, NEW e \in Peer, NEW g \in 1..Len(tasks[e]), Detach(e, g) PROVE FabricInv'
<1>1. /\ tasks' = [tasks EXCEPT ![e] = [tasks[e] EXCEPT ![g] = "done"]]
      /\ [tasks[e] EXCEPT ![g] = "done"] \in Seq({"open", "left", "done"})
      /\ Len([tasks[e] EXCEPT ![g] = "done"]) = Len(tasks[e])
      /\ \A o \in Peer : peers'[o] = (IF o = e /\ peers[o] = g THEN 0 ELSE peers[o])
      /\ peers' \in [Peer -> Nat] /\ rules' = rules
      /\ flows' = [c \in Conn |-> {f \in flows[c] : ~Touches(f.key, e)}]
  BY DEF Detach, Forget, FabricInv, FabricShape
<1>2. FabricShape'
  BY <1>1 DEF FabricInv, FabricShape
<1>3. FlowsFit'
  <2> SUFFICES ASSUME NEW c \in Conn, NEW f \in flows'[c] PROVE Fits(c, f)'
    BY DEF FlowsFit
  <2>1. Fits(c, f) /\ f.key.source \in Peer \ {e} /\ f.key.target \in Peer \ {e}
    BY <1>1 DEF FabricInv, FlowsFit, FabricShape, Flow, FlowKey, Touches
  <2> QED BY <2>1, <1>1 DEF Fits, MayOpen, Forward, Backward
<1>4. OneReceiver'
  BY <1>1 DEF FabricInv, FabricShape, OneReceiver
<1> QED BY <1>2, <1>3, <1>4 DEF FabricInv

LEMMA LeaveKeeps ==
  ASSUME FabricInv, NEW e \in Peer, NEW g \in 1..Len(tasks[e]), Leave(e, g) PROVE FabricInv'
<1>1. /\ tasks' = [tasks EXCEPT ![e] = [tasks[e] EXCEPT ![g] = "left"]]
      /\ [tasks[e] EXCEPT ![g] = "left"] \in Seq({"open", "left", "done"})
      /\ Len([tasks[e] EXCEPT ![g] = "left"]) = Len(tasks[e])
      /\ UNCHANGED <<peers, rules, flows>>
  BY DEF Leave, FabricInv, FabricShape
<1>2. FabricShape' /\ OneReceiver'
  BY <1>1 DEF FabricInv, FabricShape, OneReceiver
<1>3. FlowsFit'
  BY <1>1 DEF FabricInv, FlowsFit, Fits, MayOpen, Forward, Backward
<1> QED BY <1>2, <1>3 DEF FabricInv

(* A rule that changes loses its flows.                                          *)
LEMMA RulesKeep ==
  ASSUME FabricInv, NEW c \in Conn, NEW r \in Policy \cup {NoRule},
         UNCHANGED <<peers, tasks>>, rules' = [rules EXCEPT ![c] = r],
         flows' = [flows EXCEPT ![c] = IF rules[c] = r THEN @ ELSE {}]
  PROVE  FabricInv'
<1>1. FabricShape' /\ OneReceiver'
  BY DEF FabricInv, FabricShape, OneReceiver
<1>2. FlowsFit'
  <2> SUFFICES ASSUME NEW d \in Conn, NEW f \in flows'[d] PROVE Fits(d, f)'
    BY DEF FlowsFit
  <2>1. f \in flows[d] /\ rules'[d] = rules[d]
    BY DEF FabricInv, FabricShape
  <2>2. Fits(d, f)
    BY <2>1 DEF FabricInv, FlowsFit
  <2> QED BY <2>1, <2>2 DEF Fits, MayOpen, Forward, Backward
<1> QED BY <1>1, <1>2 DEF FabricInv

(* What a verdict leaves: the flows there were, and one that the rule permits.   *)
LEMMA VerdictIs ==
  ASSUME FabricConstants, FabricInv, NEW c \in Conn, NEW fs \in SUBSET Flow,
         NEW s \in Peer, NEW t \in Peer, NEW seg \in Segment, NEW gs \in Verdict(c, fs, s, t, seg),
         NEW f \in gs
  PROVE  \/ f \in fs
         \/ /\ f = [key |-> FlowOf(s, t, seg), live |-> TRUE] /\ MayOpen(c, s, t)
            /\ rules[c].network \/ (seg.proto = "tcp" /\ seg.to \in rules[c].ports)
  BY DEF Verdict

LEMMA RouteKeeps ==
  ASSUME FabricConstants, FabricInv, NEW e \in Peer, NEW t \in Peer, NEW seg \in Segment,
         Route(e, t, seg)
  PROVE  FabricInv'
<1>0. PICK c \in Applied : \E hs \in Swept(c) : \E ks \in Verdict(c, hs, e, t, seg) :
             flows' = [flows EXCEPT ![c] = ks]
  BY DEF Route
<1>1. PICK fs \in Swept(c) : \E ks \in Verdict(c, fs, e, t, seg) : flows' = [flows EXCEPT ![c] = ks]
  BY <1>0
<1>2. PICK gs \in Verdict(c, fs, e, t, seg) : flows' = [flows EXCEPT ![c] = gs]
  BY <1>1
<1>3. c \in Conn /\ rules[c] # NoRule /\ fs \subseteq flows[c] /\ flows[c] \subseteq Flow
  BY DEF Applied, Swept, FabricInv, FabricShape
<1>4. /\ peers[e] # 0 /\ peers[t] # 0 /\ UNCHANGED <<peers, tasks, rules>>
  BY DEF Route, Sends, Connected
<1> DEFINE new == [key |-> FlowOf(e, t, seg), live |-> TRUE]
<1>5. new \in Flow /\ new.key.source = e /\ new.key.target = t /\ new.key.to = seg.to
      /\ new.key.proto = seg.proto
  BY DEF FabricConstants, FlowOf, Flow, FlowKey
<1>6. ASSUME NEW f \in gs
      PROVE  f \in Flow /\ Fits(c, f)
  <2>1. CASE f \in fs
    BY <2>1, <1>3 DEF FabricInv, FlowsFit
  <2>2. CASE /\ f = new /\ MayOpen(c, e, t)
             /\ rules[c].network \/ (seg.proto = "tcp" /\ seg.to \in rules[c].ports)
    BY <2>2, <1>3, <1>4, <1>5 DEF Fits
  <2> QED BY <2>1, <2>2, <1>3, VerdictIs
<1>7. FabricShape' /\ OneReceiver'
  BY <1>2, <1>3, <1>4, <1>6 DEF FabricInv, FabricShape, OneReceiver
<1>8. FlowsFit'
  <2> SUFFICES ASSUME NEW d \in Conn, NEW f \in flows'[d] PROVE Fits(d, f)'
    BY DEF FlowsFit
  <2>1. Fits(d, f)
    BY <1>2, <1>3, <1>6 DEF FabricInv, FabricShape, FlowsFit
  <2> QED BY <2>1, <1>4 DEF Fits, MayOpen, Forward, Backward
<1> QED BY <1>7, <1>8 DEF FabricInv

LEMMA RefuseKeeps ==
  ASSUME FabricInv, NEW e \in Peer, NEW t \in Peer, NEW seg \in Segment, Refuse(e, t, seg)
  PROVE  FabricInv'
<1>1. \A c \in Conn : flows'[c] \in Swept(c)
  BY DEF Refuse
<1>2. flows' \in [Conn -> UNION {Swept(c) : c \in Conn}]
  BY DEF Refuse
<1>3. \A c \in Conn : flows'[c] \subseteq flows[c]
  BY <1>1 DEF Swept
<1>4. flows' \in [Conn -> SUBSET Flow]
  BY <1>2, <1>3 DEF FabricInv, FabricShape
<1>5. UNCHANGED <<peers, tasks, rules>>
  BY DEF Refuse
<1> QED BY <1>3, <1>4, <1>5, FewerFlows

LEMMA AgeKeeps ==
  ASSUME FabricInv, NEW c \in Conn, Age(c)
  PROVE  FabricInv'
<1>1. PICK f \in flows[c] : flows' = [flows EXCEPT ![c] = (@ \ {f}) \cup {[f EXCEPT !.live = FALSE]}]
  BY DEF Age
<1>2. f \in Flow /\ [f EXCEPT !.live = FALSE] \in Flow /\ [f EXCEPT !.live = FALSE].key = f.key
  <2>1. f \in Flow
    BY DEF FabricInv, FabricShape
  <2>2. [f EXCEPT !.live = FALSE].key = f.key
    BY <2>1 DEF Flow
  <2>3. FALSE \in BOOLEAN
    BY Zenon
  <2>4. ASSUME NEW b \in BOOLEAN PROVE [f EXCEPT !.live = b] \in Flow
    BY <2>1 DEF Flow
  <2>5. [f EXCEPT !.live = FALSE] \in Flow
    BY <2>3, <2>4, Zenon
  <2> QED BY <2>1, <2>2, <2>5
<1>3. flows' \in [Conn -> SUBSET Flow]
  BY <1>1, <1>2 DEF FabricInv, FabricShape
<1>4. \A d \in Conn : \A h \in flows'[d] : \E g \in flows[d] : g.key = h.key
  BY <1>1, <1>2 DEF FabricInv, FabricShape
<1> QED BY <1>3, <1>4, FewerFlows DEF Age

LEMMA FabricStep ==
  ASSUME FabricConstants, FabricInv, [FabricNext]_fabricVars
  PROVE  FabricInv'
<1>1. ASSUME NEW e \in Peer, NEW o \in Peer, Dhcp(e, Address[o]) PROVE FabricInv'
  BY <1>1, FewerFlows DEF Dhcp, FabricInv, FabricShape
<1>2. ASSUME NEW c \in Conn, RemoveRule(c) PROVE FabricInv'
  <2>1. rules[c] = NoRule => flows[c] = {}
    BY DEF FabricInv, FlowsFit, Fits
  <2>2. flows' = [flows EXCEPT ![c] = IF rules[c] = NoRule THEN @ ELSE {}]
    BY <1>2, <2>1 DEF RemoveRule
  <2> QED BY <1>2, <2>2, RulesKeep DEF RemoveRule
<1>3. ASSUME NEW c \in Conn, NEW p \in Policy, Apply(c, p) PROVE FabricInv'
  BY <1>3, RulesKeep DEF Apply
<1>4. CASE UNCHANGED fabricVars
  BY <1>4, FewerFlows DEF fabricVars, FabricInv, FabricShape
<1> QED
  BY <1>1, <1>2, <1>3, <1>4, AttachKeeps, LeaveKeeps, DetachKeeps, AgeKeeps, RouteKeeps, RefuseKeeps
  DEF FabricNext

(* The end of a task leaves the socket that replaced its own.                    *)
LEMMA ReplacedStays ==
  ASSUME FabricConstants, FabricInv, FabricNext, NEW e \in Peer, Sends(e)
  PROVE  peers'[e] # 0
<1>1. peers[e] # 0 /\ tasks[e][peers[e]] = "open"
  BY DEF Sends, Connected
<1>2. ASSUME NEW o \in Peer, Attach(o) PROVE peers'[e] # 0
  BY <1>1, <1>2 DEF Attach, FabricInv, FabricShape
<1>3. ASSUME NEW o \in Peer, NEW g \in 1..Len(tasks[o]), Detach(o, g) PROVE peers'[e] # 0
  BY <1>1, <1>3 DEF Detach, FabricInv, FabricShape
<1>4. ASSUME UNCHANGED peers PROVE peers'[e] # 0
  BY <1>1, <1>4
<1> QED
  BY <1>2, <1>3, <1>4 DEF FabricNext, Dhcp, Leave, RemoveRule, Age, Apply, Route, Refuse

(* Every flow that is remembered is one its present rule would let open and has  *)
(* both its environments; an address has one receiver; and the end of an old     *)
(* socket does not detach its successor, for any number of environments,         *)
(* connections and sockets (runtime/fabric.rs).                                  *)
THEOREM FabricKept ==
  ASSUME FabricConstants
  PROVE  FabricSpec => [](FlowsPermitted /\ FlowsHaveEnds /\ OneReceiver) /\ ReplacementKept
<1>1. FabricInv => FlowsPermitted /\ FlowsHaveEnds /\ OneReceiver
  BY DEF FabricInv, FlowsFit, Fits, FlowsPermitted, FlowsHaveEnds, Applied
<1>2. FabricInv /\ [FabricNext]_fabricVars =>
        [\A e \in Peer : Sends(e) => peers'[e] # 0]_fabricVars
  BY ReplacedStays
<1> QED BY <1>1, <1>2, FabricInitial, FabricStep, PTL DEF FabricSpec, ReplacementKept
-------------------------------------------------------------------------------
(* Connections (Connections). A rule or folder belongs to an active connection, to  *)
(* one whose environment is gone, to one whose leftover is admitted, or to the   *)
(* one that is being created; what a reconciliation still has to do is all that  *)
(* is not in force.                                                              *)
LinkRecord == [active : BOOLEAN, enf : {"none", "pending", "enforced", "error"}]
LinkWork   == [do : {"reconcile", "create", "off", "delete"}, todo : SUBSET Link, now : Link,
               at : {"rule", "folder", "save", "record"}, ok : BOOLEAN]
LinksShape ==
    /\ LinksType /\ op \in {Free} \cup LinkWork
    /\ kept \in [of : SUBSET Env, conn : [Link -> LinkRecord]]
    /\ history \in [sound : BOOLEAN, calm : BOOLEAN, leftover : SUBSET Link]
    /\ \A e \in Env : moving[e] # "none" => status[e] # "gone"
WorkInv ==
    op # Free => /\ op.now \in op.todo
                 /\ op.do \in {"off", "delete"} <=> op.at = "record"
                 /\ op.do # "reconcile" => op.todo = {op.now}

Accounted(c) == conn[c].active \/ (\E e \in Joined[c] : status[e] = "gone") \/ c \in history.leftover
InMaking(c)  == op # Free /\ op.do = "create" /\ c = op.now /\ (op.at = "folder" \/ (op.at = "save" /\ op.ok))
RulesInv ==
    /\ \A c \in rule \cup folder : Accounted(c) \/ InMaking(c)
    /\ op # Free /\ op.do = "reconcile" => \A c \in op.todo : Accounted(c)
    /\ op # Free /\ op.at = "record" => op.now \notin rule \cup folder

Due(c)     == conn[c].active /\ \A e \in Joined[c] : Running(e)
Settled(c) == InForce(c) /\ conn[c].enf = "enforced"
SoundInv ==
    history.sound =>
        /\ op # Free => op.do # "reconcile"
        /\ \A c \in Link : Due(c) =>
             Settled(c) \/ (op # Free /\ op.do \in {"off", "delete"} /\ c = op.now)
        /\ op # Free /\ op.do = "create" =>
             /\ ~conn[op.now].active
             /\ op.at = "folder" => op.now \in rule
             /\ op.at = "save" /\ op.ok => InForce(op.now)
CalmInv ==
    history.calm /\ op # Free /\ op.do = "reconcile" =>
        /\ \A c \in Link : Due(c) => c \in op.todo \/ Settled(c)
        /\ op.at = "folder" => op.now \in rule
        /\ op.at = "save" /\ op.ok => InForce(op.now)
LinksInv == LinksShape /\ WorkInv /\ RulesInv /\ SoundInv /\ CalmInv

LEMMA LinksInitial == ASSUME ConnectionsConstants, LinksInit PROVE LinksInv
<1>1. LinksShape
  <2>1. None \in LinkRecord /\ [active |-> TRUE, enf |-> "enforced"] \in LinkRecord
    BY DEF None, LinkRecord
  <2>2. kept \in [of : SUBSET Env, conn : [Link -> LinkRecord]]
    <3>1. PICK r \in LinkRecord : kept = [of |-> Env, conn |-> [c \in Link |-> r]]
      BY <2>1 DEF LinksInit
    <3> QED BY <3>1
  <2>3. conn \in [Link -> LinkRecord]
    BY <2>1 DEF LinksInit
  <2>4. history \in [sound : BOOLEAN, calm : BOOLEAN, leftover : SUBSET Link]
    BY DEF LinksInit
  <2> QED BY <2>2, <2>3, <2>4 DEF LinksInit, LinksShape, LinksType, LinkRecord
<1> QED
  BY <1>1 DEF LinksInit, LinksInv, WorkInv, RulesInv, SoundInv, CalmInv

\* A step of an environment, or of the engines, that takes no rule out of account.
LEMMA EnvironmentKeeps ==
  ASSUME LinksInv, LinksShape', op' = op, rule' \subseteq rule, folder' \subseteq folder,
         history'.sound = FALSE, history'.calm = FALSE,
         \A c \in rule \cup folder \cup InWork : Accounted(c) => Accounted(c)'
  PROVE  LinksInv'
<1>1. WorkInv' /\ SoundInv' /\ CalmInv'
  BY DEF LinksInv, WorkInv, SoundInv, CalmInv
<1>2. \A c \in rule' \cup folder' : Accounted(c)' \/ InMaking(c)'
  BY DEF LinksInv, RulesInv, InMaking
<1>3. op' # Free /\ op'.do = "reconcile" => \A c \in op'.todo : Accounted(c)'
  BY DEF LinksInv, RulesInv, InWork
<1>4. op' # Free /\ op'.at = "record" => op'.now \notin rule' \cup folder'
  BY DEF LinksInv, RulesInv
<1> QED BY <1>1, <1>2, <1>3, <1>4 DEF LinksInv, RulesInv

\* What stays active, gone or admitted stays accounted for.
LEMMA StaysAccounted ==
  ASSUME ConnectionsConstants, LinksShape, NEW c \in Link,
         \A e \in Env : status[e] = "gone" => status'[e] = "gone",
         history.leftover \subseteq history'.leftover,
         \/ conn'[c].active = conn[c].active \/ c \in history'.leftover \/ conn'[c].active
         \/ \E e \in Joined[c] : status'[e] = "gone"
  PROVE  Accounted(c) => Accounted(c)'
BY DEF Accounted, ConnectionsConstants

LEMMA Disturbed ==
  ASSUME LinksShape, Disturb
  PROVE  /\ history'.sound = FALSE /\ history'.calm = FALSE /\ history'.leftover = history.leftover
         /\ history' \in [sound : BOOLEAN, calm : BOOLEAN, leftover : SUBSET Link]
BY DEF LinksShape, Disturb

\* Pending and restored records.
LEMMA PendingIs ==
  ASSUME NEW cn \in [Link -> LinkRecord], NEW e
  PROVE  Pending(e, cn) \in [Link -> LinkRecord] /\ \A c \in Link : Pending(e, cn)[c].active = cn[c].active
BY DEF Pending, LinkRecord
LEMMA RestoredIs ==
  ASSUME LinksShape, NEW e
  PROVE  RestoredLinks(e) \in [Link -> LinkRecord]
<1>1. None \in LinkRecord
  BY DEF None, LinkRecord
<1>2. conn \in [Link -> LinkRecord] /\ kept.conn \in [Link -> LinkRecord]
  BY DEF LinksShape, LinksType, LinkRecord
<1> QED BY <1>1, <1>2 DEF RestoredLinks

LEMMA EnvironmentStep ==
  ASSUME ConnectionsConstants, LinksInv, NEW e \in Env,
         \/ Start(e) \/ StartSave(e) \/ Stop(e) \/ StopSave(e) \/ CrashGuest(e) \/ Notice(e) \/ Refresh(e)
         \/ DeleteRules(e) \/ DeleteEngine(e) \/ DeleteSave(e)
  PROVE  LinksInv'
<1>0. LinksShape /\ conn \in [Link -> LinkRecord]
  BY DEF LinksInv, LinksShape, LinksType, LinkRecord
<1>1. Disturb /\ op' = op /\ kept' = kept
  BY DEF Start, StartSave, Stop, StopSave, CrashGuest, Notice, Refresh, DeleteRules, DeleteEngine, DeleteSave, Down, GuestEnds, Up, Removed
<1>2. rule' \subseteq rule /\ folder' \subseteq folder /\ rule' \subseteq Link /\ folder' \subseteq Link
  BY <1>0 DEF LinksShape, LinksType, Start, StartSave, Stop, StopSave, CrashGuest, Notice, Refresh, DeleteRules,
        DeleteEngine, DeleteSave, Down, GuestEnds, Up, Removed, engines
<1>3. conn' \in [Link -> LinkRecord]
      /\ \/ \A c \in Link : conn'[c].active = conn[c].active
         \/ DeleteSave(e) /\ status' = [status EXCEPT ![e] = "gone"]
                          /\ \A c \in Link \ Touching(e) : conn'[c] = conn[c]
  <2>1. CASE UNCHANGED conn
    BY <1>0, <2>1
  <2>2. CASE conn' = Pending(e, conn)
    BY <1>0, <2>2, PendingIs
  <2>3. CASE DeleteSave(e) /\ ~UNCHANGED conn
    <3>1. None \in LinkRecord
      BY DEF None, LinkRecord
    <3> QED BY <1>0, <2>3, <3>1 DEF DeleteSave
  <2> QED
    BY <2>1, <2>2, <2>3 DEF Start, StartSave, Stop, StopSave, CrashGuest, Notice, Refresh, DeleteRules, DeleteEngine,
          DeleteSave
<1>4. /\ status' \in [Env -> {"running", "stopped", "gone"}] /\ alive' \subseteq Env /\ stale' \subseteq Env /\ owed' \subseteq Env
      /\ moving' \in [Env -> {"none", "starting", "stopping", "deleting", "deleted", "restoring"}]
  BY <1>0 DEF LinksShape, LinksType, Start, StartSave, Stop, StopSave, CrashGuest, Notice, Refresh, DeleteRules,
        DeleteEngine, DeleteSave, Down, GuestEnds, Up, Removed, Busy
<1>5. /\ \A o \in Env : status[o] = "gone" => status'[o] = "gone"
      /\ \A o \in Env : moving'[o] # "none" => status'[o] # "gone"
  BY <1>0 DEF LinksShape, LinksType, Start, StartSave, Stop, StopSave, CrashGuest, Notice, Refresh, DeleteRules,
        DeleteEngine, DeleteSave, Down, GuestEnds, Up, Removed, Busy, NextCommand, Running
<1>6. LinksShape'
  BY <1>0, <1>1, <1>2, <1>3, <1>4, <1>5, Disturbed DEF LinksShape, LinksType, LinkRecord
<1>7. ASSUME NEW c \in Link PROVE Accounted(c) => Accounted(c)'
  <2>1. history.leftover \subseteq history'.leftover
    BY <1>0, <1>1, Disturbed
  <2>2. \/ conn'[c].active = conn[c].active
        \/ \E o \in Joined[c] : status'[o] = "gone"
    <3>1. CASE conn'[c].active = conn[c].active
      BY <3>1
    <3>2. CASE conn'[c].active # conn[c].active
      <4>1. c \in Touching(e) /\ status' = [status EXCEPT ![e] = "gone"]
        BY <1>3, <3>2
      <4> QED BY <4>1, <1>0 DEF Touching, LinksShape, LinksType
    <3> QED BY <3>1, <3>2
  <2> QED BY <1>0, <1>5, <2>1, <2>2, StaysAccounted
<1>8. rule \cup folder \cup InWork \subseteq Link
  BY <1>0 DEF LinksShape, LinksType, InWork, LinkWork
<1> QED BY <1>0, <1>1, <1>2, <1>6, <1>7, <1>8, Disturbed, EnvironmentKeeps

\* Records that come back.
LEMMA RestoreStep ==
  ASSUME ConnectionsConstants, LinksInv, NEW e \in Env,
         RestoreSnapshot(e) \/ RestoreRules(e) \/ RestoreSave(e)
  PROVE  LinksInv'
<1>0. /\ LinksShape /\ conn \in [Link -> LinkRecord]
      /\ history \in [sound : BOOLEAN, calm : BOOLEAN, leftover : SUBSET Link]
  BY DEF LinksInv, LinksShape, LinksType, LinkRecord
<1>1. op' = op /\ kept' = kept
  BY DEF RestoreSnapshot, RestoreRules, RestoreSave
<1>2. rule' \subseteq rule /\ folder' \subseteq folder /\ rule' \subseteq Link /\ folder' \subseteq Link
  BY <1>0 DEF LinksShape, LinksType, RestoreSnapshot, RestoreRules, RestoreSave, GuestEnds, engines
<1>3. /\ status' \in [Env -> {"running", "stopped", "gone"}] /\ alive' \subseteq Env /\ stale' \subseteq Env /\ owed' \subseteq Env
      /\ moving' \in [Env -> {"none", "starting", "stopping", "deleting", "deleted", "restoring"}]
  BY <1>0 DEF LinksShape, LinksType, RestoreSnapshot, RestoreRules, RestoreSave, GuestEnds, Busy
<1>4. /\ \A o \in Env : status[o] = "gone" => status'[o] = "gone"
      /\ \A o \in Env : moving'[o] # "none" => status'[o] # "gone"
  BY <1>0 DEF LinksShape, LinksType, RestoreSnapshot, RestoreRules, RestoreSave, GuestEnds, Busy, NextCommand
<1>5. Unaccounted(e) \subseteq Link
  BY DEF Unaccounted, Touching
<1>6. /\ history' \in [sound : BOOLEAN, calm : BOOLEAN, leftover : SUBSET Link]
      /\ history'.sound = FALSE /\ history'.calm = FALSE /\ history.leftover \subseteq history'.leftover
  <2>1. CASE Disturb
    BY <2>1, <1>0, Disturbed
  <2>2. CASE history' = [sound |-> FALSE, calm |-> FALSE, leftover |-> history.leftover \cup Unaccounted(e)]
    BY <2>2, <1>0, <1>5
  <2> QED BY <2>1, <2>2 DEF RestoreSnapshot, RestoreRules, RestoreSave
<1>7. /\ conn' \in [Link -> LinkRecord]
      /\ \/ \A c \in Link : conn'[c].active = conn[c].active
         \/ /\ \A c \in Link : conn'[c].active = RestoredLinks(e)[c].active
            /\ Unaccounted(e) \subseteq history'.leftover
  <2>1. CASE UNCHANGED conn
    BY <2>1, <1>0
  <2>2. CASE conn' = RestoredLinks(e) /\ Unaccounted(e) \subseteq history'.leftover
    BY <2>2, <1>0, RestoredIs
  <2>3. CASE conn' = Pending(e, RestoredLinks(e)) /\ Unaccounted(e) \subseteq history'.leftover
    BY <2>3, <1>0, RestoredIs, PendingIs
  <2>4. history' = [sound |-> FALSE, calm |-> FALSE, leftover |-> history.leftover \cup Unaccounted(e)]
        => Unaccounted(e) \subseteq history'.leftover
    OBVIOUS
  <2> QED BY <2>1, <2>2, <2>3, <2>4 DEF RestoreSnapshot, RestoreRules, RestoreSave
<1>8. LinksShape'
  BY <1>0, <1>1, <1>2, <1>3, <1>4, <1>6, <1>7 DEF LinksShape, LinksType, LinkRecord
<1>9. ASSUME NEW c \in rule \cup folder \cup InWork PROVE Accounted(c) => Accounted(c)'
  <2>1. c \in Link
    BY <1>0 DEF LinksShape, LinksType, InWork, LinkWork
  <2>2. conn'[c].active = conn[c].active \/ c \in history'.leftover \/ conn'[c].active
    <3>1. ASSUME conn'[c].active = RestoredLinks(e)[c].active, ~conn'[c].active,
                 Unaccounted(e) \subseteq history'.leftover, conn'[c].active # conn[c].active
          PROVE  c \in history'.leftover
      <4>1. c \in Touching(e)
        BY <2>1, <3>1 DEF RestoredLinks
      <4> QED BY <3>1, <4>1 DEF Unaccounted
    <3> QED BY <1>7, <2>1, <3>1
  <2> QED BY <1>0, <1>4, <1>6, <2>1, <2>2, StaysAccounted
<1> QED BY <1>1, <1>2, <1>6, <1>8, <1>9, EnvironmentKeeps

\* A command on a connection: environments stay as they are.
LEMMA LinkShapeKept ==
  ASSUME LinksShape, UNCHANGED <<status, alive, stale, moving, kept>>, op' \in {Free} \cup LinkWork,
         conn' \in [Link -> LinkRecord], rule' \subseteq Link, folder' \subseteq Link, owed' \subseteq owed,
         history' \in [sound : BOOLEAN, calm : BOOLEAN, leftover : SUBSET Link]
  PROVE  LinksShape'
BY DEF LinksShape, LinksType, LinkRecord

\* A reconciliation that begins has to do all that is due.
LEMMA ReconcileBegins ==
  ASSUME ConnectionsConstants, LinksInv, BeginReconcile(Todo(conn')),
         UNCHANGED <<status, alive, stale, moving, rule, folder, kept>>, owed' \subseteq owed,
         conn' \in [Link -> LinkRecord], ~(op # Free /\ op.do = "create"),
         \A c \in rule \cup folder : conn[c].active => conn'[c].active
  PROVE  LinksInv'
<1> DEFINE todo == Todo(conn')
<1>0. LinksShape /\ history \in [sound : BOOLEAN, calm : BOOLEAN, leftover : SUBSET Link]
      /\ rule \subseteq Link /\ folder \subseteq Link
  BY DEF LinksInv, LinksShape, LinksType
<1>1. todo = {c \in Link : Due(c)'}
  BY DEF Todo, Due, Running
<1> HIDE DEF todo
<1>2. todo = {} => op' = Free
  BY DEF BeginReconcile, Reconciling, todo
<1>3. todo # {} => /\ op' \in LinkWork /\ op' # Free /\ op'.do = "reconcile" /\ op'.todo = todo
                   /\ op'.now \in todo /\ op'.at = "rule"
  <2> SUFFICES ASSUME todo # {}
               PROVE /\ op' \in LinkWork /\ op' # Free /\ op'.do = "reconcile" /\ op'.todo = todo
                     /\ op'.now \in todo /\ op'.at = "rule"
    OBVIOUS
  <2>1. PICK c \in todo : op' = [do |-> "reconcile", todo |-> todo, now |-> c, at |-> "rule", ok |-> FALSE]
    BY DEF BeginReconcile, Reconciling, todo
  <2>2. c \in Link /\ todo \subseteq Link
    BY <1>1
  <2>3. op' \in LinkWork /\ op'.do = "reconcile" /\ op'.todo = todo /\ op'.now \in todo /\ op'.at = "rule"
    BY <2>1, <2>2 DEF LinkWork
  <2>4. Free.do = "free"
    BY DEF Free
  <2> QED BY <2>3, <2>4
<1>4. /\ history' \in [sound : BOOLEAN, calm : BOOLEAN, leftover : SUBSET Link]
      /\ history'.leftover = history.leftover /\ (history'.sound => todo = {})
  BY <1>0 DEF BeginReconcile, todo
<1>5. LinksShape'
  <2>1. op' \in {Free} \cup LinkWork
    BY <1>2, <1>3
  <2> QED BY <1>0, <1>4, <2>1, LinkShapeKept
<1>6. WorkInv'
  BY <1>2, <1>3 DEF WorkInv
<1>7. \A c \in rule \cup folder : Accounted(c)'
  BY <1>0, <1>4 DEF LinksInv, RulesInv, InMaking, Accounted
<1>8. RulesInv'
  <2>1. \A c \in todo : Accounted(c)'
    BY <1>1 DEF Due, Accounted
  <2> QED BY <1>2, <1>3, <1>7, <2>1 DEF RulesInv
<1>9. SoundInv'
  BY <1>1, <1>2, <1>4 DEF SoundInv
<1>10. CalmInv'
  BY <1>1, <1>2, <1>3 DEF CalmInv
<1> QED BY <1>5, <1>6, <1>8, <1>9, <1>10 DEF LinksInv

LEMMA CommandStep ==
  ASSUME ConnectionsConstants, LinksInv,
         \/ \E e \in Env : Reconcile(e)
         \/ RecordWithdrawn
         \/ \E c \in Link : CreateConnection(c) \/ Activate(c) \/ WithdrawFails(c)
         \/ \E c \in Link, do \in {"off", "delete"} : Withdraw(c, do)
  PROVE  LinksInv'
<1>0. /\ LinksShape /\ conn \in [Link -> LinkRecord] /\ rule \subseteq Link /\ folder \subseteq Link
      /\ history \in [sound : BOOLEAN, calm : BOOLEAN, leftover : SUBSET Link] /\ op \in {Free} \cup LinkWork
      /\ Free.do = "free"
  BY DEF LinksInv, LinksShape, LinksType, LinkRecord, Free
<1>1. ASSUME NEW e \in Env, Reconcile(e) PROVE LinksInv'
  <2>1. /\ UNCHANGED <<status, alive, stale, moving, rule, folder, kept, conn>> /\ owed' \subseteq owed
        /\ op = Free /\ BeginReconcile(Todo(conn))
    BY <1>1 DEF Reconcile, machines, engines
  <2>2. Todo(conn) = Todo(conn')
    BY <2>1
  <2> QED BY <1>0, <2>1, <2>2, ReconcileBegins
<1>2. ASSUME NEW c \in Link, Activate(c) PROVE LinksInv'
  <2>1. /\ UNCHANGED <<status, alive, stale, moving, rule, folder, kept, owed>>
        /\ op = Free /\ BeginReconcile(Todo(conn'))
        /\ conn' = [conn EXCEPT ![c] = [active |-> TRUE, enf |-> "pending"]]
    BY <1>2 DEF Activate, machines, engines
  <2>2. conn' \in [Link -> LinkRecord] /\ \A d \in Link : conn[d].active => conn'[d].active
    BY <1>0, <2>1 DEF LinkRecord
  <2> QED BY <1>0, <2>1, <2>2, ReconcileBegins
<1>3. ASSUME NEW c \in Link, NEW do \in {"off", "delete"}, Withdraw(c, do) PROVE LinksInv'
  <2>1. /\ UNCHANGED <<status, alive, stale, moving, conn, owed, kept, history>> /\ op = Free
        /\ rule' = rule \ {c} /\ folder' = folder \ {c}
        /\ op' = [do |-> do, todo |-> {c}, now |-> c, at |-> "record", ok |-> TRUE]
    BY <1>3 DEF Withdraw, machines
  <2>2. op' \in LinkWork /\ op' # Free /\ op'.do = do /\ op'.todo = {c} /\ op'.now = c /\ op'.at = "record"
    <3>1. op' \in LinkWork /\ op'.do = do /\ op'.todo = {c} /\ op'.now = c /\ op'.at = "record"
      BY <2>1 DEF LinkWork
    <3> QED BY <1>0, <3>1
  <2>3. LinksShape'
    BY <1>0, <2>1, <2>2, LinkShapeKept
  <2>4. WorkInv' /\ CalmInv'
    BY <2>2 DEF WorkInv, CalmInv
  <2>5. RulesInv'
    BY <1>0, <2>1, <2>2 DEF LinksInv, RulesInv, Accounted, InMaking
  <2>6. ASSUME NEW d \in Link, d # c PROVE (Due(d)' <=> Due(d)) /\ (Settled(d)' <=> Settled(d))
    BY <2>1, <2>6 DEF Due, Settled, InForce, Running
  <2>7. SoundInv'
    BY <1>0, <2>1, <2>2, <2>6 DEF LinksInv, SoundInv
  <2> QED BY <2>3, <2>4, <2>5, <2>7 DEF LinksInv
<1>4. ASSUME NEW c \in Link, CreateConnection(c) PROVE LinksInv'
  <2>1. /\ UNCHANGED <<status, alive, stale, moving, rule, folder, owed, kept, history>> /\ op = Free /\ conn[c] = None
    BY <1>4 DEF CreateConnection, HasRecord, machines, engines
  <2>2. conn[c].active = FALSE
    BY <2>1 DEF None
  <2>3. CASE \A e \in Joined[c] : Running(e)
    <3>1. op' = [do |-> "create", todo |-> {c}, now |-> c, at |-> "rule", ok |-> FALSE] /\ conn' = conn
      BY <1>4, <2>3 DEF CreateConnection
    <3>2. op' \in LinkWork /\ op' # Free /\ op'.do = "create" /\ op'.todo = {c} /\ op'.now = c /\ op'.at = "rule"
      <4>1. op' \in LinkWork /\ op'.do = "create" /\ op'.todo = {c} /\ op'.now = c /\ op'.at = "rule"
        BY <3>1 DEF LinkWork
      <4> QED BY <1>0, <4>1
    <3>3. LinksShape'
      BY <1>0, <2>1, <3>1, <3>2, LinkShapeKept
    <3>4. WorkInv' /\ CalmInv'
      BY <3>2 DEF WorkInv, CalmInv
    <3>5. RulesInv'
      BY <1>0, <2>1, <3>1, <3>2 DEF LinksInv, RulesInv, Accounted, InMaking
    <3>6. \A d \in Link : (Due(d)' <=> Due(d)) /\ (Settled(d)' <=> Settled(d))
      BY <2>1, <3>1 DEF Due, Settled, InForce, Running
    <3>7. SoundInv'
      BY <1>0, <2>1, <2>2, <3>1, <3>2, <3>6 DEF LinksInv, SoundInv
    <3> QED BY <3>3, <3>4, <3>5, <3>7 DEF LinksInv
  <2>4. CASE ~ \A e \in Joined[c] : Running(e)
    <3>1. op' = op /\ conn' = [conn EXCEPT ![c] = [active |-> TRUE, enf |-> "pending"]]
      BY <1>4, <2>4 DEF CreateConnection
    <3>2. conn' \in [Link -> LinkRecord] /\ conn'[c].active /\ \A d \in Link : d # c => conn'[d] = conn[d]
      BY <1>0, <3>1 DEF LinkRecord
    <3>3. LinksShape'
      BY <1>0, <2>1, <3>1, <3>2, LinkShapeKept
    <3>4. WorkInv' /\ CalmInv'
      BY <2>1, <3>1 DEF WorkInv, CalmInv
    <3>5. RulesInv'
      BY <1>0, <2>1, <3>1, <3>2 DEF LinksInv, RulesInv, Accounted, InMaking
    <3>6. ~Due(c)'
      BY <2>1, <2>4 DEF Due, Running
    <3>7. ASSUME NEW d \in Link, d # c PROVE (Due(d)' <=> Due(d)) /\ (Settled(d)' <=> Settled(d))
      BY <2>1, <3>2, <3>7 DEF Due, Settled, InForce, Running
    <3>8. SoundInv'
      BY <1>0, <2>1, <3>1, <3>6, <3>7 DEF LinksInv, SoundInv
    <3> QED BY <3>3, <3>4, <3>5, <3>8 DEF LinksInv
  <2> QED BY <2>3, <2>4
<1>5. CASE RecordWithdrawn
  <2>1. /\ UNCHANGED <<status, alive, stale, moving, rule, folder, owed, kept>> /\ op # Free /\ op.at = "record"
        /\ op.do \in {"off", "delete"} /\ op.now \in Link /\ op.now \notin rule \cup folder
    BY <1>0, <1>5 DEF RecordWithdrawn, machines, engines, LinksInv, WorkInv, RulesInv, LinkWork
  <2>2. CASE BeginReconcile(Todo(conn)) /\ UNCHANGED conn
    <3>1. Todo(conn) = Todo(conn')
      BY <2>2
    <3> QED BY <1>0, <2>1, <2>2, <3>1, ReconcileBegins
  <2>3. CASE /\ op' = Free /\ UNCHANGED history
             /\ conn' = [conn EXCEPT ![op.now] =
                  IF op.do = "delete" THEN None ELSE [active |-> FALSE, enf |-> "pending"]]
    <3>0. PICK c \in Link : c = op.now
      BY <2>1
    <3>1. /\ conn' \in [Link -> LinkRecord] /\ conn'[c].active = FALSE
          /\ \A d \in Link : d # c => conn'[d] = conn[d]
      BY <1>0, <2>1, <2>3, <3>0 DEF LinkRecord, None
    <3>2. LinksShape'
      BY <1>0, <2>1, <2>3, <3>1, LinkShapeKept
    <3>3. WorkInv' /\ CalmInv'
      BY <2>3 DEF WorkInv, CalmInv
    <3>4. \A d \in rule \cup folder : d # c /\ d \in Link
      BY <1>0, <2>1, <3>0
    <3>5. RulesInv'
      BY <2>1, <2>3, <3>1, <3>4 DEF LinksInv, RulesInv, Accounted, InMaking
    <3>6. ~Due(c)'
      BY <3>1 DEF Due
    <3>7. ASSUME NEW d \in Link, d # c PROVE (Due(d)' <=> Due(d)) /\ (Settled(d)' <=> Settled(d))
      BY <2>1, <3>1, <3>7 DEF Due, Settled, InForce, Running
    <3>8. SoundInv'
      BY <2>1, <2>3, <3>0, <3>6, <3>7 DEF LinksInv, SoundInv
    <3> QED BY <3>2, <3>3, <3>5, <3>8 DEF LinksInv
  <2> QED BY <1>5, <2>2, <2>3 DEF RecordWithdrawn
<1>6. ASSUME NEW c \in Link, WithdrawFails(c) PROVE LinksInv'
  <2>1. /\ UNCHANGED <<status, alive, stale, moving, conn, op, owed, kept>> /\ op = Free
        /\ rule' \subseteq rule /\ folder' \subseteq folder
        /\ history' \in [sound : BOOLEAN, calm : BOOLEAN, leftover : SUBSET Link]
        /\ history'.sound = FALSE /\ history'.leftover = history.leftover
    BY <1>0, <1>6 DEF WithdrawFails, machines
  <2>2. LinksShape'
    BY <1>0, <2>1, LinkShapeKept
  <2>3. WorkInv' /\ SoundInv' /\ CalmInv'
    BY <2>1 DEF WorkInv, SoundInv, CalmInv
  <2>4. RulesInv'
    BY <1>0, <2>1 DEF LinksInv, RulesInv, Accounted, InMaking
  <2> QED BY <2>2, <2>3, <2>4 DEF LinksInv
<1> QED BY <1>1, <1>2, <1>3, <1>4, <1>5, <1>6

(* The engines' part of a command on a connection. The connection that is being  *)
(* put into force is one that has to be done still, or that is not recorded.     *)
LEMMA ApplyKeeps ==
  ASSUME LinksInv, op # Free, NEW c \in Link, c = op.now, op.at \in {"rule", "folder"},
         UNCHANGED <<status, alive, stale, moving, conn, owed, kept>>,
         history' \in [sound : BOOLEAN, calm : BOOLEAN, leftover : SUBSET Link],
         history'.sound = history.sound, history'.calm = history.calm,
         history.leftover \subseteq history'.leftover,
         NEW at \in {"folder", "save"}, NEW ok \in BOOLEAN, op' = [op EXCEPT !.at = at, !.ok = ok],
         rule' \subseteq Link, folder' \subseteq Link,
         \A d \in Link \ {c} : (d \in rule' <=> d \in rule) /\ (d \in folder' <=> d \in folder),
         op.do = "create" /\ at = "save" /\ ~ok /\ c \in rule' \cup folder' =>
           (op.at = "rule" /\ c \in rule \cup folder) \/ c \in history'.leftover,
         (history.sound /\ op.do = "create") \/ (history.calm /\ op.do = "reconcile") =>
           /\ at = "folder" => c \in rule'
           /\ ok /\ at = "save" => c \in rule' /\ (c \in Storage \ Agent => c \in folder')
  PROVE  LinksInv'
<1>0. /\ LinksShape /\ conn \in [Link -> LinkRecord] /\ rule \subseteq Link /\ folder \subseteq Link
      /\ history \in [sound : BOOLEAN, calm : BOOLEAN, leftover : SUBSET Link]
      /\ op \in LinkWork /\ c \in Link /\ Free.do = "free"
      /\ op.do \in {"reconcile", "create"} /\ c \in op.todo
  BY DEF LinksInv, LinksShape, LinksType, LinkRecord, Free, WorkInv, LinkWork
<1>1. /\ op' \in LinkWork /\ op'.do = op.do /\ op'.todo = op.todo /\ op'.now = c /\ op'.at = at /\ op'.ok = ok
  BY <1>0 DEF LinkWork
<1>2. op' # Free
  BY <1>0, <1>1
<1>3. LinksShape'
  BY <1>0, <1>1, LinkShapeKept
<1>4. WorkInv'
  BY <1>0, <1>1, <1>2 DEF LinksInv, WorkInv
<1>5. \A d \in Link : Accounted(d) => Accounted(d)'
  BY DEF Accounted
<1>6. RulesInv'
  <2>1. ASSUME NEW d \in rule' \cup folder', d # c PROVE Accounted(d)'
    BY <1>0, <1>5, <2>1 DEF LinksInv, RulesInv, InMaking
  <2>2. ASSUME c \in rule' \cup folder' PROVE Accounted(c)' \/ InMaking(c)'
    <3>1. CASE op.do = "reconcile"
      BY <1>0, <1>5, <3>1 DEF LinksInv, RulesInv
    <3>2. CASE op.do = "create" /\ (at = "folder" \/ ok)
      BY <1>1, <1>2, <3>2 DEF InMaking
    <3>3. CASE op.do = "create" /\ at = "save" /\ ~ok
      <4>1. CASE op.at = "rule" /\ c \in rule \cup folder
        BY <1>0, <1>5, <4>1 DEF LinksInv, RulesInv, InMaking
      <4>2. CASE c \in history'.leftover
        BY <4>2 DEF Accounted
      <4> QED BY <2>2, <3>3, <4>1, <4>2
    <3> QED BY <1>0, <3>1, <3>2, <3>3
  <2>3. op'.do = "reconcile" => \A d \in op'.todo : Accounted(d)'
    BY <1>0, <1>1, <1>5 DEF LinksInv, RulesInv, LinkWork
  <2> QED BY <1>1, <1>2, <2>1, <2>2, <2>3 DEF RulesInv
<1>7. ASSUME NEW d \in Link, d # c PROVE (Due(d)' <=> Due(d)) /\ (Settled(d)' <=> Settled(d))
  BY <1>7 DEF Due, Settled, InForce, Running
<1>8. (history.sound /\ op.do = "create") \/ (history.calm /\ op.do = "reconcile") =>
        (at = "folder" => c \in rule') /\ (at = "save" /\ ok => InForce(c)')
  BY DEF InForce
<1>9. (InForce(op.now))' <=> InForce(c)'
  BY <1>1 DEF InForce
<1>10. ASSUME history.sound PROVE op.do = "create" /\ ~conn[c].active
  BY <1>0, <1>10 DEF LinksInv, SoundInv
<1>11. SoundInv'
  <2> SUFFICES ASSUME history.sound PROVE SoundInv'
    BY DEF SoundInv
  <2>1. ~Due(c)'
    BY <1>10 DEF Due
  <2>2. \A d \in Link : Due(d) => Settled(d)
    BY <1>10 DEF LinksInv, SoundInv
  <2>3. \A d \in Link : Due(d)' => Settled(d)'
    BY <1>7, <2>1, <2>2
  <2> QED BY <1>1, <1>8, <1>9, <1>10, <2>3 DEF SoundInv
<1>12. CalmInv'
  <2> SUFFICES ASSUME history.calm, op.do = "reconcile" PROVE CalmInv'
    BY <1>1 DEF CalmInv
  <2>1. \A d \in Link : Due(d) => d \in op.todo \/ Settled(d)
    BY DEF LinksInv, CalmInv
  <2>2. \A d \in Link : Due(d)' => d \in op.todo \/ Settled(d)'
    BY <1>0, <1>7, <2>1
  <2> QED BY <1>1, <1>8, <1>9, <2>2 DEF CalmInv
<1> QED BY <1>3, <1>4, <1>6, <1>11, <1>12 DEF LinksInv

LEMMA ApplyStep ==
  ASSUME LinksInv, ApplyRule \/ ApplyAgentRule \/ ApplyFolder
  PROVE  LinksInv'
<1>0. rule \subseteq Link /\ folder \subseteq Link /\ op # Free /\ op \in LinkWork /\ op.now \in Link
      /\ UNCHANGED <<status, alive, stale, moving, conn, owed, kept>> /\ op.ok \in BOOLEAN
      /\ history \in [sound : BOOLEAN, calm : BOOLEAN, leftover : SUBSET Link]
  BY DEF LinksInv, LinksShape, LinksType, LinkWork, ApplyRule, ApplyAgentRule, ApplyFolder, machines
<1>a. PICK c \in Link : c = op.now
  BY <1>0
<1>1. CASE ApplyRule
  <2>1. op.at = "rule" /\ c \notin Agent /\ folder' = folder /\ history' = history
    BY <1>1, <1>a DEF ApplyRule
  <2>2. CASE rule' = rule \cup {c} /\ op' = [op EXCEPT !.at = "folder"]
    <3>1. op' = [op EXCEPT !.at = "folder", !.ok = op.ok]
      BY <1>0, <1>a, <2>2 DEF LinkWork
    <3> QED BY <1>0, <1>a, <2>1, <2>2, <3>1, ApplyKeeps
  <2>3. CASE op' = [op EXCEPT !.at = "save", !.ok = FALSE] /\ UNCHANGED rule
    BY <1>0, <1>a, <2>1, <2>3, ApplyKeeps
  <2> QED BY <1>1, <1>a, <2>2, <2>3 DEF ApplyRule
<1>2. CASE ApplyAgentRule
  <2>1. op.at = "rule" /\ c \in Agent /\ folder' = folder
    BY <1>2, <1>a DEF ApplyAgentRule
  <2>2. CASE rule' = rule \cup {c} /\ op' = [op EXCEPT !.at = "save", !.ok = TRUE] /\ UNCHANGED history
    BY <1>0, <1>a, <2>1, <2>2, ApplyKeeps
  <2>3. CASE /\ op' = [op EXCEPT !.at = "save", !.ok = FALSE]
             /\ rule' \in {rule, rule \ {c}} /\ UNCHANGED history
    BY <1>0, <1>a, <2>1, <2>3, ApplyKeeps
  <2>4. CASE /\ op' = [op EXCEPT !.at = "save", !.ok = FALSE] /\ rule' = rule \cup {c}
             /\ IF op.do = "create" THEN Left({c}) ELSE UNCHANGED history
    <3>1. /\ history' \in [sound : BOOLEAN, calm : BOOLEAN, leftover : SUBSET Link]
          /\ history'.sound = history.sound /\ history'.calm = history.calm
          /\ history.leftover \subseteq history'.leftover
          /\ op.do = "create" => c \in history'.leftover
      BY <1>0, <1>a, <2>4 DEF Left
    <3> QED BY <1>0, <1>a, <2>1, <2>4, <3>1, ApplyKeeps
  <2> QED BY <1>2, <1>a, <2>2, <2>3, <2>4 DEF ApplyAgentRule
<1>3. CASE ApplyFolder
  <2>1. op.at = "folder" /\ history' = history
    BY <1>3, <1>a DEF ApplyFolder
  <2>2. CASE /\ folder' = IF c \in Storage THEN folder \cup {c} ELSE folder \ {c}
             /\ op' = [op EXCEPT !.at = "save", !.ok = TRUE] /\ UNCHANGED rule
    <3>1. (history.sound /\ op.do = "create") \/ (history.calm /\ op.do = "reconcile") => c \in rule
      BY <1>0, <1>a, <2>1 DEF LinksInv, SoundInv, CalmInv
    <3> QED BY <1>0, <1>a, <2>1, <2>2, <3>1, ApplyKeeps
  <2>3. CASE /\ folder' = folder \ {c} /\ rule' = rule \ {c}
             /\ op' = [op EXCEPT !.at = "save", !.ok = FALSE]
    BY <1>0, <1>a, <2>1, <2>3, ApplyKeeps
  <2> QED BY <1>3, <1>a, <2>2, <2>3 DEF ApplyFolder
<1> QED BY <1>1, <1>2, <1>3

\* The result of what a command did is recorded.
LEMMA SaveStep ==
  ASSUME ConnectionsConstants, LinksInv, ReconcileSave \/ CreateSave
  PROVE  LinksInv'
<1>0. /\ LinksShape /\ conn \in [Link -> LinkRecord] /\ rule \subseteq Link /\ folder \subseteq Link
      /\ history \in [sound : BOOLEAN, calm : BOOLEAN, leftover : SUBSET Link]
      /\ op # Free /\ op \in LinkWork /\ op.now \in Link /\ Free.do = "free" /\ op.todo \subseteq Link
      /\ op.now \in op.todo /\ op.at = "save"
      /\ UNCHANGED <<status, alive, stale, moving, owed, kept>>
  BY DEF LinksInv, LinksShape, LinksType, LinkRecord, Free, WorkInv, LinkWork, ReconcileSave, CreateSave, machines
<1>a. PICK c \in Link : c = op.now
  BY <1>0
<1>1. CASE ReconcileSave /\ op' = Free /\ UNCHANGED <<conn, history>>
  <2>1. op.do = "reconcile" /\ UNCHANGED <<rule, folder>>
    BY <1>1 DEF ReconcileSave, engines
  <2>2. ~history.sound
    BY <1>0, <2>1 DEF LinksInv, SoundInv
  <2>3. LinksShape'
    BY <1>0, <1>1, <2>1, LinkShapeKept
  <2>4. WorkInv' /\ CalmInv' /\ SoundInv'
    BY <1>1, <2>2 DEF WorkInv, CalmInv, SoundInv
  <2>5. RulesInv'
    BY <1>0, <1>1, <2>1 DEF LinksInv, RulesInv, Accounted, InMaking
  <2> QED BY <2>3, <2>4, <2>5 DEF LinksInv
<1>2. CASE /\ ReconcileSave
           /\ conn' = IF HasRecord(c)
                      THEN [conn EXCEPT ![c].enf = IF op.ok THEN "enforced" ELSE "error"] ELSE conn
           /\ op' \in IF op.ok THEN Reconciling(op.todo \ {c}) ELSE {Free}
           /\ history' = [history EXCEPT !.sound = history.calm /\ op.ok /\ op.todo = {c}]
  <2> DEFINE rest == op.todo \ {c}
  <2>1. op.do = "reconcile" /\ UNCHANGED <<rule, folder>>
    BY <1>2 DEF ReconcileSave, engines
  <2>2. /\ conn' \in [Link -> LinkRecord] /\ \A d \in Link : conn'[d].active = conn[d].active
        /\ \A d \in Link : d # c => conn'[d] = conn[d]
        /\ conn[c].active /\ op.ok => conn'[c].enf = "enforced"
    <3>1. conn[c].active => HasRecord(c)
      BY DEF HasRecord, None
    <3> QED BY <1>0, <1>2, <3>1 DEF LinkRecord
  <2>3. /\ history' \in [sound : BOOLEAN, calm : BOOLEAN, leftover : SUBSET Link]
        /\ history'.leftover = history.leftover /\ history'.calm = history.calm
        /\ history'.sound => history.calm /\ op.ok /\ rest = {}
    BY <1>0, <1>2
  <2> HIDE DEF rest
  <2>4. /\ ~op.ok \/ rest = {} => op' = Free
        /\ op.ok /\ rest # {} =>
             /\ op' \in LinkWork /\ op' # Free /\ op'.do = "reconcile" /\ op'.todo = rest
             /\ op'.now \in rest /\ op'.at = "rule"
    <3>1. CASE ~op.ok \/ rest = {}
      BY <1>2, <3>1 DEF Reconciling, rest
    <3>2. CASE op.ok /\ rest # {}
      <4>1. PICK d \in rest : op' = [do |-> "reconcile", todo |-> rest, now |-> d, at |-> "rule", ok |-> FALSE]
        BY <1>2, <3>2 DEF Reconciling, rest
      <4>2. d \in Link /\ rest \subseteq Link
        BY <1>0 DEF rest
      <4>3. op' \in LinkWork /\ op'.do = "reconcile" /\ op'.todo = rest /\ op'.now \in rest /\ op'.at = "rule"
        BY <4>1, <4>2 DEF LinkWork
      <4> QED BY <1>0, <3>2, <4>3
    <3> QED BY <1>0, <3>1, <3>2 DEF LinkWork
  <2>5. LinksShape'
    <3>1. op' \in {Free} \cup LinkWork
      BY <2>4
    <3> QED BY <1>0, <2>1, <2>2, <2>3, <3>1, LinkShapeKept
  <2>6. WorkInv'
    BY <2>4 DEF WorkInv
  <2>7. RulesInv'
    <3>1. \A d \in Link : Accounted(d)' <=> Accounted(d)
      BY <1>0, <2>2, <2>3 DEF Accounted
    <3>2. \A d \in rule \cup folder \cup op.todo : Accounted(d)
      BY <1>0, <2>1 DEF LinksInv, RulesInv, InMaking
    <3>3. \A d \in rule' \cup folder' \cup rest : Accounted(d)'
      BY <1>0, <2>1, <3>1, <3>2 DEF rest
    <3> QED BY <2>4, <3>3 DEF RulesInv
  <2>8. ASSUME history.calm, op.ok, NEW d \in Link, Due(d)' PROVE d \in rest \/ Settled(d)'
    <3>1. Due(d)
      BY <1>0, <2>2, <2>8 DEF Due, Running
    <3>2. CASE d # c
      <4>1. d \in op.todo \/ Settled(d)
        BY <1>0, <2>1, <2>8, <3>1 DEF LinksInv, CalmInv
      <4> QED BY <2>1, <2>2, <3>2, <4>1 DEF Settled, InForce, rest
    <3>3. CASE d = c
      <4>1. InForce(c)
        BY <1>0, <1>a, <2>1, <2>8 DEF LinksInv, CalmInv
      <4> QED BY <2>1, <2>2, <2>8, <3>1, <3>3, <4>1 DEF Settled, InForce, Due
    <3> QED BY <3>2, <3>3
  <2>9. SoundInv'
    <3> SUFFICES ASSUME history'.sound PROVE SoundInv'
      BY DEF SoundInv
    <3> QED BY <2>3, <2>4, <2>8 DEF SoundInv
  <2>10. CalmInv'
    <3> SUFFICES ASSUME history'.calm, op' # Free PROVE CalmInv'
      BY DEF CalmInv
    <3>1. op.ok /\ rest # {}
      BY <1>0, <2>4 DEF LinkWork
    <3> QED BY <2>3, <2>4, <2>8, <3>1 DEF CalmInv
  <2> QED BY <2>5, <2>6, <2>7, <2>9, <2>10 DEF LinksInv
<1>3. CASE CreateSave
  <2>1. op.do = "create" /\ op' = Free /\ op.todo = {c}
    BY <1>0, <1>3, <1>a DEF CreateSave, LinksInv, WorkInv
  <2>2. /\ conn' \in [Link -> LinkRecord] /\ \A d \in Link : d # c => conn'[d] = conn[d]
        /\ conn' = conn \/ (op.ok /\ conn'[c].active /\ conn'[c].enf = "enforced" /\ UNCHANGED <<rule, folder>>)
    <3>1. CASE conn' = conn
      BY <1>0, <3>1
    <3>2. CASE /\ op.ok /\ UNCHANGED <<rule, folder>>
               /\ conn' = [conn EXCEPT ![c] = [active |-> TRUE, enf |-> "enforced"]]
      BY <1>0, <3>2 DEF LinkRecord
    <3> QED BY <1>3, <1>a, <3>1, <3>2 DEF CreateSave, engines
  <2>3. /\ rule' \subseteq rule /\ folder' \subseteq folder /\ folder' \subseteq Link /\ rule' \subseteq Link
        /\ \A d \in Link : d # c => (d \in rule' <=> d \in rule) /\ (d \in folder' <=> d \in folder)
    BY <1>0, <1>3, <1>a DEF CreateSave, engines
  <2>4. /\ history' \in [sound : BOOLEAN, calm : BOOLEAN, leftover : SUBSET Link]
        /\ history.leftover \subseteq history'.leftover /\ history'.sound = history.sound
    BY <1>0, <1>3, <1>a DEF CreateSave, Left
  <2>5. LinksShape'
    BY <1>0, <2>1, <2>2, <2>3, <2>4, LinkShapeKept
  <2>6. WorkInv' /\ CalmInv'
    BY <2>1 DEF WorkInv, CalmInv
  <2>7. ASSUME NEW d \in rule' \cup folder' PROVE Accounted(d)'
    <3>1. CASE d # c
      <4>1. Accounted(d)
        BY <1>0, <1>a, <2>3, <3>1 DEF LinksInv, RulesInv, InMaking
      <4> QED BY <1>0, <2>2, <2>3, <2>4, <3>1, <4>1 DEF Accounted
    <3>2. CASE d = c /\ ~op.ok
      <4>1. Accounted(d) /\ conn' = conn
        BY <1>0, <2>2, <2>3, <3>2 DEF LinksInv, RulesInv, InMaking
      <4> QED BY <1>0, <2>4, <4>1 DEF Accounted
    <3>3. CASE d = c /\ op.ok
      <4>1. \/ conn'[c].active \/ c \notin rule' \cup folder'
            \/ history' = [history EXCEPT !.leftover = @ \cup {c}]
        BY <1>0, <1>3, <1>a, <3>3 DEF CreateSave, Left
      <4> QED BY <1>0, <2>7, <3>3, <4>1 DEF Accounted
    <3> QED BY <3>1, <3>2, <3>3
  <2>8. RulesInv'
    BY <2>1, <2>7 DEF RulesInv
  <2>9. SoundInv'
    <3> SUFFICES ASSUME history.sound PROVE SoundInv'
      BY <2>4 DEF SoundInv
    <3>1. ~conn[c].active /\ (op.ok => InForce(c)) /\ \A d \in Link : Due(d) => Settled(d)
      BY <1>0, <1>a, <2>1 DEF LinksInv, SoundInv
    <3>2. ASSUME NEW d \in Link, Due(d)' PROVE Settled(d)'
      <4>1. CASE d # c
        <5>1. Due(d)
          BY <1>0, <2>2, <3>2, <4>1 DEF Due, Running
        <5> QED BY <2>2, <2>3, <3>1, <4>1, <5>1 DEF Settled, InForce
      <4>2. CASE d = c
        BY <2>2, <3>1, <3>2, <4>2 DEF Settled, InForce, Due
      <4> QED BY <4>1, <4>2
    <3> QED BY <2>1, <3>2 DEF SoundInv
  <2> QED BY <2>5, <2>6, <2>8, <2>9 DEF LinksInv
<1> QED BY <1>1, <1>2, <1>3, <1>a DEF ReconcileSave

\* The application starts again, or a snapshot is taken, or nothing happens.
LEMMA RestartStep ==
  ASSUME ConnectionsConstants, LinksInv, Restart
  PROVE  LinksInv'
<1>0. LinksShape /\ conn \in [Link -> LinkRecord]
  BY DEF LinksInv, LinksShape, LinksType, LinkRecord
<1>1. /\ status' \in [Env -> {"running", "stopped", "gone"}] /\ conn' \in [Link -> LinkRecord]
      /\ alive' = {} /\ stale' = {} /\ moving' = [e \in Env |-> "none"] /\ rule' = {} /\ folder' = {} /\ op' = Free
      /\ owed' = {} /\ kept' = kept /\ history' = [sound |-> FALSE, calm |-> FALSE, leftover |-> {}]
  BY <1>0 DEF Restart, LinkRecord, None, LinksShape, LinksType
<1>2. LinksShape'
  BY <1>0, <1>1 DEF LinksShape, LinksType, LinkRecord
<1> QED BY <1>1, <1>2 DEF LinksInv, WorkInv, RulesInv, SoundInv, CalmInv

LEMMA UnmovedStep ==
  ASSUME LinksInv, UNCHANGED <<status, alive, stale, moving, conn, rule, folder, op, owed, history>>,
         kept' \in [of : SUBSET Env, conn : [Link -> LinkRecord]]
  PROVE  LinksInv'
BY DEF LinksInv, LinksShape, LinksType, WorkInv, RulesInv, SoundInv, CalmInv, Accounted, InMaking, Due, Settled,
       InForce, Running

LEMMA LinksStep ==
  ASSUME ConnectionsConstants, LinksInv, [LinksNext]_linksVars
  PROVE  LinksInv'
<1>1. CASE UNCHANGED linksVars
  BY <1>1, UnmovedStep DEF linksVars, LinksInv, LinksShape
<1>2. ASSUME NEW e \in Env, TakeSnapshot(e) PROVE LinksInv'
  <2>1. None \in LinkRecord /\ conn \in [Link -> LinkRecord]
    BY DEF None, LinkRecord, LinksInv, LinksShape, LinksType
  <2>2. kept' \in [of : SUBSET Env, conn : [Link -> LinkRecord]]
    BY <1>2, <2>1 DEF TakeSnapshot
  <2> QED BY <1>2, <2>2, UnmovedStep DEF TakeSnapshot, machines, engines
<1>3. CASE Restart \/ ApplyRule \/ ApplyAgentRule \/ ApplyFolder \/ ReconcileSave \/ CreateSave \/ RecordWithdrawn
  BY <1>3, RestartStep, ApplyStep, SaveStep, CommandStep
<1>4. ASSUME \/ \E c \in Link : CreateConnection(c) \/ Activate(c) \/ WithdrawFails(c)
             \/ \E c \in Link, do \in {"off", "delete"} : Withdraw(c, do)
      PROVE  LinksInv'
  BY <1>4, CommandStep
<1>5. ASSUME NEW e \in Env,
             \/ Reconcile(e) \/ Start(e) \/ StartSave(e) \/ Stop(e) \/ StopSave(e) \/ CrashGuest(e)
             \/ Notice(e) \/ Refresh(e) \/ DeleteRules(e) \/ DeleteEngine(e) \/ DeleteSave(e)
             \/ RestoreSnapshot(e) \/ RestoreRules(e) \/ RestoreSave(e)
      PROVE  LinksInv'
  BY <1>5, CommandStep, EnvironmentStep, RestoreStep
<1> QED BY <1>1, <1>2, <1>3, <1>4, <1>5 DEF LinksNext

(* No rule and no folder outlives its connection but where a restore replaced    *)
(* its record or an engine did not answer, and what a reconciliation put into    *)
(* force stays so until an environment changes or an engine does not answer, for *)
(* any environments and connections (commands.rs).                               *)
THEOREM ConnectionsKept ==
  ASSUME ConnectionsConstants
  PROVE  LinksSpec => [](LinksType /\ NoLeftoverRule /\ ReconciledInForce)
<1>1. LinksInv => LinksType /\ NoLeftoverRule /\ ReconciledInForce
  <2> SUFFICES ASSUME LinksInv PROVE LinksType /\ NoLeftoverRule /\ ReconciledInForce
    OBVIOUS
  <2>1. NoLeftoverRule
    <3>1. ASSUME op = Free, NEW c \in rule \cup folder PROVE Accounted(c)
      BY <3>1 DEF LinksInv, RulesInv, InMaking
    <3> QED BY <3>1, Zenon DEF NoLeftoverRule, Quiet, Accounted
  <2>2. ReconciledInForce
    BY DEF LinksInv, SoundInv, ReconciledInForce, Due, Settled
  <2> QED BY <2>1, <2>2 DEF LinksInv, LinksShape
<1> QED BY <1>1, LinksInitial, LinksStep, PTL DEF LinksSpec
-------------------------------------------------------------------------------
(* The machine of the containers (Appliance). How far the application is with    *)
(* its machine: a disk that another process has is left alone, and a disk that   *)
(* is prepared is of the installed base.                                         *)
RunInv ==
    /\ app = "down" => boot = "idle" /\ reclaim = "none" /\ ~own /\ ~died
    /\ own => boot \in {"idle", "wait"}
    /\ boot = "wait" => own
    /\ died => ~own /\ boot = "idle"
    /\ orphan => ~own /\ ~died /\ boot \in {"idle", "external"} /\ reclaim # "replace"
    /\ boot \in {"prepare", "create", "mark", "commit"} => ~prepared

\* The overlay is of the installed base wherever it is used, and a marker that names
\* that base does so truthfully.
BaseInv ==
    /\ overlay.base = 0 => overlay = NoDisk
    /\ orphan => overlay.base # 0
    /\ own \/ died \/ reclaim = "replace" \/ boot \in {"mark", "commit", "grow", "spawn"} =>
         overlay.base = base
    /\ prepared /\ app = "up" => overlay.base = base
    /\ \A m \in {marker, previous} :
         /\ m.base <= base
         /\ m.base = base /\ overlay # NoDisk => overlay.base = base

\* No marker fits a disk that a machine writes to; one that fits a disk in rest tells the
\* truth, or the disk was recorded by a run whose machine had died or been killed.
FitInv ==
    /\ own \/ orphan => ~marker.fits /\ ~previous.fits
    /\ boot \in {"mark", "commit"} => overlay.sound
    /\ \A m \in {marker, previous} : m.fits /\ overlay # NoDisk => overlay.sound \/ unsure

\* The lease of a reclamation is exclusive.
LeaseInv ==
    /\ reclaim # "none" => lease = NoLease
    /\ reclaim \in {"stop", "replace"} => live = {}
    /\ reclaim \in {"stop", "replace"} => boot = "idle"
    /\ reclaim = "replace" => ~own /\ ~died

ApplianceInv == ApplianceType /\ RunInv /\ BaseInv /\ FitInv /\ LeaseInv

LEMMA ApplianceInitial == ASSUME ApplianceConstants, ApplianceInit PROVE ApplianceInv
<1> USE DEF ApplianceConstants, ApplianceInit
<1>1. ApplianceType
  BY DEF ApplianceType, NoDisk, NoMarker, NoLease
<1>2. RunInv /\ LeaseInv
  BY DEF RunInv, LeaseInv
<1>3. BaseInv
  BY DEF BaseInv, NoDisk, NoMarker
<1>4. FitInv
  BY DEF FitInv, NoDisk, NoMarker
<1> QED BY <1>1, <1>2, <1>3, <1>4 DEF ApplianceInv

LEMMA NoneIs ==
  ASSUME ApplianceConstants
  PROVE  /\ NoMarker.base = 0 /\ ~NoMarker.fits /\ NoDisk.base = 0
         /\ NoMarker \in [base : 0..MaxBases, fits : BOOLEAN]
         /\ NoDisk \in [base : 0..MaxBases, sound : BOOLEAN]
         /\ NoLease \in [Container -> {"none", "held", "sent"}]
  BY DEF ApplianceConstants, NoMarker, NoDisk, NoLease

LEMMA DiskWith ==
  ASSUME NEW d \in [base : 0..MaxBases, sound : BOOLEAN], NEW b \in BOOLEAN
  PROVE  /\ [d EXCEPT !.sound = b] \in [base : 0..MaxBases, sound : BOOLEAN]
         /\ [d EXCEPT !.sound = b].base = d.base /\ [d EXCEPT !.sound = b].sound = b
  OBVIOUS

LEMMA Unfit ==
  ASSUME NEW m \in [base : 0..MaxBases, fits : BOOLEAN]
  PROVE  /\ [m EXCEPT !.fits = FALSE] \in [base : 0..MaxBases, fits : BOOLEAN]
         /\ [m EXCEPT !.fits = FALSE].base = m.base /\ ~[m EXCEPT !.fits = FALSE].fits
<1>1. ASSUME NEW b \in BOOLEAN
      PROVE  /\ [m EXCEPT !.fits = b] \in [base : 0..MaxBases, fits : BOOLEAN]
             /\ [m EXCEPT !.fits = b].base = m.base /\ [m EXCEPT !.fits = b].fits = b
  OBVIOUS
<1>2. FALSE \in BOOLEAN
  BY Zenon
<1> QED BY <1>1, <1>2, Zenon

LEMMA FitIs ==
  ASSUME NEW b \in 0..MaxBases
  PROVE  /\ [base |-> b, fits |-> TRUE] \in [base : 0..MaxBases, fits : BOOLEAN]
         /\ [base |-> b, fits |-> TRUE].base = b
  BY Zenon

LEMMA DiskIs ==
  ASSUME NEW b \in 0..MaxBases
  PROVE  /\ [base |-> b, sound |-> TRUE] \in [base : 0..MaxBases, sound : BOOLEAN]
         /\ [base |-> b, sound |-> TRUE].base = b /\ [base |-> b, sound |-> TRUE].sound
  BY Zenon

\* The disk after its machine ended, well or not.
LEMMA DiskAfter ==
  ASSUME ApplianceType, NEW clean \in BOOLEAN, overlay' = [overlay EXCEPT !.sound = clean /\ @]
  PROVE  /\ overlay' \in [base : 0..MaxBases, sound : BOOLEAN]
         /\ overlay'.base = overlay.base /\ overlay'.sound = (clean /\ overlay.sound)
<1>1. overlay \in [base : 0..MaxBases, sound : BOOLEAN] /\ (clean /\ overlay.sound) \in BOOLEAN
  BY DEF ApplianceType
<1> QED BY <1>1, DiskWith, Zenon

LEMMA DiskEnded ==
  ASSUME ApplianceType, MachineEnded
  PROVE  /\ overlay' \in [base : 0..MaxBases, sound : BOOLEAN]
         /\ overlay'.base = overlay.base
<1>1. PICK clean \in BOOLEAN : overlay' = [overlay EXCEPT !.sound = clean /\ @]
  BY Zenon DEF MachineEnded
<1> QED BY <1>1, DiskAfter, Zenon

\* The disk whose compacted copy was checked.
LEMMA DiskReplaced ==
  ASSUME ApplianceType, overlay' = [overlay EXCEPT !.sound = TRUE]
  PROVE  /\ overlay' \in [base : 0..MaxBases, sound : BOOLEAN]
         /\ overlay'.base = overlay.base /\ overlay'.sound
<1>1. overlay \in [base : 0..MaxBases, sound : BOOLEAN] /\ TRUE \in BOOLEAN
  BY Zenon DEF ApplianceType
<1> QED BY <1>1, DiskWith, Zenon

LEMMA MarkerRecorded ==
  ASSUME ApplianceConstants, ApplianceType, Record
  PROVE  /\ marker' \in [base : 0..MaxBases, fits : BOOLEAN] /\ marker'.base = base
         /\ previous' = NoMarker /\ (overlay'.sound \/ unsure') /\ (unsure => unsure')
<1>1. base \in 0..MaxBases
  BY DEF ApplianceConstants, ApplianceType
<1> QED BY <1>1, FitIs, Zenon DEF Record

LEMMA UnfitBoth ==
  ASSUME ApplianceType, marker' = [marker EXCEPT !.fits = FALSE], previous' = [previous EXCEPT !.fits = FALSE]
  PROVE  /\ {marker', previous'} \subseteq [base : 0..MaxBases, fits : BOOLEAN]
         /\ marker'.base = marker.base /\ previous'.base = previous.base
         /\ ~marker'.fits /\ ~previous'.fits
<1>1. marker \in [base : 0..MaxBases, fits : BOOLEAN] /\ previous \in [base : 0..MaxBases, fits : BOOLEAN]
  BY DEF ApplianceType
<1> QED BY <1>1, Unfit, Zenon

LEMMA ApplianceStep ==
  ASSUME ApplianceConstants, ApplianceInv, [ApplianceNext]_applianceVars
  PROVE  ApplianceInv'
<1> USE NoneIs DEF ApplianceConstants, ApplianceInv, ApplianceType, RunInv, BaseInv, FitInv, LeaseInv, runs, disk, users
<1>1. CASE LaunchRun
  BY <1>1 DEF LaunchRun
<1>2. CASE Update
  BY <1>2 DEF Update
<1>3. CASE Shutdown
  <2>1. /\ app' = "down" /\ boot' = "idle" /\ lease' = NoLease /\ reclaim' = "none" /\ active' = {}
        /\ ~own' /\ ~died' /\ UNCHANGED <<launches, base, prepared, orphan>>
    BY <1>3 DEF Shutdown, EndRun
  <2>2. live' \subseteq Container
    BY <1>3 DEF Shutdown
  <2>3. CASE (own \/ died) /\ (MachineEnded \/ overlay' = overlay) /\ Record
    <3>1. overlay' \in [base : 0..MaxBases, sound : BOOLEAN] /\ overlay'.base = overlay.base
      BY <2>3, DiskEnded
    <3>2. /\ marker' \in [base : 0..MaxBases, fits : BOOLEAN] /\ marker'.base = base
          /\ previous' = NoMarker /\ (overlay'.sound \/ unsure')
      BY <2>3, MarkerRecorded
    <3>3. overlay # NoDisk /\ overlay.base = base /\ ~orphan
      BY <2>3
    <3> QED BY <2>1, <2>2, <3>1, <3>2, <3>3
  <2>4. CASE own /\ MachineEnded /\ Unrecorded
    <3>1. overlay' \in [base : 0..MaxBases, sound : BOOLEAN] /\ overlay'.base = overlay.base
      BY <2>4, DiskEnded
    <3>2. own /\ UNCHANGED <<marker, previous, unsure>>
      BY <2>4 DEF Unrecorded
    <3> QED BY <2>1, <2>2, <3>1, <3>2
  <2>5. CASE UNCHANGED <<marker, previous, unsure, overlay>>
    BY <2>1, <2>2, <2>5
  <2> QED BY <1>3, <2>3, <2>4, <2>5 DEF Shutdown, Unrecorded
<1>4. CASE Crash
  <2>1. /\ app' = "down" /\ boot' = "idle" /\ lease' = NoLease /\ reclaim' = "none" /\ active' = {}
        /\ ~own' /\ ~died' /\ UNCHANGED <<launches, base, marker, previous, prepared, unsure>>
    BY <1>4 DEF Crash, EndRun
  <2>2. CASE orphan' = (orphan \/ own) /\ UNCHANGED <<overlay, live>>
    BY <2>1, <2>2
  <2>3. CASE own /\ MachineEnded /\ live' = {} /\ UNCHANGED orphan
    <3>1. overlay' \in [base : 0..MaxBases, sound : BOOLEAN] /\ overlay'.base = overlay.base
      BY <2>3, DiskEnded
    <3>2. own /\ live' = {} /\ orphan' = orphan
      BY <2>3
    <3> QED BY <2>1, <3>1, <3>2
  <2> QED BY <1>4, <2>2, <2>3 DEF Crash
<1>5. CASE OrphanEnds
  <2>1. overlay' \in [base : 0..MaxBases, sound : BOOLEAN] /\ overlay'.base = overlay.base
    BY <1>5, DiskEnded DEF OrphanEnds
  <2>2. /\ orphan /\ ~orphan' /\ live' = {}
        /\ UNCHANGED <<app, launches, base, marker, previous, prepared, own, died, boot, active, lease,
                       reclaim, unsure>>
    BY <1>5 DEF OrphanEnds
  <2> QED BY <2>1, <2>2
<1>5a. CASE ProcessDies
  <2>1. overlay' \in [base : 0..MaxBases, sound : BOOLEAN] /\ overlay'.base = overlay.base
    BY <1>5a, DiskEnded DEF ProcessDies
  <2>2. /\ own /\ boot = "idle" /\ ~own' /\ died' /\ live' = {} /\ died' \in BOOLEAN
        /\ UNCHANGED <<app, launches, base, marker, previous, prepared, orphan, boot, active, lease,
                       reclaim, unsure>>
    BY <1>5a DEF ProcessDies
  <2> QED BY <2>1, <2>2
<1>6. CASE Endpoint
  <2>1. /\ app = "up" /\ boot = "idle" /\ boot' = "external" /\ ~own' /\ ~died' /\ active' = {}
        /\ UNCHANGED <<app, launches, base, marker, previous, prepared, orphan, reclaim, unsure>>
    BY <1>6 DEF Endpoint
  <2>2. lease' = Answered
    BY <1>6 DEF Endpoint
  <2>3. lease' \in [Container -> {"none", "held", "sent"}]
    BY <2>2 DEF Answered
  <2>4. reclaim \notin {"stop", "replace"} /\ (reclaim # "none" => lease' = NoLease)
    BY <1>6, <2>2 DEF Endpoint, Answered, NoLease
  <2>5. live' \subseteq Container /\ (live' = live \/ live' = {})
    BY <1>6 DEF Endpoint
  <2>6. CASE ~own /\ UNCHANGED <<live, overlay>>
    BY <2>1, <2>3, <2>4, <2>5, <2>6
  <2>7. CASE own /\ live' = {} /\ MachineEnded
    <3>1. overlay' \in [base : 0..MaxBases, sound : BOOLEAN] /\ overlay'.base = overlay.base
      BY <2>7, DiskEnded
    <3>2. own /\ live' = {}
      BY <2>7
    <3> QED BY <2>1, <2>3, <2>4, <3>1, <3>2
  <2> QED BY <1>6, <2>6, <2>7 DEF Endpoint
<1>7. CASE CheckExternal
  BY <1>7 DEF CheckExternal, GiveUp, Going
<1>8. CASE Prepare
  BY <1>8 DEF Prepare, KnownMarker, BaseChanged
<1>9. CASE Create
  <2>1. /\ overlay' \in [base : 0..MaxBases, sound : BOOLEAN] /\ overlay'.base = base /\ overlay'.sound
    <3>1. base \in 0..MaxBases OBVIOUS
    <3> QED BY <1>9, <3>1, DiskIs, Zenon DEF Create
  <2>2. /\ {marker', previous'} \subseteq [base : 0..MaxBases, fits : BOOLEAN]
        /\ marker'.base = marker.base /\ previous'.base = previous.base
        /\ ~marker'.fits /\ ~previous'.fits
    BY <1>9, UnfitBoth DEF Create
  <2>3. /\ boot = "create" /\ boot' = "mark"
        /\ UNCHANGED <<app, launches, base, prepared, own, died, orphan, live, active, lease, reclaim,
                       unsure>>
    BY <1>9 DEF Create
  <2> QED BY <2>1, <2>2, <2>3
<1>10. CASE Mark
  BY <1>10 DEF Mark
<1>11. CASE Commit
  <2>1. CASE /\ marker' = [base |-> base, fits |-> TRUE] /\ previous' = NoMarker
             /\ boot' = "grow" /\ prepared' = TRUE /\ Going
    <3>1. marker' \in [base : 0..MaxBases, fits : BOOLEAN] /\ marker'.base = base
      <4>1. base \in 0..MaxBases OBVIOUS
      <4> QED BY <2>1, <4>1, FitIs, Zenon
    <3>2. /\ boot = "commit" /\ previous' = NoMarker /\ boot' = "grow"
          /\ UNCHANGED <<app, launches, base, overlay, own, died, orphan, live, active, lease, reclaim,
                         unsure>>
      BY <1>11, <2>1 DEF Commit, Going
    <3> QED BY <3>1, <3>2
  <2>2. CASE /\ marker' = previous /\ previous' = NoMarker /\ GiveUp /\ UNCHANGED prepared
    BY <1>11, <2>2 DEF Commit, GiveUp
  <2> QED BY <1>11, <2>1, <2>2 DEF Commit
<1>12. CASE GrowDisk
  <2>1. /\ boot = "grow" /\ boot' = "spawn"
        /\ UNCHANGED <<app, launches, base, overlay, prepared, own, died, orphan, live, active, lease,
                       reclaim>>
    BY <1>12 DEF GrowDisk
  <2>2. CASE Record
    <3>1. /\ marker' \in [base : 0..MaxBases, fits : BOOLEAN] /\ marker'.base = base
          /\ previous' = NoMarker /\ (overlay'.sound \/ unsure')
      BY <2>2, MarkerRecorded
    <3> QED BY <2>1, <3>1
  <2>3. CASE Unrecorded
    BY <2>1, <2>3 DEF Unrecorded
  <2> QED BY <1>12, <2>2, <2>3 DEF GrowDisk
<1>13. CASE Spawn
  <2>1. CASE /\ own' = TRUE /\ boot' = "wait" /\ Going
             /\ marker' = [marker EXCEPT !.fits = FALSE] /\ previous' = [previous EXCEPT !.fits = FALSE]
    <3>1. /\ {marker', previous'} \subseteq [base : 0..MaxBases, fits : BOOLEAN]
          /\ marker'.base = marker.base /\ previous'.base = previous.base
          /\ ~marker'.fits /\ ~previous'.fits
      BY <2>1, UnfitBoth
    <3>2. /\ boot = "spawn" /\ boot' = "wait" /\ own'
          /\ UNCHANGED <<app, launches, base, overlay, prepared, died, orphan, live, active, lease, reclaim,
                         unsure>>
      BY <1>13, <2>1 DEF Spawn, Going
    <3> QED BY <3>1, <3>2
  <2>2. CASE GiveUp /\ UNCHANGED <<own, marker, previous>>
    BY <1>13, <2>2 DEF Spawn, GiveUp
  <2> QED BY <1>13, <2>1, <2>2 DEF Spawn
<1>13a. CASE Boots
  <2>1. /\ boot = "wait" /\ own
        /\ UNCHANGED <<app, launches, base, marker, previous, prepared, died, orphan, live, active, unsure>>
    BY <1>13a DEF Boots
  <2>2. CASE boot' = "idle" /\ Going /\ UNCHANGED <<own, overlay>>
    BY <2>1, <2>2 DEF Going
  <2>3. CASE own' = FALSE /\ MachineEnded /\ (GiveUp \/ (boot' = "spawn" /\ Going))
    <3>1. overlay' \in [base : 0..MaxBases, sound : BOOLEAN] /\ overlay'.base = overlay.base
      BY <2>3, DiskEnded
    <3>2. CASE GiveUp
      BY <2>1, <2>3, <3>1, <3>2 DEF GiveUp
    <3>3. CASE boot' = "spawn" /\ Going
      BY <2>1, <2>3, <3>1, <3>3 DEF Going
    <3> QED BY <2>3, <3>2, <3>3
  <2> QED BY <1>13a, <2>2, <2>3 DEF Boots
<1>14. ASSUME NEW c \in Container, Lease(c) PROVE ApplianceInv'
  BY <1>14 DEF Lease
<1>15. ASSUME NEW c \in Container, MarkActive(c) PROVE ApplianceInv'
  BY <1>15 DEF MarkActive, NoLease
<1>16. ASSUME NEW c \in Container, StartContainer(c) PROVE ApplianceInv'
  BY <1>16 DEF StartContainer, NoLease
<1>17. ASSUME NEW c \in Container, StopContainer(c) PROVE ApplianceInv'
  BY <1>17 DEF StopContainer, NoLease
<1>18. ASSUME NEW c \in Container, ContainerExits(c) PROVE ApplianceInv'
  BY <1>18 DEF ContainerExits
<1>19. CASE Reclaim
  BY <1>19 DEF Reclaim
<1>20. CASE Trim
  BY <1>20 DEF Trim, Ready
<1>21. CASE StopIdle
  <2>1. /\ reclaim = "stop"
        /\ UNCHANGED <<app, launches, base, overlay, prepared, orphan, boot, active, lease>>
    BY <1>21 DEF StopIdle
  <2>2. CASE own /\ own' = FALSE /\ live' = {} /\ reclaim' = "replace" /\ Record /\ UNCHANGED died
    <3>1. /\ marker' \in [base : 0..MaxBases, fits : BOOLEAN] /\ marker'.base = base
          /\ previous' = NoMarker /\ (overlay'.sound \/ unsure')
      BY <2>2, MarkerRecorded
    <3>2. own /\ ~own' /\ live' = {} /\ reclaim' = "replace" /\ died' = died
      BY <2>2
    <3> QED BY <2>1, <3>1, <3>2
  <2>3. CASE died /\ died' = FALSE /\ reclaim' = "replace" /\ UNCHANGED <<own, live>> /\ Unrecorded
    BY <2>1, <2>3 DEF Unrecorded
  <2>4. CASE reclaim' = "none" /\ UNCHANGED <<own, died, live>> /\ Unrecorded
    BY <2>1, <2>4 DEF Unrecorded
  <2> QED BY <1>21, <2>2, <2>3, <2>4 DEF StopIdle
<1>22. CASE Replace
  <2>1. /\ reclaim = "replace" /\ reclaim' = "none"
        /\ UNCHANGED <<app, launches, base, prepared, own, died, orphan, boot, live, active, lease>>
    BY <1>22 DEF Replace
  <2>2. CASE UNCHANGED <<overlay, marker, previous, unsure>>
    BY <2>1, <2>2
  <2>3. CASE overlay' = [overlay EXCEPT !.sound = TRUE] /\ Record
    <3>1. /\ marker' \in [base : 0..MaxBases, fits : BOOLEAN] /\ marker'.base = base
          /\ previous' = NoMarker /\ (overlay'.sound \/ unsure')
      BY <2>3, MarkerRecorded
    <3>2. overlay' \in [base : 0..MaxBases, sound : BOOLEAN] /\ overlay'.base = overlay.base
      BY <2>3, DiskReplaced
    <3>3. overlay # NoDisk /\ overlay.base = base /\ ~own /\ ~orphan
      BY <2>1
    <3> QED BY <2>1, <3>1, <3>2, <3>3
  <2>4. CASE /\ overlay' = [overlay EXCEPT !.sound = TRUE]
             /\ marker' = [marker EXCEPT !.fits = FALSE] /\ previous' = NoMarker /\ UNCHANGED unsure
    <3>1. /\ marker' \in [base : 0..MaxBases, fits : BOOLEAN] /\ marker'.base = marker.base
          /\ ~marker'.fits /\ previous' = NoMarker
      BY <2>4, Unfit
    <3>2. overlay' \in [base : 0..MaxBases, sound : BOOLEAN] /\ overlay'.base = overlay.base
      BY <2>4, DiskReplaced
    <3>3. overlay # NoDisk /\ unsure' = unsure
      BY <2>1, <2>4
    <3> QED BY <2>1, <3>1, <3>2, <3>3
  <2> QED BY <1>22, <2>2, <2>3, <2>4 DEF Replace, disk
<1>23. CASE UNCHANGED applianceVars
  BY <1>23 DEF applianceVars
<1> HIDE DEF ApplianceInv
<1> QED
  BY <1>1, <1>2, <1>3, <1>4, <1>5, <1>5a, <1>6, <1>7, <1>8, <1>9, <1>10, <1>11, <1>12, <1>13, <1>13a,
     <1>14, <1>15, <1>16, <1>17, <1>18, <1>19, <1>20, <1>21, <1>22, <1>23 DEF ApplianceNext, Boot

(* A disk that another process has open is left alone, the machine runs on an    *)
(* overlay of its base only, a marker that spares a check is true, and space is  *)
(* not reclaimed under a container, however the application is killed and        *)
(* updated (runtime/appliance.rs, runtime/recovery.rs,                           *)
(* runtime/storage_reclaim.rs).                                                  *)
THEOREM ApplianceDiskKept ==
  ASSUME ApplianceConstants
  PROVE  ApplianceSpec =>
           [](ApplianceType /\ OneOwner /\ BaseMatches /\ MarkerIsTrue) /\ ReclaimSparesContainers
<1>1. ApplianceInv => ApplianceType /\ OneOwner /\ BaseMatches /\ MarkerIsTrue
  BY DEF ApplianceInv, RunInv, BaseInv, FitInv, OneOwner, BaseMatches, MarkerIsTrue, KnownMarker
<1>2. ApplianceInv /\ [ApplianceNext]_applianceVars =>
        [reclaim = "stop" /\ reclaim' = "replace" => live = {}]_applianceVars
  BY DEF ApplianceInv, LeaseInv
<1> QED BY <1>1, <1>2, ApplianceInitial, ApplianceStep, PTL DEF ApplianceSpec, ReclaimSparesContainers
-------------------------------------------------------------------------------
(* The memory of that machine (ApplianceCapacity). First the arithmetic: sums    *)
(* over the devices, and rounding.                                               *)

\* A function that adds up the devices exists for every number of them.
LEMMA SumExists ==
  ASSUME NEW s \in Seq(Nat)
  PROVE  \E g \in [0..Len(s) -> Nat] : g[0] = 0 /\ \A i \in 1..Len(s) : g[i] = g[i - 1] + s[i]
<1> DEFINE Sums(g, m) == g \in [0..m -> Nat] /\ g[0] = 0 /\ \A i \in 1..m : g[i] = g[i - 1] + s[i]
           bad == {m \in 0..Len(s) : ~ \E g : Sums(g, m)}
<1>1. bad = {}
  <2> SUFFICES ASSUME bad # {} PROVE FALSE
    OBVIOUS
  <2>1. PICK m \in bad : \A k \in bad : m <= k
    <3>1. bad \in SUBSET Nat
      OBVIOUS
    <3> HIDE DEF bad
    <3> QED BY <3>1, LeastExists
  <2>2. m # 0
    <3>1. Sums([i \in 0..0 |-> 0], 0)
      OBVIOUS
    <3> QED BY <3>1, <2>1
  <2>3. m \in 1..Len(s) /\ m - 1 \in 0..Len(s) /\ m - 1 \notin bad /\ s[m] \in Nat
    <3>1. m \in 0..Len(s)
      OBVIOUS
    <3> HIDE DEF bad
    <3> QED BY <2>1, <2>2, <3>1
  <2>4. PICK g : Sums(g, m - 1)
    <3> HIDE DEF Sums
    <3> QED BY <2>3
  <2> DEFINE h == [i \in 0..m |-> IF i = m THEN g[m - 1] + s[m] ELSE g[i]]
  <2>5. g[m - 1] \in Nat
    BY <2>3, <2>4
  <2>6. \A i \in 0..m : i # m => i \in 0..(m - 1)
    BY <2>3
  <2>7. h \in [0..m -> Nat]
    BY <2>3, <2>4, <2>5, <2>6
  <2>8. h[0] = 0
    BY <2>3, <2>4
  <2>9. ASSUME NEW i \in 1..m PROVE h[i] = h[i - 1] + s[i]
    <3>1. i \in 0..m /\ i - 1 \in 0..m /\ i - 1 # m
      BY <2>3
    <3>2. h[i - 1] = g[i - 1]
      BY <3>1
    <3>3. CASE i = m
      BY <3>1, <3>2, <3>3
    <3>4. CASE i # m
      <4>1. i \in 1..(m - 1)
        BY <3>4, <2>3
      <4> QED BY <3>1, <3>2, <3>4, <4>1, <2>4
    <3> QED BY <3>3, <3>4
  <2>10. Sums(h, m)
    <3> HIDE DEF h
    <3> QED BY <2>7, <2>8, <2>9
  <2> QED BY <2>10, <2>1
<1>2. Len(s) \in 0..Len(s)
  OBVIOUS
<1>3. \E g : Sums(g, Len(s))
  <2> HIDE DEF Sums
  <2> QED BY <1>1, <1>2
<1> QED BY <1>3

\* Plugged is that function.
LEMMA PluggedIs ==
  ASSUME NEW s \in Seq(Nat), NEW g \in [0..Len(s) -> Nat], g[0] = 0,
         \A i \in 1..Len(s) : g[i] = g[i - 1] + s[i], NEW n \in 0..Len(s)
  PROVE  Plugged(s, n) = g[n]
<1> DEFINE Rec(h) == h = [i \in 0..n |-> IF i = 0 THEN 0 ELSE h[i - 1] + s[i]]
           k == [i \in 0..n |-> g[i]]
           c == CHOOSE h : Rec(h)
<1>0. n \in Nat /\ \A i \in 0..n : i \in 0..Len(s) /\ (i # 0 => i - 1 \in 0..n /\ i \in 1..Len(s))
  OBVIOUS
<1>1. Rec(k)
  <2>1. \A i \in 0..n : g[i] = IF i = 0 THEN 0 ELSE k[i - 1] + s[i]
    BY <1>0
  <2> QED BY <2>1
<1>2. Rec(c) /\ Plugged(s, n) = c[n]
  <2>1. \E h : Rec(h)
    BY <1>1
  <2>2. Plugged(s, n) = c[n]
    BY DEF Plugged
  <2> HIDE DEF Rec
  <2> QED BY <2>1, <2>2
<1> HIDE DEF c
<1>3. \A i \in 0..n : c[i] = IF i = 0 THEN 0 ELSE c[i - 1] + s[i]
  BY <1>2
<1> DEFINE bad == {i \in 0..n : c[i] # g[i]}
<1>4. bad = {}
  <2> SUFFICES ASSUME bad # {} PROVE FALSE
    OBVIOUS
  <2>1. PICK m \in bad : \A j \in bad : m <= j
    <3>1. bad \in SUBSET Nat
      OBVIOUS
    <3> HIDE DEF bad
    <3> QED BY <3>1, LeastExists
  <2>2. m # 0
    BY <2>1, <1>3
  <2>3. m \in 0..n /\ m - 1 \in 0..n /\ m \in 1..Len(s)
    BY <2>1, <2>2, <1>0
  <2>4. m - 1 \notin bad
    <3> HIDE DEF bad
    <3> QED BY <2>1, <2>3
  <2>5. c[m - 1] = g[m - 1]
    BY <2>3, <2>4
  <2>6. c[m] = g[m]
    BY <1>3, <2>2, <2>3, <2>5
  <2> QED BY <2>1, <2>6
<1>5. n \in 0..n
  BY <1>0
<1> QED BY <1>2, <1>4, <1>5

LEMMA PluggedRec ==
  ASSUME NEW s \in Seq(Nat)
  PROVE  /\ Plugged(s, 0) = 0 /\ \A n \in 0..Len(s) : Plugged(s, n) \in Nat
         /\ \A n \in 1..Len(s) : Plugged(s, n) = Plugged(s, n - 1) + s[n]
<1>1. PICK g \in [0..Len(s) -> Nat] : g[0] = 0 /\ \A i \in 1..Len(s) : g[i] = g[i - 1] + s[i]
  BY SumExists
<1>2. \A n \in 0..Len(s) : Plugged(s, n) = g[n]
  BY <1>1, PluggedIs
<1>3. 0 \in 0..Len(s) /\ \A n \in 1..Len(s) : n \in 0..Len(s) /\ n - 1 \in 0..Len(s)
  OBVIOUS
<1> QED BY <1>1, <1>2, <1>3

\* Another device adds its size and leaves the sums before it.
LEMMA PluggedAppend ==
  ASSUME NEW s \in Seq(Nat), NEW x \in Nat
  PROVE  /\ \A n \in 0..Len(s) : Plugged(Append(s, x), n) = Plugged(s, n)
         /\ Plugged(Append(s, x), Len(s) + 1) = Plugged(s, Len(s)) + x
<1> DEFINE t == Append(s, x)
<1>1. /\ t \in Seq(Nat) /\ Len(t) = Len(s) + 1 /\ t[Len(s) + 1] = x /\ Len(s) \in Nat
      /\ \A i \in 1..Len(s) : t[i] = s[i]
  OBVIOUS
<1> HIDE DEF t
<1>2. PICK g \in [0..Len(t) -> Nat] : g[0] = 0 /\ \A i \in 1..Len(t) : g[i] = g[i - 1] + t[i]
  BY <1>1, SumExists
<1> DEFINE h == [i \in 0..Len(s) |-> g[i]]
<1>3. \A i \in 0..Len(s) : i \in 0..Len(t) /\ h[i] = g[i] /\ g[i] \in Nat
  BY <1>1, SMTT(30)
<1>4. h \in [0..Len(s) -> Nat] /\ h[0] = 0
  BY <1>1, <1>2, <1>3
<1>5. \A i \in 1..Len(s) : i \in 0..Len(s) /\ i - 1 \in 0..Len(s) /\ i \in 1..Len(t)
  BY <1>1
<1>6. \A i \in 1..Len(s) : h[i] = h[i - 1] + s[i]
  <2> HIDE DEF h
  <2> QED BY <1>1, <1>2, <1>3, <1>5
<1> HIDE DEF h
<1>7. \A n \in 0..Len(s) : Plugged(s, n) = h[n] /\ Plugged(t, n) = g[n]
  BY <1>1, <1>2, <1>3, <1>4, <1>6, PluggedIs
<1>8. Plugged(t, Len(s) + 1) = g[Len(s) + 1]
  <2>1. Len(s) + 1 \in 0..Len(t)
    BY <1>1
  <2> QED BY <1>1, <1>2, <2>1, PluggedIs
<1>9. g[Len(s) + 1] = g[Len(s)] + x
  BY <1>1, <1>2
<1> QED BY <1>1, <1>3, <1>7, <1>8, <1>9, SMTT(30) DEF t

LEMMA Rounded ==
  ASSUME NEW a \in Nat, NEW b \in Nat \ {0}
  PROVE  /\ CeilDiv(a, b) \in Nat /\ a <= CeilDiv(a, b) * b /\ CeilDiv(a, b) * b < a + b
         /\ a > 0 => CeilDiv(a, b) >= 1
<1> DEFINE q == (a + b - 1) \div b
           r == (a + b - 1) % b
<1>1. a + b - 1 \in Nat /\ q \in Int /\ r \in 0..(b - 1) /\ a + b - 1 = b * q + r
  OBVIOUS
<1> DEFINE x == b * q
<1> HIDE DEF q, r
<1>2. q * b = x /\ x \in Int /\ a + b - 1 = x + r
  BY <1>1
<1> HIDE DEF x
<1>3. q * b = a + b - 1 - r
  BY <1>1, <1>2
<1>4. q * b >= a /\ q * b < a + b
  BY <1>1, <1>3
<1>5. q >= 0
  BY <1>1, <1>4
<1>6. a > 0 => q >= 1
  BY <1>1, <1>4, <1>5
<1>7. CeilDiv(a, b) = q
  BY DEF CeilDiv, q
<1> QED BY <1>1, <1>4, <1>5, <1>6, <1>7

LEMMA AtLeast ==
  ASSUME NEW k \in Nat, NEW c \in Nat
  PROVE  k * c \in Nat /\ (k + 1) * c = k * c + c /\ (k >= 1 => k * c >= c) /\ k * c = c * k
<1>1. k * c \in Nat /\ (k + 1) * c = k * c + c /\ k * c = c * k
  OBVIOUS
<1>2. ASSUME k >= 1 PROVE k * c >= c
  <2>1. k - 1 \in Nat /\ (k - 1) * c \in Nat /\ k * c = (k - 1) * c + c
    BY <1>2
  <2> QED BY <2>1
<1> QED BY <1>1, <1>2

\* All slots together hold what the machine may have besides its start.
LEMMA ChunkSize ==
  ASSUME CapacityConstants, NEW most \in Nat, NEW start \in Nat, start <= most
  PROVE  LET c == Larger(1, CeilDiv(Saturating(most, start), Slots * Unit)) * Unit
         IN  c \in Nat /\ c >= 1 /\ most - start <= Slots * c
<1> DEFINE d == most - start
           u == Slots * Unit
           k == CeilDiv(d, u)
           m == Larger(1, k)
<1>0. Unit \in Nat \ {0} /\ Slots \in Nat \ {0}
  BY DEF CapacityConstants
<1>1. d \in Nat /\ Saturating(most, start) = d
  BY DEF Saturating
<1>2. u \in Nat \ {0}
  <2>1. u \in Nat /\ u >= Unit
    BY <1>0, AtLeast
  <2> QED BY <1>0, <2>1
<1> HIDE DEF d, u
<1>3. k \in Nat /\ d <= k * u
  BY <1>1, <1>2, Rounded
<1>4. Larger(1, CeilDiv(Saturating(most, start), Slots * Unit)) * Unit = m * Unit
  BY <1>1 DEF u
<1> HIDE DEF k
<1>5. m \in Nat /\ m >= 1 /\ m >= k
  BY <1>3 DEF Larger
<1> HIDE DEF m
<1>6. m * Unit \in Nat /\ m * Unit >= Unit
  BY <1>0, <1>5, AtLeast
<1>7. Slots * (m * Unit) = m * u
  BY <1>0, <1>5 DEF u
<1>8. m * u >= k * u
  <2>1. m * u = k * u + (m - k) * u /\ m - k \in Nat
    BY <1>2, <1>3, <1>5
  <2>2. (m - k) * u \in Nat /\ k * u \in Nat
    BY <2>1, <1>2, <1>3, AtLeast
  <2> QED BY <2>1, <2>2
<1>9. m * u \in Nat /\ k * u \in Nat
  BY <1>2, <1>3, <1>5, AtLeast
<1>10. d <= m * u
  BY <1>1, <1>3, <1>8, <1>9
<1>11. most - start = d
  BY DEF d
<1> QED BY <1>0, <1>4, <1>6, <1>7, <1>10, <1>11

LEMMA ChunkIs ==
  ASSUME CapacityConstants, limit \in Nat, basis \in Nat, basis <= limit
  PROVE  Chunk(basis) \in Nat /\ Chunk(basis) >= 1 /\ limit - basis <= Slots * Chunk(basis)
BY ChunkSize DEF Chunk

\* A step of growth is a whole chunk or all there is, and less than a chunk more than
\* was asked for.
LEMMA TargetIs ==
  ASSUME CapacityConstants, limit \in Nat, basis \in Nat, basis <= limit,
         NEW current \in Nat, current <= limit, NEW wanted \in Nat
  PROVE  LET aim == GrowthTarget(basis, current, wanted)
         IN  /\ aim \in Nat /\ aim <= limit
             /\ aim > current => /\ aim < wanted + Chunk(basis)
                                 /\ aim = limit \/ current + Chunk(basis) <= aim
<1> DEFINE c == Chunk(basis)
           d == Saturating(wanted, current)
           k == CeilDiv(d, c)
           aim == GrowthTarget(basis, current, wanted)
<1>1. c \in Nat \ {0}
  BY ChunkIs
<1>2. d \in Nat /\ (wanted > current => d = wanted - current) /\ (~(wanted > current) => d = 0)
  BY DEF Saturating
<1>3. aim = Smaller(limit, current + k * c)
  BY DEF GrowthTarget
<1> HIDE DEF c, d, aim
<1>4. k \in Nat /\ k * c < d + c /\ k * c \in Nat
  BY <1>1, <1>2, Rounded, AtLeast
<1>5. k >= 1 => k * c >= c
  BY <1>1, <1>4, AtLeast
<1>6. k = 0 => k * c = 0
  BY <1>1
<1> DEFINE x == k * c
<1> HIDE DEF k
<1>7. k \in Nat /\ x \in Nat /\ x < d + c /\ (k >= 1 => x >= c) /\ (k = 0 => x = 0)
      /\ aim = Smaller(limit, current + x)
  BY <1>3, <1>4, <1>5, <1>6
<1> HIDE DEF x
<1>8. aim \in Nat /\ aim <= limit
  BY <1>7 DEF Smaller
<1>9. ASSUME aim > current PROVE aim < wanted + c /\ (aim = limit \/ current + c <= aim)
  <2>1. k >= 1 /\ x >= c
    BY <1>7, <1>9 DEF Smaller
  <2>2. d > 0
    BY <1>1, <1>2, <1>7, <2>1
  <2>3. d = wanted - current
    BY <1>2, <2>2
  <2> QED BY <1>1, <1>7, <2>1, <2>3 DEF Smaller
<1> QED BY <1>8, <1>9 DEF c, aim

(* What the machine has: what is promised to containers is online; it is less    *)
(* than a chunk above what was asked; and every device but the last that fits is *)
(* a whole chunk.                                                                *)
CapacityShape ==
    /\ {basis, limit, held, capacity, request, target, sought, onlined} \subseteq Nat
    /\ dimms \in Seq(Nat) /\ onlined <= Len(dimms)
    /\ growing # "no" => machine /\ request <= sought
CapacityMachine ==
    /\ basis <= limit /\ Total <= limit /\ held <= basis + Plugged(dimms, onlined)
    /\ Total < sought + Chunk(basis)
    /\ Total = limit \/ Len(dimms) * Chunk(basis) <= Devices
NextDevice ==
    /\ Total < target /\ target <= limit /\ target < sought + Chunk(basis)
    /\ target = limit \/ Total + Chunk(basis) <= target
CapacityInv ==
    /\ CapacityShape
    /\ machine => CapacityMachine
    /\ growing \in {"object", "device"} => NextDevice

LEMMA DevicesAre ==
  ASSUME CapacityShape
  PROVE  Devices \in Nat /\ Total \in Nat /\ Total = basis + Devices /\ Plugged(dimms, onlined) \in Nat
         /\ Len(dimms) \in Nat
<1>1. Len(dimms) \in 0..Len(dimms) /\ onlined \in 0..Len(dimms)
  BY DEF CapacityShape
<1> QED BY <1>1, PluggedRec DEF CapacityShape, Devices, Total

LEMMA CapacityInitial == ASSUME CapacityConstants, CapacityInit PROVE CapacityInv
  BY DEF CapacityConstants, CapacityInit, CapacityInv, CapacityShape

\* A machine that starts.
LEMMA BootKeeps ==
  ASSUME CapacityConstants, CapacityInv, NEW m \in Nat, BootWith(m), growing' = "no", capacity' \in Nat,
         UNCHANGED <<request, target>>
  PROVE  CapacityInv'
<1>0. <<>> \in Seq(Nat) /\ Len(<<>>) = 0
  OBVIOUS
<1>1. basis' = m /\ limit' \in Nat /\ m <= limit' /\ dimms' = <<>> /\ held' = m /\ sought' = m /\ onlined' = 0
  <2>1. Unit \in Nat \ {0} /\ Maximum \in Nat
    BY DEF CapacityConstants
  <2>2. Maximum \div Unit \in Nat
    BY <2>1
  <2>3. (Maximum \div Unit) * Unit \in Nat
    BY <2>1, <2>2, AtLeast
  <2> QED BY <2>3 DEF BootWith, Larger
<1>2. CapacityShape'
  BY <1>0, <1>1 DEF CapacityInv, CapacityShape
<1>3. Len(dimms') = 0 /\ Plugged(dimms', 0) = 0 /\ Devices' = 0 /\ Total' = m
  <2>1. Plugged(<<>>, 0) = 0
    BY <1>0, PluggedRec
  <2> QED BY <1>0, <1>1, <2>1 DEF Devices, Total
<1>4. (Chunk(basis))' \in Nat /\ (Chunk(basis))' >= 1
  BY <1>1, ChunkSize DEF Chunk
<1>5. 0 * (Chunk(basis))' = 0
  BY <1>4
<1>6. CapacityMachine'
  BY <1>1, <1>3, <1>4, <1>5 DEF CapacityMachine
<1> QED BY <1>2, <1>6 DEF CapacityInv

\* A step that leaves machine and devices alone.
LEMMA MachineStays ==
  ASSUME CapacityInv, CapacityShape', UNCHANGED <<basis, limit, dimms>>,
         machine' => machine /\ sought <= sought' /\ held' <= (basis + Plugged(dimms, onlined))',
         growing' \in {"object", "device"} => NextDevice', Chunk(basis) \in Nat
  PROVE  CapacityInv'
<1>1. Total' = Total /\ Devices' = Devices /\ (Chunk(basis))' = Chunk(basis) /\ Len(dimms)' = Len(dimms)
  BY DEF Total, Devices, Chunk
<1>2. Total \in Nat /\ sought \in Nat /\ sought' \in Nat
  BY DevicesAre DEF CapacityInv, CapacityShape
<1>3. machine' => CapacityMachine'
  BY <1>1, <1>2 DEF CapacityInv, CapacityMachine
<1> QED BY <1>3 DEF CapacityInv

LEMMA CapacityStep ==
  ASSUME CapacityConstants, CapacityInv, [CapacityNext]_capacityVars
  PROVE  CapacityInv'
<1> DEFINE c == Chunk(basis)
<1>0. /\ CapacityShape /\ Devices \in Nat /\ Total \in Nat /\ Total = basis + Devices
      /\ Plugged(dimms, onlined) \in Nat /\ Len(dimms) \in Nat
  BY DevicesAre DEF CapacityInv
<1>1. machine => CapacityMachine /\ c \in Nat /\ c >= 1
  BY ChunkIs DEF CapacityInv, CapacityShape, CapacityMachine
<1>2. \A m \in Workloads : ForWorkloads(m) \in Nat
  <2> SUFFICES ASSUME NEW m \in Workloads PROVE ForWorkloads(m) \in Nat
    OBVIOUS
  <2>1. m + Overhead \in Nat /\ Unit \in Nat \ {0} /\ Floor \in Nat
    BY DEF CapacityConstants
  <2>2. CeilDiv(m + Overhead, Unit) \in Nat
    BY <2>1, Rounded
  <2>3. CeilDiv(m + Overhead, Unit) * Unit \in Nat
    BY <2>1, <2>2, AtLeast
  <2> QED BY <2>1, <2>3 DEF ForWorkloads, Larger
<1>3. CASE BootKept
  BY <1>3, <1>0, BootKeeps DEF BootKept, CapacityShape
<1>4. ASSUME NEW m \in Workloads, BootRequested(m) PROVE CapacityInv'
  BY <1>4, <1>2, BootKeeps DEF BootRequested
<1>5. ASSUME UNCHANGED <<basis, limit, dimms>>, machine' => machine, CapacityShape',
             machine' => sought <= sought' /\ held' <= (basis + Plugged(dimms, onlined))',
             growing' \in {"object", "device"} => NextDevice'
      PROVE  CapacityInv'
  <2>1. CASE machine
    BY <1>1, <1>5, <2>1, MachineStays
  <2>2. CASE ~machine
    <3>1. ~machine'
      BY <1>5, <2>2
    <3> QED BY <1>5, <3>1 DEF CapacityInv
  <2> QED BY <2>1, <2>2
<1>6. ASSUME NEW m \in Workloads, Grow(m) PROVE CapacityInv'
  <2>1. /\ UNCHANGED <<basis, limit, dimms, machine, onlined, held>> /\ growing' = "query"
        /\ sought <= sought'
    BY <1>6, <1>0, <1>2 DEF Grow, hardware, CapacityShape, Larger
  <2>2. CapacityShape'
    BY <1>6, <1>0, <1>2 DEF Grow, hardware, CapacityShape, Larger
  <2>3. machine' => held' <= (basis + Plugged(dimms, onlined))'
    BY <2>1, <1>1 DEF CapacityMachine
  <2> QED BY <2>1, <2>2, <2>3, <1>5
<1>7. CASE Query
  <2>1. machine /\ request <= sought /\ request \in Nat /\ sought \in Nat /\ CapacityMachine
    BY <1>7, <1>0, <1>1 DEF Query, CapacityShape
  <2>2. /\ target' \in Nat /\ target' <= limit
        /\ target' > Total => target' < request + c /\ (target' = limit \/ Total + c <= target')
    <3>1. target' = GrowthTarget(basis, Total, request)
      BY <1>7 DEF Query
    <3> QED BY <3>1, <2>1, <1>0, TargetIs DEF CapacityMachine, CapacityShape
  <2>3. UNCHANGED <<machine, basis, limit, dimms, onlined, held, capacity, request, sought>>
    BY <1>7 DEF Query, hardware
  <2>4. growing' = IF target' > Total THEN "object" ELSE "devices"
    BY <1>7 DEF Query
  <2>5. CapacityShape'
    BY <1>0, <2>1, <2>2, <2>3 DEF CapacityShape
  <2>6. Total' = Total /\ (Chunk(basis))' = c
    BY <2>3 DEF Total, Devices, Chunk
  <2>7. growing' \in {"object", "device"} => NextDevice'
    BY <2>1, <2>2, <2>3, <2>4, <2>6, <1>0, <1>1 DEF NextDevice
  <2>8. held' <= (basis + Plugged(dimms, onlined))' /\ sought <= sought'
    BY <2>1, <2>3 DEF CapacityMachine
  <2> QED BY <2>3, <2>5, <2>7, <2>8, <1>5
<1>8. ASSUME UNCHANGED <<basis, limit, dimms, onlined, held, capacity, request, target, sought>>,
             machine' => machine, growing' = "no" \/ (growing' = "device" /\ growing = "object" /\ machine')
                              \/ (growing' = growing /\ machine' = machine)
      PROVE  CapacityInv'
  <2>1. CapacityShape'
    BY <1>0, <1>8 DEF CapacityShape
  <2>2. machine' => sought <= sought' /\ held' <= (basis + Plugged(dimms, onlined))'
    BY <1>0, <1>1, <1>8 DEF CapacityMachine, CapacityShape
  <2>3. growing' \in {"object", "device"} => NextDevice'
    <3>1. Total' = Total /\ (Chunk(basis))' = c
      BY <1>8 DEF Total, Devices, Chunk
    <3> QED BY <1>8, <3>1 DEF CapacityInv, NextDevice
  <2> QED BY <1>5, <1>8, <2>1, <2>2, <2>3
<1>9. CASE Refused \/ ObjectAdd \/ VerifyTimeout \/ MachineEnds
  <2>1. growing = "object" => machine
    BY <1>0 DEF CapacityShape
  <2> QED BY <1>8, <1>9, <2>1 DEF Refused, ObjectAdd, VerifyTimeout, MachineEnds, hardware
<1>10. CASE UNCHANGED capacityVars
  BY <1>8, <1>10 DEF capacityVars
<1>11. CASE GuestOnline
  <2>1. /\ UNCHANGED <<machine, basis, limit, dimms, held, capacity, growing, request, target, sought>>
        /\ onlined' = onlined + 1 /\ onlined < Len(dimms) /\ machine
    BY <1>11 DEF GuestOnline, hardware
  <2>2. CapacityShape'
    BY <1>0, <2>1 DEF CapacityShape
  <2>3. Plugged(dimms, onlined + 1) = Plugged(dimms, onlined) + dimms[onlined + 1] /\ dimms[onlined + 1] \in Nat
    <3> DEFINE k == onlined + 1
    <3>0. onlined \in Nat /\ Len(dimms) \in Nat /\ onlined < Len(dimms) /\ dimms \in Seq(Nat)
      BY <1>0, <2>1 DEF CapacityShape
    <3>1. k \in 1..Len(dimms) /\ k - 1 = onlined /\ dimms \in Seq(Nat)
      BY <3>0
    <3>2. Plugged(dimms, k) = Plugged(dimms, k - 1) + dimms[k] /\ dimms[k] \in Nat
      <4> HIDE DEF k
      <4> QED BY <3>1, PluggedRec
    <3> QED BY <3>1, <3>2
  <2>4. held' <= (basis + Plugged(dimms, onlined))' /\ sought <= sought'
    <3>1. {basis, held, sought} \subseteq Nat /\ Plugged(dimms, onlined) \in Nat
      BY <1>0 DEF CapacityShape
    <3>2. held <= basis + Plugged(dimms, onlined)
      BY <1>1, <2>1 DEF CapacityMachine
    <3>3. Plugged(dimms, onlined)' = Plugged(dimms, onlined + 1)
      BY <2>1
    <3> QED BY <2>1, <2>3, <3>1, <3>2, <3>3
  <2>5. growing' \in {"object", "device"} => NextDevice'
    <3>1. Total' = Total /\ (Chunk(basis))' = c
      BY <2>1 DEF Total, Devices, Chunk
    <3> QED BY <2>1, <3>1 DEF CapacityInv, NextDevice
  <2> QED BY <1>5, <2>1, <2>2, <2>4, <2>5
<1>12. CASE Verify
  <2>1. /\ UNCHANGED <<machine, basis, limit, dimms, onlined, request, target, sought>>
        /\ held' = target /\ capacity' = target /\ growing' = "no" /\ onlined = Len(dimms)
        /\ Devices = Saturating(target, basis)
    BY <1>12 DEF Verify, hardware
  <2>2. CapacityShape'
    BY <1>0, <2>1 DEF CapacityShape
  <2>3. held' <= (basis + Plugged(dimms, onlined))' /\ sought <= sought'
    BY <1>0, <2>1 DEF Saturating, Devices, CapacityShape
  <2> QED BY <1>5, <2>1, <2>2, <2>3
<1>13. CASE DeviceAdd
  <2>1. /\ UNCHANGED <<machine, basis, limit, onlined, held, capacity, request, target, sought>>
        /\ growing = "device" /\ growing' \in {"devices", "no"}
    BY <1>13 DEF DeviceAdd, hardware
  <2>2. machine /\ CapacityMachine /\ NextDevice /\ c \in Nat /\ c >= 1
    BY <1>0, <1>1, <2>1 DEF CapacityShape, CapacityInv
  <2>3. CASE UNCHANGED dimms
    BY <1>8, <2>1, <2>3, <1>5, <1>0 DEF CapacityShape, CapacityMachine, CapacityInv
  <2>4. CASE dimms' = Append(dimms, target - Total)
    <3> DEFINE x == target - Total
    <3>1. x \in Nat /\ x >= 1 /\ target \in Nat /\ limit \in Nat /\ basis \in Nat /\ sought \in Nat
      <4>1. target \in Nat /\ limit \in Nat /\ basis \in Nat /\ sought \in Nat
        BY <1>0 DEF CapacityShape
      <4>2. Total \in Nat /\ Total < target
        BY <1>0, <2>2 DEF NextDevice
      <4> QED BY <4>1, <4>2
    <3>2. dimms \in Seq(Nat) /\ onlined \in 0..Len(dimms)
      BY <1>0 DEF CapacityShape
    <3>3. /\ dimms' \in Seq(Nat) /\ Len(dimms') = Len(dimms) + 1
      BY <2>4, <3>1, <3>2, SMTT(30)
    <3>4. Plugged(dimms', onlined) = Plugged(dimms, onlined) /\ Plugged(dimms', Len(dimms) + 1) = Devices + x
      BY <2>4, <3>1, <3>2, PluggedAppend DEF Devices
    <3>5. Devices' = Devices + x /\ Total' = target
      BY <1>0, <2>1, <3>1, <3>3, <3>4 DEF Devices, Total
    <3>6. CapacityShape'
      BY <1>0, <2>1, <2>2, <3>3 DEF CapacityShape
    <3>7. (Chunk(basis))' = c
      BY <2>1 DEF Chunk
    <3>8. (Len(dimms) + 1) * c = Len(dimms) * c + c /\ Len(dimms) * c \in Nat
      BY <1>0, <2>2, AtLeast
    <3>9. target = limit \/ Len(dimms) * c + c <= Devices + x
      <4>1. CASE target = limit
        BY <4>1
      <4>2. CASE target # limit
        <5>1. Total + c <= target /\ Total # limit
          BY <1>0, <2>2, <3>1, <4>2 DEF NextDevice
        <5>2. Len(dimms) * c <= Devices
          BY <2>2, <5>1 DEF CapacityMachine
        <5> HIDE DEF c
        <5> QED BY <1>0, <2>2, <3>1, <3>8, <5>1, <5>2
      <4> QED BY <4>1, <4>2
    <3>10. CapacityMachine'
      <4>1. basis' <= limit' /\ Total' <= limit' /\ Total' < (sought + Chunk(basis))'
        BY <2>1, <2>2, <3>5, <3>7 DEF CapacityMachine, NextDevice
      <4>2. held' <= (basis + Plugged(dimms, onlined))'
        BY <2>1, <2>2, <3>4 DEF CapacityMachine
      <4>3. Total' = limit' \/ (Len(dimms) * Chunk(basis))' <= Devices'
        BY <2>1, <3>3, <3>5, <3>7, <3>8, <3>9
      <4> QED BY <4>1, <4>2, <4>3 DEF CapacityMachine
    <3> QED BY <2>1, <3>6, <3>10 DEF CapacityInv
  <2> QED BY <1>13, <2>3, <2>4 DEF DeviceAdd
<1> QED
  BY <1>3, <1>4, <1>6, <1>7, <1>9, <1>10, <1>11, <1>12, <1>13 DEF CapacityNext

(* What containers are admitted against is memory that the guest has, a request  *)
(* that is repeated grows nothing twice, and the slots last until the machine    *)
(* has all it may have, for every size of chunk and host and whatever answers    *)
(* are lost (runtime/appliance_capacity.rs).                                     *)
THEOREM CapacityKept ==
  ASSUME CapacityConstants
  PROVE  CapacitySpec => [](CapacityBacked /\ NoDoubleGrowth /\ SlotsSuffice)
<1>1. CapacityInv => CapacityBacked /\ NoDoubleGrowth /\ SlotsSuffice
  <2> SUFFICES ASSUME CapacityInv, machine PROVE CapacityBacked /\ NoDoubleGrowth /\ SlotsSuffice
    BY DEF CapacityBacked, NoDoubleGrowth, SlotsSuffice
  <2>1. CapacityMachine /\ CapacityShape
    BY DEF CapacityInv
  <2>2. CapacityBacked /\ NoDoubleGrowth
    BY <2>1 DEF CapacityMachine, CapacityBacked, NoDoubleGrowth
  <2>3. ASSUME Len(dimms) = Slots, Total # limit PROVE FALSE
    <3>1. limit - basis <= Slots * Chunk(basis) /\ Slots * Chunk(basis) <= Devices
      BY <2>1, <2>3, ChunkIs DEF CapacityMachine, CapacityShape
    <3>2. Slots * Chunk(basis) \in Nat
      BY <2>1, ChunkIs, AtLeast DEF CapacityMachine, CapacityShape, CapacityConstants
    <3>3. Total = basis + Devices /\ Total <= limit /\ limit \in Nat /\ basis \in Nat /\ Devices \in Nat
      BY <2>1, DevicesAre DEF CapacityMachine, CapacityShape
    <3> QED BY <2>3, <3>1, <3>2, <3>3
  <2> QED BY <2>2, <2>3 DEF SlotsSuffice
<1> QED BY <1>1, CapacityInitial, CapacityStep, PTL DEF CapacitySpec
===============================================================================
