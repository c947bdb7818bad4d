------------------------------ MODULE KeyedLocker ------------------------------
(* The locks under which the agent in the appliance serves requests              *)
(* (appliance/agent/main.go). There is an entry for a key as long as somebody    *)
(* refers to it; the map of the entries has a mutex of its own, which is not     *)
(* held while an entry's is waited for. A handler locks all its keys in one      *)
(* call, and some lock the storage quotas in a second call inside the first      *)
(* (container_quota.go).                                                         *)
EXTENDS Naturals, FiniteSets

CONSTANTS
    Request,     \* requests served at once
    Key,         \* keys: numbers in the order of the strings
    Quota,       \* "storage-quotas", which comes last
    Work,        \* what handlers lock: [keys, nests]
    Entry        \* entries in memory, enough for all keys

VARIABLES
    registry,    \* locker.entries
    refs,        \* references of each entry
    mutex,       \* who holds each entry
    call         \* calls of lock(): [step, entry, locked, nests]; nests: may still do so

lockerVars == <<registry, refs, mutex, call>>

NoEntry == 0
Nobody  == <<>>
NoCall  == [step |-> "none", entry |-> <<>>, locked |-> {}, nests |-> FALSE]
Outer(r) == <<r, "outer">>
Inner(r) == <<r, "inner">>
Call     == Request \X {"outer", "inner"}

Keys(c) == DOMAIN call[c].entry
Refer(k) == {c \in Call : k \in Keys(c)}
Least(S) == CHOOSE k \in S : \A j \in S : k <= j
Last(S)  == CHOOSE k \in S : \A j \in S : k >= j

LockerInit ==
    /\ registry = [k \in Key |-> NoEntry]
    /\ refs = [e \in Entry |-> 0] /\ mutex = [e \in Entry |-> Nobody]
    /\ call = [c \in Call |-> NoCall]

\* Memory that nothing points to.
Unused ==
    {e \in Entry : /\ \A k \in Key : registry[k] # e
                   /\ \A c \in Call, k \in Key : k \in Keys(c) => call[c].entry[k] # e}

\* lock(), with the mutex of the map: each key's entry is found or made, and counted.
Register(c, keys, nests, calls) ==
    LET made == {k \in keys : registry[k] = NoEntry}
        fresh == CHOOSE f \in [made -> Unused] : \A j, k \in made : f[j] = f[k] => j = k
        entry == [k \in keys |-> IF k \in made THEN fresh[k] ELSE registry[k]]
    IN  /\ call[c] = NoCall
        /\ registry' = [k \in Key |-> IF k \in keys THEN entry[k] ELSE registry[k]]
        /\ refs' = [e \in Entry |-> IF \E k \in keys : entry[k] = e THEN refs[e] + 1 ELSE refs[e]]
        /\ call' = [calls EXCEPT ![c] = [step |-> "locking", entry |-> entry,
                                          locked |-> {}, nests |-> nests]]
        /\ UNCHANGED mutex

\* A handler begins.
Begin(r, w) == Register(Outer(r), w.keys, w.nests, call)

\* ensureContainerStorage(), retireContainerStorage(): a handler may lock the quotas once,
\* with its own keys held.
Nest(r) ==
    /\ call[Outer(r)].step = "held" /\ call[Outer(r)].nests
    /\ Register(Inner(r), {Quota}, FALSE, [call EXCEPT ![Outer(r)].nests = FALSE])

\* Variant: the mutexes are taken in any order.
LockUnsorted(c) ==
    /\ call[c].step = "locking"
    /\ \E k \in Keys(c) \ call[c].locked :
         /\ mutex[call[c].entry[k]] = Nobody
         /\ mutex' = [mutex EXCEPT ![call[c].entry[k]] = c]
         /\ call' = [call EXCEPT ![c].locked = @ \cup {k},
                                 ![c].step = IF Keys(c) = call[c].locked \cup {k} THEN "held" ELSE @]
    /\ UNCHANGED <<registry, refs>>

\* The mutexes are taken in the order of the keys, without that of the map.
Lock(c) ==
    /\ call[c].step = "locking"
    /\ LET k == Least(Keys(c) \ call[c].locked)
       IN  /\ mutex[call[c].entry[k]] = Nobody
           /\ mutex' = [mutex EXCEPT ![call[c].entry[k]] = c]
           /\ call' = [call EXCEPT ![c].locked = @ \cup {k},
                                   ![c].step = IF Keys(c) = call[c].locked \cup {k} THEN "held" ELSE @]
    /\ UNCHANGED <<registry, refs>>

\* The handler returns, having got back from what it called.
Return(c) ==
    /\ call[c].step = "held"
    /\ \A r \in Request : c = Outer(r) => call[Inner(r)] = NoCall
    /\ call' = [call EXCEPT ![c].step = "unlocking"]
    /\ UNCHANGED <<registry, refs, mutex>>

\* unlock(): the mutexes in reverse order.
Unlock(c) ==
    /\ call[c].step = "unlocking" /\ call[c].locked # {}
    /\ LET k == Last(call[c].locked)
       IN  /\ mutex' = [mutex EXCEPT ![call[c].entry[k]] = Nobody]
           /\ call' = [call EXCEPT ![c].locked = @ \ {k}]
    /\ UNCHANGED <<registry, refs>>

\* Then, with the mutex of the map, an entry that nobody refers to any more is dropped.
Release(c) ==
    /\ call[c].step = "unlocking" /\ call[c].locked = {}
    /\ refs' = [e \in Entry |-> IF \E k \in Keys(c) : call[c].entry[k] = e THEN refs[e] - 1 ELSE refs[e]]
    /\ registry' = [k \in Key |-> IF /\ k \in Keys(c) /\ registry[k] = call[c].entry[k]
                                     /\ refs'[registry[k]] = 0
                                  THEN NoEntry ELSE registry[k]]
    /\ call' = [call EXCEPT ![c] = NoCall]
    /\ UNCHANGED mutex

LockerNext ==
    \/ \E r \in Request : Nest(r) \/ \E w \in Work : Begin(r, w)
    \/ \E c \in Call : Lock(c) \/ Return(c) \/ Unlock(c) \/ Release(c)

LockerSpec == LockerInit /\ [][LockerNext]_lockerVars

\* Keys are ordered and the quotas come last, there are entries enough, and a handler
\* that locks the quotas inside has not locked them before.
LockerConstants ==
    /\ Key \subseteq Nat /\ Quota \in Key /\ \A k \in Key : k <= Quota
    /\ IsFiniteSet(Request) /\ NoEntry \notin Entry
    /\ IsFiniteSet(Entry) /\ Cardinality(Key) <= Cardinality(Entry)
    /\ \A w \in Work : /\ w.keys \subseteq Key /\ w.keys # {} /\ w.nests \in BOOLEAN
                       /\ w.nests => Quota \notin w.keys
-------------------------------------------------------------------------------

LockerType ==
    /\ registry \in [Key -> Entry \cup {NoEntry}] /\ refs \in [Entry -> Nat]
    /\ mutex \in [Entry -> Call \cup {Nobody}]
    /\ \A c \in Call : /\ call[c].step \in {"none", "locking", "held", "unlocking"}
                       /\ Keys(c) \subseteq Key /\ call[c].locked \subseteq Keys(c)

\* There is an entry exactly as long as a call refers to its key, the same one for all of
\* them, and its count is theirs (main_test.go, TestKeyedLockerReclaimsEntries).
EntriesCounted ==
    \A k \in Key :
        IF registry[k] = NoEntry THEN Refer(k) = {}
        ELSE /\ Refer(k) # {} /\ refs[registry[k]] = Cardinality(Refer(k))
             /\ \A c \in Refer(k) : call[c].entry[k] = registry[k]

\* Nobody shares a key, whichever entries stand for it.
KeysExclusive ==
    \A c, d \in Call : c # d => call[c].locked \cap call[d].locked = {}

\* The entries behave as one lock for each key, although they come and go: every step is
\* one of KeyLocks, or none.
Holder(k) ==
    IF \E c \in Call : k \in call[c].locked THEN CHOOSE c \in Call : k \in call[c].locked ELSE Nobody
Hold == [k \in Key |-> Holder(k)]
Promised == INSTANCE KeyLocks WITH hold <- Hold
StepAsPromised == [Promised!KeysNext]_Hold
OneLockPerKey == Promised!KeysSpec

\* Never everyone waits: whenever requests are under way, one of them can go on, although
\* they overlap in several keys and lock a second time inside (main.go: "cannot deadlock
\* each other when their endpoint order is reversed").
Waiting(c) ==
    \/ /\ call[c].step = "locking"
       /\ mutex[call[c].entry[Least(Keys(c) \ call[c].locked)]] # Nobody
    \/ call[c].step = "held" /\ \E r \in Request : c = Outer(r) /\ call[Inner(r)] # NoCall
SomeoneGoesOn ==
    (\E c \in Call : call[c] # NoCall) => \E c \in Call : call[c] # NoCall /\ ~Waiting(c)
===============================================================================
