------------------------------- MODULE KeyLocks -------------------------------
(* What the agent's handlers are promised (appliance/agent/main.go: "lock       *)
(* serializes only operations that touch the same resource"): one lock for each *)
(* key, taken when nobody has it and given back by who has it.                  *)
CONSTANTS Key, Call, Nobody

VARIABLE hold        \* who has each key

KeysFree == hold = [k \in Key |-> Nobody]

Take(c, k) == hold[k] = Nobody /\ hold' = [hold EXCEPT ![k] = c]
Give(c, k) == hold[k] = c /\ hold' = [hold EXCEPT ![k] = Nobody]

KeysNext == \E c \in Call, k \in Key : Take(c, k) \/ Give(c, k)
KeysSpec == KeysFree /\ [][KeysNext]_hold
===============================================================================
