-------------------------- MODULE MCResourceLimits --------------------------
EXTENDS ResourceLimits

MCTotal == [r \in Res |-> IF r = "cpu" THEN 2 * Cpu ELSE 4 * GB]
MCCudaPool == [r \in Res |-> IF r = "cpu" THEN 2 * Cpu ELSE 13 * Step]

Steps(lo, pref, hi) == [min |-> lo * Step, pref |-> pref * Step, max |-> hi * Step]
Normal == [priority |-> 1, cpu |-> Steps(5, 20, 40), mem |-> Steps(4, 10, 12)]
High   == [priority |-> 2, cpu |-> Steps(10, 20, 30), mem |-> Steps(6, 12, 14)]
MCPolicies == {Normal, High}

MCFleets ==
    {[kind |-> <<"oci", "oci", "vm">>, policy |-> <<Normal, High, Normal>>, macos |-> FALSE],
     [kind |-> <<"cuda", "cuda", "micro">>, policy |-> <<Normal, High, Normal>>, macos |-> FALSE],
     [kind |-> <<"oci", "micro", "vm">>, policy |-> <<Normal, High, Normal>>, macos |-> TRUE]}
=============================================================================
