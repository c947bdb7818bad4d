-------------------------- MODULE ApplianceCapacity --------------------------
(* Memory of the machine in which the containers run                          *)
(* (runtime/appliance_capacity.rs and where runtime/appliance.rs starts the   *)
(* machine).  A machine that runs is given more memory by plugging devices    *)
(* into it, for which it has a fixed number of slots; QEMU may do what it is   *)
(* asked and its answer may be lost, and the guest brings memory online later. *)
(* The machine's memory is counted in MiB; the exclusive lease makes every     *)
(* request run alone.                                                          *)
EXTENDS Naturals, Sequences

CONSTANTS
    Unit,       \* 128 MiB: what requests are rounded to
    Slots,      \* 64: devices that can be plugged
    Floor,      \* 1024: the least a machine is given
    Overhead,   \* APPLIANCE_OVERHEAD_GB
    Maximum,    \* memory of the host
    Workloads,  \* memory the containers may ask for
    MaxLosses   \* bound: calls that fail or whose answer is lost

VARIABLES
    machine,    \* the machine runs
    basis,      \* memory it was started with
    limit,      \* maxmem
    dimms,      \* sizes of the devices that are plugged
    onlined,    \* the first of them that the guest has brought online
    loose,      \* backends that no device uses
    held,       \* process.capacity.memory_mib
    capacity,   \* RuntimeManager.appliance_capacity
    growing,    \* how far grow_live_appliance() is
    request,    \* the memory it is for
    target,     \* target_mib
    losses,     \* number of failures
    sought      \* history: the most that a request has asked of this machine

capacityVars == <<machine, basis, limit, dimms, onlined, loose, held, capacity, growing, request,
                  target, losses, sought>>
hardware == <<machine, basis, limit>>

\* What the first n devices of s add.
Plugged(s, n) ==
    LET sum[i \in 0..n] == IF i = 0 THEN 0 ELSE sum[i - 1] + s[i] IN sum[n]
Devices == Plugged(dimms, Len(dimms))
Total   == basis + Devices

CeilDiv(a, b)  == (a + b - 1) \div b
Saturating(a, b) == IF a > b THEN a - b ELSE 0
Larger(a, b)   == IF a > b THEN a ELSE b
Smaller(a, b)  == IF a < b THEN a ELSE b

ForWorkloads(m) == Larger(Floor, CeilDiv(m + Overhead, Unit) * Unit)

Chunk(base) == Larger(1, CeilDiv(Saturating(limit, base), Slots * Unit)) * Unit

\* memory_growth_target()
GrowthTarget(base, current, wanted) ==
    Smaller(limit, current + CeilDiv(Saturating(wanted, current), Chunk(base)) * Chunk(base))

\* What the theorems ask of the constants.
CapacityConstants ==
    /\ {Unit, Slots} \subseteq Nat \ {0} /\ {Floor, Overhead, Maximum, MaxLosses} \subseteq Nat
    /\ Workloads \subseteq Nat

CapacityInit ==
    /\ machine = FALSE /\ basis = 0 /\ limit = 0 /\ dimms = <<>> /\ onlined = 0 /\ loose = 0
    /\ held = Floor /\ capacity = Floor /\ growing = "no" /\ request = 0
    /\ target = 0 /\ losses = 0 /\ sought = 0

\* appliance_endpoint() starts the machine with the capacity that is kept, and with all
\* processors of the host: only memory has to grow.
BootWith(m) ==
    /\ machine' = TRUE /\ basis' = m
    /\ limit' = Larger((Maximum \div Unit) * Unit, m)
    /\ dimms' = <<>> /\ onlined' = 0 /\ loose' = 0 /\ held' = m /\ sought' = m

BootKept ==
    /\ ~machine /\ growing = "no"
    /\ BootWith(capacity)
    /\ UNCHANGED <<capacity, growing, request, target, losses>>

\* ensure_container_capacity() while no machine runs: the host must have the memory.
BootRequested(m) ==
    /\ ~machine /\ growing = "no" /\ ForWorkloads(m) <= Maximum
    /\ capacity' = ForWorkloads(m) /\ BootWith(ForWorkloads(m))
    /\ UNCHANGED <<growing, request, target, losses>>

\* The same while one runs and has less.  What it can never have is refused.
Grow(m) ==
    /\ machine /\ growing = "no"
    /\ held < ForWorkloads(m) /\ ForWorkloads(m) <= limit
    /\ request' = ForWorkloads(m) /\ growing' = "query"
    /\ sought' = Larger(sought, ForWorkloads(m))
    /\ UNCHANGED <<hardware, dimms, onlined, loose, held, capacity, target, losses>>

\* query-memory-size-summary: what the machine really has, an earlier device whose answer
\* was lost included.  The host may lack the memory.
Query ==
    /\ growing = "query"
    /\ target' = GrowthTarget(basis, Total, request)
    /\ growing' = IF target' > Total THEN "object" ELSE "devices"
    /\ UNCHANGED <<hardware, dimms, onlined, loose, held, capacity, request, losses, sought>>

Fails == losses < MaxLosses /\ losses' = losses + 1

\* Any call may fail without effect; the request ends with an error.
Refused ==
    /\ growing # "no" /\ Fails
    /\ growing' = "no"
    /\ UNCHANGED <<hardware, dimms, onlined, loose, held, capacity, request, target, sought>>

ObjectAdd ==
    /\ growing = "object"
    /\ loose' = loose + 1
    /\ \/ growing' = "device" /\ UNCHANGED losses
       \/ growing' = "no" /\ Fails
    /\ UNCHANGED <<hardware, dimms, onlined, held, capacity, request, target, sought>>

\* device_add, which QEMU refuses when no slot is left.  After an error the backend is
\* deleted, which QEMU refuses if the device uses it.
DeviceAdd ==
    /\ growing = "device"
    /\ \/ /\ Len(dimms) < Slots
          /\ dimms' = Append(dimms, target - Total) /\ loose' = loose - 1
          /\ \/ growing' = "devices" /\ UNCHANGED losses
             \/ growing' = "no" /\ Fails
       \/ /\ growing' = "no" /\ loose' = loose - 1 /\ UNCHANGED dimms
          /\ IF Len(dimms) < Slots THEN Fails ELSE UNCHANGED losses
    /\ UNCHANGED <<hardware, onlined, held, capacity, request, target, sought>>

\* External: the guest brings the next device online.
GuestOnline ==
    /\ machine /\ onlined < Len(dimms)
    /\ onlined' = onlined + 1
    /\ UNCHANGED <<hardware, dimms, loose, held, capacity, growing, request, target, losses, sought>>

\* query-memory-devices must add up to the target, and the guest must have all of it
\* online, before the capacity is recorded.
Verify ==
    /\ growing = "devices" /\ Devices = Saturating(target, basis) /\ onlined = Len(dimms)
    /\ held' = target /\ capacity' = held'
    /\ growing' = "no"
    /\ UNCHANGED <<hardware, dimms, onlined, loose, request, target, losses, sought>>

\* Thirty seconds pass, or the devices do not add up.
VerifyTimeout ==
    /\ growing = "devices" /\ (onlined < Len(dimms) \/ Devices # Saturating(target, basis))
    /\ growing' = "no"
    /\ UNCHANGED <<hardware, dimms, onlined, loose, held, capacity, request, target, losses, sought>>

\* External: the machine ends.
MachineEnds ==
    /\ machine /\ Fails
    /\ machine' = FALSE /\ growing' = "no"
    /\ UNCHANGED <<basis, limit, dimms, onlined, loose, held, capacity, request, target, sought>>

CapacityNext ==
    \/ BootKept \/ Query \/ Refused \/ ObjectAdd \/ DeviceAdd \/ GuestOnline \/ Verify
    \/ VerifyTimeout \/ MachineEnds
    \/ \E m \in Workloads : BootRequested(m) \/ Grow(m)

CapacitySpec == CapacityInit /\ [][CapacityNext]_capacityVars

-----------------------------------------------------------------------------

\* What containers are admitted against is memory that the guest really has, whatever
\* was lost on the way (grow_live_appliance in runtime/appliance_capacity.rs).
CapacityBacked == machine => held <= basis + Plugged(dimms, onlined)

\* However small the steps of a slider are and whichever of them failed, the slots last
\* until the machine has all it may have (memory_growth_target).
SlotsSuffice == machine /\ Len(dimms) = Slots => Total = limit

\* A request that is repeated because its answer was lost adds nothing twice: the machine
\* never has a chunk more than was asked of it.
NoDoubleGrowth == machine => Total < sought + Chunk(basis)
=============================================================================
