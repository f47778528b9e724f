----------------------------- MODULE SubDevices -----------------------------
(***************************************************************************)
(* Devices, the sub-devices clCreateSubDevices cuts out of them, and the   *)
(* references that sub-devices, contexts and queues hold on sub-devices.   *)
(* A device is a sequence of CPUs; what the hardware component knows of a  *)
(* CPU is the sequence of its ancestors in the topology, nearest first.    *)
(*                                                                         *)
(* Release deletes an object whose count was zero already (see RefCount),  *)
(* so devices, contexts and queues that the program has released stay, and *)
(* with them the references they hold.  Only sub-devices that a failed     *)
(* call made are destroyed.                                                *)
(***************************************************************************)
EXTENDS Integers, FiniteSets, SequencesExt

CONSTANTS
    CPUs,       \* of the machine, in order
    Ancestors,  \* by CPU: a sequence of [kind, id], nearest first
    Parts,      \* arguments: kinds of partition
    MaxDevices, \* bound: number of devices
    MaxUsers,   \* bound: number of contexts, and of queues
    MaxRefs     \* bound: references the program holds when it retains a device

VARIABLES
    devices,  \* [parent, HWCPUs, domains, refs, call]; the first is the machine
    dheld,    \* by device: references of the program
    contexts, \* [devs, refs]
    queues,   \* [dev, refs]
    failed    \* an assertion failed

deviceVars == <<devices, dheld, contexts, queues, failed>>

Caches == <<"L1", "L2", "L3", "L4">>
Domains == {"NUMA"} \cup Range(Caches)
Preference == <<"NUMA", "L4", "L3", "L2", "L1">>
NoComponent == [kind |-> "none"]

IsSubDevice(d) == devices[d].parent # 0

\* before[i] is the sum of the first i elements of s.
Before(s) ==
    LET before[i \in 0..Len(s)] == IF i = 0 THEN 0 ELSE before[i - 1] + s[i]
    IN  before

MaxUnsigned == 2147483647

\* The CPUs of the machine differ.  The numbers of a partition are read into
\* unsigned variables: what the program asks for fits (2^31 - 1 is the largest
\* integer TLC has).
DeviceKinds ==
    /\ CPUs \in Seq(Range(CPUs)) /\ CPUs # <<>> /\ IsInjective(CPUs)
    /\ \A part \in Parts :
          /\ part.type = "EQUALLY" => part.n \in 0..MaxUnsigned
          /\ part.type = "BY_COUNTS" =>
                part.counts \in Seq(Int)
                /\ \A i \in 0..Len(part.counts) : Before(part.counts)[i] <= MaxUnsigned

---------------------------------------------------------------------------
(* HardwareCPU and InitSubDeviceInfo.                                      *)

\* GetCache and GetNUMANode: the first ancestor of the kind.
Component(cpu, dom) ==
    LET same == SelectSeq(Ancestors[cpu], LAMBDA x : x.kind = dom)
    IN  IF same = <<>> THEN NoComponent ELSE Head(same)

Components(cpus, dom) == {Component(c, dom) : c \in Range(cpus)} \ {NoComponent}

\* The domains of the parent are inherited.
SupportedAffinityDomains(inherited, cpus) ==
    LET own == {d \in Domains : Cardinality(Components(cpus, d)) > 1}
        all == inherited \cup own
    IN  IF Len(cpus) = 1 THEN {}
        ELSE IF Cardinality(all) > 1 THEN all \cup {"NEXT"} ELSE all

SupportedPartitionTypes(dev) ==
    IF Len(dev.HWCPUs) = 1 THEN {}
    ELSE {"EQUALLY", "BY_COUNTS"}
         \cup (IF dev.domains = {} THEN {} ELSE {"BY_AFFINITY"})

---------------------------------------------------------------------------
(* createSubDevices.                                                       *)

getTotalComputeUnits(part) == Before(part.counts)[Len(part.counts)]

isPartitionSupported(dev, part) ==
    /\ part.type \in SupportedPartitionTypes(dev)
    /\ CASE part.type = "BY_AFFINITY" -> part.domain \in dev.domains
         [] part.type = "BY_COUNTS" ->
               /\ Len(part.counts) <= Len(dev.HWCPUs)
               /\ getTotalComputeUnits(part) <= Len(dev.HWCPUs)
         [] part.type = "EQUALLY" -> part.n <= Len(dev.HWCPUs)

\* getNumCounts: a list of counts is not empty.
AssertionFails(dev, part) ==
    /\ part.type = "BY_COUNTS" /\ part.type \in SupportedPartitionTypes(dev)
    /\ part.counts = <<>>

\* computeAffinityDomain
AffinityDomain(dev, part) ==
    IF part.domain # "NEXT" THEN part.domain
    ELSE Head(SelectSeq(Preference, LAMBDA d : d \in dev.domains))

\* Mutant: a device starts with the last CPU of the one before.
EquallyOverlapping(dev, n) ==
    [i \in 1..(Len(dev.HWCPUs) \div n) |->
        [j \in 1..n |-> dev.HWCPUs[IF i = 1 THEN j ELSE (i - 1) * n + j - 1]]]

Equally(dev, n) ==
    [i \in 1..(Len(dev.HWCPUs) \div n) |->
        [j \in 1..n |-> dev.HWCPUs[(i - 1) * n + j]]]

ByCounts(dev, counts) ==
    [i \in 1..Len(counts) |->
        [j \in 1..counts[i] |-> dev.HWCPUs[Before(counts)[i - 1] + j]]]

\* The CPUs of a component, in their order.
CPUsOf(comp, cpus, dom) ==
    LET first[i \in 0..Len(cpus)] ==
            IF i = 0 THEN <<>>
            ELSE IF Component(cpus[i], dom) = comp THEN Append(first[i - 1], cpus[i])
            ELSE first[i - 1]
    IN  first[Len(cpus)]

\* One device for each component, in the order of their addresses.
ByAffinity(dev, dom) ==
    LET comps == SetToSeq(Components(dev.HWCPUs, dom))
    IN  [i \in 1..Len(comps) |-> CPUsOf(comps[i], dev.HWCPUs, dom)]

createSubDevices(dev, part) ==
    CASE part.type = "EQUALLY" -> Equally(dev, part.n)
      [] part.type = "BY_COUNTS" -> ByCounts(dev, part.counts)
      [] part.type = "BY_AFFINITY" -> ByAffinity(dev, AffinityDomain(dev, part))

\* What the API function lets through; a zero ends a list of counts.
ValidPart(part) ==
    /\ part.type = "EQUALLY" => part.n > 0
    /\ part.type = "BY_COUNTS" => \A i \in 1..Len(part.counts) : part.counts[i] > 0

---------------------------------------------------------------------------
(* References.                                                             *)

\* Of a device, a context or a queue.
AddRefs(objects, o, n) ==
    [objects EXCEPT ![o] = [objects[o] EXCEPT !.refs = objects[o].refs + n]]

\* Mutant: a sub-device does not retain its parent.
RetainedNever(devs, d, n) == devs

\* n sub-devices made from d retain it, if it is a sub-device itself.
Retained(devs, d, n) ==
    IF devs[d].parent # 0 THEN AddRefs(devs, d, n) ELSE devs

\* ~Device, n times.
Released(devs, d, n) ==
    IF devs[d].parent # 0 THEN AddRefs(devs, d, -n) ELSE devs

\* num is the room the caller has for the new devices, if it wants them.
clCreateSubDevices(d, part, wanted, num) ==
    LET dev  == devices[d]
        cuts == createSubDevices(dev, part)
        n    == Len(cuts)
        made == [i \in 1..n |->
                    [parent |-> d, HWCPUs |-> cuts[i], refs |-> 1,
                     domains |-> SupportedAffinityDomains(dev.domains, cuts[i]),
                     call |-> Len(devices)]]
        kept == wanted /\ num >= n
    IN  /\ ValidPart(part) /\ (wanted => num >= 1)
        /\ IF AssertionFails(dev, part)
           THEN failed' = TRUE /\ UNCHANGED <<devices, dheld>>
           ELSE /\ isPartitionSupported(dev, part)
                /\ Len(devices) + n <= MaxDevices
                /\ devices' = LET all == Retained(devices, d, n)
                              IN  IF kept THEN all \o made ELSE Released(all, d, n)
                /\ dheld' = IF kept THEN dheld \o [i \in 1..n |-> 1] ELSE dheld
                /\ UNCHANGED failed
        /\ UNCHANGED <<contexts, queues>>

clRetainDevice(d) ==
    /\ IsSubDevice(d) /\ FoldSeq(+, 0, dheld) < MaxRefs
    /\ devices' = AddRefs(devices, d, 1)
    /\ dheld' = [dheld EXCEPT ![d] = @ + 1]
    /\ UNCHANGED <<contexts, queues, failed>>

clReleaseDevice(d) ==
    /\ IsSubDevice(d) /\ dheld[d] > 0
    /\ devices' = AddRefs(devices, d, -1)
    /\ dheld' = [dheld EXCEPT ![d] = @ - 1]
    /\ UNCHANGED <<contexts, queues, failed>>

RetainAll(ds) ==
    [d \in DOMAIN devices |->
        IF d \in ds /\ IsSubDevice(d)
        THEN [devices[d] EXCEPT !.refs = devices[d].refs + 1]
        ELSE devices[d]]

clCreateContext(ds) ==
    /\ Len(contexts) < MaxUsers
    /\ devices' = RetainAll(ds)
    /\ contexts' = Append(contexts, [devs |-> ds, refs |-> 1])
    /\ UNCHANGED <<dheld, queues, failed>>

\* The queue retains its context.
clCreateCommandQueue(c, d) ==
    /\ Len(queues) < MaxUsers /\ contexts[c].refs > 0
    /\ d \in contexts[c].devs
    /\ devices' = RetainAll({d})
    /\ contexts' = AddRefs(contexts, c, 1)
    /\ queues' = Append(queues, [dev |-> d, ctx |-> c, refs |-> 1])
    /\ UNCHANGED <<dheld, failed>>

clReleaseContext(c) ==
    /\ contexts[c].refs > Cardinality({q \in DOMAIN queues : queues[q].ctx = c})
    /\ contexts' = AddRefs(contexts, c, -1)
    /\ UNCHANGED <<devices, dheld, queues, failed>>

clReleaseCommandQueue(q) ==
    /\ queues[q].refs > 0
    /\ queues' = AddRefs(queues, q, -1)
    /\ UNCHANGED <<devices, dheld, contexts, failed>>

DeviceInit ==
    /\ devices = <<[parent |-> 0, HWCPUs |-> CPUs, refs |-> 1, call |-> 0,
                    domains |-> SupportedAffinityDomains({}, CPUs)]>>
    /\ dheld = <<1>>
    /\ contexts = <<>> /\ queues = <<>> /\ failed = FALSE

\* Devices the program may name.
Usable == {d \in DOMAIN devices : dheld[d] > 0}

DeviceNext ==
    /\ ~failed
    /\ \/ \E d \in Usable, part \in Parts, wanted \in BOOLEAN, num \in {0, 1, MaxDevices} :
             clCreateSubDevices(d, part, wanted, num)
       \/ \E d \in Usable : clRetainDevice(d) \/ clReleaseDevice(d)
       \/ \E d, e \in Usable : clCreateContext({d, e})
       \/ \E c \in DOMAIN contexts :
             clReleaseContext(c) \/ \E d \in Usable : clCreateCommandQueue(c, d)
       \/ \E q \in DOMAIN queues : clReleaseCommandQueue(q)

DeviceSpec == DeviceInit /\ [][DeviceNext]_deviceVars

---------------------------------------------------------------------------
\* A sub-device has CPUs of its parent, each once, and shares none with the
\* other sub-devices of the same call, over any nesting of partitions.
SiblingsAreApart ==
    \A d \in DOMAIN devices : IsSubDevice(d) =>
        LET dev == devices[d]
        IN  /\ dev.HWCPUs # <<>> /\ IsInjective(dev.HWCPUs)
            /\ Range(dev.HWCPUs) \subseteq Range(devices[dev.parent].HWCPUs)
            /\ \A e \in DOMAIN devices :
                  e # d /\ devices[e].parent = dev.parent /\ devices[e].call = dev.call
                      => Range(dev.HWCPUs) \cap Range(devices[e].HWCPUs) = {}

\* The references of a sub-device are those of the program, of the contexts
\* and queues made with it and of its own sub-devices: calls that fail after
\* they made sub-devices give theirs back.
RefsMatchUsers ==
    \A d \in DOMAIN devices : IsSubDevice(d) =>
        devices[d].refs =
            dheld[d]
            + Cardinality({c \in DOMAIN contexts : d \in contexts[c].devs})
            + Cardinality({q \in DOMAIN queues : queues[q].dev = d})
            + Cardinality({e \in DOMAIN devices : devices[e].parent = d})

\* A sub-device has CPUs of its parent and shares none with the others of its
\* call, over any nesting of partitions; its references are those of its
\* users, also after calls that failed when some sub-devices were made.
SubDevicesAreApart == SiblingsAreApart /\ RefsMatchUsers

---------------------------------------------------------------------------
(* What comments, assertions, tests or the interface say and the code does *)
(* not keep in every case (README, section 4); no run checks these.        *)

\* getNumCounts asserts that there is a count.
AssertionsHold == ~failed
=============================================================================
