---------------------------- MODULE MCDeviceSide ----------------------------
(***************************************************************************)
(* What happens to a command once the device has it: the blocks of a       *)
(* kernel on the workers, its code and arguments, the asynchronous copies  *)
(* of its work-groups, the unmap commands, the functions of the library it *)
(* calls and the generator that makes that library.  Each of these         *)
(* components keeps its own state; a behaviour chooses one and takes its   *)
(* steps, under the fairness of the threads that run it.                   *)
(***************************************************************************)
EXTENDS KernelLaunch, KernelArguments, Atomics

VARIABLES
    family,                                                  \* of this behaviour
    module, Kernels, submits, KernelFootprints, astray,      \* KernelCode
    MemMappings, pending, held, mcalls, mlast,               \* MemoryMapping
    pjobs, issued, wpc, wjob, end, completed, deleted, gpc, copies, idx, dpc, cur,
    crashed, ran,                                            \* AsyncCopy
    call, result,                                            \* IntegerBuiltins
    ccall, cresult,                                          \* Conversions
    lib, todo, Impls, lnext, EmittedReqs, header, out, seen  \* LibraryGenerator

codeVars == <<module, Kernels, submits, KernelFootprints, astray>>
mappingVars == <<MemMappings, pending, held, mcalls, mlast>>
copyVars == <<pjobs, issued, wpc, wjob, end, completed, deleted, gpc, copies, idx, dpc, cur,
              crashed, ran>>
builtinVars == <<call, result, ccall, cresult>>
libraryVars == <<lib, todo, Impls, lnext, EmittedReqs, header, out, seen>>
MCvars == <<family, vars, argumentVars, codeVars, mappingVars, copyVars, builtinVars,
          atomicVars, libraryVars>>

---------------------------------------------------------------------------
(* Kernels of one to three dimensions on two workers, with one barrier,    *)
(* and some of them one after the other.                                   *)
KernelArgs == INSTANCE KernelInputs

LaunchCalls == KernelArgs!LaunchCalls
PresetSizes == KernelArgs!PresetSizes
StrayRows == KernelArgs!StrayRows
ItemSizes == KernelArgs!ItemSizes

Relaunches == INSTANCE KernelLaunch WITH Calls <- KernelArgs!Some, MaxCalls <- 2

\* The kinds of constants the theorems about launches start from.
ASSUME LaunchKindsHold == LaunchKinds /\ Relaunches!LaunchKinds

(* A buffer, a value and two local buffers; then an image and a sampler in *)
(* two commands.                                                           *)
ManyParams == KernelArgs!MixedParams
ManyGiven == KernelArgs!MixedGiven
SizeOfKind == KernelArgs!SizeOfKind

Handles == INSTANCE KernelArguments WITH
    Params <- KernelArgs!FewParams, Given <- KernelArgs!FewGiven,
    MaxSets <- 4, MaxCommands <- 2

ASSUME ArgumentsAreSuch == ArgumentKinds /\ Handles!ArgumentKinds

(* The code of two kernels, which two queues submit.                       *)
Code == INSTANCE KernelCode WITH
    Modules <- KernelArgs!KernelModules, Queues <- {"q1", "q2"}, Available <- 64,
    crashed <- astray

(* Mappings of host memory, and calls that are refused.                    *)
MapArgs == INSTANCE ImageInputs

Unmaps == INSTANCE MemoryMapping WITH
    Devices <- {"d1", "d2"}, UseHostPtr <- TRUE, BufferSize <- 4,
    Picture <- MapArgs!PictureLayout, Strip <- MapArgs!StripLayout,
    Limits1 <- MapArgs!MapLimits, MapCalls <- MapArgs!AllMaps, Faults <- {"none"},
    MaxCalls <- 2, calls <- mcalls, last <- mlast

(* A pool of one thread, which shuts down.                                 *)
Pool == INSTANCE AsyncCopy WITH
    NumThreads <- 1, Groups <- {"g1", "g2"}, MaxJobs <- 3, MayShutDown <- TRUE,
    jobs <- pjobs

(* A char of 4 bits, an int of 8 and a long of 16: every narrow value; of  *)
(* the wide ones those around the powers of two.                           *)
IntegerValues ==
    [w \in {4, 8} |->
        IF w = 4 THEN 0..15
        ELSE {0, 1, 2, 3, 5, 15, 16, 17, 37, 64, 126, 127, 128, 129, 200, 240, 254, 255}]

Integer == INSTANCE IntegerBuiltins WITH
    CharWidth <- 4, IntWidth <- 8, LongWidth <- 16, Values <- IntegerValues

(* Integers of 3 and of 5 bits, and reals that are quarters: narrow ones   *)
(* have 3 significant bits.                                                *)
Conversion == INSTANCE Conversions WITH
    Widths <- {3, 5}, LongWidth <- 5, Parts <- 4, Precision <- 3, Numbers <- -140..140,
    call <- ccall, result <- cresult

(* Three work-items, with three calls each, on a location of 4 bits.       *)
Types == INSTANCE ScalarTypes

Location == Types!S(4)
LocationValues == Types!MinVal(Location)..Types!MaxVal(Location)
LocationFetched(f, v, x) == Types!FetchAnd(Location, f, v, x)

Do(f, x) == [f |-> f, x |-> x]
ItemProgram ==
    [i \in {"a", "b", "c"} |->
        CASE i = "a" -> <<Do("min", -3), Do("add", 5), Do("max", 2)>>
          [] i = "b" -> <<Do("max", 7), Do("sub", 7), Do("or", 1)>>
          [] i = "c" -> <<[f |-> "cmpxchg", x |-> 4, cmp |-> 1], Do("xor", 5), Do("min", 0)>>]

(* Two tables, for a machine of 32 bits and one of 64.                     *)
Tables == INSTANCE LibraryTables

Library == INSTANCE LibraryGenerator WITH
    Libraries <- {Tables!Common, Tables!Conversions}, Targets <- Tables!Machines,
    next <- lnext

---------------------------------------------------------------------------
Families == {"launches", "relaunches", "locals", "handles", "code", "unmaps", "pool",
             "integers", "conversions", "atomics", "library"}

MCInit ==
    /\ family \in Families
    /\ Init
    /\ IF family = "handles" THEN Handles!ArgumentsInit ELSE ArgumentsInit
    /\ IF family = "code" THEN Code!Init
       ELSE module = None /\ Kernels = <<>> /\ submits = <<>> /\ KernelFootprints = <<>>
            /\ astray = FALSE
    /\ Unmaps!Init /\ Pool!Init /\ Integer!Init /\ Conversion!Init /\ AtomicInit
    /\ IF family = "library" THEN Library!Init
       ELSE /\ lib = None /\ todo = {} /\ Impls = <<>> /\ lnext = 0
            /\ EmittedReqs = {} /\ header = <<>> /\ out = <<>> /\ seen = None

LaunchStep ==
    /\ \/ family = "launches" /\ Next
       \/ family = "relaunches" /\ Relaunches!Next
    /\ UNCHANGED <<family, argumentVars, codeVars, mappingVars, copyVars, builtinVars,
                   atomicVars, libraryVars>>

ArgumentStep ==
    /\ \/ family = "locals" /\ ArgumentsNext
       \/ family = "handles" /\ Handles!ArgumentsNext
    /\ UNCHANGED <<family, vars, codeVars, mappingVars, copyVars, builtinVars,
                   atomicVars, libraryVars>>

CodeStep ==
    /\ family = "code" /\ Code!Next
    /\ UNCHANGED <<family, vars, argumentVars, mappingVars, copyVars, builtinVars,
                   atomicVars, libraryVars>>

UnmapStep ==
    /\ family = "unmaps" /\ Unmaps!Next
    /\ UNCHANGED <<family, vars, argumentVars, codeVars, copyVars, builtinVars, atomicVars,
                   libraryVars>>

CopyStep ==
    /\ family = "pool" /\ Pool!Next
    /\ UNCHANGED <<family, vars, argumentVars, codeVars, mappingVars, builtinVars,
                   atomicVars, libraryVars>>

BuiltinStep ==
    /\ \/ family = "integers" /\ Integer!Next /\ UNCHANGED <<ccall, cresult>>
       \/ family = "conversions" /\ Conversion!Next /\ UNCHANGED <<call, result>>
    /\ UNCHANGED <<family, vars, argumentVars, codeVars, mappingVars, copyVars, atomicVars,
                   libraryVars>>

AtomicStep ==
    /\ family = "atomics" /\ AtomicNext
    /\ UNCHANGED <<family, vars, argumentVars, codeVars, mappingVars, copyVars, builtinVars,
                   libraryVars>>

LibraryStep ==
    /\ family = "library" /\ Library!Next
    /\ UNCHANGED <<family, vars, argumentVars, codeVars, mappingVars, copyVars, builtinVars,
                   atomicVars>>

MCNext ==
    \/ LaunchStep
    \/ ArgumentStep
    \/ CodeStep
    \/ UnmapStep
    \/ CopyStep
    \/ BuiltinStep
    \/ AtomicStep
    \/ LibraryStep

\* The caller runs the loop that submits the blocks; workers and the thread
\* of the pool loop on their work; a group goes on once it is woken, and the
\* destructor of the pool goes on; a worker goes on with its work-item.
Fairness ==
    /\ WF_vars(family = "relaunches" /\ Relaunches!Submitter)
    /\ \A t \in {1, 2} : WF_vars(family = "relaunches" /\ Relaunches!Worker(t))
    /\ \A dev \in {"d1", "d2"} :
          WF_mappingVars(family = "unmaps" /\ Unmaps!ExecuteUnmap(dev))
    /\ WF_copyVars(family = "pool" /\ ~crashed /\ Pool!Worker(1))
    /\ \A g \in {"g1", "g2"} : WF_copyVars(family = "pool" /\ ~crashed /\ Pool!GroupStep(g))
    /\ WF_copyVars(family = "pool" /\ ~crashed /\ (Pool!Quit \/ Pool!Join))
    /\ \A i \in Items : WF_atomicVars(family = "atomics" /\ Step(i))

MCSpec == MCInit /\ [][MCNext]_MCvars /\ Fairness

---------------------------------------------------------------------------
\* What was begun on the device ends.  An accepted kernel finishes: no block
\* is forgotten, and the ring of stacks comes to an end.  A mapping that was
\* given back leaves the records, so that the region can be mapped for
\* writing again.  The only thread of a pool that is destroyed ends and is
\* joined, whatever it was doing.  An atomic call returns, however often
\* others change the location.
WorkFinishes ==
    /\ (family = "relaunches" /\ next # <<>>) ~> Done
    /\ Unmaps!GivenBackIsRemoved
    /\ Pool!AllThreadsTerminate
    /\ family = "atomics" => CallsReturn

\* The integer functions give the exact result at the ends of the types too:
\* distances and saturating sums do not wrap, high halves are those of the
\* exact product, bits are counted and rotated one by one, and the averages
\* of promoted types keep their carry.  Conversions keep what fits, saturate
\* what does not whatever the signs and widths of the two types, and make
\* the nearest real.
BuiltinsAreExact ==
    /\ Integer!DistancesAreExact
    /\ Integer!SaturationIsExact
    /\ Integer!HighHalvesAreExact
    /\ Integer!CountsAreExact
    /\ Integer!RotationsAreExact
    /\ Integer!PromotionIsEnough
    /\ Conversion!SaturationIsExact
    /\ Conversion!FittingValuesAreKept
    /\ Conversion!RealsAreNearest

\* The code that runs is whole.  The generator makes a library that compiles
\* and is complete for every target and group of functions: every signature
\* of the tables, with the implementation that is most special, declared
\* before it is called and under the guards of its own predicates.  The code
\* of a kernel is closed, keeps its local variables apart and is called with
\* what the worker prepares; the bound on its work-groups refuses none there
\* is room for, and those that are accepted are no larger than the device
\* allows.
CodeIsWhole ==
    /\ family = "library" =>
           /\ Library!ExpansionIsExact
           /\ Library!MostSpecificIsTaken
           /\ Library!CompilesComplete
    /\ family = "code" =>
           /\ Code!StubReadsTheBuffer
           /\ Code!OwnLocalsAreApart
           /\ Code!CodeIsClosed
           /\ Code!GroupBoundIsUpper
    /\ GroupsFit
=============================================================================
