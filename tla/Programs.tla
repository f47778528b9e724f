------------------------------ MODULE Programs ------------------------------
(***************************************************************************)
(* A program, its builds and the kernels made from it.  A build takes the  *)
(* lock of the program for the check that no kernel is attached, and again *)
(* for each device.  A kernel refers to functions of the modules (the      *)
(* bit-code) that the devices had when it was made.                        *)
(*                                                                         *)
(* Devices are numbered in the order of the map of build information.  The *)
(* compiler is external: for each device it fails or gives a module, which *)
(* is a function from the names of its kernels to their signatures.        *)
(***************************************************************************)
EXTENDS Integers, Sequences, SequencesExt

CONSTANTS
    Threads,        \* threads of the program that use the API
    ProgramDevices, \* devices of the program
    Foreign,        \* devices that are not associated with it
    FromBinary,     \* devices whose binary loaded; {} for a program from source
    Modules,        \* what the compiler may give
    MayFail,        \* the compiler may fail
    Ops,            \* calls the threads make
    MaxBuilds,      \* bound: number of compilations
    MaxKernels      \* bound: number of kernels

VARIABLES
    BuildInfo,       \* by device: status and bit-code, or a null pointer
    AttachedKernels, \* descriptors attached to the program
    descs,           \* the descriptors made: functions by device, references,
                     \* and whether no build was under way
    kernels,         \* the kernels made: descriptor, references, handles
    builds,          \* number of compilations
    building,        \* by thread: the build it is in
    crashed          \* a null pointer was dereferenced

programVars == <<BuildInfo, AttachedKernels, descs, kernels, builds, building, crashed>>

Names == UNION {DOMAIN m : m \in Modules}

\* Devices are numbered, and a module has finitely many kernels.
ProgramKinds ==
    /\ ProgramDevices \cup Foreign \subseteq Nat /\ FromBinary \subseteq ProgramDevices
    /\ IsFiniteSet(Names)

NoCode == [id |-> 0, kernels |-> <<>>]
NewInfo == [status |-> "NONE", code |-> NoCode]
NullInfo == [status |-> "null", code |-> NoCode]
Idle == [active |-> FALSE, devs |-> {}]

\* BuildInfo[d], when it is there.
HasBitCode(d) == BuildInfo[d].code # NoCode
IsBuilt(d) == BuildInfo[d].status = "SUCCESS"
DefineKernel(d, name) == name \in DOMAIN BuildInfo[d].code.kernels

Crash == crashed' = TRUE
NoCrash == UNCHANGED crashed

Least(S) == CHOOSE d \in S : \A e \in S : d <= e

---------------------------------------------------------------------------
(* clBuildProgram.                                                         *)

\* Mutant: kernels are not looked for.
StartBuildAlways(t, devs) ==
    /\ "build" \in Ops /\ ~building[t].active
    /\ building' = [building EXCEPT ![t] =
                        [active |-> TRUE, devs |-> IF devs = {} THEN ProgramDevices ELSE devs]]
    /\ UNCHANGED <<BuildInfo, AttachedKernels, descs, kernels, builds, crashed>>

\* HasAttachedKernels, under the lock; a list of devices or all of them.
StartBuild(t, devs) ==
    /\ "build" \in Ops /\ ~building[t].active
    /\ AttachedKernels = {}
    /\ building' = [building EXCEPT ![t] =
                        [active |-> TRUE, devs |-> IF devs = {} THEN ProgramDevices ELSE devs]]
    /\ UNCHANGED <<BuildInfo, AttachedKernels, descs, kernels, builds, crashed>>

Compiled(module) == [id |-> builds + 1, kernels |-> module]

\* The build information once device d has the given result.
AfterBuild(d, result) ==
    [e \in DOMAIN BuildInfo \cup {d} |-> IF e = d THEN result ELSE BuildInfo[e]]

InfoOf(d) == IF d \in DOMAIN BuildInfo THEN BuildInfo[d] ELSE NewInfo

\* Build(Dev, Opts), all of it under the lock.  The devices come in the order
\* of the caller's list, any order; the loop ends at an error.
BuildDevice(t, d) ==
    /\ building[t].active /\ d \in building[t].devs
    /\ LET More(ok) == building' = [building EXCEPT ![t] =
                           [active |-> TRUE, devs |-> IF ok THEN @.devs \ {d} ELSE {}]]
       IN  \/ /\ d \notin ProgramDevices \/ FromBinary # {}
              /\ BuildInfo' = AfterBuild(d, InfoOf(d))
              /\ More(d \in ProgramDevices /\ InfoOf(d).code # NoCode)
              /\ UNCHANGED builds
           \/ /\ d \in ProgramDevices /\ FromBinary = {} /\ MayFail
              /\ BuildInfo' = AfterBuild(d, [InfoOf(d) EXCEPT !.status = "ERROR"])
              /\ More(FALSE)
              /\ UNCHANGED builds
           \/ /\ d \in ProgramDevices /\ FromBinary = {}
              /\ builds < MaxBuilds
              /\ \E module \in Modules :
                     BuildInfo' = AfterBuild(d, [status |-> "SUCCESS", code |-> Compiled(module)])
              /\ builds' = builds + 1
              /\ More(TRUE)
    /\ UNCHANGED <<AttachedKernels, descs, kernels, crashed>>

\* CompilerDone, and the return.
EndBuild(t) ==
    /\ building[t].active /\ building[t].devs = {}
    /\ building' = [building EXCEPT ![t] = Idle]
    /\ UNCHANGED <<BuildInfo, AttachedKernels, descs, kernels, builds, crashed>>

---------------------------------------------------------------------------
(* Kernels.                                                                *)

\* What a descriptor keeps of a kernel on the given devices.
Infos(on, name) ==
    [d \in on |-> [code |-> BuildInfo[d].code.id, sign |-> BuildInfo[d].code.kernels[name]]]

\* The constructors: for each name a kernel with a reference to a new
\* descriptor, which is attached.  calm is history: no build was under way
\* that could compile.
Make(infos, refs) ==
    /\ descs' = descs \o [i \in DOMAIN infos |->
                              [infos |-> infos[i], refs |-> 1, deleted |-> FALSE,
                               calm |-> \/ FromBinary # {}
                                        \/ \A t \in Threads : ~building[t].active]]
    /\ kernels' = kernels \o [i \in DOMAIN infos |->
                              [desc |-> Len(descs) + i, refs |-> refs, held |-> 1]]
    /\ AttachedKernels' = AttachedKernels \cup {Len(descs) + i : i \in DOMAIN infos}

\* Mutant: the signatures are not compared.
SameSignatureNever(fst, d, name) == TRUE

\* GetKernelSignature of two devices.
SameSignature(fst, d, name) ==
    BuildInfo[d].code.kernels[name] = BuildInfo[fst].code.kernels[name]

\* Program::CreateKernel: the first device whose module defines the kernel,
\* and the built devices after it.
CreateKernel(t, name) ==
    /\ "create" \in Ops /\ ~building[t].active /\ Len(kernels) < MaxKernels
    /\ BuildInfo # <<>>
    /\ LET defining == {d \in DOMAIN BuildInfo : DefineKernel(d, name)}
           fst == Least(defining)
           scanned == {d \in DOMAIN BuildInfo : defining = {} \/ d < fst}
           rest == {d \in DOMAIN BuildInfo : d > fst /\ IsBuilt(d)}
       IN  IF \E d \in scanned : ~HasBitCode(d) THEN Crash /\ UNCHANGED <<descs, kernels, AttachedKernels>>
           ELSE /\ defining # {}
                /\ IF \E d \in rest : ~DefineKernel(d, name)
                   THEN Crash /\ UNCHANGED <<descs, kernels, AttachedKernels>>
                   ELSE /\ \A d \in rest : SameSignature(fst, d, name)
                        /\ Make(<<Infos({fst} \cup rest, name)>>, 1)
                        /\ NoCrash
    /\ UNCHANGED <<BuildInfo, builds, building>>

\* Program::CreateKernelsInProgram: a kernel for every name some built device
\* defines.  It does not retain the kernels it gives.
CreateKernelsInProgram(t) ==
    LET On(name) == {d \in DOMAIN BuildInfo : IsBuilt(d) /\ DefineKernel(d, name)}
        found == SetToSeq({name \in Names : On(name) # {}})
    IN  /\ "create_all" \in Ops /\ ~building[t].active
        /\ found # <<>> /\ Len(kernels) + Len(found) <= MaxKernels
        /\ Make([i \in DOMAIN found |-> Infos(On(found[i]), found[i])], 0)
        /\ UNCHANGED <<BuildInfo, builds, building, crashed>>

\* clReleaseKernel.  Release deletes when the count was zero before; the
\* destructor of a kernel releases its descriptor, and that of a descriptor
\* detaches it.
ReleaseKernel(k) ==
    LET gone == kernels[k].refs = 0
        d == kernels[k].desc
    IN  /\ "release" \in Ops /\ kernels[k].held > 0
        /\ kernels' = [kernels EXCEPT ![k] = [desc |-> d, refs |-> @.refs - 1, held |-> @.held - 1]]
        /\ descs' = IF gone
                    THEN [descs EXCEPT ![d] = [infos |-> @.infos, refs |-> @.refs - 1,
                                               deleted |-> @.refs = 0, calm |-> @.calm]]
                    ELSE descs
        /\ AttachedKernels' = {a \in AttachedKernels : ~descs'[a].deleted}
        /\ UNCHANGED <<BuildInfo, builds, building, crashed>>

---------------------------------------------------------------------------
(* clGetProgramInfo of the binaries: IsBuiltFor inserts a null pointer for *)
(* a device without build information, and dereferences it.                *)
QueryBinaries(t) ==
    /\ "query" \in Ops /\ ~building[t].active
    /\ ~(ProgramDevices \subseteq DOMAIN BuildInfo)
    /\ LET d == Least(ProgramDevices \ DOMAIN BuildInfo)
       IN  BuildInfo' = AfterBuild(d, NullInfo)
    /\ Crash
    /\ UNCHANGED <<AttachedKernels, descs, kernels, builds, building>>

---------------------------------------------------------------------------
\* A program from binaries has the bit-code of those that load.
ProgramInit ==
    /\ \E module \in [FromBinary -> Modules] :
           BuildInfo = [d \in IF FromBinary = {} THEN {} ELSE ProgramDevices |->
               IF d \in FromBinary
               THEN [status |-> "SUCCESS", code |-> [id |-> -d, kernels |-> module[d]]]
               ELSE NewInfo]
    /\ AttachedKernels = {} /\ descs = <<>> /\ kernels = <<>>
    /\ builds = 0
    /\ building = [t \in Threads |-> Idle]
    /\ crashed = FALSE

Step(t) ==
    \/ \E devs \in SUBSET (ProgramDevices \cup Foreign) : StartBuild(t, devs)
    \/ \E d \in ProgramDevices \cup Foreign : BuildDevice(t, d)
    \/ EndBuild(t)
    \/ \E name \in Names : CreateKernel(t, name)
    \/ CreateKernelsInProgram(t)
    \/ QueryBinaries(t)

ProgramNext ==
    /\ ~crashed
    /\ \/ \E t \in Threads : Step(t)
       \/ \E k \in DOMAIN kernels : ReleaseKernel(k)

ProgramSpec == ProgramInit /\ [][ProgramNext]_programVars

---------------------------------------------------------------------------
\* Kernel k refers to functions of the modules its devices have now: no build
\* replaced a module under it.
Refers(k) ==
    LET infos == descs[kernels[k].desc].infos
    IN  \A d \in DOMAIN infos : BuildInfo[d].code.id = infos[d].code

\* So does every kernel that was not released, unless the program is compiled
\* and some thread was between StartBuild and CompilerDone when it was made.
NoDanglingKernels ==
    \A k \in DOMAIN kernels :
        kernels[k].held > 0 /\ descs[kernels[k].desc].calm => Refers(k)

\* A kernel has the same signature on all of its devices.
SignaturesAgree ==
    \A k \in DOMAIN kernels :
        LET infos == descs[kernels[k].desc].infos
        IN  \A d, e \in DOMAIN infos : infos[d].sign = infos[e].sign

\* Both; clCreateKernelsInProgram does not compare signatures.
KernelsMatchModules == NoDanglingKernels /\ ("create_all" \notin Ops => SignaturesAgree)

---------------------------------------------------------------------------
(* What comments, assertions, tests or the interface say and the code does *)
(* not keep in every case (README, section 4); no run checks these.        *)

\* No call reads the bit-code of a device that has none, or the build
\* information of a device without any.
NoNullDereference == ~crashed

\* No build replaces a module that a kernel refers to; StartBuild looks for
\* kernels, and a kernel may be made before BuildDevice takes the lock again.
KernelsKeepTheirCode ==
    \A k \in DOMAIN kernels : kernels[k].held > 0 => Refers(k)

\* Once all kernels are released the program can be built again.
ReleasedIsDetached ==
    (\A k \in DOMAIN kernels : kernels[k].held = 0) => AttachedKernels = {}

=============================================================================
