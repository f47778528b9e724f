----------------------------- MODULE KernelCode -----------------------------
(***************************************************************************)
(* How the CPU device makes the code of a kernel that is submitted.  The   *)
(* functions and variables the kernel reaches are copied into a module of  *)
(* their own; the variables of its work-group become the fields of a       *)
(* structure, which a hidden last parameter points to; a stub unpacks the  *)
(* array of arguments that the workers prepare.  A footprint of a kernel   *)
(* bounds the size of its work-groups.                                     *)
(*                                                                         *)
(* A module gives its functions, those that are kernels, the kinds of      *)
(* their parameters, who calls whom, who uses which global variable, and   *)
(* which variable refers to which in its initial value.  Of a variable it  *)
(* gives what stands before the dot of its name (the owner), its linkage,  *)
(* whether it belongs to a work-group, and its size and alignments: those  *)
(* of its type (abi) and of itself.                                        *)
(***************************************************************************)
EXTENDS Integers, Sequences, SequencesExt, Graphs

CONSTANTS
    Modules,  \* what the device may have built
    Queues,   \* threads that submit kernels
    Available \* bytes of private memory

VARIABLES
    module,           \* the bit-code on the device
    Kernels,          \* by kernel: the code that was made for it
    submits,          \* by queue: the submission it makes
    KernelFootprints, \* by kernel: the memory it was estimated to take
    crashed           \* memory that was freed is followed

vars == <<module, Kernels, submits, KernelFootprints, crashed>>

RoundUp(n, a) == ((n + a - 1) \div a) * a
Sum(s) == FoldLeft(+, 0, s)

---------------------------------------------------------------------------
(* extractKernelModule.                                                    *)

Reaches(f, g) == ConnectionsIn([node |-> module.fns, edge |-> module.calls])[f, g]

ReachableFunctions(k) == {f \in module.fns : Reaches(k, f)}

ReachableGlobalVariables(fns) ==
    {v \in DOMAIN module.globals : \E f \in fns : <<f, v>> \in module.uses}

---------------------------------------------------------------------------
(* AutomaticLocalVariables.                                                *)

\* isAutomaticLocal: by linkage and name.
IsAutomaticLocal(fns, v) ==
    /\ module.globals[v].internal
    /\ module.globals[v].owner \in fns \cap module.kernels

\* The functions that use one of the variables, and those that call them.
FunctionsToModify(fns, locals) ==
    {f \in fns : \E g \in fns, v \in locals : Reaches(f, g) /\ <<g, v>> \in module.uses}

\* StructType::get and getStructLayout: one field after the other.
StructLayout(fields) ==
    LET Place(s, v) == LET at == RoundUp(s.size, module.globals[v].abi)
                       IN  [size |-> at + module.globals[v].size,
                            offset |-> (v :> at) @@ s.offset]
        laid == FoldLeft(Place, [size |-> 0, offset |-> <<>>], fields)
    IN  [laid EXCEPT !.size =
            RoundUp(@, Max({1} \cup {module.globals[v].abi : v \in ToSet(fields)}))]

\* The code of kernel k, with the fields in the given order.  The arguments
\* of rewritten calls are taken one place too far: stray.
CodeOf(k, fields) ==
    LET fns == ReachableFunctions(k)
        gvs == ReachableGlobalVariables(fns)
        layout == StructLayout(fields)
        hidden == FunctionsToModify(fns, ToSet(fields))
    IN  [fns |-> fns, globals |-> gvs \ ToSet(fields), hidden |-> hidden,
         offset |-> layout.offset, size |-> layout.size,
         stray |-> {f \in hidden : \E g \in fns : <<g, f>> \in module.calls},
         missing |-> {v \in DOMAIN module.globals \ gvs :
                          \E w \in gvs : <<w, v>> \in module.refs}]

LocalsOf(k) ==
    LET fns == ReachableFunctions(k)
    IN  {v \in ReachableGlobalVariables(fns) : IsAutomaticLocal(fns, v)}

ParamsOf(k) ==
    module.params[k] \o IF k \in Kernels[k].hidden THEN <<"pointer">> ELSE <<>>

---------------------------------------------------------------------------
(* The stub and what the worker gives it.  A value is passed by its        *)
(* address.                                                                *)

Argument(i) == <<"argument", i>>
AddressOf(x) == <<"address", x>>
Load(p) == p[2]
GroupLocals == <<"locals", 0>>

\* prepareArgumentsBuffer.
ArgsBuffer(params, size) ==
    [i \in DOMAIN params |-> IF params[i] = "pointer" THEN Argument(i) ELSE AddressOf(Argument(i))]
    \o IF size > 0 THEN <<GroupLocals>> ELSE <<>>

\* BuildStub: an extra load for what is passed by value.
StubCall(params, buffer) ==
    [i \in DOMAIN params |-> IF params[i] = "pointer" THEN buffer[i] ELSE Load(buffer[i])]

---------------------------------------------------------------------------
(* BlockParallelSubmit: the compiler is locked for each of three calls.    *)

Idle == [step |-> "idle"]

Submit(q, k) ==
    /\ submits[q] = Idle
    /\ submits' = [submits EXCEPT ![q] = [step |-> "add", kernel |-> k]]
    /\ UNCHANGED <<module, Kernels, KernelFootprints, crashed>>

\* The uses of a function are followed while the calls that hold them are
\* erased: any outcome.  The order of the fields is that of a set of pointers.
AddKernel(q) ==
    LET k == submits[q].kernel
    IN  /\ submits[q].step = "add"
        /\ IF k \in DOMAIN Kernels THEN UNCHANGED <<Kernels, crashed>>
           ELSE \E fields \in SetToSeqs(LocalsOf(k)) :
                    LET code == CodeOf(k, fields)
                    IN  /\ Kernels' = (k :> code) @@ Kernels
                        /\ crashed' \in IF code.stray = {} THEN {FALSE} ELSE BOOLEAN
        /\ submits' = [submits EXCEPT ![q].step = "entry"]
        /\ UNCHANGED <<module, KernelFootprints>>

GetEntryPoint(q) ==
    /\ submits[q].step = "entry"
    /\ submits[q].kernel \in DOMAIN Kernels
    /\ submits' = [submits EXCEPT ![q].step = "size"]
    /\ UNCHANGED <<module, Kernels, KernelFootprints, crashed>>

\* getAutomaticLocalsSize, and the buffer a worker prepares with it.
GetAutomaticLocalsSize(q) ==
    LET k == submits[q].kernel
    IN  /\ submits[q].step = "size"
        /\ submits' = [submits EXCEPT ![q] =
               [step |-> "run", kernel |-> k,
                buffer |-> ArgsBuffer(module.params[k], Kernels[k].size)]]
        /\ UNCHANGED <<module, Kernels, KernelFootprints, crashed>>

Return(q) ==
    /\ submits[q].step = "run"
    /\ submits' = [submits EXCEPT ![q] = Idle]
    /\ UNCHANGED <<module, Kernels, KernelFootprints, crashed>>

---------------------------------------------------------------------------
(* FootprintEstimate.                                                      *)

RECURSIVE GetSizeLowerBound(_)
GetSizeLowerBound(t) ==
    CASE t.kind = "int"              -> RoundUp(t.bits, 8) \div 8
      [] t.kind = "float"            -> t.bits \div 8
      [] t.kind = "pointer"          -> 4
      [] t.kind = "struct"           -> Sum([i \in DOMAIN t.of |-> GetSizeLowerBound(t.of[i])])
      [] t.kind \in {"array", "vector"} -> t.n * GetSizeLowerBound(t.of)
      [] OTHER                       -> 0

\* AnalyzeMemoryUsage of an alloca; n is 0 when the count is no constant.
PrivateMemoryUsage(body) ==
    Sum([i \in DOMAIN body |-> body[i].n * GetSizeLowerBound(body[i].type)])

\* Footprint::GetMaxWorkGroupSize.
GetMaxWorkGroupSize(usage) == IF usage > 0 THEN Available \div usage ELSE Available

GetKernelFootprint(k) ==
    /\ k \notin DOMAIN KernelFootprints
    /\ KernelFootprints' = (k :> PrivateMemoryUsage(module.allocas[k])) @@ KernelFootprints
    /\ UNCHANGED <<module, Kernels, submits, crashed>>

---------------------------------------------------------------------------
Init ==
    /\ module \in Modules
    /\ Kernels = <<>> /\ KernelFootprints = <<>>
    /\ submits = [q \in Queues |-> Idle]
    /\ crashed = FALSE

Next ==
    /\ ~crashed
    /\ \/ \E q \in Queues :
              \/ \E k \in module.kernels : Submit(q, k)
              \/ AddKernel(q) \/ GetEntryPoint(q) \/ GetAutomaticLocalsSize(q) \/ Return(q)
       \/ \E k \in module.kernels : GetKernelFootprint(k)

Spec == Init /\ [][Next]_vars

---------------------------------------------------------------------------
\* A kernel is called with the arguments that were set, each at its place,
\* and with the locals of its group exactly when its code takes them: the
\* stub, the buffer of the worker and the new type of the kernel agree.
StubReadsTheBuffer ==
    \A q \in Queues : submits[q].step = "run" =>
        LET k == submits[q].kernel
            buffer == submits[q].buffer
        IN  /\ Len(ParamsOf(k)) = Len(buffer)
            /\ StubCall(ParamsOf(k), buffer) =
                   [i \in DOMAIN module.params[k] |-> Argument(i)]
                   \o IF Kernels[k].hidden # {} THEN <<GroupLocals>> ELSE <<>>

Used(k) == {v \in DOMAIN module.globals : \E f \in Kernels[k].fns : <<f, v>> \in module.uses}

\* Fields of one kernel do not overlap and are inside what the worker sets
\* aside; no variable of a kernel is left to all work-groups.
OwnLocalsAreApart ==
    \A k \in DOMAIN Kernels :
        LET at == Kernels[k].offset
        IN  /\ \A v \in Used(k) : module.globals[v].local /\ module.globals[v].owner = k
                   => v \in DOMAIN at
            /\ \A v \in DOMAIN at :
                   /\ at[v] + module.globals[v].size <= Kernels[k].size
                   /\ \A w \in DOMAIN at \ {v} :
                          \/ at[v] + module.globals[v].size <= at[w]
                          \/ at[w] + module.globals[w].size <= at[v]

\* Every variable that is not taken for a local of a kernel is copied, and
\* every function that is called.
CodeIsClosed ==
    \A k \in DOMAIN Kernels :
        /\ Used(k) \subseteq Kernels[k].globals \cup DOMAIN Kernels[k].offset
        /\ \A c \in module.calls : c[1] \in Kernels[k].fns => c[2] \in Kernels[k].fns

\* What a type takes in memory on a machine of 64 bits: [size, align].
RECURSIVE InMemory(_)
InMemory(t) ==
    CASE t.kind \in {"int", "float"} ->
             LET b == CHOOSE b \in {1, 2, 4, 8, 16} : 8 * b >= t.bits /\ 4 * b < Max({t.bits, 5})
             IN  [size |-> b, align |-> b]
      [] t.kind = "pointer" -> [size |-> 8, align |-> 8]
      [] t.kind = "struct"  ->
             LET all == [i \in DOMAIN t.of |-> InMemory(t.of[i])]
                 align == Max({1} \cup {all[i].align : i \in DOMAIN all})
             IN  [size |-> RoundUp(FoldLeft(LAMBDA n, f : RoundUp(n, f.align) + f.size, 0, all), align),
                  align |-> align]
      [] OTHER -> [InMemory(t.of) EXCEPT !.size = t.n * @]

\* A work-group whose private memory there is room for is never refused.
GroupBoundIsUpper ==
    \A k \in DOMAIN KernelFootprints :
        LET body == module.allocas[k]
            needed == Sum([i \in DOMAIN body |-> body[i].n * InMemory(body[i].type).size])
        IN  \A s \in 1..Available :
                s * needed <= Available => s <= GetMaxWorkGroupSize(KernelFootprints[k])

---------------------------------------------------------------------------
(* What comments, assertions, tests or the interface say and the code does *)
(* not keep in every case (README, section 4); no run checks these.        *)

\* A function that uses a local variable is given the locals of its group.
LocalsArePropagated == \A k \in DOMAIN Kernels : Kernels[k].stray = {}

\* No local variable is shared by work-groups.
LocalsAreOfTheGroup ==
    \A k \in DOMAIN Kernels : \A v \in Kernels[k].globals : ~module.globals[v].local

\* A variable of the constant address space keeps its initial value.
ConstantsKeepTheirValues ==
    \A k \in DOMAIN Kernels : \A v \in DOMAIN Kernels[k].offset : module.globals[v].local

\* What the initial value of a variable refers to is copied with it.
InitializersAreComplete == \A k \in DOMAIN Kernels : Kernels[k].missing = {}

\* A local variable keeps its alignment.
LocalsAreAligned ==
    \A k \in DOMAIN Kernels : \A v \in DOMAIN Kernels[k].offset :
        Kernels[k].offset[v] % module.globals[v].align = 0

=============================================================================
