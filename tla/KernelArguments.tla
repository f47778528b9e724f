-------------------------- MODULE KernelArguments ---------------------------
(***************************************************************************)
(* The arguments of a kernel: set one by one, copied into a command when   *)
(* the kernel is enqueued, turned into pointers when the device accepts    *)
(* the command, and completed with the addresses of the local buffers by   *)
(* the worker that runs a block.  The kernel may be changed and enqueued   *)
(* again at every moment in between.                                       *)
(*                                                                         *)
(* A null pointer as the value of an argument passed by value is left out: *)
(* SetByValueArg reads it.                                                 *)
(***************************************************************************)
EXTENDS CommandBuilder

CONSTANTS
    Params,     \* the kinds of the parameters, in order
    Given,      \* what the caller may give: [size, value, foreign]
    SizeOf,     \* by kind: the size that is asked for
    AutoLocals, \* bytes of the local variables of the kernel
    LocalSize,  \* bytes of the local memory of a worker
    MaxSets,    \* bound: calls of clSetKernelArg
    MaxCommands \* bound: commands

VARIABLES
    Arguments, \* of the kernel
    wanted,    \* by command: the arguments when it was enqueued
    commands,  \* the commands: arguments, pointers, addresses of local buffers
    sets,      \* number of calls of clSetKernelArg
    argAnswer  \* of the last call

argumentVars == <<Arguments, wanted, commands, sets, argAnswer>>

InvalidIndex == "CL_INVALID_ARG_INDEX"
InvalidSize == "CL_INVALID_ARG_SIZE"
InvalidArgValue == "CL_INVALID_ARG_VALUE"

Indexes == 1..Len(Params)
NoArg == [kind |-> "none", value |-> "null", size |-> 0]
Null == "null"

\* The signature has kinds of parameters, and a size is a number.
Kinds == {"buffer", "image", "sampler", "value", "local"}
ArgumentKinds ==
    /\ Params \in Seq(Kinds) /\ AutoLocals \in Nat
    /\ \A g \in Given : g.size \in Nat

---------------------------------------------------------------------------
(* Kernel::SetArg.                                                         *)

\* SetBufferArg, SetImageArg, SetSamplerArg: a handle or a null pointer.
HandleError(kind, g) ==
    IF g.size # SizeOf[kind] THEN InvalidSize
    ELSE IF g.value # Null /\ g.foreign THEN InvalidMemObject ELSE Success

\* SetLocalBufferArg: a size only.
LocalError(g) ==
    IF g.value # Null THEN InvalidArgValue
    ELSE IF g.size = 0 THEN InvalidSize ELSE Success

\* SetByValueArg: a value of the size of the parameter.
ValueError(g) == IF g.size # SizeOf["value"] THEN InvalidSize ELSE Success

ArgError(i, g) ==
    IF i \notin Indexes THEN InvalidIndex
    ELSE CASE Params[i] = "local" -> LocalError(g)
           [] Params[i] = "value" -> ValueError(g)
           [] OTHER               -> HandleError(Params[i], g)

SetArg(i, g) ==
    /\ sets < MaxSets
    /\ i \in Indexes /\ Params[i] = "value" => g.value # Null
    /\ sets' = sets + 1
    /\ argAnswer' = ArgError(i, g)
    /\ Arguments' = IF argAnswer' = Success
                    THEN [Arguments EXCEPT ![i] =
                              [kind |-> Params[i], value |-> g.value, size |-> g.size]]
                    ELSE Arguments
    /\ UNCHANGED <<wanted, commands>>

---------------------------------------------------------------------------
(* The command.                                                            *)

\* AreAllArgsSpecified compares the number of parameters in the signature
\* with that of the function.
AreAllArgsSpecified == TRUE

\* clEnqueueNDRangeKernel: the command copies the kernel.
EnqueueKernel ==
    /\ Len(commands) < MaxCommands
    /\ AreAllArgsSpecified
    /\ wanted' = Append(wanted, Arguments)
    /\ commands' = Append(commands, [state |-> "queued", args |-> Arguments,
                                     ptrs |-> <<>>, locals |-> <<>>])
    /\ UNCHANGED <<Arguments, sets, argAnswer>>

\* What the device passes for an argument: local buffers come later.
Pointer(arg) == IF arg.kind \in {"none", "local"} THEN Null ELSE arg.value

\* Mutant: the arguments are those the kernel has when the command starts.
ArgsOfKernel(c) == Arguments

\* GetKernel of the command: its copy.
ArgsOf(c) == commands[c].args

\* createKernelArguments: in order, each argument at its index.  The index of
\* an argument that was never set is uninitialised: stray.
Pointers(args, stray) ==
    LET Index(i) == IF args[i] = NoArg THEN stray ELSE i
        after[n \in 0..Len(Params)] ==
            IF n = 0 THEN [i \in Indexes |-> Null]
            ELSE [after[n - 1] EXCEPT ![Index(n)] = Pointer(args[n])]
    IN  after[Len(Params)]

\* The device accepts the command.
Submit(c, stray) ==
    LET args == ArgsOf(c)
    IN  /\ commands[c].state = "queued"
        /\ (stray = 1 \/ \E i \in Indexes : args[i] = NoArg)
        /\ commands' = [commands EXCEPT ![c] =
               [state |-> "submitted", args |-> args,
                ptrs |-> Pointers(args, stray), locals |-> <<>>]]
        /\ UNCHANGED <<Arguments, wanted, sets, argAnswer>>

\* The bytes of the local buffers among the first arguments.
LocalBytes(args) ==
    LET upTo[n \in 0..Len(Params)] ==
            IF n = 0 THEN 0
            ELSE upTo[n - 1] + IF args[n].kind = "local" THEN args[n].size ELSE 0
    IN  upTo

\* Mutant: the local buffers start where the local variables do.
LocalBaseAtStart(args, i) == LocalBytes(args)[i - 1]

\* LocalMemory::Reset and Alloc: one after the other, after the local
\* variables.
LocalBase(args, i) == AutoLocals + LocalBytes(args)[i - 1]

\* prepareArgumentsBuffer, for a block of the command.
Prepare(c) ==
    LET args == commands[c].args
    IN  /\ commands[c].state = "submitted"
        /\ commands' = [commands EXCEPT ![c] =
               [state |-> "ready", args |-> args, ptrs |-> commands[c].ptrs,
                locals |-> [i \in {k \in Indexes : args[k].kind = "local"} |->
                               [first |-> LocalBase(args, i), size |-> args[i].size]]]]
        /\ UNCHANGED <<Arguments, wanted, sets, argAnswer>>

---------------------------------------------------------------------------
ArgumentsInit ==
    /\ Arguments = [i \in Indexes |-> NoArg]
    /\ wanted = <<>> /\ commands = <<>>
    /\ sets = 0 /\ argAnswer = Success

ArgumentsNext ==
    \/ \E i \in 1..(Len(Params) + 1), g \in Given : SetArg(i, g)
    \/ EnqueueKernel
    \/ \E c \in DOMAIN commands : Prepare(c) \/ \E stray \in Indexes : Submit(c, stray)

ArgumentsSpec == ArgumentsInit /\ [][ArgumentsNext]_argumentVars

---------------------------------------------------------------------------
Started == {c \in DOMAIN commands : commands[c].state # "queued"}
Ready == {c \in DOMAIN commands : commands[c].state = "ready"}

\* A kernel all of whose arguments were set runs with those it had when it
\* was enqueued, each at its own place, whatever is set in between.
ArgumentsAreKept ==
    \A c \in Started :
        (\A i \in DOMAIN wanted[c] : wanted[c][i] # NoArg) =>
            \A i \in DOMAIN wanted[c] : commands[c].ptrs[i] = Pointer(wanted[c][i])

\* The local buffers of a block overlap neither one another nor the local
\* variables of the kernel.
LocalsAreApart ==
    \A c \in Ready :
        LET locals == commands[c].locals
        IN  \A i \in DOMAIN locals :
                /\ locals[i].first >= AutoLocals
                /\ \A j \in DOMAIN locals \ {i} :
                       \/ locals[i].first + locals[i].size <= locals[j].first
                       \/ locals[j].first + locals[j].size <= locals[i].first

\* A kernel runs with the arguments it had when it was enqueued, and its
\* local buffers overlap neither one another nor its local variables.
RunsAsEnqueued == ArgumentsAreKept /\ LocalsAreApart

---------------------------------------------------------------------------
(* What comments, assertions, tests or the interface say and the code does *)
(* not keep in every case (README, section 4); no run checks these.        *)

\* The local buffers of a block are inside the local memory of the worker.
LocalsFit ==
    \A c \in Ready : \A i \in DOMAIN commands[c].locals :
        commands[c].locals[i].first + commands[c].locals[i].size <= LocalSize

\* Every argument of a kernel on the device was set.
AllArgsAreSet == \A c \in Started : \A i \in DOMAIN wanted[c] : wanted[c][i] # NoArg

=============================================================================
