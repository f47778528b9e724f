---------------------------- MODULE KernelLaunch ----------------------------
(***************************************************************************)
(* A kernel from clEnqueueNDRangeKernel to its last work-item.  The build- *)
(* er checks the sizes; the device cuts the space into blocks, one for     *)
(* each work-group, and gives each to the worker that looks least loaded;  *)
(* a worker runs the work-items of a block as coroutines on a ring of      *)
(* stacks.  The stub the compiler builds around a kernel ends with an      *)
(* implicit barrier, so the item started first is the first to return.     *)
(*                                                                         *)
(* One kernel at a time, as an in-order queue has it; the notifications    *)
(* around a block are in InOrderQueue.  Left out of the inputs: a null     *)
(* kernel, a local size of zero, and offsets or local sizes next to a bad  *)
(* global size that follows a good one (all of them are undefined).        *)
(***************************************************************************)
EXTENDS CommandBuilder, IndexSpace

CONSTANTS
    Threads,      \* 1..n, in the order of the device's vector
    Calls,        \* arguments of the calls
    Presets,      \* preferred local sizes, a row for each number of dimensions
    Stray,        \* what may be read beyond the last row
    MaxItemSizes, \* limits of the device: by dimension ...
    MaxGroup,     \* ... of a work-group ...
    SizeMax,      \* ... and of the global indexes
    Barriers,     \* number of barriers in the kernel
    MaxCalls      \* bound: number of calls

VARIABLES
    space,     \* the space of the kernel on the device
    next,      \* BlockParallelSubmit: first work-item of the next block
    loads,     \* pickLeastLoadedThread: the loads read so far
    jobs,      \* by worker: its blocks
    run,       \* by worker: the block it executes
    WaitCount, \* blocks that are not finished
    log,       \* how often each work-item executed each part of the kernel
    calls,     \* number of calls
    answer     \* of the last call

vars == <<space, next, loads, jobs, run, WaitCount, log, calls, answer>>

InvalidExecutable == "CL_INVALID_PROGRAM_EXECUTABLE"
InvalidDimension == "CL_INVALID_WORK_DIMENSION"
InvalidGlobalSize == "CL_INVALID_GLOBAL_WORK_SIZE"
InvalidOffset == "CL_INVALID_GLOBAL_OFFSET"
InvalidGroupSize == "CL_INVALID_WORK_GROUP_SIZE"

\* What is known of the constants: the workers are numbered, a call gives
\* as many sizes as it has dimensions, and no local size is 0.
CallIsKnown(c) ==
    /\ c.dims \in Nat /\ c.global \in Seq(Nat) /\ c.local \in Seq(Nat \ {0})
    /\ c.dims <= Len(MaxItemSizes) => c.dims <= Len(c.global) /\ c.dims <= Len(c.local)
LaunchKinds ==
    /\ Threads \subseteq Nat /\ \E n \in Threads : Threads = 1..n
    /\ SizeMax \in Nat /\ Barriers \in Nat /\ MaxItemSizes \in Seq(Nat)
    /\ Presets \in Seq([1..Len(MaxItemSizes) -> Nat])
    /\ Stray \subseteq [1..Len(MaxItemSizes) -> Nat]
    /\ \A c \in Calls : CallIsKnown(c)

NoSpace == [off |-> <<>>, global |-> <<>>, local |-> <<>>]
Idle == [active |-> FALSE]

---------------------------------------------------------------------------
(* EnqueueNDRangeKernelBuilder.  A call is [kernel, dims, off, global,     *)
(* local, required, wl, nulls].                                            *)

GoodDims(c) == c.dims \in 1..Len(MaxItemSizes)
BadSize(n) == n = 0 \/ n > SizeMax

\* The constructor.  Its check that all arguments are set never fails: see
\* AreAllArgsSpecified in KernelArguments.
KernelErrors(c) ==
       Check(c.kernel = "unbuilt", InvalidExecutable)
    \o Check(c.kernel = "foreign", InvalidContext)
    \o Check(~GoodDims(c), InvalidDimension)
    \o FirstOf(<< <<"global" \in c.nulls, InvalidGlobalSize>>,
                  <<\E i \in 1..c.dims : BadSize(c.global[i]), InvalidGlobalSize>> >>)

\* SetGlobalWorkOffset.
OffsetErrors(c) ==
    Check(/\ GoodDims(c) /\ c.nulls \cap {"global", "off"} = {} /\ ~BadSize(c.global[1])
          /\ \E i \in 1..c.dims : c.off[i] + c.global[i] > SizeMax,
          InvalidOffset)

\* ComputeGlobalWorkPartition: the row is that of one more dimension.
Gcd(a, b) ==
    CHOOSE d \in 1..(a + b) :
        /\ a % d = 0 /\ b % d = 0
        /\ \A e \in (d + 1)..(a + b) : a % e # 0 \/ b % e # 0
Preset(n, i, stray) == IF n < Len(Presets) THEN Presets[n + 1][i] ELSE stray[i]
Partition(global, stray) ==
    [i \in 1..Len(global) |->
        LET preset == Preset(Len(global), i, stray)
        IN  IF preset < global[i] THEN Gcd(global[i], preset) ELSE global[i]]

\* Mutant: the size of the whole work-group is not compared.
LocalErrorsBySide(c) ==
    IF "local" \in c.nulls THEN Check(c.required # <<>>, InvalidGroupSize)
    ELSE Check(GoodDims(c) /\ \E i \in 1..c.dims :
                   \/ c.local[i] > MaxItemSizes[i]
                   \/ c.global[i] % c.local[i] # 0
                   \/ c.required # <<>> /\ c.required[i] # c.local[i],
               InvalidGroupSize)

\* SetLocalWorkSize.  All of its errors are the same.
LocalErrors(c) ==
    IF "local" \in c.nulls THEN Check(c.required # <<>>, InvalidGroupSize)
    ELSE Check(GoodDims(c) /\ (\/ \E i \in 1..c.dims :
                                     \/ c.local[i] > MaxItemSizes[i]
                                     \/ c.global[i] % c.local[i] # 0
                                     \/ c.required # <<>> /\ c.required[i] # c.local[i]
                               \/ Product(SubSeq(c.local, 1, c.dims)) > MaxGroup),
               InvalidGroupSize)

NDRangeErrors(c) ==
    KernelErrors(c) \o OffsetErrors(c) \o LocalErrors(c) \o SetWaitList(c.wl)

\* CommandQueue::Enqueue.
EnqueueAnswer(c) ==
    LET built == Result(c.nulls, <<>>, NDRangeErrors(c))
    IN  IF built = Success /\ "foreign" \in Stored(c.wl) THEN InvalidContext ELSE built

SpaceOf(c, stray) ==
    LET Cut(s) == SubSeq(s, 1, c.dims)
    IN  [off    |-> IF "off" \in c.nulls THEN [i \in 1..c.dims |-> 0] ELSE Cut(c.off),
         global |-> Cut(c.global),
         local  |-> IF "local" \in c.nulls THEN Partition(Cut(c.global), stray)
                    ELSE Cut(c.local)]

\* clEnqueueNDRangeKernel, and BlockParallelSubmit up to its loop.
EnqueueNDRangeKernel(c, stray) ==
    /\ WaitCount = 0 /\ next = <<>>
    /\ answer' = EnqueueAnswer(c)
    /\ calls' = calls + 1
    /\ IF answer' = Success
       THEN /\ space' = SpaceOf(c, stray)
            /\ next' = <<Begin(space')>>
            /\ WaitCount' = GroupsCount(space')
            /\ log' = <<>>
       ELSE UNCHANGED <<space, next, WaitCount, log>>
    /\ UNCHANGED <<loads, jobs, run>>

---------------------------------------------------------------------------
(* BlockParallelSubmit.  The submitting thread holds no lock across the    *)
(* loads it reads.                                                         *)

\* GetLoadIndicator of the next worker.
ReadLoad ==
    /\ next # <<>> /\ Len(loads) + 1 \in Threads
    /\ loads' = Append(loads, Len(jobs[Len(loads) + 1]))
    /\ UNCHANGED <<space, next, jobs, run, WaitCount, log, calls, answer>>

\* The first of the workers with the smallest load.
LeastLoaded ==
    CHOOSE t \in Threads :
        /\ \A u \in Threads : loads[t] <= loads[u]
        /\ \A u \in Threads : u < t => loads[u] > loads[t]

\* A block for every work-group, up to the end of the space.
SubmitBlock ==
    /\ next # <<>> /\ Len(loads) + 1 \notin Threads
    /\ LET first == next[1]
           beyond == Advance(space, first, GroupSize(space))
       IN  /\ jobs' = [jobs EXCEPT ![LeastLoaded] =
                           Append(@, [begin |-> first, end |-> beyond])]
           /\ next' = IF beyond = End(space) THEN <<>> ELSE <<beyond>>
    /\ loads' = <<>>
    /\ UNCHANGED <<space, run, WaitCount, log, calls, answer>>

---------------------------------------------------------------------------
(* A worker.                                                               *)

\* Mutant: every stack is linked to itself.
LinkOwn(n) == [i \in 1..n |-> i]

\* Mutant: the last stack is linked to itself.
LinkOpen(n) == [i \in 1..n |-> IF i = n THEN n ELSE i + 1]

\* ExecutionStack::Reset: each stack is linked to the next, the last to the
\* first.
Link(n) == [i \in 1..n |-> IF i = n THEN 1 ELSE i + 1]

\* Execute(NDRangeKernelBlock) up to Stack.Run.
StartBlock(t) ==
    /\ ~run[t].active /\ jobs[t] # <<>>
    /\ jobs' = [jobs EXCEPT ![t] = Tail(@)]
    /\ run' = [run EXCEPT ![t] =
          [active |-> TRUE,
           begin |-> Head(jobs[t]).begin, end |-> Head(jobs[t]).end,
           cur   |-> Head(jobs[t]).begin,
           stack |-> 1,
           part  |-> [i \in 1..GroupSize(space) |-> 0]]]
    /\ UNCHANGED <<space, next, loads, WaitCount, log, calls, answer>>

\* Mutant: the iterator is not brought back to the first work-item.
NextItemUnbounded(r) == Advance(space, r.cur, 1)

\* SwitchToNextWorkItem: the index that follows the current one.
NextItem(r) ==
    LET following == Advance(space, r.cur, 1)
    IN  IF following = r.end THEN r.begin ELSE following

\* A work-item executes the kernel up to its next barrier, the implicit one
\* at the end included, and switches to the next stack.
RunToBarrier(t) ==
    LET r == run[t]
        did == <<GlobalId(space, r.cur), r.part[r.stack]>>
        so_far == IF did \in DOMAIN log THEN log[did] ELSE 0
    IN  /\ r.active /\ r.part[r.stack] <= Barriers
        /\ log' = [d \in DOMAIN log \cup {did} |-> IF d = did THEN so_far + 1 ELSE log[d]]
        /\ run' = [run EXCEPT ![t] =
              [active |-> TRUE, begin |-> r.begin, end |-> r.end,
               cur   |-> NextItem(r),
               stack |-> Link(GroupSize(space))[r.stack],
               part  |-> [r.part EXCEPT ![r.stack] = @ + 1]]]
        /\ UNCHANGED <<space, next, loads, jobs, WaitCount, calls, answer>>

\* The stub returns from the implicit barrier: on the first stack to
\* RunWorkItems, which ends the block.
EndBlock(t) ==
    LET r == run[t]
    IN  /\ r.active /\ r.part[r.stack] = Barriers + 1 /\ r.stack = 1
        /\ run' = [run EXCEPT ![t] = Idle]
        /\ WaitCount' = WaitCount - 1
        /\ UNCHANGED <<space, next, loads, jobs, log, calls, answer>>

---------------------------------------------------------------------------
Init ==
    /\ space = NoSpace /\ next = <<>> /\ loads = <<>>
    /\ jobs = [t \in Threads |-> <<>>]
    /\ run = [t \in Threads |-> Idle]
    /\ WaitCount = 0 /\ log = <<>> /\ calls = 0 /\ answer = Success

Submitter == ReadLoad \/ SubmitBlock
Worker(t) == StartBlock(t) \/ RunToBarrier(t) \/ EndBlock(t)

Next ==
    \/ calls < MaxCalls /\ \E c \in Calls, stray \in Stray : EnqueueNDRangeKernel(c, stray)
    \/ Submitter
    \/ \E t \in Threads : Worker(t)

Spec == Init /\ [][Next]_vars

\* The caller runs the loop; a worker loops on its commands.
FairSpec ==
    Spec /\ WF_vars(Submitter) /\ \A t \in Threads : WF_vars(Worker(t))

---------------------------------------------------------------------------
Done == space # NoSpace /\ WaitCount = 0

\* All combinations of indexes below the sizes.
Below(sizes) ==
    {s \in [DOMAIN sizes -> 0..SizeMax] : \A i \in DOMAIN sizes : s[i] < sizes[i]}

\* When the last block of a kernel is finished, every work-item of the space
\* has executed every part of the kernel, and only once: the blocks cut by
\* the iterator cover the space, and the ring of stacks and the iterator of
\* a worker go round the work-group in step.
EveryItemOnce ==
    Done => log = [d \in Below(space.global) \X (0..Barriers) |-> 1]

\* None of the work-items of a work-group is past a barrier that another has
\* not reached.
PartsTogether ==
    \A t \in Threads : run[t].active =>
        \A i, j \in DOMAIN run[t].part : run[t].part[i] <= run[t].part[j] + 1

\* A work-item resumed after a barrier is told the same index as before it:
\* the current index of a worker is that of the stack it runs on.
IndexFollowsStack ==
    \A t \in Threads : run[t].active =>
        run[t].cur = Advance(space, run[t].begin, run[t].stack - 1)

\* A barrier holds the work-items of a work-group together, and each goes on
\* as itself: the ring of stacks and the iterator of a worker are in step.
BarriersHold == PartsTogether /\ IndexFollowsStack

\* The work-groups of a kernel that was accepted are no larger than the
\* device can run.
GroupsFit == space # NoSpace => GroupSize(space) <= MaxGroup

\* A kernel that was accepted finishes: no block is forgotten between the
\* loop that submits them and the count that ends the command.
KernelFinishes == (next # <<>>) ~> Done

---------------------------------------------------------------------------
(* What comments, assertions, tests or the interface say and the code does *)
(* not keep in every case (README, section 4); no run checks these.        *)

\* The offset of the call shifts the global indexes of the work-items.
IdsAreShifted ==
    Done => {d[1] : d \in DOMAIN log} =
                {[i \in Dims(space) |-> id[i] + space.off[i]] : id \in Below(space.global)}

=============================================================================
