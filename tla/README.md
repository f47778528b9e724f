# TLA+ models of OpenCRun

OpenCRun is an OpenCL runtime with one kind of device, the CPUs of the machine.
Applications link `libOpenCRun` and call the OpenCL API from any number of
threads; the runtime checks their arguments, keeps memory objects coherent,
hands commands to one worker thread per logical core, and reports their progress
through events.

This directory models that runtime from the API call to the last work-item. All
modules are translated from the code; the paths below are relative to the
repository.

## 1. Inventory

### Components

| Component | Code | State | Operations | Modelled in |
|---|---|---|---|---|
| In-order command queue | `lib/Core/CommandQueue.cpp`, `Core/CommandQueue.h` | `Commands`, `PendingCommands`, `CommandOnFly`, `ThisLock` | `Enqueue`, `Flush`, `Finish`, `RunScheduler`, `submit`, `CommandDone` | `InOrderQueue` |
| Out-of-order command queue | same | same | stubs: nothing is ever scheduled | no |
| Command builders | `lib/Core/Command.cpp`, `tools/libOpenCRun/EnqueueCommand.cpp` | none, until the command is made | the checks of every `clEnqueue...` function | `CommandBuilder`, `BufferCommands`, `ImageCommands`, `MemoryMapping`, `KernelLaunch` |
| Commands on the device | `lib/Device/CPU/Command.{h,cpp}`, `CPUThread.cpp` | `CPUMultiExecContext`: started, waiting and error counters | `notifyStart`, `notifyCompletion`, the copy loops | `InOrderQueue`, `Transfers` |
| Events | `lib/Core/Event.cpp`, `Core/Event.h`, `tools/libOpenCRun/Event.cpp` | `Status`, `Callbacks`, a Monitor | `Signal`, `Mark*`, `SetStatus`, `AddEventCallback`, `Wait`, `clWaitForEvents` | `Event` |
| CPU worker threads | `lib/Device/CPU/CPUThread.{h,cpp}` | `Mode`, list of commands, load sample, stacks of the work-items, local memory | `Submit`, `Run`, `Execute`, tear-down, barriers | `InOrderQueue`, `WorkerTearDown`, `KernelLaunch`, `KernelArguments` |
| CPU device | `lib/Device/CPU/CPUDevice.cpp` | list of worker threads, descriptors, parent device | `Submit`, `BlockParallelSubmit`, choice of a thread, work partition, sub-devices | the same, `MemoryCoherency`, `SubDevices` |
| Asynchronous copies | `lib/Device/CPU/ThreadPool.{h,cpp}`, `AsyncInternalCalls.cpp`, `AsyncCopyThread.cpp` | list of jobs, per worker `job` and `end`, per job `completed` | `EnqueueJob`, worker `Run`, `Quit`, `~ThreadPool`, `AsyncWorkGroupCopy`, `WaitGroupEvents` | `AsyncCopy` |
| Monitors and threads | `lib/System/Monitor.cpp`, `Thread.cpp` | recursive mutex and condition variable | `Enter`, `Exit`, `Wait`, `Signal`, `Broadcast`, `Join` | inside `Event`, `AsyncCopy` |
| Reference counts | `Util/MTRefCounted.h` | `Refs` | `Retain`, `Release` | `RefCount` |
| Memory objects | `lib/Core/MemoryObject.cpp`, `Core/MemoryObject.h`, `tools/libOpenCRun/MemoryObject.cpp` | flags, layout, coherency chunks, mappings, devices' descriptors | creation, transfers, `splitChunk`, map and unmap | `MemoryObjects`, `ImageLayout`, `MemoryCoherency`, `MemoryMapping` |
| Index spaces | `lib/Util/DimensionInfo.cpp`, `Util/DimensionInfo.h` | iterator over work-items and groups | increment, advance, comparison | `IndexSpace` |
| Programs and kernels | `lib/Core/Program.cpp`, `Kernel.cpp` | build information by device, attached descriptors, arguments | build, `CreateKernel`, `SetArg` | `Programs`, `KernelArguments` |
| Contexts, platform, devices | `lib/Core/Device.cpp`, `Context.cpp`, `tools/libOpenCRun/Device.cpp` | parents and references | `clCreateSubDevices` and what keeps devices alive | `SubDevices` |
| Compilers and passes | `lib/Core/DeviceCompiler.cpp`, `lib/Device/CPU/CPUCompiler.cpp`, `lib/Device/CPU/Passes`, `lib/Passes` | compiled kernels by name, footprints by kernel | `addKernel`, `getEntryPoint`, `getAutomaticLocalsSize`, `getKernelFootprint` | `KernelCode`, in part |
| Built-in library | `Device/Library/*.td`, `Device/Library/*.inc` | the locations that atomic functions share | integer, conversion, atomic and floating-point functions | `IntegerBuiltins`, `Conversions`, `Atomics`, in part |
| Generator of the library | `utils/OCLGen` | types, implementations by signature, the conditions that are open in the output | loading, sorting, choice of implementations, emission | `TypeOrder`, `LibraryGenerator` |
| Hardware, environment, clock, profiler | `lib/System`, `lib/Util` | samples and reports | discovery | no |

### How they interact

A call of the API chains the setters of a builder, which notes an error for each
argument it refuses, and enqueues the command if there was none. Enqueueing appends it to
`Commands` and runs `RunScheduler`, which looks at the front command only. If no
command of the queue is on the fly and the front one's wait list has completed,
the queue makes the memory objects of the command coherent on its device and submits
it, still under `ThisLock`, to the device, which appends one entry per block (work-group) to
the lists of worker threads. Workers execute the blocks, mark the event running
and completed, and the last block calls `CommandDone` of the queue: it resets
`CommandOnFly`, runs `RunScheduler` on the worker's thread, so that the next
command follows, and frees the command. Hosts wait inside blocking calls,
`clFinish` and `clWaitForEvents`; the events' callbacks are called by whichever
thread signals the status.

Within a block the work-items are coroutines on a ring of stacks and switch at
barriers. Work-groups that call `async_work_group_copy` create jobs for a thread
pool of their own; `wait_group_events` blocks the worker until the pool has carried them out.

### What is hard

* The submitting host and the workers update the same event with no order
  between them; a command may be complete before its submission returns, and it
  may be freed before the `Enqueue` that created it has returned.
* `CommandOnFly` is set by one thread and reset by another. Blocks of one kernel
  end on several workers, one of which has to finish the command.
* `Finish` takes a snapshot of two containers that workers keep changing.
* A queue is kept going by `CommandDone` alone; nothing wakes a queue whose front
  command waits for another queue or for a user event.
* Callbacks are registered while the event advances; waiters and completions race.
* The pool's threads share one condition variable for jobs and for termination.
* Two devices bring themselves up to date from one partition of chunks, in three
  separate critical sections, while images split the chunks.
* A worker tests its mode without the Monitor under which the destructor's stop
  command changes it; a submission may fail after some of its blocks were accepted.
* Mappings share pointers, and are given back by pointer, later, on any queue.
* Areas, pitches, sizes and offsets meet limits one by one, in bytes, pixels or cells.
* A build runs in steps while kernels are created from the modules it replaces.
* `atomic_min` and `atomic_max` read and exchange in two steps, and other items come between.
* Conversions meet the end of one type in the arithmetic of the other.
* The generator replaces, splits and sorts signatures by several partial orders; an error
  shows only when some target compiles some group.

`PROJECT.json` lists these and the others under `hazards`, each with its line and
the properties about it, or the reason why there is none.

### What makes each component correct

* Queue: execution in order; wait lists respected across queues; a command
  completes exactly when all its blocks have run, with an error exactly when one
  failed; no use of a freed command; `Finish` and blocking calls wait for what they
  say; everything enqueued completes; `Finish` returns.
* Event: statuses only advance; each callback is called once, not too early, and
  not skipped; no waiter sleeps through the completion, or overtakes its callbacks.
* Asynchronous copies: no lost copy, no lost wake-up, no use of a deleted job, and
  termination of the threads.
* Reference counts: the last release, and no other, deletes the object.
* Memory coherency: the chunks partition the object; a validity bit that is set is
  true; a reader sees the last write.
* Workers under tear-down: accepted commands run; the destructor returns.
* Builders and worker loops: what is accepted stays inside both objects and moves
  exactly what was asked for; what OpenCL allows is accepted.
* Mappings: records are as many as mappings; writers exclude one another.
* Kernels: every work-item once, barriers hold, arguments are those of the call.
* Programs: a kernel's functions stay those of the module it was made from.
* Code of kernels: stub, buffer of arguments and new type of a kernel agree; the local
  variables of a work-group are apart from each other and from those of other groups.
* Sub-devices: siblings are apart; references are those of the users.
* Library: results are exact at the ends of the types; atomic calls take effect one at a
  time; what is generated compiles and has every signature, for every target.

## 2. Modules

| Module | Models | Checked or proved in |
|---|---|---|
| `InOrderQueue`, `MCInOrderQueue` | queues, hosts, device submission, workers, command counters | `queue_*` runs, `InOrderQueueProofs` |
| `CommandOrder` | abstract specification: when a command may be dispatched and completed | `queue_waits`, `InOrderQueueProofs` |
| `Event`, `MCEvent` | events, callbacks, waiting | `events`, `EventProofs` |
| `AsyncCopy` | thread pool, asynchronous copies, shutdown of the pool | `async_*`, `device_side`, `AsyncCopyProofs` |
| `WorkerTearDown` | the destruction of a device under load, failed submissions | `teardown_stop`, `WorkerTearDownProofs` |
| `RefCount` | reference counting | `refcount_last_release` |
| `MemoryCoherency`, `MCMemoryCoherency` | chunks, validity, storages and transfers of one object | `coherency`, `MemoryCoherencyProofs` |
| `CommandBuilder` | errors of a builder, wait lists | used by the next ones |
| `Transfers` | the workers' copy and fill loops as sets of moves | used by the next two |
| `BufferCommands`, `BufferInputs` | commands on buffers, linear and rectangular | `host_calls`, `HostCallProofs` |
| `ImageLayout` | formats, sizes, pitches and limits of images | used by the next three |
| `ImageCommands`, `ImageInputs` | commands on images | `host_calls`, `HostCallProofs` |
| `MemoryObjects`, `ObjectInputs` | creation of buffers and images | `host_calls` |
| `MemoryMapping`, `ImageInputs` | map and unmap, mapping records | `host_calls`, `device_side`, `HostCallProofs` |
| `Programs` | builds, kernels made from them, their release | `host_calls`, `HostCallProofs` |
| `SubDevices`, `ObjectInputs` | partitioning of devices and their references | `host_calls`, `HostCallProofs` |
| `IndexSpace` | the iterator over an index space | used by the next one, `KernelLaunchProofs` |
| `KernelLaunch`, `KernelInputs` | a kernel from the call to its last work-item | `device_side`, `KernelLaunchProofs` |
| `KernelArguments`, `KernelInputs` | arguments from `clSetKernelArg` to the block that uses them | `device_side`, `KernelLaunchProofs` |
| `KernelCode`, `KernelInputs` | the code made for a kernel: extraction, local variables, stub, footprint | `device_side` |
| `IntegerBuiltins`, `ScalarTypes` | integer functions of the built-in library | `device_side` |
| `Conversions`, `ScalarTypes` | conversion functions of the built-in library | `device_side` |
| `AtomicObject`, `AtomicCalls` | abstract specification: every atomic call is one step | `device_side`, `LibraryProofs` |
| `Atomics`, `AtomicCalls` | atomic functions as they are made, two steps for some | `device_side`, `LibraryProofs` |
| `TypeOrder` | types of the generator and the order it sorts them in | used by the next one, `LibraryProofs` |
| `LibraryGenerator`, `LibraryTables` | the generator, from the tables to what a target compiles | `device_side` |
| `MCHostCalls`, `MCDeviceSide` | one run for the components above that keep their own state | `host_calls`, `device_side` |
| `InOrderQueueProofs` | theorems about the queue and its refinement | section 5 |
| `EventProofs`, `AsyncCopyProofs`, `WorkerTearDownProofs`, `MemoryCoherencyProofs`, `KernelLaunchProofs`, `HostCallProofs`, `LibraryProofs` | theorems about these modules | section 5 |

The modules meet in a few places only. `InOrderQueue` uses the atomic meaning of an event
(`Signal` filters delayed statuses); `Event` opens that operation up, and takes from
`InOrderQueue` who calls the `Mark*` operations, and when: `MarkSubmitted` once,
`MarkRunning` then `MarkCompleted` once each, with no order between the first and the
others. `WorkerTearDown` opens up the step in which a worker accepts a block, and
`MemoryCoherency` the one in which a queue makes objects coherent before it submits.
`KernelLaunch` opens up the execution of the blocks of one kernel. The builders take
from `InOrderQueue` only that an accepted command runs once.

Definitions called "Mutant" in a comment are plausible slips in the definition after
them. Replacing that definition by the mutant makes the property `PROJECT.json` names
for it fail, which shows that the property depends on the code it is about.

### InOrderQueue
Commands are numbered by the order of their `Enqueue`; a command is its *shape*
(kernel or not, number of blocks, blocking, whether its blocks fail), its queue and
its wait list. `pc[p]` is where thread `p` is. `RunScheduler` can be executed by hosts
and by workers, so its actions take a thread; `caller` says who is to continue, as
`Continue` maps it.

| Action | Code |
|---|---|
| `Enqueue`, `EnqueueReturn` | `CommandQueue::Enqueue` before and after its `RunScheduler` |
| `Flush`, `Finish`, `FinishCollect`, `ReturnToHost` | `CommandQueue::Flush` and `Finish`: the flush loop, the copy of the events, the waits |
| `RunSchedulerFalse`, `RunSchedulerTrue`, `RunSchedulerSubmit`, `RunSchedulerCommit` | the early returns, the start and the end of a submission in `InOrderQueue::RunScheduler` |
| `SubmitBlock`, `MarkSubmitted` | `CPUDevice::Submit`, one step per block, and the status that is set after the blocks were handed over |
| `Take`, `NotifyStart`, `MarkRunning`, `NotifyCompletion`, `MarkCompleted` | `CPUThread::Run`, `Execute`, `CPUMultiExecCommand` and its context |
| `CommandDone`, `CommandErase` | `InOrderQueue::CommandDone`: reset `CommandOnFly`, run the scheduler, erase |
| `SetUserEventStatus` | `UserEvent::SetStatus` |

Steps are as small as the code's atomic steps: the lock of a queue is held through a
submission, whose blocks start while it goes on; everything a critical section does
with no other thread able to see the middle is one step.

Abstractions, and why they lose nothing the properties speak of:

* `pickLeastLoadedThread` compares load samples of different moments: any worker may
  be chosen for a block of a kernel. All other commands go to the first worker.
* A single-exec command is a command of one block; its counters make the same
  decisions.
* The early returns of `Enqueue` for a command of another context or for a native
  kernel leave all state unchanged.
* `EnqueueReturn` reads the blocking flag of a command that a worker may have freed:
  the value read is then arbitrary.
* A wait list may contain any existing event, in error too: for blocking commands
  the builder refuses those in error, but the event may fail after the check.
* Every error is the same negative status. Only a kernel with no entry point for the
  worker fails ("bad"), and then all its blocks do.
* In modules of their own: a submission that fails (`WorkerTearDown`), and the memory
  objects a submission makes coherent (`MemoryCoherency`). Out of the model: the
  destruction of a queue, and callbacks that call back into the API.

### Event

`Signal` is two steps, the status and then the callbacks and the broadcast, with the
Monitor held between them; the code that tests `Status` without the Monitor sees the
middle. `AddEventCallback` and one round of the loop in `Wait` are critical sections.
`WaitNext` ends the loop of `clWaitForEvents` after an error, as the short-circuit in
the code does. Spurious wake-ups are modelled. Each callback function is
registered once, so that its calls can be counted.

### AsyncCopy

One step per critical section of the pool's or a job's Monitor, and one for the reset of `job` that follows
`SetCompleted`: between the two a worker points to a job that its group may delete, and must not use it (`InUse`). A group is the worker
that executes a work-group. `Signal` wakes one waiting thread, whichever. `Quit` writes
`job` and `end` without the Monitor: a worker that uses its job afterwards is in the
state `crashed`, where the process ends. Assumed: the barriers around the built-ins (they are external
here), one `wait_group_events` per event, and no spurious return of
`Monitor::Wait`, because `WaitGroupEvents` tests with an `if`: with spurious wake-ups it would delete
a running job. Jobs left in the list at shutdown are dropped.

### RefCount

One object, the references held by each thread, and the counter with the value that
`fetch_sub` returns (the one before the subtraction).

### WorkerTearDown

`~Platform` deletes the devices at the exit of the process while other threads go on.
The destructor submits the stop command to one worker, joins it, and goes to the next;
a worker that has the stop command refuses others, and a refused block makes the
whole submission fail. `RunScheduler` then puts the command back and submits all of
its blocks again with a new context, so that a submission is a *try* and a command of a
worker is `<<try, block>>` or `Stop`. `TestMode`, `WaitForCommands` and `TakeCommand` are the
test of the loop in `Run`, which reads the mode without the Monitor, and the critical
section behind it. A submitter that still reads the device's list of workers
after the last of them was deleted is left out.

### MemoryCoherency

One object, its storage on every device, the chunks with their validity bits, and the
chain of calls a submission makes: map the device's storage, compute the chunks,
transfer each, update the validity, run. Each critical section is a step, and so are
`tryAllocate`'s test and its allocation. The content of a cell is the number of the write
that made it. Writers exclude other users of the object, which is what the comment in
`updateRegion` assumes of the program; readers overlap. Images made of the object start
at its beginning, so that regions differ by their end only. `asserts` collects the assertions of
the code that were false.

`MCMemoryCoherency` makes the object in one run in three ways, by three instances
that differ in `HostPtrMode`: no host pointer, use of one, a copy of one.

### Builders: CommandBuilder, Transfers, BufferCommands, ImageLayout, ImageCommands

A builder is the sequence of the errors its setters notified, in the order in which
the API function chains the setters; `Create` answers with the last one, and
`FirstOf` is a setter that returns at the first failing check. A null pointer argument is
named in a set of nulls; the region of a rectangular copy is never null, because its `SetRegion` reads it
without a test (`Command.cpp:2235`). A command that is accepted is carried out at once: the worker's `memcpy`,
`MemFill` and `MemRectCpy` loops are sets of pairs of bytes (`Transfers`), and
the cells of `BufferCommands` hold the name of the cell their content comes from, so that
a copy to the wrong place shows. Reads, writes, copies, fills, and their rectangular forms,
markers and barriers are in `BufferCommands`; reads, writes, copies, fills, and copies
between images and buffers are in `ImageCommands`. `BufferKinds` says what arguments are: objects have
one size each, and origins, regions, offsets and pitches are numbers; none of them need be right. `ImageKinds` says the
same of images: each is what `setImage` makes of a descriptor without pitches, the formats of a device are
legal and pack three channels if any, and the host's array is as large as the pitches and the region of the
call say. `ImageLayout` has the formats, the
defaults of pitches and sizes for the six types of images, and the limits of a device.
The reference definitions the properties use number pixels and cells by their coordinates,
never by the code's offsets.

### MemoryObjects, MemoryMapping

`MemoryObjects` has `clCreateBuffer`, `clCreateSubBuffer` and `clCreateImage` with every
check of the builder of memory objects, in the code's order, and the flags an
image inherits from its buffer. `MemoryMapping` has the multimap of mappings: a mapping is
recorded when the command is built and stays recorded when the rest of the call
fails; an unmap is checked when it is built (`Valid`) and done when a worker executes it
(`ExecuteUnmap`), which removes the first record with its pointer. The pointer is the base of
the storage, the device's or the host's. Three objects: a buffer, an image, and a strip
(an image made of the buffer, whose records are the buffer's).

### Programs

Build information by device, descriptors of kernels attached to the program, and
handles. A build is `StartBuild` (the check for attached kernels, under the lock), `BuildDevice`
for each device (the lock is taken again for each) and `EndBuild`; other threads step in
between. The compiler is external: it fails or gives a module, which is a function from
the names of its kernels to their signatures.

### KernelLaunch, IndexSpace, KernelArguments

`EnqueueNDRangeKernel` has the checks of the launch, in order, and the default local
size. `ReadLoad` and `SubmitBlock` are the loop of `BlockParallelSubmit` with
`pickLeastLoadedThread`; the loads are read one by one and any value may be
read. A worker starts a block, which links the stacks of the work-items to a ring,
runs one work-item to its next barrier, and ends when the item started first
returns. `IndexSpace` is the arithmetic of the iterator.

`KernelArguments` follows an argument: `clSetKernelArg` into the kernel, the copy the command
takes, the pointers the device makes of it (`Pointers`, a fold over the copy that leaves an argument that
was never set at a stray index), and the addresses of the local buffers on the
worker that runs a block (`LocalBytes`). The kernel's arguments may be set again at any moment.

### KernelCode

A module of bit-code is its functions, calls, global variables and their uses, and the
kinds of the kernels' parameters; instructions are not modelled, except for the
allocations a footprint counts. `BlockParallelSubmit` asks the compiler three times, and
the compiler is locked for each call only: `AddKernel` extracts what the kernel reaches,
turns the local variables into fields of a structure and gives the functions that lead to
one a hidden parameter; `GetEntryPoint` and `GetAutomaticLocalsSize` follow, with other queues
in between. The fields are in any order, because the pass goes through a set of pointers.
The pass also follows the uses of a function while it erases the calls that are those
uses, and takes the hidden argument behind the last one: `AddKernel` then either crashes
or notes the call as stray. Kernels are never removed from the compiler, because
their descriptors are never deleted (`refcount_last_release`).

### SubDevices

Partitions equally, by counts and by affinity domain, of devices and of sub-devices,
the references of the devices that sub-devices, contexts and queues hold, and a call
that fails after some sub-devices were made. The topology of the machine is external.
The sum of the counts of a partition (`getTotalComputeUnits`) and the place where each
sub-device begins are the prefix sums `Before`. `createSubDevices` computes them in
`unsigned`; `DeviceKinds` says that what the program asks for fits (with the bound
2^31 - 1, the largest integer TLC has), and that the CPUs of the machine differ. Counts
whose sum wraps around are outside the model.

### IntegerBuiltins

The functions of `Integer.td` whose bodies compute by hand (saturating sums, high
halves, averages, distances, bit counts, rotations) over integers of `w` bits, with
the promotion of C for types narrower than an int.

### Conversions

`convert_<type>[_sat][_<mode>]` between integers and reals. A real is an integer number of
quarters; the narrow ones have `Precision` significant bits, so that some integers
and some ends of types are no reals, as with `float` and `int`. The bodies of `Convert.td`
and of the two files for floating-point types are translated in the order of their
comparisons and casts; a cast to an integer type that the value does not fit leaves any value.

### AtomicObject, Atomics

`AtomicCalls` has the work-items and the program of calls each of them makes on one location.
In `AtomicObject` a call reads, changes and returns in one step. In `Atomics` the functions
that are one builtin of the compiler are still one step (`Fetch`, `CmpXchg`), and
`min` and `max` are the loop of `Atomic.td`: `Read`, which ends the call if there is nothing to
change, and `Exchange`, which succeeds only if the location holds what was read, and
reads again otherwise. The builtins are called with relaxed order, which promises one order of
changes for each location; the model has one location and says nothing about several.

### TypeOrder, LibraryGenerator

`TypeOrder` has the types as the generator keeps them and `compareLess`, the
comparison by which it sorts. `LibraryGenerator` starts from tables of functions and
implementations (`LibraryTables`) and runs in steps: `Place` takes one implementation
record, in any order, as anonymous records come, and puts it in place of
those that are less special for the signatures it stands for; `EmitBuiltin` writes the
definitions of one function, each behind the conditions of its predicates, with the
requirements of its group before the first one; `Finalize` closes what is open;
`Compile` runs the preprocessor over the header and the source for one target and one group
and notes what is declared, defined and called. Of a body only the calls to other
functions of the library remain.

### MCHostCalls, MCDeviceSide

These components keep separate state, so the state space of all of them is the sum of
theirs, not a product: a behaviour draws a *family* in `MCInit` and takes only the steps of
that component's instance; the variables of the others keep their initial values. A
property of one component is evaluated in the states of its own families, and, where its
formula holds in the initial state of the others, in those too. Nothing is lost against runs of
their own, because no action of one family reads or writes the variables of another. `Programs`,
`MemoryObjects` and others take part with two sets of constants, one family each.
The components whose theorems are about properties of these runs (`BufferCommands`, `MemoryMapping`,
`ImageCommands`, `Programs`, `SubDevices`, `KernelLaunch`, `KernelArguments`, `Atomics`) are extended, so that the run and the theorem speak of one definition; the
others are instances.

## 3. Runs

| Run | Instance | Shows |
|---|---|---|
| `queue_safety` | 1 queue, 2 hosts, 2 workers, 3 commands: blocking reads, failing kernels of 2 blocks | order, exact completion, memory safety, statuses, what `Finish` and blocking calls wait for |
| `queue_waits` | 2 queues, 1 host, 1 worker, 1 user event, 3 commands, wait lists of up to 2 events | wait lists respected; `CommandOrder` is implemented |
| `queue_live` | 1 queue, 1 host, 2 workers, 3 commands, kernels of 2 blocks, wait lists of 1 | every command completes with no further call; `Finish` returns |
| `queue_lost_trigger` | 1 queue, 2 hosts, 1 worker, 1 user event, 2 commands | **violated**, section 4 |
| `events` | 1 command event, 1 user event, 2 hosts, 2 callbacks, waits in both orders | callbacks once, in time and not overtaken; no lost wake-up, no skipped callback |
| `async_work` | 2 pool threads, 2 groups, 3 copies, no shutdown | no use after delete; copies are made and waits return |
| `async_idle_shutdown` | 2 pool threads | **violated**, section 4 |
| `refcount_last_release` | 2 threads | **violated**, section 4 |
| `coherency` | 2 devices, 2 submissions at once, 2 cells, an image of the first, all modes | chunks partition the object, validity bits never lie, readers see the last write |
| `teardown_stop` | 3 workers, kernels of 2 blocks, 2 submissions | accepted blocks run, refused submissions never complete the command, the destructor returns |
| `host_calls` | nine families of calls | what commands on buffers and rectangles check and move (`BufferCommandsAreExact`) and those on images (`PixelsAreExact`); object creation; mappings; builds; sub-devices |
| `device_side` | eleven families | work-items, barriers, arguments, the code of kernels, unmaps, a pool that shuts down, integer functions, conversions, atomic calls, the generated library |

Bounds of the queue runs. Three commands on a queue are the first case in which a command in the middle
has one before it being freed and one after it waiting; two blocks and two workers
make the last block, the first start and the late `MarkSubmitted` interleave in every
order; two hosts let one schedule, or wait, on behalf of the other. With two queues a wait
list crosses from one to the other, and a user event makes the third source of
completions. Three copies on two threads and two groups include a thread that takes
a second job while another group's copy is pending. In `queue_waits` the second thread
that schedules is the worker, which leaves room for three commands. Host threads are interchangeable and
form a symmetry set in `queue_safety`.

Bounds of the others. `coherency`: two cells are a chunk for the image and one behind it,
two devices and the host make a transfer choose its source, and two writes make the first
one stale. With a host pointer one write is allowed and commands on images are, so that
both kinds of descriptor meet. `teardown_stop`: with three workers the blocks of a
submission go to a joined, a stopping and an untouched worker, and the second try
meets blocks of the first. `host_calls`: buffers of 3 and 4 cells with every
offset and size from 0 to 5, cubes of 2 x 2 x 2 cells with tight, wide and short
pitches, one image of each type of at most 3 pixels a side under limits of 4, so that every
limit is met, exceeded by one and undercut; every faulty argument next to good ones, and every
pair of flags; one call where calls do not affect one another, two for a buffer and its image, three for
mappings (two that share a pointer and a third that races), three builds by two threads with two kernels
from source and three from binaries,
four sub-devices of four CPUs with partitions of partitions. `device_side`: up to four
items in a dimension, work-groups of up to four, one barrier, two workers; presets
and limits scaled down; five settings of arguments around one command and four around two;
six modules of two kernels submitted by two queues, with up to three local variables and 64 bytes of private
memory, one module for each way a kernel may meet another's variables;
integers of 4, 8 and 16 bits, where every 4-bit operand and the 8-bit ones around powers of two occur;
conversions between integers of 3 and 5 bits, signed and not, and reals from -35 to 35 in quarters
with 3 significant bits, so that the ends of the wide integers lie inside the range of the
reals and are not all exact; three items with three calls each on a location of 4 bits, where
a loop of `min` or `max` meets a change that makes it exchange again, one that makes it
stop, and one back to the value it read; two tables of functions, with all
orders of their implementations, and two targets.

`MaxCmds`, `MaxWaits`, `MaxJobs`, `MaxRefs`, `MaxTries`, `MaxWrites`, `MaxCalls`, `MaxBuilds`,
`MaxKernels`, `MaxSets`, `MaxCommands`, `MaxDevices` and `MaxUsers` bound
counters; the proofs hold for all values of those that occur in them.

Deadlock is checked where the system cannot stop (`queue_safety`, `queue_live`, `events`: a
host can always call `Flush`, or wait for an event). In `queue_waits` and
`queue_lost_trigger` all hosts may wait for a command that waits for a user event
nobody sets any more; all other runs end when the bound on their calls, copies or
references is reached, or the pool or the device is gone.

Fairness. `FairSpec` asks of each thread inside a call, of each worker with
something to do and of a destructor that has started that it eventually takes its next step
(weak fairness): the operating system schedules every thread. `device_side` asks the same of
the submitter and the workers of a kernel, of the worker that executes an unmap, of the pool, and
of the worker that runs an item with an atomic call to make. Nothing is asked of the
application: it need not call anything, and it need not set user events. Mutexes are
held for finitely many steps, and no thread takes one infinitely often unless other hosts
call the API for ever, which the bounds exclude.

## 4. Where the code does not keep what is said of it

Three runs look for a disagreement and find it:

1. `queue_lost_trigger`: a command that waits for a user event, or for another
   queue, is scheduled again only by some unrelated call on its own queue. If
   `Finish` flushed while another command was on the fly, it waits for ever even after
   the user event was set (`CommandQueue.cpp:297`).
2. `async_idle_shutdown`: `Quit` signals one waiting thread of the pool, which
   need not be the one it wants to end; the join of the destructor then blocks
   (`ThreadPool.cpp:98`).
3. `refcount_last_release`: `fetch_sub` returns the old value, so comparing it with
   0 never deletes an object whose references are balanced (`MTRefCounted.h:51`).

Modelling met the others below. Each is stated as a property at the end of its module, or is
named by the constant that keeps it out of the run, and can be reproduced by the change in
the last column; the runs' inputs leave these cases out, so that the other
properties say something about everything else.

| Code (`src/lib` unless said otherwise) | What it says | What happens | To reproduce |
|---|---|---|---|
| `Core/MemoryObject.cpp:329` | `assert(I->Offset < Offset && I->Offset + I->Size > Offset)` | an image as large as its buffer splits the last chunk at its end and leaves an empty one | `SplitsAreInside` with `Size` in `ImageSizes` |
| `Core/MemoryObject.cpp:398` | `assert(DstPtr != SrcPtr)` | after a write-only command on a host pointer, a mapping copies the host's memory to itself | `TransfersDiffer` |
| `Core/MemoryObject.cpp:435` | "Write-only access to a given region still requires to transfer data outside the queried region" | a write-only kernel that leaves cells of the region unwritten loses them | `ReadsLatest` with `PartialWrites = TRUE` |
| `include/opencrun/Core/MemoryObject.h:306`, `MemoryObject.cpp:464` | "It is correct and safe to perform step 1 and 3 in two different atomic transactions" | two queues of one device that read an object both allocate it; the first transfer is lost | `ReadsLatest` with `ShareDevice = TRUE` |
| `Device/CPU/CPUDevice.cpp:68` | `assert(!isAllocated())` | an image made of a buffer allocates the buffer's storage once more; commands on the image use that storage, and nothing copies between the two | `AllocatedOnce`; `ReadsLatest` with `ImageCommands = TRUE` |
| `Core/Command.cpp:1946`, `:2317` | "region out of bound" | a rectangle that ends one byte behind the buffer is accepted | `InBounds` |
| `Core/Command.cpp:2361` | "The algorithm for overlap checking is taken from OpenCL v.1.2 specifications Appendix E." | `Overlap` starts true: rectangular copies within one buffer are always refused | `EveryLegalIsAccepted` (a copy within one buffer) |
| `Core/Command.cpp:2028` | "invalid write buffer operation" | rectangular writes are refused for `HostWriteOnly` and accepted for `HostReadOnly` | `EveryLegalIsAccepted` (a write to `WO`) |
| `Core/MemoryObject.cpp:655` | "host access mode incompatible with buffer" | `HostNoAccess` of the buffer is not compared | `ImagesKeepHostAccess` |
| `Core/MemoryObject.cpp:968` | "host-ptr is null but row pitch is not zero" | `setImage` comes before the host pointer is stored: every row pitch is refused | `PitchNeedsPointer` |
| `Core/Command.cpp:2887` | "image size unsupported by target device associated with queue" | 1D images may be created that no command accepts | `CreatedIsUsable` with 1D shapes wider than `w2` |
| `Core/MemoryObject.cpp:549` | `assert(ObjKind == K_SubBuffer)` | `clCreateSubBuffer` builds with `K_Buffer` | `AssertionsHold` of `MemoryObjects` |
| `Core/MemoryObject.cpp:69` | "we can have at most one write mapping, thus we do not have choices" | a reader and a writer share a pointer; unmapping the reader may remove the writer's record | `WritersExclude` in the family `mappings` |
| `Core/MemoryObject.cpp:81`, `Command.cpp:1679` | "Mapping informations for 1d image buffers are identical to those used for buffer objects." | the records are in the buffer, the check looks into the image: the unmap is refused | `HeldCanBeUnmapped` with `StripMaps` |
| `tools/libOpenCRun/EnqueueCommand.cpp:636` (`src`) | `SetMapPitches` is to write the pitches | it is called before the region is set and returns at once | `PitchesReported` |
| `Device/CPU/CPUDevice.cpp:174` | "work group size exceeds device limits" (`Command.cpp:2778`) | the row of the preset sizes is one too far, outside the table for three dimensions | `GroupsFit` with three dimensions and no local size |
| `Util/DimensionInfo.cpp:57` | "given global offset shift work items out of range" (`Command.cpp:2726`) | `GetGlobalId` does not add the offset | `IdsAreShifted` |
| `Core/Program.cpp:65` | "cannot build a program with attached kernel[s]" | the lock is given back between the test and the build: a kernel made meanwhile keeps functions of a module that is replaced | `KernelsKeepTheirCode` in the family `source` |
| `Core/Program.cpp:108` | "no program has been built" | a kernel is made of a failed build, which has no module | `NoNullDereference` |
| `Core/Program.cpp:138` | "kernel signatures do not match" | `clCreateKernelsInProgram` does not compare them | `SignaturesAgree` in the family `binaries` (`create_all`) |
| `Core/Program.cpp:67` | the same check as above | kernels are never deleted (3. above), so that the program can never be built again | `ReleasedIsDetached` |
| `Core/Kernel.cpp:196` | "not all kernel arguments have been specified" (`Command.cpp:2692`) | the size of a vector is compared that is right from the start | `AllArgsAreSet` |
| `Device/CPU/Memory.cpp:37` | `assert(... <= Size && "Not enough space")` | local buffers may be larger than the local memory | `LocalsFit` with `LocalSize = 16` |
| `Device/CPU/Passes/AutomaticLocalVariables.cpp:231` | `call void @bar({ [10 x i32], [20 x i32], i32 }* %automatic.locals.ptr)` (`test/Device/CPUPasses/AutomaticLocals/multiple.ll:68`, of `src`) | the hidden argument is taken behind the last parameter of the caller, and a list of uses is followed while it shrinks | `LocalsArePropagated` in the family `code` |
| `Device/CPU/Passes/AutomaticLocalVariables.cpp:86` | "All global variables rapresenting automatic local variables have internal linkage" | those of a kernel that was inlined into another are not found by name: all work-groups share them | `LocalsAreOfTheGroup` |
| `Device/CPU/Passes/AutomaticLocalVariables.cpp:88` | the same comment | a constant declared in a kernel is taken for a local variable and loses its value | `ConstantsKeepTheirValues` |
| `Device/CPU/Passes/AutomaticLocalVariables.cpp:111` | the `align` of a variable | a field has the alignment of its type only | `LocalsAreAligned` |
| `Device/CPU/CPUCompiler.cpp:121` | "Clone and map global variable initializers." | a variable that only initial values refer to is not cloned | `InitializersAreComplete` |
| `Integer.td:304`, `:282`, `:415` (`src/include/opencrun/Device/Library`) | the tests of `hadd`, `popcount`, `mad_sat` | `hadd` (and `rhadd`) of an unpromoted type loses the carry, `popcount` extends the sign, signed `mad_sat` wraps | `AveragesAreExact`, `PopcountIsExact`, `MadSatIsExact` |
| `Device/Library/Convert.td:243` (`src/include/opencrun`) | the mode `rte` in the name | a real is truncated | `RoundedToNearest` |
| `Device/Library/Convert.td:390` (`src/include/opencrun`) | the mode in the name | conversions with saturation all round down | `SaturationKeepsTheMode` |
| `Device/Library/Convert.td:390` (`src/include/opencrun`) | `_sat` in the name | the end of the type is compared as a real, which may be above it: one value overflows | `SaturationSaturates` |
| `Device/Library/Convert.td:269` (`src/include/opencrun`) | the argument is an unsigned long | it is passed on as a signed one for `rtz`, `rtp` and `rtn` | `UnsignedStayPositive` |
| `Device/Library/Convert.td:269` (`src/include/opencrun`) | the mode in the name | a conversion that makes a real rounds to nearest, whatever the mode | `RealsKeepTheMode` |
| `OCLType.cpp:103` (`src/utils/OCLGen`) | the comparison is given to `std::sort` | qualified types that differ in both parts, and a qualified type and a pointer, are each less than the other; pointers that differ in modifiers only are equal, and one signature is lost | `PlainOrder` without "plain" |
| `OCLBuiltinImplEmitter.cpp:399` (`src/utils/OCLGen`) | requirements belong to the implementation that names them | they are written under the conditions of the signature before | `CompilesComplete` with a requirement on a signature that is not the first |
| `OCLBuiltinImplEmitter.cpp:500` (`src/utils/OCLGen`) | the implementation of a target comes before the library's | one that names no variant is displaced by a library record that comes later | `MostSpecificIsTaken` with such a record |
| `Core/Device.cpp:254` | `assert(Props.size() > 3)` | an empty list of counts passes the checks of `clCreateSubDevices` | `AssertionsHold` of `SubDevices` |
| `Core/Event.cpp:36` | a stored callback is triggered by "a value past or equal to CallbackType" | a callback for `CL_COMPLETE` is not called when the event fails | `TriggeredByPastStatus` |
| `tools/libOpenCRun/Event.cpp:37` (`src`) | "Blocks the calling thread until every event specified is complete." (`CL/cl.hpp`) | after one event in error the rest of the list is not waited for | `WaitsForEveryEvent` |

## 5. Proofs

Everything below is proved by TLAPS for all values of the constants that satisfy the
named assumption of the module: the kinds of the constants, and what the
code guarantees of them.

### The queue

`InOrderQueueProofs` proves, from `ConstantsAssumption` and `ShapesAssumption` only (the kinds of
the constants; a command other than a kernel has one block), for any sets of
queues, hosts, workers and user events and any number of commands and blocks:

* `TypeCorrect`: `Spec => []TypeOK`
* `InOrder`: `Spec => []InOrderExecution`
* `WaitLists_Respected`: `Spec => []WaitListsRespected`
* `Completion_Is_Exact`: `Spec => []CompletionIsExact`
* `No_Use_After_Free`: `Spec => []NoUseAfterFree`
* `Status_Advances`: `Spec => StatusAdvances`

and for the calls and the order of commands,

* `Finish_Waits_For_All`: `Spec => FinishWaitsForAll`
* `Blocking_Calls_Wait`: `Spec => BlockingCallsWait`
* `Implements_Command_Order`: `Spec => ImplementsCommandOrder`

None of the invariants is inductive by itself. `IInv` is, and its parts follow the
life of a command:

* `ProcInv`: what the local variables of a thread hold in each control state.
* `LockInv`: a submission owns the queue's lock, nothing is on the fly, and the front command may run.
* `QueueInv`: `Commands` is sorted and behind everything that has left it.
* `SubmitInv`: a command with blocks at the workers has left the queue or is its
  front, being submitted; its wait list has completed.
* `FlyInv`: of the commands that have left a queue only the last may be
  incomplete, and only while `CommandOnFly` is set. This is what makes order an
  invariant: the flag stands for the completion of everything before the front.
* `FlightInv`: blocks with the workers belong to the command on the fly or to the one being submitted, so
  that the worker that resets `CommandOnFly` resets it for its own command.
* `BlockInv`, `CountInv`: an unfinished block is in exactly one place, and `WaitCount` is
  the number of unfinished blocks; hence the worker that brings it to 0 is the last.
* `PastInv`: one worker is behind the end of a command, and the event is final from
  `MarkCompleted` on.
* `StatusInv`: a final status and `Errors` agree with the blocks that ran.
* `FreedInv`: what is freed has left the queue, has run, and no worker is still
  behind its end.

There is one lemma per action (`EnqueueInv`, `SubmitBlockInv`, ...); `NextInv` combines
them. The theorems then follow from `IInv` (`InOrderFromInv`, `NoUseAfterFreeFromInv`), and
`Status_Advances` from the fact that every step changes a status by `Signal` only
(`NextAdvances`). The blocking calls need `HostInv` besides: a command that has left `Commands` is
complete or in `PendingCommands`, so that the snapshot of `Finish` misses nothing;
a freed command is complete, so that whatever `IsBlocking` reads from it does no harm;
and the set a host waits for contains every command its call is about that is not
complete. It is inductive only together with `IInv` (`NextHost`), and the frame lemma
`HostFrame` leaves one or two facts to show for each action.

The refinement maps `sent` to the commands with at least one block handed over
and `done` to the events that have completed. The first `SubmitBlock` of a command
is `Dispatch`, `MarkCompleted` is `Complete`, `SetUserEventStatus` is
`Trigger`, and all other steps but `Enqueue` change nothing; the guards of `Dispatch` come
from `LockInv`, `QueueInv` and `FlyInv`.

### Events

`EventProofs` proves, from `EventsAssumption` (events are internal or user events, wait lists are
lists of them), for any events, hosts, callbacks and wait lists:

* `Type_Correct`: `Spec => []TypeOK`
* `Called_Once_Reached`: `Spec => []CalledOnceReached`
* `Callbacks_Before_Wait`: `Spec => []CallbacksBeforeWait`

The inductive invariant `Inv` turns on the history of an event, which is read off the variables of those
who signal: `Entered(e, s)`, the signal of status `s` has entered the Monitor, and
`Signalling(e, s)`, it has not left it yet. `CallInv` says where the call of a callback can
come from: a stored one that was called belongs to a signal that has left, and for a
completed event a callback is called or about to be called by the signal under way. That is
what rules out the second call, by `AddEventCallback`, and what a waiter that has got past
the event can rely on (`HostInv`). `RegInv` counts calls and `SignalInv` relates the
status to the signal under way.

### Asynchronous copies

`AsyncCopyProofs` proves, from `PoolAssumption`, for any number of threads, groups and copies, with
or without a shutdown:

* `No_Use_After_Free`: `Spec => []NoUseAfterFree`
* `Waited_Copies_Are_Made`: `Spec => []WaitedCopiesAreMade`

A job moves from the list (`ListInv`: once, not completed) to one worker (`WorkerInv`: to no
other, and gone from the list) to `completed`, which it reaches after its copy ran
(`DoneInv`); a group is woken by the completion of its own job only (`GroupInv`), so that what it
deletes is in nobody's hands.

### Workers under tear-down

`WorkerTearDownProofs` proves, from `TearDownAssumption`, for any number of workers, blocks and
submissions:

* `Type_Correct`: `Spec => []TypeOK`
* `Nothing_Left_Behind`: `Spec => []NothingLeftBehind`
* `Only_Whole_Submissions_Complete`: `Spec => []OnlyWholeSubmissionsComplete`

`ModeInv` is the argument for the first: the stop command is the last of its list and
nothing is accepted behind it, so that the list is empty when it is executed. `DtorInv` says that the destructor
has not touched the workers behind the one it is at. For the second, `ListInv`, `CurInv` and `AcceptInv` keep every
accepted block in exactly one place until it is executed, and `CountInv` says that the
counter of a context is the number of its blocks that were not executed: a
submission that failed has a block nobody accepted, so that its counter never reaches 0.

### The chunks of a memory object

`MemoryCoherencyProofs` proves, from `CoherencyAssumption` (the kinds of the constants, finitely
many submissions, and that a command reads or writes), for any size, devices, submissions,
modes and images,

* `Chunks_Partition`: `Spec => []Partitioned`
* `Validity_Never_Lies`: `Spec => []Coherent`
* `Readers_See_Latest`: `Spec => []ReadsLatest`

with the hypotheses under which the code keeps what it says; each of them excludes one
disagreement of section 4 and nothing else:

* `Size \notin ImageSizes` (all three): an image as large as the object leaves an empty chunk;
* `~ShareDevice`: two queues of one device may both allocate the object's storage;
* `HostPtrMode = "use" \/ ~PartialWrites`: a command that writes only, and not every cell, gets
  storage without the others;
* `HostPtrMode = "use" \/ ~ImageCommands`: an image has storage of its own on a device
  unless the object is in the host's memory, and nothing copies between the two.

`Partitioned`, stated of any set of chunks (`IsPartition`), is inductive. `FindChunkCovers`,
`SplitChunkPartitions` and `UpdatePartitions` say of the operations that they find the
chunk around a cell, cut it in two without loss, and change validity bits only.
`Coherent` is not inductive, because it says nothing of a submission between two critical
sections of `updateRegion`. What every step keeps in any case is `Common`: the kinds
(`Shapes`), submissions at work at once are of different devices and none of them writes
(`Exclusive`), and the chunks a submission has to transfer are apart, each valid elsewhere when it
is copied (`Transfers`). There is a lemma `...Effect` for each action
that says what it does to its submission. The rest depends on where the data is:

* `HostInv`, for an object in the host's memory: there is one storage, it always has the
  latest version, and a device that is valid for a chunk has mapped it or is about to
  (`WillHaveStorage`);
* `OwnInv`, for the others: every device has its own storage, and a location that is valid
  for a chunk holds the latest version of it (`ValidChunk`), except while a write-only
  command that made its device valid has not run (`Overwriting`); a reader in the middle of its transfers
  has on its device, or in the chunks it has still to copy, all it reads, and behind them it lacks
  nothing (`UsesOwn`). Each step other than a write keeps what every device holds (`KeepsData`) and the
  storages of the other devices (`KeepsStorages`), so that the steps of one reader leave what
  the others rely on.

`CohInv` is the one or the other, and `CohInvariant` says it is an invariant.

### The launch of a kernel

`KernelLaunchProofs` proves, from `LaunchKinds` (the workers are numbered from 1, a call gives as many
sizes as it has dimensions, no local size is 0; TLC evaluates it for the constants of
`device_side`), for any number of workers, dimensions, work-items, groups and barriers,

* `Advance_Adds`: `Advance(sp, Item(sp, p), c) = At(sp, p + c)`
* `Blocks_In_One_Place`: `Spec => []LaunchInv`
* `Every_Item_Once`: `Spec => []EveryItemOnce`
* `Barriers_Hold`: `Spec => []BarriersHold`

The first part is arithmetic. A work-item has a number: that of its group, times the
size of a group, plus its own in the group, each written with one digit per dimension in a mixed
base (`Item` is the way back). Products and the carry of the iterator are
recursive functions over the dimensions, and what is said of every dimension follows from
there being no least dimension for which it is false. `Advance` adds to the number, and
two iterators have the same global identifiers only if they have the same number, so that cutting
the numbers into intervals of the size of a group is cutting the space into groups.
This needs that the groups fill the space: a call that is accepted has local sizes that divide the global ones.

`LaunchInv` is the second part. Each block is in one of four states, `unsent`, `queued`, `running` and
`finished`. Those from `next` on are unsent (`NextHolds`), a queued one is in the list of its worker, once
(`JobsHold`), a running one is what its worker executes (`RunsHold`), and `WaitCount` is the number of
those that are not finished. What a worker knows of its block follows from how far it has come:
`Ring(sp, b, s, q)` is the record of a worker in round `q` on stack `s`, with the stacks before `s` one
part ahead, and every step of a worker takes its record to the next one. `log` counts exactly the parts that
lie behind. `EveryItemOnce` then says that when all blocks are finished all items of all groups have gone
through all parts, and `BarriersHold` that the items of a ring are in the same part or in the next one.

### The arguments of a kernel

`KernelLaunchProofs` also proves, from `ArgumentKinds` (the parameters have kinds, sizes are numbers), for any
signature, arguments and sequence of `clSetKernelArg`, enqueueing, submission and execution,

* `Runs_As_Enqueued`: `ArgumentsSpec => []RunsAsEnqueued`

`ArgumentsInv` adds to the kinds that a command still holds the arguments the kernel had when it was
enqueued (`CommandsHold`), although the kernel may be given others at every step. `Pointers` and `LocalBytes`
follow the loops of the code and are recursive functions; what is said of all their places follows from
there being no first place for which it is false. `PointersAre`: a list without gaps ends with
each pointer at its own index. `LocalBytesAre` and `LocalBytesGrow`: the bytes below a local buffer include
those of all earlier ones, so that the buffers are apart (`LocalsAre`). With a gap in the list nothing is
claimed, and the code does not refuse such a launch (section 4, `Kernel.cpp:196`).

### Commands on buffers

`HostCallProofs` proves, from `BufferKinds`, for any objects, offsets, sizes, origins, regions, pitches and
faults of the arguments,

* `Buffer_Commands_Are_Exact`: `BufferSpec => BufferCommandsAreExact`

which is an action property (`MovesExactly`: each call changes the cells that OpenCL says, to the contents
it says, and no others) and three invariants (`LinearInBounds`, `NoOverlap`, `LegalIsAccepted`). There is one
lemma per API function, and three layers under them:

* Checks. `FirstOfIs`: a setter notifies one of its errors, or none of its conditions holds; `NothingNotified`: a
  command is made when no setter notified anything. From these the lemma of each builder
  (`ReadBufferRectIs` and the like) says what is known of an accepted call, and `AllowedPasses` the
  converse that `LegalIsAccepted` needs: the largest cell number of an allowed area is the end that is
  compared with the size.
* Rectangles. With pitches that are large enough, which is what the checks leave, a cell number is
  written with three digits in a mixed base, so that different cells of an area have different numbers
  (`CellsDiffer`). Hence each target has one source, and the loops of
  `MemRectCpy`, which count by offset and pitch, make the moves the reference definition names. This is where the check
  of the slice pitch matters: with a slice pitch that is shorter than its rows, two cells would be one byte.
* Memory. `MovedIs` says what a set of moves with one source per target does to the memory, and `MemTypeInv`,
  the invariant, that every object keeps its cells. Nothing else need be known of earlier commands.

`LegalIsAccepted` leaves out the two kinds of calls that are refused although OpenCL allows them
(`RefusedAlways`; section 4), and `LinearInBounds` says nothing of rectangles, one of which may end a byte behind
its buffer (section 4, `Command.cpp:1946`); `MovesExactly` then claims what is moved to and from the cells there are.

### Commands on images

`HostCallProofs` proves, from `ImageKinds`, for any images of the six types, formats, other objects, areas and
pitches of the arguments,

* `Pixels_Are_Exact`: `ImageSpec => []PixelsAreExact`

`PixelsAreExact` says which bytes a command moves by the numbers of pixels, counted row by row, and never by
the offsets and pitches the code computes; and that all of them are inside the image and inside the host's array, the
other object or the color. The invariant is inductive as it stands: it is about the last call. The work is in
the arithmetic that leads from the checks to the bytes, in five layers:

* Checks. `ReadImageIs` and the lemma of each other builder say what is known when it notified nothing: the region
  is not empty and ends inside the extent (`InRegion`), the pitches of the host are not shorter than a row and a slice
  (`HostIsNarrow` is false), the bytes fit in the buffer, the two formats are one. The limits of the device are
  not needed.
* Layout. `ImageIs`: rows are as long as the width, and either there is one slice, whatever its pitch (the pitch
  of an array of 1D images is 0), or a slice is as long as its rows and the size, which is generous
  for arrays and 3D images, is no less than all slices.
* Sides. `ImageSide`, `HostSide` and `BufferSide`: the byte at offset, row and slice of an area
  (`AreaByte`) is the byte of the pixel, and is before the end of the object. `WithinGrid` is the step
  from one dimension to the next: a place in a grid is before the end of it.
* Loops. `RectMovesAre` and `RectFillIs`: the loops over the bytes of rows go through the bytes
  of the pixels, each once, because a byte of a row is one of a pixel in one way (`BytesOfRow`, `ByteIsOne`).
* Colors. `ColorIs`: the component a channel is filled with is the one the order of the format names, where the
  element has as many channels as the order, and the mix of all in packed formats and for `INTENSITY` and `LUMINANCE`.
  This needs what `ImageKinds` says of packed formats: a packed `RGBA`, which no device offers, would take its first
  component only.

Copies within one image, whose areas nothing compares, and a copy to a null image from a good one are not among the
calls (`Copyable`).

### Kernels of a program

`HostCallProofs` proves, from `ProgramKinds` (devices are numbered, a module has finitely many
kernels), for any devices, modules, threads, calls and bounds,

* `Kernels_Match_Modules`: `ProgramSpec => []KernelsMatchModules`

A descriptor is `calm` if no thread was in a build of a program from source when its kernel was made; `calm` is history,
which no step reads. The others may be made between the test for attached kernels and the build, and the
property does not speak of their code (section 4, `Program.cpp:65`). Binaries are never replaced. From source, the argument goes round by the set of
attached kernels. A descriptor is never detached: its kernel holds one reference, and `Release` deletes
what had none before the call (`Util/MTRefCounted.h:52`), so that the set only grows (`ProgramInv`: it is all of `1..Len(descs)`, and kernel `k` has
descriptor `k`); once it is not empty `StartBuild` refuses every build, so that once one of them is calm no thread is in a build
(`BuildsHold`). The modules that calm descriptors point into are therefore never replaced
(`KernelFits`, `KeepsKernels`). The signatures are compared when a kernel is made; the property claims
them where `clCreateKernelsInProgram`, which does not compare them, is not called.

### Mappings

It also proves, from `CallsInOrder`, for any devices, storages, calls and unmaps in any order,

* `Mappings_Match_Records`: `Spec => []MappingsMatchRecords`

`CallsInOrder` excludes the calls in which something is found wrong after the mapping was recorded, or
without keeping it from being recorded: a bad wait list, an area outside of a buffer, a picture the device does not
support; and images made from a buffer, whose unmap is refused. Calls with wrong flags, areas of images or
arguments are covered: they leave no record (`MapCallIs`). The third conjunct of
the property holds where all calls write to images (`WritersOnly`): with readers, the record
that is removed may be a writer's (section 4, `MemoryObject.cpp:69`).

An object removes the first record of a pointer, whichever mapping it belongs to, so that records and
holders cannot be matched one by one: `CountInv` says that for each object and pointer they are equally many,
where a holder is a mapping the program has or an unmap command that no worker has executed. `AtAppend` and
`AtRemove` count the records of a pointer after one is added and after the first is removed. Every holder thus has a
record of its pointer (`HolderHasRecord`), so that no unmap is refused and none finds nothing to
remove. `PlaceInv` says that a mapping is held, or pending once, on its own device. A writer is accepted
where its pointer has no record, hence no holder (`WriteInv`); and if all are writers, no two holders have the same
pointer, so that the record removed is the holder's own, and the others' records are there for the next
writer to be compared with.

### Sub-devices

And it proves, from `DeviceKinds`, for any machine, topology, partitions and sequence of calls,

* `Sub_Devices_Are_Apart`: `DeviceSpec => []SubDevicesAreApart`

Each kind of partition has a lemma that its parts are apart (`EquallyIsApart`, `ByCountsIsApart`,
`ByAffinityIsApart`; `CreatedAreApart` puts them together): they have at least one CPU of the device, each
once, and no two parts share one. The first two cut windows of the list of CPUs, and by
`WindowsAreApart` windows that follow one another are apart; where they begin are prefix sums, which grow
because every count is positive (`BeforeGrows`, from `ValidPart`). That the windows end inside the list is what
`isPartitionSupported` checks. A partition by affinity domain takes for each component of the
topology the CPUs that have it as their first ancestor of that kind, and a CPU has one (`CPUsOfIs`).

`DeviceInv` adds what the steps need: parents exist, calls are numbered below the
devices they made, so that a new call's number is not in use, and contexts and queues name devices that exist.
`RefsMatchUsers` counts users in sets. A step adds one element to one of these sets, or takes up
or gives back a reference of the program; of `clCreateSubDevices` the lemma `CutsKept` says that as many
references are added as sub-devices are added, and a call that fails releases exactly what it
had retained, so that the devices are as before the call.

### The library

`LibraryProofs` proves, from `AtomicsAssumption`, for any items, programs of calls, values and
meaning of the one-step functions,

* `AtomicsType`: `AtomicSpec => []AtomicTypeOK`
* `LoopsChangeAlways`: `AtomicSpec => []LoopsChange`
* `AtomicsImplementObject`: `AtomicSpec => ImplementsAtomicObject`

The mapping is the identity on the location and the results. A successful `Exchange` is
where a `min` or `max` takes effect, and a `Read` that ends the call is where one without effect
does; the invariant `LoopsChange`, that what was read and not yet exchanged is beyond
the argument, is what makes the exchange a change of the abstract call. It also proves

* `PlainOrder`: on types that are neither qualified nor pointers, `compareLess` is a strict
  total order, so that the sets of the generator lose no such signature and its sorts have one result

from `PlainIrreflexive`, `PlainTotal` and `PlainTransitive`, by the kinds of the types.

### Only model-checked

Liveness (`CommandsComplete`, `FinishReturns`, `WaitersReturn`, `CallbacksRun`, `JobsComplete`,
`WaitReturns`, `DestructorReturns`, `AcceptedBlocksRun`, `WorkFinishes`) rests on fairness and is out of the prover's reach. Three invariants of `host_calls` and
`device_side` are checked over the inputs listed in section 3 only. `ChecksAreRight` compares what
`clCreateBuffer`, `clCreateImage` and the other functions refuse with reference definitions, flag by flag and
limit by limit;
`BuiltinsAreExact` is about `div`, `%` and powers of two, where products of
variables are beyond the provers, and it and `CodeIsWhole` rest on RECURSIVE operators (the loop of `clz`, the
walk over the types of a kernel), for which tlapm has no SMT. So is `GroupsFit`, that no
work-group is larger than the device runs: where the call leaves the local size to the runtime it is a fact
about the table of presets, and false of tables with too few rows (section 4).

## 6. Not modelled

* The out-of-order queue: its scheduler is an empty function.
* Of the compilers, the front end, the optimiser, the linking of the library and the
  instructions of a function: clang and LLVM. The aggressive inliner is a pass that nothing
  runs, and kernels in the old format of SPIR are not made on a CPU.
* Built-in functions other than those of `IntegerBuiltins`, `Conversions` and `Atomics`: one
  operator or one LLVM intrinsic each, or the arithmetic of floating-point numbers, which TLC does not have.
* Of the generator, the text of bodies, the constants, the declarations of opaque types, and the
  diagnostics for tables it refuses.
* Hardware discovery, environment, clock, profiler: inputs from the operating
  system and reports.
* Queries of constant properties (`clGet...Info`), samplers (immutable), destructor callbacks,
  native kernels, the text of sources and of build logs.
* The conversion of a fill color to the type of a channel.
* The headers of the API (`include/CL`, declarations and the C++ wrapper) and the unit tests,
  which are read as the statement of what the code is to do, and make up
  a large part of the repository's lines.

## 7. What remains

1. `Flush`, which spins while the front command waits, under an assumption on who sets the
   event, and callbacks that call back into the API while locks are held.
2. Sub-buffers, once `clCreateSubBuffer` stores their origin and size.
3. The queue, its device and the memory objects in one composition: today each module takes
   the others' steps as atomic, as section 2 says.
