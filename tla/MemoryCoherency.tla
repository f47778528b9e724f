--------------------------- MODULE MemoryCoherency ---------------------------
(***************************************************************************)
(* One memory object of a context with several devices: the storage every  *)
(* device keeps for it (MemoryDescriptor), the partition of the object     *)
(* into chunks with one validity bit per device and one for the host       *)
(* (MemoryCoherencyTracker), and the commands that bring a device up to    *)
(* date, or invalidate the others, when a queue submits them               *)
(* (CommandQueue::ensureMemoryCoherency).                                  *)
(*                                                                         *)
(* A submission is the chain of calls RunScheduler makes for one command;  *)
(* submissions of different queues interleave between the critical         *)
(* sections of updateRegion.  Data is a version number per cell: 0 is      *)
(* what nobody ever wrote.                                                 *)
(***************************************************************************)
EXTENDS Integers, FiniteSets

CONSTANTS
    Size,           \* cells of the object (MemoryObject::Size)
    NumDevices,     \* devices of the context
    Submissions,    \* threads submitting commands that use the object
    HostPtrMode,    \* "none", "use" (CL_MEM_USE_HOST_PTR) or "copy"
    Modes,          \* SynchronizeMode values of the commands enqueued
    ImageSizes,     \* sizes of the 1D images the program makes of the object
    ImageCommands,  \* may commands use these images?
    ShareDevice,    \* may two queues of one device submit at once?
    PartialWrites,  \* may a write-only command leave cells unwritten?
    MaxWrites       \* bound: number of commands that write

Devices == 1..NumDevices
Host == NumDevices + 1
Locations == Devices \cup {Host}
Cells == 0..(Size - 1)

ASSUME CoherencyAssumption ==
    /\ Size \in Nat \ {0}
    /\ NumDevices \in Nat \ {0}
    /\ HostPtrMode \in {"none", "use", "copy"}
    /\ IsFiniteSet(Submissions)
    /\ Modes \subseteq SUBSET {"map", "read", "write"}
    /\ \A mode \in Modes : "read" \in mode \/ "write" \in mode
    /\ ImageSizes \subseteq 1..Size
    /\ {ImageCommands, ShareDevice, PartialWrites} \subseteq BOOLEAN
    /\ MaxWrites \in Nat

VARIABLES
    partition,  \* MemoryCoherencyTracker::Partition, a set of chunks
    images,     \* sizes of the images made of the object so far
    ptr,        \* ptr[o][d]: storage of object o on device d (Ptr, Allocated)
    allocs,     \* allocs[d]: storages allocated for device d so far
    mem,        \* mem[s][c]: version held by cell c of storage s
    latest,     \* latest[c]: version last written to cell c
    writes,     \* number of writes so far
    op,         \* op[t]: the command submission t is busy with
    asserts     \* assertions of the code found false

vars == <<partition, images, ptr, allocs, mem, latest, writes, op, asserts>>

Versions == 0..(MaxWrites + 1)
Null == <<>>
HostStore == <<0, 0>>
Stores == {HostStore} \cup (Devices \X (1..(Cardinality(Submissions) + 1)))
                      \cup {<<d, -k>> : d \in Devices, k \in ImageSizes}

\* The objects: 0 is the buffer, k the 1D image made of its first k cells.
Objects == {0} \cup ImageSizes
RegionSize(o) == IF o = 0 THEN Size ELSE o

\* MemoryChunk.
Chunks == [off : 0..Size, size : 0..Size, valid : SUBSET Locations]
CellsOf(c) == c.off..(c.off + c.size - 1)

---------------------------------------------------------------------------
(* The partition.  The vector is sorted by offset and no two chunks share  *)
(* an offset, so that it is a set.                                         *)

\* findChunk: the chunk at the offset, or the one before it.
FindChunk(P, offset) ==
    CHOOSE c \in P : /\ c.off <= offset
                     /\ \A d \in P : d.off <= offset => d.off <= c.off

\* findRangeFor: from the chunk of the offset to the chunk of the end.
FindRangeFor(P, offset, size) ==
    {c \in P : /\ FindChunk(P, offset).off <= c.off
               /\ c.off <= FindChunk(P, offset + size).off}

\* The assertion of splitChunk.
SplitsInside(c, offset) == c.off < offset /\ c.off + c.size > offset

\* Mutant: the first half keeps the size of the whole chunk.
SplitChunkKeepingSize(P, c, offset) ==
    IF c.off = offset
    THEN P
    ELSE (P \ {c}) \cup {c, [c EXCEPT !.off = offset,
                                     !.size = c.off + c.size - offset]}

SplitChunk(P, c, offset) ==
    IF c.off = offset
    THEN P
    ELSE LET NewSize == c.off + c.size - offset
         IN  (P \ {c}) \cup {[c EXCEPT !.size = @ - NewSize],
                             [off |-> offset, size |-> NewSize, valid |-> c.valid]}

\* addRegion(0, size): offset 0 starts a chunk, only the end may split one.
AddRegion(P, size) == SplitChunk(P, FindChunk(P, size), size)

\* Mutant: a command that reads gets the first chunk only.
ComputeFirstChunk(P, offset, size, mode) ==
    IF "read" \in mode THEN {FindChunk(P, offset)} ELSE {}

\* computeChunksToTransfer: all the chunks for a command that reads; for a
\* write-only one, what the first and the last chunk hold outside the region.
ComputeChunksToTransfer(P, offset, size, mode) ==
    LET Range == FindRangeFor(P, offset, size)
        First == FindChunk(P, offset)
        Last  == FindChunk(P, offset + size)
    IN  IF "read" \in mode
        THEN Range
        ELSE {[First EXCEPT !.size = offset - First.off] :
                  x \in {y \in {1} : First.off < offset}}
             \cup {[Last EXCEPT !.off = offset + size,
                                !.size = Last.off + Last.size - (offset + size)] :
                  x \in {y \in {1} : Last.off + Last.size > offset + size}}

---------------------------------------------------------------------------
(* Descriptors.                                                            *)

\* aliasWithHostPtr.
Aliases(p, d) == p[0][d] # Null /\ HostPtrMode = "use"

\* updateHostValidity: the host and every device that shares its storage.
UpdateHostValidity(valid, p) ==
    valid \cup {Host} \cup {d \in Devices : Aliases(p, d)}

\* Mutant: a write leaves the other copies valid.
UpdateValidityNoReset(c, mode, d, p) ==
    [c EXCEPT !.valid = IF Aliases(p, d) THEN UpdateHostValidity(@ \cup {d}, p)
                                         ELSE @ \cup {d}]

\* Step 3 of updateRegion for one chunk.
UpdateValidity(c, mode, d, p) ==
    LET kept == IF "write" \in mode THEN {} ELSE c.valid
    IN  [c EXCEPT !.valid =
           IF "map" \in mode /\ HostPtrMode = "use"
           THEN UpdateHostValidity(kept, p)
           ELSE IF Aliases(p, d)
           THEN UpdateHostValidity(kept \cup {d}, p)
           ELSE kept \cup {d}]

\* allocateStorage: the host's memory, a new block, or for an image a new
\* block that the buffer's descriptor allocates without keeping it.
NewStore(o, d) ==
    IF HostPtrMode = "use" THEN HostStore
    ELSE IF o = 0 THEN <<d, allocs[d] + 1>> ELSE <<d, -o>>

\* allocate(), with the assertion of allocateStorage.
Allocate(o, d) ==
    /\ ptr' = [ptr EXCEPT ![o][d] = NewStore(o, d)]
    /\ allocs' = [allocs EXCEPT
           ![d] = IF o = 0 /\ HostPtrMode # "use" THEN @ + 1 ELSE @]
    /\ asserts' = asserts \cup
           {a \in {"allocated twice"} : ptr[0][d] # Null}

---------------------------------------------------------------------------
Idle == [pc |-> "idle", dev |-> 1, obj |-> 0, mode |-> {}, excl |-> FALSE,
         todo |-> {}, dst |-> Null, addr |-> Null, next |-> "idle"]

\* MemoryObjectBuilder::create, initForDevices and tracker initialization of
\* the buffer: with CopyHostPtr every device allocates, the first one gets
\* the data; with UseHostPtr the data is the host's.
Init ==
    /\ images = {}
    /\ ptr = [o \in Objects |-> [d \in Devices |->
                  IF o = 0 /\ HostPtrMode = "copy" THEN <<d, 1>> ELSE Null]]
    /\ allocs = [d \in Devices |-> IF HostPtrMode = "copy" THEN 1 ELSE 0]
    /\ mem = [s \in Stores |-> [c \in Cells |->
                  IF \/ HostPtrMode = "use" /\ s = HostStore
                     \/ HostPtrMode = "copy" /\ s = <<1, 1>>
                  THEN 1 ELSE 0]]
    /\ latest = [c \in Cells |-> IF HostPtrMode = "none" THEN 0 ELSE 1]
    /\ partition = {[off |-> 0, size |-> Size,
                     valid |-> CASE HostPtrMode = "none" -> {}
                                 [] HostPtrMode = "use"  -> {Host}
                                 [] HostPtrMode = "copy" -> {1}]}
    /\ writes = 0
    /\ op = [t \in Submissions |-> Idle]
    /\ asserts = {}

\* clCreateImage(CL_MEM_OBJECT_IMAGE1D_BUFFER): opens the region of the
\* image in the buffer's tracker; CopyHostPtr, inherited, maps it everywhere.
CreateImage(k) ==
    /\ k \notin images
    /\ images' = images \cup {k}
    /\ partition' = AddRegion(partition, k)
    /\ ptr' = IF HostPtrMode = "copy"
              THEN [ptr EXCEPT ![k] = [d \in Devices |-> NewStore(k, d)]]
              ELSE ptr
    /\ asserts' = asserts
         \cup {a \in {"splits outside"} :
                   /\ FindChunk(partition, k).off # k
                   /\ ~SplitsInside(FindChunk(partition, k), k)}
         \cup {a \in {"allocated twice"} : HostPtrMode = "copy"}
    /\ UNCHANGED <<allocs, mem, latest, writes, op>>

Goto(t, pc) == op' = [op EXCEPT ![t].pc = pc]

\* A queue starts to submit a command.  The events of the program order
\* every writer before or after all other uses of the object: the assumption
\* updateRegion states.  A map command got its address when it was enqueued
\* (acquireMappingAddrFor), so that it starts by mapping the device.
Submit(t, d, o, mode) ==
    /\ op[t].pc = "idle"
    /\ o = 0 \/ (ImageCommands /\ o \in images)
    /\ "write" \in mode => writes < MaxWrites
    /\ \A u \in Submissions : op[u].pc # "idle" =>
          /\ "write" \notin mode /\ ~op[u].excl
          /\ ShareDevice \/ op[u].dev # d
    /\ LET addressed == "map" \in mode /\ HostPtrMode # "use"
       IN  op' = [op EXCEPT ![t] =
                    [Idle EXCEPT !.dev = d, !.obj = o, !.mode = mode,
                                 !.excl = "write" \in mode,
                                 !.dst = HostStore,
                                 !.pc = IF addressed THEN "map" ELSE "compute",
                                 !.next = "compute"]]
    /\ UNCHANGED <<partition, images, ptr, allocs, mem, latest, writes, asserts>>

\* map(): tests whether the storage is allocated ...
MapDevice(t) ==
    LET d == op[t].dev
        o == IF op[t].next = "copy" THEN 0 ELSE op[t].obj
    IN  /\ op[t].pc = "map"
        /\ op' = IF ptr[o][d] = Null
                 THEN [op EXCEPT ![t].pc = "allocate"]
                 ELSE [op EXCEPT ![t].pc = op[t].next, ![t].dst = ptr[o][d]]
        /\ UNCHANGED <<partition, images, ptr, allocs, mem, latest, writes,
                       asserts>>

\* ... and allocates it, no lock held in between.
AllocateDevice(t) ==
    LET d == op[t].dev
        o == IF op[t].next = "copy" THEN 0 ELSE op[t].obj
    IN  /\ op[t].pc = "allocate"
        /\ Allocate(o, d)
        /\ op' = [op EXCEPT ![t].pc = op[t].next, ![t].dst = NewStore(o, d)]
        /\ UNCHANGED <<partition, images, mem, latest, writes>>

\* Step 1 of updateRegion.  A map command keeps the address it got.
ComputeChunks(t) ==
    /\ op[t].pc = "compute"
    /\ op' = [op EXCEPT ![t].pc = "transfer", ![t].addr = op[t].dst,
                        ![t].todo = ComputeChunksToTransfer(partition, 0,
                                        RegionSize(op[t].obj), op[t].mode)]
    /\ UNCHANGED <<partition, images, ptr, allocs, mem, latest, writes, asserts>>

\* Step 2: the next chunk.  transferToDevice and transferToHost leave a chunk
\* nobody has, or the target has already; the device is mapped before a copy.
NextChunk(t) ==
    LET toHost == "map" \in op[t].mode /\ HostPtrMode = "use"
        target == IF toHost THEN Host ELSE op[t].dev
    IN  /\ op[t].pc = "transfer"
        /\ \/ /\ op[t].todo = {}
              /\ Goto(t, "validity")
           \/ \E c \in op[t].todo :
                 /\ \A e \in op[t].todo : c.off <= e.off
                 /\ op' = IF c.valid = {} \/ target \in c.valid
                          THEN [op EXCEPT ![t].todo = @ \ {c}]
                          ELSE IF toHost
                          THEN [op EXCEPT ![t].pc = "copy", ![t].dst = HostStore]
                          ELSE [op EXCEPT ![t].pc = "map", ![t].next = "copy"]
        /\ UNCHANGED <<partition, images, ptr, allocs, mem, latest, writes,
                       asserts>>

\* The copy of a chunk, from the host if it is valid there, else from the
\* first valid device, whose storage is mapped.  Nothing is copied to a
\* device from the host it aliases with.
CopyChunk(t) ==
    LET c == CHOOSE c \in op[t].todo : \A e \in op[t].todo : c.off <= e.off
        first == CHOOSE d \in c.valid : \A e \in c.valid : d <= e
        toHost == "map" \in op[t].mode /\ HostPtrMode = "use"
        fromHost == ~toHost /\ Host \in c.valid
        src == IF fromHost THEN HostStore
               ELSE IF ptr[0][first] = Null THEN NewStore(0, first)
               ELSE ptr[0][first]
    IN  /\ op[t].pc = "copy"
        /\ mem' = [mem EXCEPT ![op[t].dst] = [x \in Cells |->
                      IF x \in CellsOf(c) THEN mem[src][x] ELSE @[x]]]
        /\ IF fromHost \/ ptr[0][first] # Null
           THEN UNCHANGED <<ptr, allocs>>
           ELSE /\ ptr' = [ptr EXCEPT ![0][first] = src]
                /\ allocs' = [allocs EXCEPT ![first] =
                                  IF HostPtrMode # "use" THEN @ + 1 ELSE @]
        /\ asserts' = asserts \cup
              {a \in {"copies to itself"} : toHost /\ src = HostStore}
        /\ op' = [op EXCEPT ![t].pc = "transfer", ![t].todo = @ \ {c}]
        /\ UNCHANGED <<partition, images, latest, writes>>

\* Step 3: the validity bits of the chunks around the region.  The device
\* then maps its storage (CPUDevice::Submit calls ptr()) and the command runs.
UpdateRegion(t) ==
    LET Range == FindRangeFor(partition, 0, RegionSize(op[t].obj))
    IN  /\ op[t].pc = "validity"
        /\ partition' = (partition \ Range) \cup
              {UpdateValidity(c, op[t].mode, op[t].dev, ptr) : c \in Range}
        /\ op' = [op EXCEPT ![t].pc = "map", ![t].next = "run"]
        /\ UNCHANGED <<images, ptr, allocs, mem, latest, writes, asserts>>

\* The storage a command uses: the device's, or the mapped address.
Used(t) == IF "map" \in op[t].mode THEN op[t].addr ELSE op[t].dst

\* The command runs, or the program uses the mapping: a writer writes a new
\* version of some cells, of all of them if it is write-only.
Run(t) ==
    LET region == 0..(RegionSize(op[t].obj) - 1)
    IN  /\ op[t].pc = "run"
        /\ \/ /\ "write" \notin op[t].mode
              /\ UNCHANGED <<mem, latest, writes>>
           \/ /\ "write" \in op[t].mode
              /\ \E W \in (SUBSET region) \ {{}} :
                    /\ W = region \/ "read" \in op[t].mode \/ PartialWrites
                    /\ mem' = [mem EXCEPT ![Used(t)] = [x \in Cells |->
                                  IF x \in W THEN writes + 2 ELSE @[x]]]
                    /\ latest' = [x \in Cells |->
                                  IF x \in W THEN writes + 2 ELSE latest[x]]
              /\ writes' = writes + 1
        /\ Goto(t, "done")
        /\ UNCHANGED <<partition, images, ptr, allocs, asserts>>

\* A command completes; a mapping lasts until it is unmapped, on any device,
\* by a command of its own that reads the object.
Complete(t) ==
    /\ op[t].pc = "done"
    /\ "map" \notin op[t].mode
    /\ op' = [op EXCEPT ![t] = Idle]
    /\ UNCHANGED <<partition, images, ptr, allocs, mem, latest, writes, asserts>>

Unmap(t, d) ==
    /\ op[t].pc = "done"
    /\ "map" \in op[t].mode
    /\ ShareDevice \/ \A u \in Submissions \ {t} :
                         op[u].pc = "idle" \/ op[u].dev # d
    /\ op' = [op EXCEPT ![t] = [Idle EXCEPT !.pc = "compute", !.dev = d,
                                            !.obj = op[t].obj, !.mode = {"read"},
                                            !.excl = op[t].excl]]
    /\ UNCHANGED <<partition, images, ptr, allocs, mem, latest, writes, asserts>>

Next ==
    \/ \E k \in ImageSizes : CreateImage(k)
    \/ \E t \in Submissions :
          \/ \E d \in Devices, o \in Objects, mode \in Modes : Submit(t, d, o, mode)
          \/ MapDevice(t)
          \/ AllocateDevice(t)
          \/ ComputeChunks(t)
          \/ NextChunk(t)
          \/ CopyChunk(t)
          \/ UpdateRegion(t)
          \/ Run(t)
          \/ Complete(t)
          \/ \E d \in Devices : Unmap(t, d)

Spec == Init /\ [][Next]_vars

---------------------------------------------------------------------------
TypeOK ==
    /\ partition \subseteq Chunks
    /\ images \subseteq ImageSizes
    /\ ptr \in [Objects -> [Devices -> Stores \cup {Null}]]
    /\ allocs \in [Devices -> 0..(Cardinality(Submissions) + 1)]
    /\ mem \in [Stores -> [Cells -> Versions]]
    /\ latest \in [Cells -> Versions]
    /\ writes \in 0..MaxWrites
    /\ \A t \in Submissions :
          /\ op[t].pc \in {"idle", "map", "allocate", "compute", "transfer",
                           "copy", "validity", "run", "done"}
          /\ op[t].dev \in Devices /\ op[t].obj \in Objects
          /\ op[t].todo \subseteq Chunks
          /\ {op[t].dst, op[t].addr} \subseteq Stores \cup {Null}

\* The chunks always cover the object, none is empty and no two overlap,
\* whatever regions the images open: every cell has one set of validity bits.
Partitioned ==
    /\ \A c \in partition : c.size > 0
    /\ \A x \in Cells : \E c \in partition : x \in CellsOf(c)
    /\ \A c, e \in partition : CellsOf(c) \cap CellsOf(e) # {} => c = e

StoreOf(l) == IF l = Host THEN HostStore ELSE ptr[0][l]

\* A validity bit never lies and nothing written is ever lost: unless a writer
\* is busy, every location marked valid for a chunk holds the latest version of
\* each of its cells, and a chunk with a cell that was written is valid
\* somewhere.
Coherent ==
    (\A t \in Submissions : op[t].pc # "idle" => ~op[t].excl) =>
        \A c \in partition : \A x \in CellsOf(c) : latest[x] # 0 =>
            /\ c.valid # {}
            /\ \A l \in c.valid :
                  StoreOf(l) # Null /\ mem[StoreOf(l)][x] = latest[x]

\* A command that reads runs on the latest version of the cells it may read,
\* wherever they were written last (a device, the host, a mapping), and
\* however its transfers interleave with those of the other readers.
ReadsLatest ==
    \A t \in Submissions, x \in Cells :
        op[t].pc = "run" /\ "read" \in op[t].mode /\ x < RegionSize(op[t].obj)
        /\ latest[x] # 0 => mem[Used(t)][x] = latest[x]

---------------------------------------------------------------------------
(* What comments, assertions, tests or the interface say and the code does *)
(* not keep in every case (README, section 4); no run checks these.        *)

\* The assertion of splitChunk: a chunk is split strictly inside.
SplitsAreInside == "splits outside" \notin asserts

\* The assertion of transferToHost: source and target are different storages.
TransfersDiffer == "copies to itself" \notin asserts

\* The assertion of allocateStorage: a storage is not allocated twice.
AllocatedOnce == "allocated twice" \notin asserts

=============================================================================
