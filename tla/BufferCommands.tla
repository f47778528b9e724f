--------------------------- MODULE BufferCommands ---------------------------
(***************************************************************************)
(* The commands on buffers: what clEnqueueReadBuffer, WriteBuffer, Copy-   *)
(* Buffer, FillBuffer and their rectangular forms check, and which bytes a *)
(* worker moves for a command that was accepted.  The markers and barriers *)
(* are here too: they check a wait list and move nothing.                  *)
(*                                                                         *)
(* Memory holds in every cell where it came from, so that what a command   *)
(* did can be compared with what it should have done.  size_t does not     *)
(* wrap: offsets and sizes are those of objects that fit in memory.        *)
(***************************************************************************)
EXTENDS CommandBuilder, Transfers, FiniteSets

CONSTANTS
    Buffers,       \* cl_mem arguments: [id, kind, ctx, size, flags]
    HostSize,      \* cells of the host's array
    LinearCalls,   \* arguments of the linear commands
    RectCalls,     \* arguments of the rectangular commands
    MaxBufferCalls \* bound: number of calls

\* Each object has its name and its size, pitches and offsets are sizes, and
\* the array of the host has the bytes that a linear command reads or writes.
BufferKinds ==
    /\ HostSize \in Nat
    /\ \A b \in Buffers : b.size \in Nat /\ b.id # Host
    /\ \A b, c \in Buffers : b.id = c.id => b = c
    /\ \A a \in LinearCalls :
          /\ a.buf \in Buffers /\ a.src \in Buffers
          /\ a.offset \in Nat /\ a.from \in Nat /\ a.cb \in 0..HostSize
    /\ \A a \in RectCalls :
          /\ a.buf \in Buffers /\ a.src \in Buffers
          /\ \A i \in 1..3 : a.region[i] \in Nat
          /\ \A side \in {a.to, a.fr} :
                /\ \A i \in 1..3 : side.origin[i] \in Nat
                /\ side.row \in Nat /\ side.slice \in Nat

VARIABLES
    mem,         \* mem[id][i]: <<id, i>> of the cell whose content this is
    bufferCalls, \* number of calls so far
    lastCommand  \* the last call: arguments, answer and the moves of the worker

bufferVars == <<mem, bufferCalls, lastCommand>>

---------------------------------------------------------------------------
(* Checks of the constructors.                                             *)

BufferErrors(b, denied) ==
    FirstOf(<< <<b.kind # "buffer", InvalidMemObject>>,
               <<b.flags \cap denied # {}, InvalidOperation>>,
               <<b.ctx # Ctx, InvalidContext>> >>)

PointerErrors(nulls) == Check("ptr" \in nulls, InvalidValue)

\* Mutant: only the offset is compared with the size.
OutsideByOffset(b, offset, cb) == b.kind = "buffer" /\ offset > b.size

Outside(b, offset, cb) == b.kind = "buffer" /\ offset + cb > b.size

---------------------------------------------------------------------------
(* The linear builders.  a.buf, a.offset and a.cb are the buffer and the   *)
(* area; for a copy a.src and a.from are those of the source.              *)

ReadBufferBuilder(a) ==
    BufferErrors(a.buf, {"HostWriteOnly", "HostNoAccess"})
    \o PointerErrors(a.nulls)
    \o Check(Outside(a.buf, a.offset, a.cb), InvalidValue)
    \o CheckedWaitList(a.wl, a.blocking)

WriteBufferBuilder(a) ==
    BufferErrors(a.buf, {"HostReadOnly", "HostNoAccess"})
    \o PointerErrors(a.nulls)
    \o Check(Outside(a.buf, a.offset, a.cb), InvalidValue)
    \o CheckedWaitList(a.wl, a.blocking)

Distance(i, j) == IF i < j THEN j - i ELSE i - j

\* Mutant: only equal offsets overlap.
CopyAreaErrorsEqualOnly(a) ==
    IF a.buf.kind # "buffer" \/ a.src.kind # "buffer" THEN <<>>
    ELSE FirstOf(<< <<Outside(a.buf, a.offset, a.cb), InvalidValue>>,
                    <<Outside(a.src, a.from, a.cb), InvalidValue>>,
                    <<a.buf = a.src /\ a.from = a.offset, CopyOverlap>> >>)

\* SetCopyArea of a copy.
CopyAreaErrors(a) ==
    IF a.buf.kind # "buffer" \/ a.src.kind # "buffer" THEN <<>>
    ELSE FirstOf(<< <<Outside(a.buf, a.offset, a.cb), InvalidValue>>,
                    <<Outside(a.src, a.from, a.cb), InvalidValue>>,
                    <<a.buf = a.src /\ Distance(a.from, a.offset) < a.cb,
                      CopyOverlap>> >>)

CopyBufferBuilder(a) ==
    BufferErrors(a.buf, {}) \o BufferErrors(a.src, {}) \o CopyAreaErrors(a)
    \o CheckedWaitList(a.wl, FALSE)

PatternSizes == {1, 2, 4, 8, 16, 32, 64, 128}

\* SetPatternSize and SetFillRegion; a.cb is the size, a.from the pattern's.
FillAreaErrors(a) ==
    IF a.from \notin PatternSizes THEN <<InvalidValue>>
    ELSE IF a.buf.kind # "buffer" THEN <<>>
    ELSE Check(\/ a.offset % a.from # 0
               \/ a.cb % a.from # 0
               \/ Outside(a.buf, a.offset, a.cb), InvalidValue)

FillBufferBuilder(a) ==
    BufferErrors(a.buf, {}) \o PointerErrors(a.nulls) \o FillAreaErrors(a)
    \o CheckedWaitList(a.wl, FALSE)

MarkerBuilder(a) == CheckedWaitList(a.wl, FALSE)

BarrierBuilder(a) == CheckedWaitList(a.wl, FALSE)

---------------------------------------------------------------------------
(* The rectangular builders.  A side of the copy is [origin, row, slice].  *)

RowPitch(side, region) == IF side.row = 0 THEN region[1] ELSE side.row

SlicePitch(side, region) ==
    IF side.slice = 0 THEN region[2] * RowPitch(side, region) ELSE side.slice

RectOffset(side, region) ==
    side.origin[1] + side.origin[2] * RowPitch(side, region)
                   + side.origin[3] * SlicePitch(side, region)

\* The last cell of the region.
RectEnd(side, region) ==
    side.origin[1] + (region[1] - 1)
    + (side.origin[2] + (region[2] - 1)) * RowPitch(side, region)
    + (side.origin[3] + (region[3] - 1)) * SlicePitch(side, region)

RegionErrors(a) ==
    Check("region" \in a.nulls \/ 0 \in {a.region[i] : i \in 1..3}, InvalidValue)

\* Mutant: a row pitch equal to the width is refused.
PitchErrorsStrict(side, null, region) ==
    FirstOf(<< <<null, InvalidValue>>,
               <<side.row # 0 /\ side.row <= region[1], InvalidValue>>,
               <<side.slice # 0 /\ side.slice < region[2] * RowPitch(side, region),
                 InvalidValue>> >>)

\* SetTargetOffset and SetSourceOffset without the bounds of a buffer ...
PitchErrors(side, null, region) ==
    FirstOf(<< <<null, InvalidValue>>,
               <<side.row # 0 /\ side.row < region[1], InvalidValue>>,
               <<side.slice # 0
                 /\ \/ side.slice < region[2] * RowPitch(side, region)
                    \/ side.slice % RowPitch(side, region) # 0, InvalidValue>> >>)

\* ... and with them.  The end is compared with <, not with <=.
SideErrors(b, side, null, region) ==
    IF b.kind # "buffer" THEN <<>>
    ELSE FirstOf(<< <<PitchErrors(side, null, region) # <<>>, InvalidValue>>,
                    <<b.size < RectEnd(side, region), InvalidValue>> >>)

\* CheckCopyOverlap: the flag starts true, so that the loop over the
\* dimensions, guarded by its negation, and all that follows never run.
OverlapErrors(a) ==
    IF a.buf # a.src THEN <<>>
    ELSE IF /\ RowPitch(a.to, a.region) # RowPitch(a.fr, a.region)
            /\ SlicePitch(a.to, a.region) # SlicePitch(a.fr, a.region)
    THEN <<InvalidValue>>
    ELSE <<CopyOverlap>>

\* SetRegion, SetTargetOffset, SetSourceOffset: nothing is set for a bad
\* region.  a.buf is the buffer of the side a.to, a.src that of a.fr.
ReadBufferRectBuilder(a) ==
    BufferErrors(a.src, {"HostWriteOnly", "HostNoAccess"})
    \o PointerErrors(a.nulls) \o RegionErrors(a)
    \o (IF RegionErrors(a) # <<>> THEN <<>>
        ELSE PitchErrors(a.to, "target" \in a.nulls, a.region)
             \o SideErrors(a.src, a.fr, "source" \in a.nulls, a.region))
    \o CheckedWaitList(a.wl, a.blocking)

\* The host access is checked as for a read.
WriteBufferRectBuilder(a) ==
    BufferErrors(a.buf, {"HostWriteOnly", "HostNoAccess"})
    \o PointerErrors(a.nulls) \o RegionErrors(a)
    \o (IF RegionErrors(a) # <<>> THEN <<>>
        ELSE SideErrors(a.buf, a.to, "target" \in a.nulls, a.region)
             \o PitchErrors(a.fr, "source" \in a.nulls, a.region))
    \o CheckedWaitList(a.wl, a.blocking)

CopyBufferRectBuilder(a) ==
    LET toErrors == SideErrors(a.buf, a.to, "target" \in a.nulls, a.region)
        frErrors == SideErrors(a.src, a.fr, "source" \in a.nulls, a.region)
        both     == "buffer" = a.buf.kind /\ "buffer" = a.src.kind
        overlap  == IF both /\ toErrors \o frErrors = <<>>
                    THEN OverlapErrors(a) ELSE <<>>
    IN  BufferErrors(a.buf, {}) \o BufferErrors(a.src, {}) \o RegionErrors(a)
        \o (IF RegionErrors(a) # <<>> THEN <<>> ELSE toErrors \o frErrors \o overlap)
        \o CheckedWaitList(a.wl, FALSE)

---------------------------------------------------------------------------
(* What a worker does.                                                     *)

\* The area of a side, as the command keeps it.
AreaOf(side, region) == [offset |-> RectOffset(side, region),
                         row |-> RowPitch(side, region),
                         slice |-> SlicePitch(side, region)]

\* Execute of the three rectangular commands.
CopyRect(a) == MemRectCpy(a.region, AreaOf(a.to, a.region), AreaOf(a.fr, a.region))

---------------------------------------------------------------------------
(* The API functions.  A call that is refused enqueues nothing.            *)

Enqueue(api, a, err, target, source, moves) ==
    LET done == IF err = Success THEN moves ELSE NoMoves
    IN  /\ bufferCalls' = bufferCalls + 1
        /\ lastCommand' = [api |-> api, args |-> a, err |-> err,
                           target |-> target, source |-> source, moves |-> done]
        /\ mem' = IF done = NoMoves THEN mem ELSE Moved(mem, target, source, done)

NoBytes(a) == Check(a.cb = 0, InvalidValue)

clEnqueueReadBuffer(a) ==
    Enqueue("ReadBuffer", a, Result(a.nulls, NoBytes(a), ReadBufferBuilder(a)),
            Host, a.buf.id, Memcpy(0, a.offset, a.cb))

clEnqueueWriteBuffer(a) ==
    Enqueue("WriteBuffer", a, Result(a.nulls, NoBytes(a), WriteBufferBuilder(a)),
            a.buf.id, Host, Memcpy(a.offset, 0, a.cb))

clEnqueueCopyBuffer(a) ==
    Enqueue("CopyBuffer", a, Result(a.nulls, NoBytes(a), CopyBufferBuilder(a)),
            a.buf.id, a.src.id, Memcpy(a.offset, a.from, a.cb))

clEnqueueFillBuffer(a) ==
    LET err == Result(a.nulls, <<>>, FillBufferBuilder(a))
    IN  Enqueue("FillBuffer", a, err, a.buf.id, Host,
                IF err = Success THEN MemFill(a.offset, a.cb, a.from) ELSE NoMoves)

clEnqueueMarkerWithWaitList(a) ==
    Enqueue("Marker", a, Result(a.nulls, <<>>, MarkerBuilder(a)),
            Host, Host, NoMoves)

clEnqueueBarrierWithWaitList(a) ==
    Enqueue("Barrier", a, Result(a.nulls, <<>>, BarrierBuilder(a)),
            Host, Host, NoMoves)

\* clEnqueueWaitForEvents checks the list before the queue.
clEnqueueWaitForEvents(a) ==
    LET early == FirstOf(<< <<a.wl.n = 0 \/ ~a.wl.given, InvalidValue>>,
                            <<SetWaitList(a.wl) # <<>>, "CL_INVALID_EVENT">> >>)
    IN  Enqueue("WaitForEvents", a,
                IF early # <<>> THEN early[1]
                ELSE Result(a.nulls, <<>>, BarrierBuilder(a)),
                Host, Host, NoMoves)

clEnqueueReadBufferRect(a) ==
    Enqueue("ReadBufferRect", a, Result(a.nulls, <<>>, ReadBufferRectBuilder(a)),
            Host, a.src.id, CopyRect(a))

clEnqueueWriteBufferRect(a) ==
    Enqueue("WriteBufferRect", a, Result(a.nulls, <<>>, WriteBufferRectBuilder(a)),
            a.buf.id, Host, CopyRect(a))

\* SetRegion of a copy reads the region without a test for null.
clEnqueueCopyBufferRect(a) ==
    /\ "region" \notin a.nulls
    /\ Enqueue("CopyBufferRect", a, Result(a.nulls, <<>>, CopyBufferRectBuilder(a)),
               a.buf.id, a.src.id, CopyRect(a))

SizeOf(id) == IF id = Host THEN HostSize
              ELSE (CHOOSE b \in Buffers : b.id = id).size

BufferInit ==
    /\ mem = [id \in {b.id : b \in Buffers} \cup {Host} |->
                 [i \in 0..(SizeOf(id) - 1) |-> <<id, i>>]]
    /\ bufferCalls = 0
    /\ lastCommand = [api |-> "none", err |-> Success, target |-> Host,
                       source |-> Host, moves |-> NoMoves]

BufferNext ==
    /\ bufferCalls < MaxBufferCalls
    /\ \/ \E a \in LinearCalls :
             \/ clEnqueueReadBuffer(a)
             \/ clEnqueueWriteBuffer(a)
             \/ clEnqueueCopyBuffer(a)
             \/ clEnqueueFillBuffer(a)
             \/ clEnqueueMarkerWithWaitList(a)
             \/ clEnqueueBarrierWithWaitList(a)
             \/ clEnqueueWaitForEvents(a)
       \/ \E a \in RectCalls :
             \/ clEnqueueReadBufferRect(a)
             \/ clEnqueueWriteBufferRect(a)
             \/ clEnqueueCopyBufferRect(a)

BufferSpec == BufferInit /\ [][BufferNext]_bufferVars

---------------------------------------------------------------------------
RectApis == {"ReadBufferRect", "WriteBufferRect", "CopyBufferRect"}

\* No accepted command makes a worker read or write outside its objects.
InBounds ==
    \A mv \in lastCommand.moves : /\ mv[1] < SizeOf(lastCommand.target)
                                  /\ mv[2] < SizeOf(lastCommand.source)

LinearInBounds == lastCommand.api \notin RectApis => InBounds

\* No accepted copy has a cell that is both read and written, whatever the
\* offsets within one buffer: memcpy would be undefined.
NoOverlap ==
    lastCommand.target = lastCommand.source =>
        {mv[1] : mv \in lastCommand.moves} \cap {mv[2] : mv \in lastCommand.moves} = {}

\* What the commands mean: cell c of the area, counted along its rows and
\* slices, of a side whose pitches are tight unless they were given.
Area(r) == (0..(r[1] - 1)) \X (0..(r[2] - 1)) \X (0..(r[3] - 1))

CellAt(side, r, c) ==
    LET row   == IF side.row = 0 THEN r[1] ELSE side.row
        slice == IF side.slice = 0 THEN row * r[2] ELSE side.slice
    IN  (side.origin[1] + c[1]) + (side.origin[2] + c[2]) * row
        + (side.origin[3] + c[3]) * slice

\* The source cell that a target cell must come from, if any.
Sources(l, i) ==
    LET a == l.args
    IN  CASE l.api = "ReadBuffer"  -> {j \in {a.offset + i} : i < a.cb}
          [] l.api = "WriteBuffer" -> {j \in {i - a.offset} : i >= a.offset /\ j < a.cb}
          [] l.api = "CopyBuffer"  ->
                {j \in {a.from + i - a.offset} : i >= a.offset /\ i < a.offset + a.cb}
          [] l.api = "FillBuffer"  ->
                {j \in {(i - a.offset) % a.from} :
                     i >= a.offset /\ i < a.offset + a.cb}
          [] l.api \in RectApis ->
                {CellAt(a.fr, a.region, c) : c \in {c \in Area(a.region) :
                                                  CellAt(a.to, a.region, c) = i}}
          [] OTHER -> {}

\* An accepted command changes exactly the cells of its area, each to the
\* content of the cell it corresponds to; a refused one changes nothing.
MovesExactly ==
    \A id \in DOMAIN mem : \A i \in DOMAIN mem[id] :
        LET from == IF lastCommand'.err = Success /\ lastCommand'.target = id
                    THEN Sources(lastCommand', i) ELSE {}
        IN  IF from = {} THEN mem'[id][i] = mem[id][i]
            ELSE \A j \in from \cap DOMAIN mem[lastCommand'.source] :
                     mem'[id][i] = mem[lastCommand'.source][j]

\* A rectangular call that OpenCL allows: the buffers belong to the context,
\* the host may access them this way, the pitches are large enough, the area
\* lies within the buffers and the two areas of a copy are disjoint.
Allowed(b, side, r, denied) ==
    /\ b.kind = "buffer" /\ b.ctx = Ctx /\ b.flags \cap denied = {}
    /\ \A c \in Area(r) : CellAt(side, r, c) < b.size

PitchesAllowed(side, r) ==
    /\ side.row # 0 => side.row >= r[1]
    /\ side.slice # 0 =>
          LET row == IF side.row = 0 THEN r[1] ELSE side.row
          IN  side.slice >= r[2] * row /\ side.slice % row = 0

Legal(l) ==
    LET a == l.args
    IN  /\ a.nulls = {} /\ a.wl = NoWaitList
        /\ \A i \in 1..3 : a.region[i] # 0
        /\ PitchesAllowed(a.to, a.region) /\ PitchesAllowed(a.fr, a.region)
        /\ l.api = "ReadBufferRect" =>
              Allowed(a.src, a.fr, a.region, {"HostWriteOnly", "HostNoAccess"})
        /\ l.api = "WriteBufferRect" =>
              Allowed(a.buf, a.to, a.region, {"HostReadOnly", "HostNoAccess"})
        /\ l.api = "CopyBufferRect" =>
              /\ Allowed(a.src, a.fr, a.region, {})
              /\ Allowed(a.buf, a.to, a.region, {})
              /\ a.src = a.buf =>
                    /\ RowPitch(a.to, a.region) = RowPitch(a.fr, a.region)
                    /\ SlicePitch(a.to, a.region) = SlicePitch(a.fr, a.region)
                    /\ {CellAt(a.to, a.region, c) : c \in Area(a.region)} \cap
                       {CellAt(a.fr, a.region, c) : c \in Area(a.region)} = {}

\* The rectangular calls that OpenCL allows are accepted, but for two kinds
\* that never are: copies within a buffer, and writes to a buffer that the
\* host may only write.
RefusedAlways(l) ==
    \/ l.api = "CopyBufferRect" /\ l.args.buf = l.args.src
    \/ l.api = "WriteBufferRect" /\ "HostWriteOnly" \in l.args.buf.flags

LegalIsAccepted ==
    lastCommand.api \in RectApis /\ Legal(lastCommand) /\ ~RefusedAlways(lastCommand) =>
        lastCommand.err = Success

\* Accepted commands on buffers change exactly the cells of their area, each
\* to the content of the cell it corresponds to; linear ones stay inside both
\* objects, and none reads what it writes.  Rectangles that OpenCL allows are
\* accepted.
BufferCommandsAreExact ==
    /\ [](LinearInBounds /\ NoOverlap /\ LegalIsAccepted)
    /\ [][MovesExactly]_bufferVars

---------------------------------------------------------------------------
(* What comments, assertions, tests or the interface say and the code does *)
(* not keep in every case (README, section 4); no run checks these.        *)

EveryLegalIsAccepted ==
    lastCommand.api \in RectApis /\ Legal(lastCommand) => lastCommand.err = Success

=============================================================================
