---------------------------- MODULE MemoryObjects ---------------------------
(***************************************************************************)
(* How memory objects are made: clCreateBuffer, clCreateSubBuffer and      *)
(* clCreateImage with the MemoryObjectBuilder behind them.  Flags are sets *)
(* of names: RO, WO, RW for the kernels, HRO, HWO, HNA for the host, UHP,  *)
(* AHP, CHP for the storage.                                               *)
(***************************************************************************)
EXTENDS ImageLayout

CONSTANTS
    Devices,     \* the devices of the context: limits and formats
    BufferCalls, \* arguments of clCreateBuffer
    ImageCalls,  \* arguments of clCreateImage; buffers are given by name
    MaxCalls     \* bound: number of calls

VARIABLES
    objects, \* the objects made so far
    calls,   \* number of calls so far
    last     \* the last call and its answer

vars == <<objects, calls, last>>

Access == {"RO", "WO", "RW"}
HostAccess == {"HRO", "HWO", "HNA"}
HostPtrMode == {"UHP", "AHP", "CHP"}
AllFlags == Access \cup HostAccess \cup HostPtrMode

---------------------------------------------------------------------------
(* MemoryObjectBuilder.  Every check that fails is the answer; only the    *)
(* last one is kept.                                                       *)

BufferSizeErrors(size) == Check(size = 0, "CL_INVALID_BUFFER_SIZE")

AtMostOne(flags, group) == Cardinality(flags \cap group) <= 1

\* setGenericFlags for any object ...
FlagErrors(flags, hostPtr) ==
    FirstOf(<< <<~(flags \subseteq AllFlags), InvalidValue>>,
               <<~AtMostOne(flags, Access), InvalidValue>>,
               <<~AtMostOne(flags, HostAccess), InvalidValue>>,
               <<flags \cap {"UHP", "CHP"} # {} /\ ~hostPtr, "CL_INVALID_HOST_PTR">>,
               <<"UHP" \in flags /\ flags \cap {"AHP", "CHP"} # {}, InvalidValue>> >>)

\* No flag at all means read and write.
DefaultFlags(flags) == IF flags = {} THEN {"RW"} ELSE flags

\* Mutant: only a read-only buffer restricts its images.
SharedErrorsReadOnly(flags, buf) ==
    FirstOf(<< <<flags \cap {"WO", "RW"} # {} /\ "RO" \in buf, InvalidValue>>,
               <<flags \cap HostPtrMode # {}, InvalidValue>> >>)

\* ... and for an image made from a buffer.
SharedErrors(flags, buf) ==
    FirstOf(<< <<\/ flags \cap {"RO", "RW"} # {} /\ "WO" \in buf
                 \/ flags \cap {"WO", "RW"} # {} /\ "RO" \in buf, InvalidValue>>,
               <<\/ "HRO" \in flags /\ "HWO" \in buf
                 \/ "HWO" \in flags /\ "HRO" \in buf
                 \/ "HNA" \in flags /\ buf \cap {"HWO", "HRO"} # {}, InvalidValue>>,
               <<flags \cap HostPtrMode # {}, InvalidValue>> >>)

\* What an image inherits from its buffer.
Inherited(flags, buf) ==
    flags \cup (buf \cap HostPtrMode)
          \cup (IF flags \cap Access = {} THEN buf \cap Access ELSE {})
          \cup (IF flags \cap HostAccess = {} THEN buf \cap HostAccess ELSE {})

---------------------------------------------------------------------------
(* The API functions.                                                      *)

Answer(call, args, err, made) ==
    /\ calls' = calls + 1
    /\ last.err # "assertion failed"
    /\ last' = [call |-> call, args |-> args, err |-> err]
    /\ objects' = objects \cup made

\* A new object gets the next name.
NextId == Cardinality(objects) + 1

clCreateBuffer(a) ==
    LET err == Create(BufferSizeErrors(a.size) \o FlagErrors(a.flags, a.hostPtr))
    IN  Answer("buffer", a, err,
               IF err = Success
               THEN {[id |-> NextId, kind |-> "buffer", size |-> a.size,
                      flags |-> DefaultFlags(a.flags)]}
               ELSE {})

\* The builder is one of buffers, and setSubBufferFlags asserts that it is one
\* of sub-buffers: the program stops there.
clCreateSubBuffer ==
    /\ \E o \in objects : o.kind = "buffer"
    /\ Answer("sub-buffer", {}, "assertion failed", {})

\* setImage runs before setGenericFlags, and so does not know the pointer of
\* the host.  a.shared says that an object already made is the buffer.  The
\* type is set before the pitches are checked, so that setGenericFlags compares
\* the flags with those of the buffer though a pitch is wrong.
clCreateImage(a) ==
    \E b \in IF a.shared THEN {o \in objects : o.kind = "buffer"} ELSE {NoBuffer} :
        LET desc   == [a.desc EXCEPT !.buffer = b]
            errors == SetImageErrors(Devices, a.fmt, desc, FALSE, a.nulls)
            basic  == FlagErrors(a.flags, a.hostPtr)
            flags  == DefaultFlags(a.flags)
            onBuffer == /\ ShapeErrors(Devices, a.fmt, desc, a.nulls) = <<>>
                        /\ desc.image_type = "1D_BUFFER"
            more   == IF basic = <<>> /\ onBuffer
                      THEN SharedErrors(flags, b.flags) ELSE <<>>
            err    == Create(errors \o basic \o more)
            final  == IF onBuffer THEN Inherited(flags, b.flags) ELSE flags
        IN  Answer("image", [a EXCEPT !.desc = desc], err,
                   IF err = Success
                   THEN {[id |-> NextId, kind |-> "image", flags |-> final,
                          img |-> SetImage(a.fmt, desc)]}
                   ELSE {})

Init == objects = {} /\ calls = 0 /\ last = [call |-> "none", err |-> Success]

Next ==
    /\ calls < MaxCalls
    /\ \/ \E a \in BufferCalls : clCreateBuffer(a)
       \/ \E a \in ImageCalls : clCreateImage(a)
       \/ clCreateSubBuffer

Spec == Init /\ [][Next]_vars

---------------------------------------------------------------------------
Images == {o \in objects : o.kind = "image"}

\* The bytes of an image hold every one of its pixels, whatever its type: the
\* last pixel of the last row of the last slice ends within the size that
\* setImage computes.
PixelsHaveStorage ==
    \A o \in Images :
        LET i == o.img
            e == Extent(i)
        IN  (e[1] - 1) * i.elem + (e[2] - 1) * i.row + (e[3] - 1) * i.slice + i.elem
                <= i.size

\* What kernels may do with an object, given its flags.
KernelMay(flags) ==
    IF "RO" \in flags THEN {"read"} ELSE IF "WO" \in flags THEN {"write"}
    ELSE {"read", "write"}

HostMay(flags) ==
    IF "HRO" \in flags THEN {"read"} ELSE IF "HWO" \in flags THEN {"write"}
    ELSE IF "HNA" \in flags THEN {} ELSE {"read", "write"}

\* No image lets kernels do with a buffer what the buffer's own flags forbid.
ImagesKeepKernelAccess ==
    \A o \in Images :
        o.img.buffer # NoBuffer => KernelMay(o.flags) \subseteq KernelMay(o.img.buffer.flags)

---------------------------------------------------------------------------
(* What comments, assertions, tests or the interface say and the code does *)
(* not keep in every case (README, section 4); no run checks these.        *)

\* No image lets the host do with a buffer what the buffer's own flags forbid.
ImagesKeepHostAccess ==
    \A o \in Images :
        o.img.buffer # NoBuffer => HostMay(o.flags) \subseteq HostMay(o.img.buffer.flags)

\* A row pitch is refused as one without a pointer only if there is none.
PitchNeedsPointer ==
    last.call = "image" /\ last.args.hostPtr /\ last.args.flags = {"UHP"}
        /\ last.args.nulls = {}
        /\ SetImageErrors(Devices, last.args.fmt, last.args.desc, TRUE, {}) = <<>>
        => last.err = Success

\* An image that was made for the device can be used by commands on it.
CreatedIsUsable ==
    \A o \in Images : \A d \in Devices :
        Cardinality(Devices) = 1 => CheckDevImgSupport(d, o.img) = <<>>

\* No call fails an assertion of the builder.
AssertionsHold == last.err # "assertion failed"

=============================================================================
