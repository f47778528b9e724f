--------------------------- MODULE MemoryMapping ----------------------------
(***************************************************************************)
(* Mappings of memory objects: clEnqueueMapBuffer, clEnqueueMapImage and   *)
(* clEnqueueUnmapMemObject, the multimap in which an object records its    *)
(* mappings, and the worker that removes a mapping when it executes the    *)
(* unmap command.  A mapping is recorded when the command is built, before *)
(* it is known whether the rest of the call is in order; an unmap is       *)
(* checked when it is built and done later.                                *)
(*                                                                         *)
(* One buffer, one image and one image made from the buffer, which records *)
(* its mappings in the buffer.  The pointer of a mapping is the base of    *)
(* the storage: that of the device, or the one of the host.                *)
(***************************************************************************)
EXTENDS ImageLayout, SequencesExt

CONSTANTS
    Devices,      \* one queue for each
    UseHostPtr,   \* the storage is the host's
    BufferSize,   \* bytes of the buffer
    Picture,      \* the image: layout, see ImageLayout
    Strip,        \* the image made from the buffer
    Limits1,      \* limits of the devices
    MapCalls,     \* arguments of the map calls
    Faults,       \* what may be wrong with the rest of a call
    MaxCalls      \* bound: number of map calls

VARIABLES
    MemMappings, \* by object: the records, those of one pointer in order
    pending,     \* by device: the unmap commands not executed yet
    held,        \* the mappings the program got and has not given back
    calls,       \* number of map calls
    last         \* the last call and its answer

vars == <<MemMappings, pending, held, calls, last>>

Objects == {"buffer", "picture", "strip"}
Write(flags) == flags \cap {"WRITE", "WRITE_INVALIDATE"} # {}
MapFailure == "CL_MAP_FAILURE"

\* The object that records the mappings.
Home(obj) == IF obj = "strip" THEN "buffer" ELSE obj

\* acquireMappingAddrFor.
Address(obj, dev) == <<Home(obj), IF UseHostPtr THEN "host" ELSE dev>>

---------------------------------------------------------------------------
(* MemMappingInfo.                                                         *)

checkIntersection(x1, l1, x2, l2) == x2 < x1 + l1 /\ x1 < x2 + l2

\* The mappings of buffers, and of images made from them, leave two of three
\* dimensions uninitialised: rest is what comparing them gives.
isOverlappedWith(m, n, rest) ==
    /\ checkIntersection(m.off[1], m.size[1], n.off[1], n.size[1])
    /\ IF Len(m.off) = 3 /\ Len(n.off) = 3
       THEN \A i \in 2..3 : checkIntersection(m.off[i], m.size[i], n.off[i], n.size[i])
       ELSE rest

Records(obj) == MemMappings[Home(obj)]

\* Mutant: a pointer that is mapped already does not matter.
AcceptsNewWriters(obj, m, vague) ==
    /\ m.flags # {}
    /\ Write(m.flags) =>
          \A i \in 1..Len(Records(obj)) :
              ~isOverlappedWith(Records(obj)[i], m, i \in vague)

\* Mutant: mappings through other pointers do not matter.
AcceptsByPointer(obj, m, vague) ==
    /\ m.flags # {}
    /\ Write(m.flags) =>
          \A i \in 1..Len(Records(obj)) : Records(obj)[i].ptr # m.ptr

\* addMapping: vague are the records the uninitialised dimensions overlap.
Accepts(obj, m, vague) ==
    /\ m.flags # {}
    /\ Write(m.flags) =>
          \A i \in 1..Len(Records(obj)) :
              /\ Records(obj)[i].ptr # m.ptr
              /\ ~isOverlappedWith(Records(obj)[i], m, i \in vague)

\* Mutant: the record of the last mapping of the pointer stays.
RemoveKeepingLast(records, ptr) ==
    LET same == {i \in 1..Len(records) : records[i].ptr = ptr}
    IN  IF Cardinality(same) < 2 THEN records ELSE RemoveAt(records, Min(same))

\* removeMapping: the first record of the pointer.
RemoveMapping(records, ptr) ==
    LET same == {i \in 1..Len(records) : records[i].ptr = ptr}
    IN  IF same = {} THEN records ELSE RemoveAt(records, Min(same))

\* isValidMapping looks at the object itself, not at its buffer.
isValidMapping(obj, ptr) ==
    \E i \in 1..Len(MemMappings[obj]) : MemMappings[obj][i].ptr = ptr

---------------------------------------------------------------------------
(* The builders of the map commands, up to and after SetMapBuffer.         *)

MapFlagErrors(flags, access) ==
    FirstOf(<< <<"WRITE_INVALIDATE" \in flags /\ flags # {"WRITE_INVALIDATE"}, InvalidValue>>,
               <<"READ" \in flags /\ access \cap {"HostWriteOnly", "HostNoAccess"} # {},
                 InvalidOperation>>,
               <<Write(flags) /\ access \cap {"HostReadOnly", "HostNoAccess"} # {},
                 InvalidOperation>> >>)

\* A flag or an area that was refused stays as the constructor set it.
SetFlags(c) == IF MapFlagErrors(c.flags, c.access) = <<>> THEN c.flags ELSE {}

BufferAreaErrors(c) == Check(c.off[1] + c.size[1] > BufferSize, InvalidValue)

BufferInfo(c, dev) ==
    LET ok == BufferAreaErrors(c) = <<>>
    IN  [ptr |-> Address("buffer", dev), flags |-> SetFlags(c),
         off |-> IF ok THEN <<c.off[1]>> ELSE <<0>>,
         size |-> IF ok THEN <<c.size[1]>> ELSE <<0>>]

Layout(obj) == IF obj = "strip" THEN Strip ELSE Picture

ImageAreaErrors(c) ==
    Check((\E i \in 1..3 : c.size[i] = 0)
          \/ ~IsValidImgRegion(Layout(c.obj), c.off, c.size), InvalidValue)

ImageInfo(c, dev) ==
    LET elem == Layout(c.obj).elem
    IN  IF c.obj = "strip"
        THEN [ptr |-> Address(c.obj, dev), flags |-> SetFlags(c),
              off |-> <<c.off[1] * elem>>, size |-> <<c.size[1] * elem>>]
        ELSE [ptr |-> Address(c.obj, dev), flags |-> SetFlags(c),
              off |-> c.off, size |-> c.size]

\* The call c finds the errors before and after SetMapBuffer; m is what it
\* records, if it comes to that.  The mapping is recorded even if the call
\* fails otherwise.
Map(c, dev, before, records, m, fault) ==
    \E vague \in SUBSET (1..Len(Records(c.obj))) :
        LET added  == records /\ Accepts(c.obj, m, vague)
            errors == before
                      \o (IF records /\ ~added THEN <<MapFailure>> ELSE <<>>)
                      \o (IF fault = "none" THEN <<>> ELSE <<fault>>)
        IN  /\ calls < MaxCalls
            /\ calls' = calls + 1
            /\ MemMappings' = IF added THEN [MemMappings EXCEPT ![Home(c.obj)] =
                                                Append(@, m)]
                              ELSE MemMappings
            /\ held' = IF Create(errors) = Success
                       THEN held \cup {[id |-> calls, obj |-> c.obj, dev |-> dev,
                                        map |-> m]}
                       ELSE held
            /\ last' = [call |-> "map", obj |-> c.obj, err |-> Create(errors),
                        pitches |-> FALSE]
            /\ UNCHANGED pending

\* What the API functions refuse before they make a builder.
Valid(c) ==
    /\ c.flags \subseteq {"READ", "WRITE", "WRITE_INVALIDATE"}
    /\ c.obj = "buffer" => c.size[1] # 0

clEnqueueMapBuffer(c, dev, fault) ==
    /\ c.obj = "buffer"
    /\ IF Valid(c)
       THEN Map(c, dev, MapFlagErrors(c.flags, c.access) \o BufferAreaErrors(c), TRUE,
                BufferInfo(c, dev), fault)
       ELSE Map(c, dev, <<InvalidValue>>, FALSE, BufferInfo(c, dev), "none")

\* SetMapPitches runs before SetMapArea, finds no region and reports nothing.
clEnqueueMapImage(c, dev, fault) ==
    /\ c.obj # "buffer"
    /\ IF Valid(c)
       THEN Map(c, dev,
                CheckDevImgSupport(Limits1, Layout(c.obj))
                \o MapFlagErrors(c.flags, c.access) \o ImageAreaErrors(c),
                ImageAreaErrors(c) = <<>>, ImageInfo(c, dev), fault)
       ELSE Map(c, dev, <<InvalidValue>>, FALSE, ImageInfo(c, dev), "none")

---------------------------------------------------------------------------
(* Unmapping: the program gives back a mapping it holds, once.             *)

clEnqueueUnmapMemObject(h) ==
    LET ok == isValidMapping(h.obj, h.map.ptr)
    IN  /\ held' = held \ {h}
        /\ pending' = IF ok THEN [pending EXCEPT ![h.dev] = Append(@, h)] ELSE pending
        /\ last' = [call |-> "unmap", obj |-> h.obj,
                    err |-> IF ok THEN Success ELSE InvalidValue]
        /\ UNCHANGED <<MemMappings, calls>>

\* A worker executes the unmap command of a device.
ExecuteUnmap(dev) ==
    /\ pending[dev] # <<>>
    /\ LET h == Head(pending[dev])
       IN  MemMappings' = [MemMappings EXCEPT ![Home(h.obj)] = RemoveMapping(@, h.map.ptr)]
    /\ pending' = [pending EXCEPT ![dev] = Tail(@)]
    /\ UNCHANGED <<held, calls, last>>

Init ==
    /\ MemMappings = [o \in Objects |-> <<>>]
    /\ pending = [d \in Devices |-> <<>>]
    /\ held = {}
    /\ calls = 0
    /\ last = [call |-> "none", err |-> Success]

Next ==
    \/ \E c \in MapCalls, dev \in Devices, fault \in Faults :
          clEnqueueMapBuffer(c, dev, fault) \/ clEnqueueMapImage(c, dev, fault)
    \/ \E h \in held : clEnqueueUnmapMemObject(h)
    \/ \E dev \in Devices : ExecuteUnmap(dev)

Spec == Init /\ [][Next]_vars

\* Workers execute what was enqueued.
FairSpec == Spec /\ \A dev \in Devices : WF_vars(ExecuteUnmap(dev))

---------------------------------------------------------------------------
Unmapping == UNION {{pending[d][i] : i \in 1..Len(pending[d])} : d \in Devices}

\* The records of a pointer are as many as the mappings through it that the
\* program holds or has given back to a worker: unmapping any of them, in
\* any order and from several devices, never takes away the record of
\* another mapping for good.
RecordsMatchHolders ==
    \A o \in Objects, d \in Devices :
        LET p == Address(o, d)
            Of(h) == Home(h.obj) = Home(o) /\ h.map.ptr = p
        IN  Cardinality({i \in 1..Len(Records(o)) : Records(o)[i].ptr = p})
                = Cardinality({h \in held \cup Unmapping : Of(h)})

\* Two mappings for writing are never held through the same pointer, nor is
\* one made through a pointer while another mapping of it is recorded.
OneWriterPerPointer ==
    \A g, h \in held : g # h /\ g.map.ptr = h.map.ptr
                         => ~(Write(g.map.flags) /\ Write(h.map.flags))

\* Two mappings for writing that the program holds do not overlap, from
\* whichever devices they were made.
WritersExclude ==
    \A g, h \in held :
        g # h /\ Home(g.obj) = Home(h.obj) /\ Write(g.map.flags) /\ Write(h.map.flags)
            => ~isOverlappedWith(g.map, h.map, TRUE)

\* What the first two take of the calls: nothing is found wrong with a call
\* that is recorded all the same, and no image shares the records of a buffer.
CallsInOrder ==
    /\ Faults \subseteq {"none"}
    /\ \A c \in MapCalls :
          \/ c.obj = "buffer" /\ BufferAreaErrors(c) = <<>>
          \/ c.obj = "picture" /\ CheckDevImgSupport(Limits1, Picture) = <<>>

\* What the last takes: the record that is removed for a mapping may be that of
\* a reader, and mappings of a buffer are compared with uninitialised values.
WritersOnly ==
    \A c \in MapCalls : c.obj = "picture" /\ Write(c.flags) /\ Len(c.off) = 3

\* The records of a pointer are as many as the mappings through it that are
\* held or on the way back, whatever the order and the device of the unmaps;
\* mappings for writing that are held share no pointer and, where there are
\* writers only, no byte.
MappingsMatchRecords ==
    /\ RecordsMatchHolders
    /\ OneWriterPerPointer
    /\ WritersOnly => WritersExclude

---------------------------------------------------------------------------
(* What comments, assertions, tests or the interface say and the code does *)
(* not keep in every case (README, section 4); no run checks these.        *)

\* A mapping the program holds can be given back.
HeldCanBeUnmapped == last.call = "unmap" => last.err = Success

\* A map call that succeeds on an image reports the pitches of the image.
PitchesReported ==
    last.call = "map" /\ last.obj # "buffer" /\ last.err = Success => last.pitches

\* Mappings the program has given back are recorded no longer, eventually: a
\* mapping for writing becomes possible again.
GivenBackIsRemoved ==
    \A o \in Objects : (held = {}) ~> (Records(o) = <<>> \/ held # {})

=============================================================================
