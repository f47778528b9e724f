---------------------------- MODULE ImageInputs -----------------------------
EXTENDS ImageLayout

Format(o, t) == [order |-> o, type |-> t]
R8 == Format("R", "UNORM_INT8")
BGRA8 == Format("BGRA", "UNORM_INT8")
RA16 == Format("RA", "SIGNED_INT16")
RGB565 == Format("RGB", "UNORM_SHORT_565")

Desc(t, w, h, d, n, buf) ==
    [image_type |-> t, width |-> w, height |-> h, depth |-> d, array |-> n,
     row |-> 0, slice |-> 0, mip |-> 0, samples |-> 0, buffer |-> buf]

Object(id, kind, ctx, flags, fmt, desc) ==
    [id |-> id, kind |-> kind, ctx |-> ctx, flags |-> flags, img |-> SetImage(fmt, desc)]

Buf(id, size) == [id |-> id, kind |-> "buffer", ctx |-> Ctx, flags |-> {}, size |-> size]
B == Buf("B", 8)
Null == [id |-> "0", kind |-> "null", ctx |-> Ctx, flags |-> {}]

\* One image of every type, and images that are refused.
Shapes == {Object("1D", "image", Ctx, {}, RA16, Desc("1D", 3, 0, 0, 0, NoBuffer)),
           Object("1B", "image", Ctx, {}, R8, Desc("1D_BUFFER", 3, 0, 0, 0, B)),
           Object("1A", "image", Ctx, {}, R8, Desc("1D_ARRAY", 3, 0, 0, 2, NoBuffer)),
           Object("2D", "image", Ctx, {}, RGB565, Desc("2D", 3, 2, 0, 0, NoBuffer)),
           Object("2A", "image", Ctx, {}, R8, Desc("2D_ARRAY", 3, 2, 0, 2, NoBuffer)),
           Object("3D", "image", Ctx, {}, BGRA8, Desc("3D", 2, 2, 2, 0, NoBuffer))}
Faulty == {Object("WO", "image", Ctx, {"HostWriteOnly"}, R8, Desc("2D", 2, 2, 0, 0, NoBuffer)),
           Object("RO", "image", Ctx, {"HostReadOnly"}, R8, Desc("2D", 2, 2, 0, 0, NoBuffer)),
           Object("F", "image", "other", {}, R8, Desc("2D", 2, 2, 0, 0, NoBuffer)),
           Object("X", "image", Ctx, {}, Format("A", "FLOAT"), Desc("2D", 2, 2, 0, 0, NoBuffer)),
           Object("L", "image", Ctx, {}, R8, Desc("2D", 5, 1, 0, 0, NoBuffer))}
Copy == Object("3C", "image", Ctx, {}, BGRA8, Desc("3D", 2, 2, 3, 0, NoBuffer))
Array == Object("2C", "image", Ctx, {}, R8, Desc("2D_ARRAY", 2, 3, 0, 2, NoBuffer))
AllObjects == Shapes \cup Faulty \cup {Copy, Array, B, Null}

CPU == [w2 |-> 4, h2 |-> 4, w3 |-> 4, h3 |-> 4, d3 |-> 4, buf |-> 16, arr |-> 4,
        formats |-> {R8, BGRA8, RA16, RGB565}, images |-> TRUE]

Call(nulls, img, other, origin, from, offset, region, row, slice, blocking, wl) ==
    [nulls |-> nulls, img |-> img, other |-> other, origin |-> origin, from |-> from,
     offset |-> offset, region |-> region, row |-> row, slice |-> slice,
     blocking |-> blocking, wl |-> wl]

Origins == {0, 1} \X {0, 1} \X {0, 1}
Regions == {1, 2} \X {1, 2} \X {1, 2}
WaitListOf(n, given, evs) == [n |-> n, given |-> given, evs |-> evs]
WaitLists == {NoWaitList, WaitListOf(1, FALSE, <<>>), WaitListOf(1, TRUE, <<"failed">>),
              WaitListOf(1, TRUE, <<"foreign">>)}
Zero == <<0, 0, 0>>

AllCalls ==
    {Call({}, i, o, g, f, n, r, 0, 0, FALSE, NoWaitList) :
         i \in Shapes, o \in {B, Copy, Array}, g \in Origins, f \in {Zero, <<0, 1, 1>>},
         n \in {0, 4}, r \in Regions}
    \cup {Call({}, i, B, g, Zero, 0, r, p, s, FALSE, NoWaitList) :
         i \in Shapes, g \in {Zero, <<1, 0, 0>>}, r \in Regions, p \in {0, 3, 8}, s \in {0, 5, 16}}
    \cup {Call(x, i, o, Zero, Zero, 0, r, 0, 0, b, w) :
         x \in {{}, {"queue"}, {"ptr"}, {"origin"}, {"region"}}, i \in Faulty \cup {Null, B},
         o \in {B, Null}, r \in {<<1, 1, 1>>, <<1, 0, 1>>}, b \in BOOLEAN, w \in WaitLists}
---------------------------------------------------------------------------
(* Mappings of a buffer, an image and a 1D image made from a buffer.       *)

RG8 == Format("RG", "UNORM_INT8")
PictureLayout == SetImage(R8, Desc("3D", 2, 2, 2, 0, NoBuffer))
StripLayout == SetImage(RG8, Desc("1D_BUFFER", 2, 0, 0, 0, NoBuffer))
MapLimits == [CPU EXCEPT !.formats = {R8, RG8}]

MapCall(obj, flags, access, off, size) ==
    [obj |-> obj, flags |-> flags, access |-> access, off |-> off, size |-> size]

Flags == {{"READ"}, {"WRITE"}, {"READ", "WRITE"}, {"WRITE_INVALIDATE"}}
Corners == {<<<<0, 0, 0>>, <<1, 2, 1>>>>, <<<<1, 0, 0>>, <<1, 1, 2>>>>,
            <<<<0, 0, 1>>, <<2, 2, 1>>>>}
Spans == {<<0, 2>>, <<1, 2>>, <<2, 2>>, <<3, 2>>}

BufferMaps == {MapCall("buffer", f, {}, <<s[1]>>, <<s[2]>>) : f \in Flags, s \in Spans}
PictureMaps == {MapCall("picture", f, {}, c[1], c[2]) : f \in Flags, c \in Corners}
StripMaps == {MapCall("strip", f, {}, <<o, 0, 0>>, <<1, 1, 1>>) :
                  f \in {{"READ"}, {"WRITE"}}, o \in {0, 1}}
Refused == {MapCall(o, f, a, <<0, 0, 0>>, <<1, 1, 1>>) :
                o \in {"buffer", "picture"}, f \in Flags \cup {{"READ", "WRITE_INVALIDATE"}},
                a \in {{"HostNoAccess"}, {"HostReadOnly"}, {"HostWriteOnly"}}}
           \cup {MapCall("picture", {"READ"}, {}, <<1, 0, 0>>, <<2, 0, 1>>),
                 MapCall("buffer", {"READ"}, {}, <<1>>, <<0>>),
                 MapCall("picture", {"READ", "COPY"}, {}, <<0, 0, 0>>, <<1, 1, 1>>)}

\* Calls in order; in AllMaps also calls refused before anything is recorded.
GoodMaps == {c \in BufferMaps \cup PictureMaps : c.off[1] < 3}
SmallMaps == {c \in GoodMaps : c.flags \in {{"READ"}, {"WRITE"}} /\ c.off[1] # 1}
AllMaps == SmallMaps \cup Refused
WriteMaps == {c \in PictureMaps : c.flags # {"READ"}}
=============================================================================
