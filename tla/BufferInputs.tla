--------------------------- MODULE BufferInputs -----------------------------
EXTENDS CommandBuilder

Buf(id, kind, ctx, size, flags) ==
    [id |-> id, kind |-> kind, ctx |-> ctx, size |-> size, flags |-> flags]

A == Buf("A", "buffer", Ctx, 4, {})
B == Buf("B", "buffer", Ctx, 3, {})
ReadOnly == Buf("RO", "buffer", Ctx, 4, {"HostReadOnly"})
WriteOnly == Buf("WO", "buffer", Ctx, 4, {"HostWriteOnly"})
NoAccess == Buf("NA", "buffer", Ctx, 4, {"HostNoAccess"})
Stranger == Buf("F", "buffer", "other", 4, {})
NotBuffer == Buf("I", "image", Ctx, 4, {})
Null == Buf("0", "null", Ctx, 0, {})

AllBuffers == {A, B, ReadOnly, WriteOnly, NoAccess, Stranger, NotBuffer, Null}

WaitListOf(n, given, evs) == [n |-> n, given |-> given, evs |-> evs]
WaitLists == {NoWaitList, WaitListOf(1, FALSE, <<>>), WaitListOf(0, TRUE, <<>>),
              WaitListOf(1, TRUE, <<"good">>), WaitListOf(1, TRUE, <<"failed">>),
              WaitListOf(2, TRUE, <<"foreign", "null">>),
              WaitListOf(2, TRUE, <<"null", "failed">>)}

Linear(nulls, buf, src, offset, from, cb, blocking, wl) ==
    [nulls |-> nulls, buf |-> buf, src |-> src, offset |-> offset,
     from |-> from, cb |-> cb, blocking |-> blocking, wl |-> wl]

\* Every area with arguments in order, and some areas with every fault.
AllLinear ==
    {Linear({}, A, s, o, f, n, FALSE, NoWaitList) :
         s \in {A, B}, o \in 0..5, f \in 0..5, n \in 0..5}
    \cup
    {Linear(x, b, s, 1, 2, n, k, w) :
         x \in {{}, {"queue"}, {"ptr"}}, b \in AllBuffers, s \in {A, Stranger, Null},
         n \in {0, 2}, k \in BOOLEAN, w \in WaitLists}

Side(o, row, slice) == [origin |-> o, row |-> row, slice |-> slice]
Origins == {0, 1} \X {0, 1} \X {0, 1}
Regions == {1, 2} \X {1, 2} \X {1, 2}

Rect(nulls, buf, src, to, fr, region, blocking, wl) ==
    [nulls |-> nulls, buf |-> buf, src |-> src, to |-> to, fr |-> fr,
     region |-> region, blocking |-> blocking, wl |-> wl]

\* Buffers of 2 x 2 x 2 cells, and of 3 x 2 x 2 with other pitches.
Cube == Buf("C", "buffer", Ctx, 8, {})
Brick == Buf("D", "buffer", Ctx, 12, {})
Bricks == {Cube, Brick} \cup (AllBuffers \ {A, B})

Sides(o) == {Side(o, p[1], p[2]) : p \in {<<0, 0>>, <<2, 4>>, <<3, 0>>, <<3, 6>>, <<2, 5>>,
                                          <<1, 0>>}}
AllSides == UNION {Sides(o) : o \in Origins}

Plain == Side(<<0, 0, 0>>, 0, 0)

\* Two different buffers.
AllRects ==
    {Rect({}, Cube, Brick, t, f, r, FALSE, NoWaitList) :
         t \in AllSides, f \in Sides(<<1, 0, 1>>) \cup Sides(<<0, 1, 0>>), r \in Regions}
    \cup
    {Rect({}, Brick, Cube, t, f, r, FALSE, NoWaitList) :
         t \in Sides(<<0, 1, 0>>), f \in AllSides, r \in Regions}
    \cup
    {Rect(x, b, s, Plain, Plain, r, FALSE, w) :
         x \in {{}, {"queue"}, {"ptr"}, {"target"}, {"source"}, {"region"}},
         b \in Bricks \ {WriteOnly, ReadOnly}, s \in {Cube, Stranger, Null},
         r \in {<<1, 1, 1>>, <<1, 0, 1>>}, w \in WaitLists}
=============================================================================
