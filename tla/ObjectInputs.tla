--------------------------- MODULE ObjectInputs -----------------------------
EXTENDS ImageLayout, Functions

Format(o, t) == [order |-> o, type |-> t]
Formats == {Format("R", "UNORM_INT8"), Format("RGB", "UNORM_SHORT_565"),
            Format("RGBA", "UNSIGNED_INT16"), Format("RG", "FLOAT")}
BadFormats == {Format("DEPTH", "UNORM_INT8"), Format("R", "INT64"),
               Format("RGB", "UNORM_INT8"), Format("BGRA", "FLOAT"),
               Format("LUMINANCE", "SIGNED_INT8"), Format("A", "FLOAT")}

Device(w2, h2, w3, h3, d3, buf, arr, formats) ==
    [w2 |-> w2, h2 |-> h2, w3 |-> w3, h3 |-> h3, d3 |-> d3, buf |-> buf,
     arr |-> arr, formats |-> formats]

\* The second device has smaller limits, and lacks a format.
Big == Device(4, 4, 3, 3, 3, 32, 4, Formats)
Small == Device(3, 4, 3, 3, 2, 24, 3, Formats \ {Format("RG", "FLOAT")})
TwoDevices == {Big, Small}
OneDevice == {Big}

BufferCall(size, flags, ptr) == [size |-> size, flags |-> flags, hostPtr |-> ptr]
AllFlags == {"RO", "WO", "RW", "HRO", "HWO", "HNA", "UHP", "AHP", "CHP"}
AllFlagSets == {f \in SUBSET AllFlags : Cardinality(f) <= 2}
    \cup {{"RO", "HRO", "UHP"}, {"KERNEL"}}
SomeFlagSets == {{}, {"RO"}, {"WO"}, {"RW"}, {"HRO"}, {"HWO"}, {"HNA"},
                 {"RO", "HNA"}, {"UHP"}, {"CHP", "WO"}}
CreatedBuffers == {BufferCall(s, f, p) : s \in {0, 32}, f \in AllFlagSets, p \in BOOLEAN}

Desc(t, w, h, d, n, row, slice) ==
    [image_type |-> t, width |-> w, height |-> h, depth |-> d, array |-> n,
     row |-> row, slice |-> slice, mip |-> 0, samples |-> 0, buffer |-> NoBuffer]

ImageCall(nulls, fmt, desc, shared, flags, ptr) ==
    [nulls |-> nulls, fmt |-> fmt, desc |-> desc, shared |-> shared,
     flags |-> flags, hostPtr |-> ptr]

ImageTypes == {"1D", "1D_BUFFER", "1D_ARRAY", "2D", "2D_ARRAY", "3D", "4D"}
Shapes == {Desc(t, w, h, d, n, 0, 0) : t \in ImageTypes, w \in 0..4, h \in 0..3,
                                       d \in {0, 2}, n \in {0, 1, 2}}
Pitched == {Desc(t, 2, 2, 2, 2, r, s) : t \in ImageTypes, r \in {0, 1, 2, 4, 16},
                                        s \in {0, 4, 8, 32}}
Plain == Desc("2D", 2, 2, 0, 0, 0, 0)

\* Every shape and format, and every fault on its own.
AllImages ==
    {ImageCall({}, f, d, FALSE, {}, FALSE) : f \in Formats, d \in Shapes}
    \cup {ImageCall({}, f, Plain, FALSE, {}, FALSE) : f \in BadFormats}
    \cup {ImageCall({n}, Format("R", "UNORM_INT8"), Plain, FALSE, {}, FALSE) :
              n \in {"format", "desc"}}
    \cup {ImageCall({}, Format("R", "UNORM_INT8"), d, FALSE, f, p) :
              d \in Pitched, f \in SomeFlagSets, p \in BOOLEAN}
    \cup {ImageCall({}, Format("R", "UNORM_INT8"), [Plain EXCEPT !.mip = 1], FALSE, {}, FALSE)}

\* Images made from a buffer, with every pair of flags and a pitch or none.
SharedImages ==
    {ImageCall({}, Format("R", "UNORM_INT8"), Desc(t, 3, 1, 1, 1, row, 0), TRUE, f, FALSE) :
         t \in {"1D_BUFFER", "2D"}, row \in {0, 4}, f \in AllFlagSets}

SomeBuffers == {BufferCall(32, f, TRUE) : f \in SomeFlagSets}

---------------------------------------------------------------------------
\* Four CPUs, two for each L2 cache and node.
MachineCPUs == <<"c1", "c2", "c3", "c4">>
Topology ==
    [c \in Range(MachineCPUs) |->
        LET side == IF c \in {"c1", "c2"} THEN "left" ELSE "right"
        IN  <<[kind |-> "L1", id |-> c], [kind |-> "L2", id |-> side],
              [kind |-> "NUMA", id |-> side]>>]

Equal(n) == [type |-> "EQUALLY", n |-> n]
Counts(s) == [type |-> "BY_COUNTS", counts |-> s]
Affinity(d) == [type |-> "BY_AFFINITY", domain |-> d]
Partitions == {Equal(0), Equal(1), Equal(2), Counts(<<1, 2>>), Counts(<<2, -1>>),
               Counts(<<3, 2>>), Counts(<<>>), Affinity("L1"), Affinity("NEXT")}
=============================================================================
