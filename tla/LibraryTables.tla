---------------------------- MODULE LibraryTables ---------------------------
(***************************************************************************)
(* Small tables of the built-in library, in the shape of those of the CPU: *)
(* functions on reals and their vectors, a conversion, one with a pointer, *)
(* one that reduces a vector, atomic functions of a 64-bit machine, and    *)
(* images.  Sections of the real tables are named where one is like them.  *)
(***************************************************************************)
EXTENDS TypeOrder

Int32 == Integer(32, FALSE)
Int64 == Integer(64, FALSE)
Half == Real(16)
Float == Real(32)
Double == Real(64)

Wide(scalars, widths) == scalars \cup {Vector(t, w) : t \in scalars, w \in widths}

Plain(types) == [wrap |-> "plain", types |-> types]
PointerTo(types, space) == [wrap |-> "pointer", types |-> types, space |-> space, mods |-> 0]
ReadOnlyOf(types) == [wrap |-> "qualified", types |-> types, qual |-> ReadOnly]

Id(i) == [op |-> i, pointee |-> FALSE]
Pointee(i) == [op |-> i, pointee |-> TRUE]
Must(how, p, q) == [how |-> how, first |-> p, second |-> q, negated |-> FALSE]
Not(c) == [c EXCEPT !.negated = TRUE]

Variant(name, operands, constraints) ==
    [name |-> name, operands |-> operands, constraints |-> constraints, predicates |-> {}]
Function(id, group, variants) ==
    [id |-> id, group |-> group, cast |-> FALSE, predicates |-> {}, variants |-> variants]
Cast(id, group, variants) == [Function(id, group, variants) EXCEPT !.cast = TRUE]
Impl(id, variant, strategy) ==
    [builtin |-> id, variant |-> variant, target |-> FALSE, strategy |-> strategy, requires |-> {}]
OnTarget(impl) == [impl EXCEPT !.target = TRUE]
Requiring(impl, r) == [impl EXCEPT !.requires = {r}]

\* Always there, and those of a 64-bit machine.
Features == <<[preds |-> {}, name |-> "fp64"], [preds |-> {"x86_64"}, name |-> "int64"]>>
Machines == {{}, {"x86_64"}}

---------------------------------------------------------------------------
\* fmin has a variant whose last parameter is a scalar, dot makes a number of
\* two vectors.
Gen == Plain(Wide({Float, Double}, {2, 3}))
Vec == Plain(Wide({Float, Double}, {2, 3}) \ {Float, Double})
Sca == Plain({Half, Float, Double})

fmin ==
    Function("fmin", "COMMON",
        << Variant("gg", <<Gen, Gen, Gen>>,
                   {Must("isSameAs", Id(1), Id(2)), Must("isSameAs", Id(2), Id(3))}),
           Variant("gs", <<Vec, Vec, Sca>>,
                   {Must("isSameAs", Id(1), Id(2)), Must("isSameBaseAs", Id(3), Id(1))}) >>)

dot ==
    Function("dot", "COMMON",
        << Variant("", <<Sca, Gen, Gen>>,
                   {Must("isSameBaseAs", Id(1), Id(2)), Must("isSameAs", Id(2), Id(3))}) >>)

\* From the general to the special, in one group.
Common ==
    [builtins |-> <<dot, fmin>>,
     impls |-> {Impl("fmin", "", "recursive"), Impl("fmin", "gs", "template"),
                OnTarget(Impl("fmin", "gg", "direct")), Impl("fmin", "other", "template"),
                Impl("fmin", "gg", "recursive"), Impl("dot", "", "recursive")},
     features |-> Features]

---------------------------------------------------------------------------
\* Conversions have the type of the result in their name; one of them needs
\* what an include gives.
Ints == Plain(Wide({Int32, Int64}, {2}))
Reals == Plain(Wide({Float, Double}, {2}))
SameDim == Must("isSameDimAs", Id(1), Id(2))

convert ==
    Cast("convert", "CONVERT",
        << Variant("ii", <<Ints, Ints>>, {SameDim, Not(Must("isSameBaseSizeAs", Id(1), Id(2)))}),
           Variant("ir", <<Ints, Reals>>, {SameDim}),
           Variant("ri", <<Reals, Ints>>, {SameDim}) >>)

as ==
    Cast("as", "", << Variant("", <<Ints, Reals>>, {Must("isSameBitSizeAs", Id(1), Id(2))}) >>)

\* A function with a pointer to a vector, one of images, and an atomic one.
frexp ==
    Function("frexp", "MATH",
        << Variant("", <<Gen, Gen, PointerTo(Wide({Int32}, {2, 3}), Global)>>,
                   {Must("isSameAs", Id(1), Id(2)), Must("isSameDimAs", Pointee(3), Id(1)),
                    Must("isSameBaseKindAs", Pointee(3), Pointee(3))}) >>)

read_image ==
    Function("read_image", "IMAGE",
        << Variant("", <<Plain({Vector(Float, 4)}), ReadOnlyOf({Opaque(2), Opaque(5), Opaque(6)}),
                         Plain(Wide({Int32}, {2, 4}))>>,
                   {Must("isCompatibleWithImageDim", Id(2), Id(3))}) >>)

atom_add ==
    [Function("atom_add", "ATOMIC",
        << Variant("", <<Plain({Int64}), PointerTo({Int64}, Global), Plain({Int64})>>, {}) >>)
     EXCEPT !.predicates = {"int64"}]

Conversions ==
    [builtins |-> <<as, atom_add, convert, read_image, frexp>>,
     impls |-> {Impl("as", "", "template"), Requiring(Impl("atom_add", "", "template"), "ptr"),
                Requiring(Impl("convert", "ri", "recursive"), "cvt"),
                Impl("convert", "", "recursive"),
                OnTarget(Requiring(Impl("read_image", "", "template"), "image")),
                Requiring(Impl("frexp", "", "direct"), "ptr")},
     features |-> Features]
=============================================================================
