----------------------------- MODULE TypeOrder ------------------------------
(***************************************************************************)
(* The types of the built-in functions as the generator of the library     *)
(* keeps them, and the order in which it sorts signatures.  A type is      *)
(* there once, so that equal types are the same.  What is pointed to or    *)
(* qualified is not itself a pointer or qualified.                         *)
(***************************************************************************)
EXTENDS Integers, Sequences

Integer(bits, unsigned) == [kind |-> "integer", bits |-> bits, unsigned |-> unsigned]
Real(bits) == [kind |-> "real", bits |-> bits]
Vector(base, width) == [kind |-> "vector", base |-> base, width |-> width]

\* The name stands for its place among the names.
Opaque(name) == [kind |-> "opaque", name |-> name]

ReadOnly == 1
WriteOnly == 2
Qualified(type, qual) == [kind |-> "qualified", of |-> type, qual |-> qual]

Private == 0
Global == 1
Local == 2
Pointer(type, space, mods) ==
    [kind |-> "pointer", of |-> type, space |-> space, mods |-> mods]

IntegerTypes == [kind : {"integer"}, bits : Nat, unsigned : BOOLEAN]
RealTypes == [kind : {"real"}, bits : Nat]
ScalarTypes == IntegerTypes \cup RealTypes
VectorTypes == [kind : {"vector"}, base : ScalarTypes, width : Nat]
OpaqueTypes == [kind : {"opaque"}, name : Nat]

\* The base of a type that is not opaque.
BaseOf(t) == IF t.kind = "vector" THEN t.base ELSE t

\* The types that are neither qualified nor pointers.
PlainTypes == ScalarTypes \cup VectorTypes \cup OpaqueTypes

---------------------------------------------------------------------------
IntegerLess(s, t) ==
    \/ ~s.unsigned /\ t.unsigned
    \/ s.unsigned = t.unsigned /\ s.bits < t.bits

\* Integers come before reals.
ScalarLess(s, t) ==
    IF s.kind = "integer"
    THEN t.kind = "integer" => IntegerLess(s, t)
    ELSE t.kind = "real" /\ s.bits < t.bits

\* Mutant: the width decides before the base.
PlainLess_width(s, t) ==
    IF s.kind = "opaque" THEN t.kind = "opaque" /\ s.name < t.name
    ELSE IF t.kind = "opaque" THEN TRUE
    ELSE IF s.kind = "vector" /\ t.kind = "vector"
         THEN ScalarLess(s.base, t.base) \/ s.width < t.width
    ELSE IF s.kind = "vector" THEN ScalarLess(s.base, t)
    ELSE IF t.kind = "vector" THEN s = t.base \/ ScalarLess(s, t.base)
    ELSE ScalarLess(s, t)

\* A scalar comes right before its vectors; opaque types are last.
PlainLess(s, t) ==
    IF s.kind = "opaque" THEN t.kind = "opaque" /\ s.name < t.name
    ELSE IF t.kind = "opaque" THEN TRUE
    ELSE IF s.kind = "vector" /\ t.kind = "vector"
         THEN ScalarLess(s.base, t.base) \/ (s.base = t.base /\ s.width < t.width)
    ELSE IF s.kind = "vector" THEN ScalarLess(s.base, t)
    ELSE IF t.kind = "vector" THEN s = t.base \/ ScalarLess(s, t.base)
    ELSE ScalarLess(s, t)

\* Plain types come before qualified ones and pointers, and either of these
\* before the other.
compareLess(s, t) ==
    IF s.kind = "qualified" /\ t.kind = "qualified"
    THEN PlainLess(s.of, t.of) \/ s.qual < t.qual
    ELSE IF s.kind = "pointer" /\ t.kind = "pointer"
    THEN PlainLess(s.of, t.of) \/ (s.of = t.of /\ s.space < t.space)
    ELSE IF s.kind \in {"qualified", "pointer"} THEN t.kind \in {"qualified", "pointer"}
    ELSE t.kind \in {"qualified", "pointer"} \/ PlainLess(s, t)

\* Signatures by their first difference.
BuiltinSignCompare(p, q) ==
    LET Differ(i) == i \in 1..Len(p) /\ i \in 1..Len(q) /\ p[i] # q[i]
        Begins(i) == Differ(i) /\ \A j \in 1..i - 1 : ~Differ(j)
    IN  IF \E i \in 1..Len(p) : Differ(i)
        THEN \E i \in 1..Len(p) : Begins(i) /\ compareLess(p[i], q[i])
        ELSE Len(p) < Len(q)
=============================================================================
