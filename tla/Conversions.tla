---------------------------- MODULE Conversions -----------------------------
(***************************************************************************)
(* The functions convert_<type>[_sat][_<mode>].  A real is an integer      *)
(* number of parts of one; a narrow real has Precision significant bits,   *)
(* fewer than the widest integers, a wide one has all of them.  A cast of  *)
(* a real that does not fit an integer type leaves any value of the type.  *)
(***************************************************************************)
EXTENDS ScalarTypes

CONSTANTS
    Widths,    \* of the integer types
    LongWidth, \* the greatest of them
    Parts,     \* a real is a number of these in one
    Precision, \* the significant bits of a narrow real
    Numbers    \* the arguments, as a number of parts

VARIABLES
    call,   \* the function, the types and the argument of the last call
    result  \* what it returned

vars == <<call, result>>

IntegerTypes == {S(w) : w \in Widths} \cup {U(w) : w \in Widths}
Modes == {"rtz", "rte", "rtp", "rtn"}

Floor(x) == x \div Parts
Ceil(x) == -((-x) \div Parts)
Trunc(x) == Quotient(x, Parts)

\* What one unit in the last place of a narrow real near x is worth.
UnitAt(x) ==
    LET Fits(e) == -(2^(e + Precision)) < x /\ x < 2^(e + Precision)
    IN  2^(CHOOSE e \in 0..LongWidth + 4 : Fits(e) /\ \A d \in 0..e - 1 : ~Fits(d))

\* The narrow real nearest to x; of two the even one.
Nearest(x) ==
    LET u == UnitAt(x)
        q == x \div u
        r == x % u
    IN  IF 2 * r < u \/ (2 * r = u /\ q % 2 = 0) THEN q * u ELSE (q + 1) * u

Narrow == {x \in Numbers : Nearest(x) = x}

---------------------------------------------------------------------------
(* Integer to integer.                                                     *)

convert(t, x) == To(t, x)

\* The types decide which ends are tested: an unsigned argument is never
\* below, and a signed one is compared as unsigned once it is not negative.
convert_sat(from, t, x) ==
    CASE from.signed /\ t.signed ->
            IF x < MinVal(t) THEN MinVal(t)
            ELSE IF x > MaxVal(t) THEN MaxVal(t) ELSE To(t, x)
      [] ~from.signed /\ ~t.signed ->
            IF x > MaxVal(t) THEN MaxVal(t) ELSE To(t, x)
      [] from.signed /\ ~t.signed ->
            IF x < 0 THEN 0
            ELSE IF To(U(from.w), x) > MaxVal(t) THEN MaxVal(t) ELSE To(t, x)
      [] ~from.signed /\ t.signed ->
            IF x > To(U(t.w), MaxVal(t)) THEN MaxVal(t) ELSE To(t, x)

---------------------------------------------------------------------------
(* Real to integer: what the call may return.  Round to nearest is a cast, *)
(* which truncates.                                                        *)

convert_real(mode, t, x) ==
    LET n == CASE mode \in {"rtz", "rte"} -> Trunc(x)
               [] mode = "rtp"            -> Ceil(x)
               [] mode = "rtn"            -> Floor(x)
    IN  IF n \in MinVal(t)..MaxVal(t) THEN {n} ELSE MinVal(t)..MaxVal(t)

\* The ends of the type are compared as narrow reals.
UpperEnd(t) == Nearest(MaxVal(t) * Parts)

\* Mutant: only the upper end saturates.
convert_real_sat_above(mode, t, x) ==
    IF x > UpperEnd(t) THEN {MaxVal(t)} ELSE convert_real("rtn", t, x)

\* All modes round by the function that rounds down.
convert_real_sat(mode, t, x) ==
    IF x < Nearest(MinVal(t) * Parts) THEN {MinVal(t)}
    ELSE IF x > UpperEnd(t) THEN {MaxVal(t)}
    ELSE convert_real("rtn", t, x)

---------------------------------------------------------------------------
(* Integer or wide real to narrow real: every mode is a cast, to nearest.  *)

\* Except to nearest, an unsigned argument is passed on as a signed long: the
\* variants for signed and unsigned arguments have the same signatures, and
\* the implementation of the first is taken for both.
convert_to_real(mode, from, x) ==
    IF ~from.signed /\ mode # "rte"
    THEN Nearest(To(S(LongWidth), x))
    ELSE Nearest(x)

convert_narrow(mode, x) == Nearest(x)

---------------------------------------------------------------------------
Whole(t) == {n \in MinVal(t)..MaxVal(t) : n * Parts \in Numbers}

Call(f, from, t, mode, x, r) ==
    /\ call' = [f |-> f, from |-> from, to |-> t, mode |-> mode, x |-> x]
    /\ result' = r

FromInteger(mode, from, t) ==
    \E n \in Whole(from) :
        \/ mode = "rtz" /\ Call("convert", from, t, mode, n, convert(t, n))
        \/ mode = "rtz" /\ Call("convert_sat", from, t, mode, n, convert_sat(from, t, n))
        \/ Call("convert_to_real", from, from, mode, n, convert_to_real(mode, from, n))

FromReal(mode, t) ==
    \E x \in Narrow :
        \/ \E r \in convert_real(mode, t, x) : Call("convert_real", t, t, mode, x, r)
        \/ \E r \in convert_real_sat(mode, t, x) : Call("convert_real_sat", t, t, mode, x, r)

RealToReal(mode) ==
    \E x \in Numbers :
        Call("convert_narrow", "wide", "narrow", mode, x, convert_narrow(mode, x))

\* One call is made: the functions keep nothing from one call to the next.
Init == call = [f |-> "none"] /\ result = 0

Next ==
    /\ call.f = "none"
    /\ \E mode \in Modes :
           \/ RealToReal(mode)
           \/ \E t \in IntegerTypes :
                  \/ FromReal(mode, t)
                  \/ \E from \in IntegerTypes : FromInteger(mode, from, t)

Spec == Init /\ [][Next]_vars

---------------------------------------------------------------------------
\* Whether the end of a type, rounded to a narrow real, hides that a real
\* just beyond it does not fit.
Hidden(t, x) == x > MaxVal(t) * Parts /\ x <= UpperEnd(t)

SaturationsOf(c) ==
    CASE c.mode = "rtp" -> Saturated(c.to, Ceil(c.x))
      [] c.mode = "rtz" -> Saturated(c.to, Trunc(c.x))
      [] c.mode = "rtn" -> Saturated(c.to, Floor(c.x))

\* A conversion with saturation returns the value of the type nearest to the
\* argument, whatever the signs and the widths of the two types; from a real,
\* within one of it, and exactly when it is to be rounded down.
SaturationIsExact ==
    /\ call.f = "convert_sat" => result = Saturated(call.to, call.x)
    /\ call.f = "convert_real_sat" /\ ~Hidden(call.to, call.x) =>
          /\ result \in {Saturated(call.to, Floor(call.x)), Saturated(call.to, Ceil(call.x))}
          /\ call.mode = "rtn" => result = SaturationsOf(call)

\* A conversion without saturation keeps an argument that fits, and rounds a
\* real in the direction of its name.
FittingValuesAreKept ==
    /\ call.f = "convert" /\ call.x \in MinVal(call.to)..MaxVal(call.to) =>
          result = call.x
    /\ call.f = "convert_real" /\ call.mode # "rte"
         /\ Floor(call.x) >= MinVal(call.to) /\ Ceil(call.x) <= MaxVal(call.to) =>
          result = SaturationsOf(call)

\* A real made of an integer or of a wider real is off by no more than a half
\* of its last place, and not at all if the argument has few enough bits.
NearestReal(c) ==
    /\ 2 * (result - c.x) \in (-UnitAt(c.x))..UnitAt(c.x)
    /\ c.x \in -(2^Precision)..2^Precision => result = c.x

\* So it is unless the argument is an unsigned long of more than a signed
\* long can hold.
RealsAreNearest ==
    /\ call.f = "convert_narrow" => NearestReal(call)
    /\ call.f = "convert_to_real" /\ call.x < 2^(LongWidth - 1) => NearestReal(call)

---------------------------------------------------------------------------
(* What comments, assertions, tests or the interface say and the code does *)
(* not keep in every case (README, section 4); no run checks these.        *)

\* The result of a conversion to nearest is within a half of the argument, as
\* the name of the mode has it.
RoundedToNearest ==
    call.f = "convert_real" /\ call.mode = "rte"
        /\ call.x \in (MinVal(call.to) * Parts)..(MaxVal(call.to) * Parts) =>
        2 * (result * Parts - call.x) \in (-Parts)..Parts

\* A conversion with saturation rounds in the direction of its name.
SaturationKeepsTheMode ==
    call.f = "convert_real_sat" /\ call.mode # "rte" /\ ~Hidden(call.to, call.x) =>
        result = SaturationsOf(call)

\* It saturates whatever the argument.
SaturationSaturates ==
    call.f = "convert_real_sat" =>
        result \in {Saturated(call.to, Floor(call.x)), Saturated(call.to, Ceil(call.x))}

\* An unsigned long becomes the real nearest to it.
UnsignedStayPositive == call.f = "convert_to_real" => NearestReal(call)

\* A real is rounded in the direction of the name.
RealsKeepTheMode ==
    call.f \in {"convert_narrow", "convert_to_real"} =>
        /\ call.mode = "rtp" => result >= call.x
        /\ call.mode = "rtn" => result <= call.x
=============================================================================
