-------------------------- MODULE IntegerBuiltins ---------------------------
(***************************************************************************)
(* The integer functions of the built-in library that compute by hand what *)
(* the machine could overflow on: absolute differences, leading zeros,     *)
(* bit counts, averages, high halves of products, rotations, saturated     *)
(* sums and products, and upsampling.  Vectors are split into scalars, so  *)
(* the scalar bodies are all there is.                                     *)
(*                                                                         *)
(* A type is [w, signed]; types narrower than int are promoted to it, and  *)
(* an unsigned type of int's width makes the other operand unsigned.       *)
(* Signed arithmetic that overflows wraps, as the code that the kernel     *)
(* compiler emits for these bodies does.  A shift takes its count modulo   *)
(* the width of its promoted left operand, as OpenCL C has it.             *)
(***************************************************************************)
EXTENDS ScalarTypes, FiniteSets, Bitwise

CONSTANTS
    CharWidth, \* width of the narrow types
    IntWidth,  \* width of int
    LongWidth, \* width of long, the type popcount computes in
    Values     \* by width: the bit patterns the functions are called with

VARIABLES
    call,   \* the function, the type and the arguments of the last call
    result  \* what it returned

vars == <<call, result>>

---------------------------------------------------------------------------
(* Types and promotion.                                                    *)

Types == {S(CharWidth), U(CharWidth), S(IntWidth), U(IntWidth)}

Promoted(t) == IF t.w < IntWidth THEN S(IntWidth) ELSE t

\* An intermediate value of an expression of type t.
Eval(t, x) == To(Promoted(t), x)

Shl(t, x, n) == Eval(t, x * 2^(n % Promoted(t).w))
Shr(t, x, n) == Eval(t, Eval(t, x) \div 2^(n % Promoted(t).w))

---------------------------------------------------------------------------
(* The functions.  t is the type of the arguments.                         *)

abs(t, x) == To(U(t.w), IF x >= 0 THEN x ELSE Eval(t, -x))

\* Mutant: the difference is not brought back to the unsigned type.
abs_diff_signed(t, x, y) == To(t, IF x >= y THEN x - y ELSE y - x)

abs_diff(t, x, y) ==
    To(U(t.w), IF x >= y THEN Eval(t, x - y) ELSE Eval(t, y - x))

\* The loop of clz: halves the part of x in which it looks for a one.
RECURSIVE clz_loop(_, _, _, _, _)
clz_loop(t, x, shamt, mask, n) ==
    IF shamt < 1 THEN n
    ELSE LET zero == x & mask = 0
             half == shamt \div 2
         IN  clz_loop(t, IF zero THEN Bits(x * 2^shamt, t.w) ELSE x, half,
                      Bits(mask * 2^half, t.w), IF zero THEN n + shamt ELSE n)

\* Mutant: zero is not an exception.
clz_of_any(t, x) ==
    LET half == t.w \div 2
    IN  To(t, clz_loop(t, Bits(x, t.w), half, Bits(-(2^half), t.w), 0))

clz(t, x) ==
    LET half == t.w \div 2
    IN  IF x = 0 THEN t.w
        ELSE To(t, clz_loop(t, Bits(x, t.w), half, Bits(-(2^half), t.w), 0))

\* A pattern of b bits repeated over a long.
RECURSIVE Pattern(_, _, _)
Pattern(p, b, w) == IF w <= 0 THEN 0 ELSE p + 2^b * Pattern(p, b, w - b)

popcount(t, arg) ==
    LET x0 == Bits(arg, LongWidth)
        m1 == Pattern(1, 2, LongWidth)
        m2 == Pattern(3, 4, LongWidth)
        m4 == Pattern(15, 8, LongWidth)
        x1 == x0 - ((x0 \div 2) & m1)
        x2 == (x1 & m2) + ((x1 \div 4) & m2)
        x3 == (x2 + x2 \div 16) & m4
    IN  To(t, Bits(x3 * Pattern(1, 8, LongWidth), LongWidth) \div 2^(LongWidth - 8))

\* Mutant: computed in the type itself, without promotion.
hadd_narrow(t, x, y) == To(t, x + y) \div 2

hadd(t, x, y) == To(t, Shr(t, Eval(t, x + y), 1))
rhadd(t, x, y) == To(t, Shr(t, Eval(t, x + y + 1), 1))

\* Mutant: the carry of the second sum is lost.
mul_hi_one_carry(t, x, y) ==
    LET h  == t.w \div 2
        xl == Bits(x, h)
        xh == x \div 2^h
        yl == Bits(y, h)
        yh == y \div 2^h
        ut == U(t.w)
        ll == To(ut, xl * yl)
        lo == To(ut, ll + To(ut, xl * yh) * 2^h)
    IN  To(t, To(ut, xh * yh) + To(t, xl * yh) \div 2^h + To(t, xh * yl) \div 2^h
              + (IF lo < ll THEN 1 ELSE 0))

\* From four products of halves: the high part and the carries.
mul_hi(t, x, y) ==
    LET h  == t.w \div 2
        ut == U(t.w)
        xl == Bits(x, h)
        xh == x \div 2^h
        yl == Bits(y, h)
        yh == y \div 2^h
        xy_ll == To(ut, xl * yl)
        xy_lh == To(ut, xl * yh)
        xy_hl == To(ut, xh * yl)
        xy_hh == To(ut, xh * yh)
        lo_tmp == To(ut, xy_ll + Shl(ut, xy_lh, h))
        lo == To(ut, lo_tmp + Shl(ut, xy_hl, h))
        c  == (IF lo_tmp < xy_ll THEN 1 ELSE 0) + (IF lo < lo_tmp THEN 1 ELSE 0)
    IN  To(t, xy_hh + Shr(t, To(t, xy_lh), h) + Shr(t, To(t, xy_hl), h) + c)

mad_hi(t, x, y, z) == To(t, mul_hi(t, x, y) + z)

\* Mutant: the bits that come in on the right keep the sign.
rotate_signed(t, x, n) ==
    To(t, Bits(Shl(t, x, n), IntWidth) | Bits(Shr(t, x, t.w - n), IntWidth))

rotate(t, x, n) ==
    To(t, Bits(Shl(t, x, n), IntWidth) | Bits(Shr(U(t.w), Bits(x, t.w), t.w - n), IntWidth))

\* Mutant: the bound is not moved by the second argument.
add_sat_late(t, x, y) ==
    IF y > 0 /\ x = MaxVal(t) THEN MaxVal(t)
    ELSE IF y < 0 /\ x = MinVal(t) THEN MinVal(t) ELSE To(t, x + y)

add_sat(t, x, y) ==
    IF t.signed
    THEN IF y > 0 /\ x > MaxVal(t) - y THEN MaxVal(t)
         ELSE IF y < 0 /\ x < MinVal(t) - y THEN MinVal(t)
         ELSE To(t, x + y)
    ELSE IF x > MaxVal(t) - y THEN MaxVal(t) ELSE To(t, x + y)

sub_sat(t, x, y) ==
    IF t.signed
    THEN IF y > 0 /\ x < MinVal(t) + y THEN MinVal(t)
         ELSE IF y < 0 /\ x > MaxVal(t) + y THEN MaxVal(t)
         ELSE To(t, x - y)
    ELSE IF x < y THEN 0 ELSE To(t, x - y)

\* The signed variant divides by y whatever its sign, and saturates only if
\* z is not zero.
mad_sat(t, x, y, z) ==
    IF x = 0 \/ y = 0 THEN z
    ELSE IF t.signed
    THEN IF z > 0 /\ x > Quotient(MaxVal(t) - z, y) THEN MaxVal(t)
         ELSE IF z < 0 /\ x < Quotient(MinVal(t) - z, y) THEN MinVal(t)
         ELSE To(t, x * y + z)
    ELSE IF x > (MaxVal(t) - z) \div y THEN MaxVal(t) ELSE To(t, x * y + z)

\* The second argument is unsigned, the result has twice the width.
upsample(t, hi, lo) ==
    LET rt == [t EXCEPT !.w = 2 * @]
    IN  To(rt, Bits(Shl(rt, hi, t.w), rt.w) | lo)

---------------------------------------------------------------------------
Args(t) == {To(t, x) : x \in Values[t.w]}

Call(f, t, args, r) ==
    /\ call' = [f |-> f, t |-> t, args |-> args]
    /\ result' = r

Unary(t) ==
    \E x \in Args(t) :
        \/ Call("abs", t, <<x>>, abs(t, x))
        \/ Call("clz", t, <<x>>, clz(t, x))
        \/ Call("popcount", t, <<x>>, popcount(t, x))

Binary(t) ==
    \E x, y \in Args(t) :
        \/ Call("abs_diff", t, <<x, y>>, abs_diff(t, x, y))
        \/ Call("hadd", t, <<x, y>>, hadd(t, x, y))
        \/ Call("rhadd", t, <<x, y>>, rhadd(t, x, y))
        \/ Call("mul_hi", t, <<x, y>>, mul_hi(t, x, y))
        \/ Call("rotate", t, <<x, y>>, rotate(t, x, y))
        \/ Call("add_sat", t, <<x, y>>, add_sat(t, x, y))
        \/ Call("sub_sat", t, <<x, y>>, sub_sat(t, x, y))
        \/ Call("upsample", t, <<x, Bits(y, t.w)>>, upsample(t, x, Bits(y, t.w)))

Ternary(t) ==
    \E x, y, z \in Args(t) :
        \/ Call("mad_hi", t, <<x, y, z>>, mad_hi(t, x, y, z))
        \/ Call("mad_sat", t, <<x, y, z>>, mad_sat(t, x, y, z))

\* One call is made: the functions keep nothing from one call to the next.
Init == call = [f |-> "none"] /\ result = 0

Next ==
    /\ call.f = "none"
    /\ \E t \in Types : Unary(t) \/ Binary(t) \/ Ternary(t)

Spec == Init /\ [][Next]_vars

---------------------------------------------------------------------------
(* What the functions compute, over the integers.                          *)

a == call.args[1]
b == call.args[2]
c == call.args[3]
Distance(x, y) == IF x >= y THEN x - y ELSE y - x
Ones(n, w) == {i \in 0..(w - 1) : (Bits(n, w) \div 2^i) % 2 = 1}

\* abs and abs_diff return the distance, also where the difference does not
\* fit the type of the arguments (the smallest value, and opposite signs).
DistancesAreExact ==
    /\ call.f = "abs" => result = Distance(a, 0)
    /\ call.f = "abs_diff" => result = Distance(a, b)

\* add_sat, sub_sat and the unsigned mad_sat return the nearest value of the
\* type: no sum wraps and none saturates early.
SaturationIsExact ==
    /\ call.f = "add_sat" => result = Saturated(call.t, a + b)
    /\ call.f = "sub_sat" => result = Saturated(call.t, a - b)
    /\ call.f = "mad_sat" /\ ~call.t.signed => result = Saturated(call.t, a * b + c)

\* mul_hi is the high half of the exact product, for signed types too; the
\* sum of mad_hi wraps.
HighHalvesAreExact ==
    /\ call.f = "mul_hi" => result = (a * b) \div 2^call.t.w
    /\ call.f = "mad_hi" => result = To(call.t, (a * b) \div 2^call.t.w + c)

\* clz counts the zeros above the highest one, and popcount of a value that
\* is not negative counts its ones.
CountsAreExact ==
    /\ call.f = "clz" =>
          result = Cardinality({i \in 0..(call.t.w - 1) :
                                    \A j \in Ones(a, call.t.w) : i > j})
    /\ call.f = "popcount" /\ a >= 0 => result = Cardinality(Ones(a, call.t.w))

\* rotate moves every bit by the count, up to the width of the type.
RotationsAreExact ==
    call.f = "rotate" /\ Bits(b, call.t.w) < call.t.w =>
        Ones(result, call.t.w)
            = {(i + b) % call.t.w : i \in Ones(a, call.t.w)}

\* hadd and rhadd of the types narrower than int do not overflow, and
\* upsample puts its arguments side by side.
PromotionIsEnough ==
    /\ call.f = "hadd" /\ call.t.w < IntWidth => result = (a + b) \div 2
    /\ call.f = "rhadd" /\ call.t.w < IntWidth => result = (a + b + 1) \div 2
    /\ call.f = "upsample" => result = a * 2^call.t.w + b

---------------------------------------------------------------------------
(* What comments, assertions, tests or the interface say and the code does *)
(* not keep in every case (README, section 4); no run checks these.        *)

\* The average is that of the exact sum, as the test of hadd has it.
AveragesAreExact == call.f = "hadd" => result = (a + b) \div 2

\* popcount counts the ones of its argument, as its test has it.
PopcountIsExact == call.f = "popcount" => result = Cardinality(Ones(a, call.t.w))

\* mad_sat saturates and is exact otherwise, as its test has it.
MadSatIsExact == call.f = "mad_sat" => result = Saturated(call.t, a * b + c)
=============================================================================
