---------------------------- MODULE ScalarTypes -----------------------------
(***************************************************************************)
(* The scalar integer types of kernels.  A type is [w, signed]; a value of *)
(* a signed type is taken modulo 2^w, into the range of the type.          *)
(***************************************************************************)
EXTENDS Integers, Bitwise

S(w) == [w |-> w, signed |-> TRUE]
U(w) == [w |-> w, signed |-> FALSE]

Bits(x, w) == x % 2^w

\* Conversion of x to the type t.
To(t, x) ==
    IF t.signed /\ Bits(x, t.w) >= 2^(t.w - 1) THEN Bits(x, t.w) - 2^t.w ELSE Bits(x, t.w)

MaxVal(t) == IF t.signed THEN 2^(t.w - 1) - 1 ELSE 2^t.w - 1
MinVal(t) == IF t.signed THEN -(2^(t.w - 1)) ELSE 0

\* The value of the type nearest to x.
Saturated(t, x) ==
    IF x > MaxVal(t) THEN MaxVal(t) ELSE IF x < MinVal(t) THEN MinVal(t) ELSE x

\* Division truncates.
Quotient(a, b) ==
    LET Abs(x) == IF x < 0 THEN -x ELSE x
        q      == Abs(a) \div Abs(b)
    IN  IF (a < 0) = (b < 0) THEN q ELSE -q

\* What the atomic functions leave of v, of the type t.
FetchAnd(t, f, v, x) ==
    CASE f = "add"  -> To(t, v + x)
      [] f = "sub"  -> To(t, v - x)
      [] f = "xchg" -> x
      [] f = "and"  -> To(t, Bits(v, t.w) & Bits(x, t.w))
      [] f = "or"   -> To(t, Bits(v, t.w) | Bits(x, t.w))
      [] f = "xor"  -> To(t, Bits(v, t.w) ^^ Bits(x, t.w))
=============================================================================
