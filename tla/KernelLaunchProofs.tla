------------------------- MODULE KernelLaunchProofs -------------------------
(***************************************************************************)
(* What is proved of a kernel launch, for any number of workers, barriers  *)
(* and dimensions and any calls of the kinds LaunchKinds names.            *)
(*                                                                         *)
(* Every_Item_Once: when the last block of a kernel is finished, every     *)
(* work-item has executed every part of the kernel, and only once.         *)
(* Barriers_Hold: no work-item is past a barrier that another of its group *)
(* has not reached, and the index it reads is that of the stack it is on.  *)
(* Advance_Adds: Advance, which carries from dimension to dimension, adds. *)
(* Runs_As_Enqueued: a kernel runs with the arguments it was enqueued      *)
(* with, and its local buffers are apart, whatever ArgumentKinds allows.   *)
(*                                                                         *)
(* The argument in five parts: numbers; the indexes of work-item p are the *)
(* digits of p, so that Advance adds and GlobalId tells work-items apart   *)
(* and reaches every index; an accepted call makes a space that is cut     *)
(* into whole groups; each block is unsent, queued, running or finished,   *)
(* and a running one is in some round of its ring, on some stack, which    *)
(* determines its record; every step keeps that.  The arguments come last  *)
(* and do not depend on the rest.                                          *)
(***************************************************************************)
EXTENDS KernelLaunch, KernelArguments, TLAPS, WellFoundedInduction, NaturalsInduction,
        SequenceTheorems, FiniteSetTheorems
---------------------------------------------------------------------------
(* Numbers, and sequences of numbers.                                      *)

\* Quotient and remainder.
LEMMA DivMod ==
    ASSUME NEW a \in Nat, NEW s \in Nat \ {0}
    PROVE  /\ a = s * (a \div s) + (a % s)
           /\ a % s \in 0..(s - 1)
           /\ a \div s \in Nat
OBVIOUS

LEMMA DivModKind ==
    ASSUME NEW a \in Nat, NEW s \in Nat \ {0}
    PROVE  a \div s \in Nat /\ a % s \in Nat
OBVIOUS

LEMMA DivModIs ==
    ASSUME NEW a \in Nat, NEW s \in Nat \ {0}, NEW q \in Int, NEW r \in 0..(s - 1),
           a = s * q + r
    PROVE  a \div s = q /\ a % s = r
OBVIOUS

\* A digit and its carry.
LEMMA DivModAdd ==
    ASSUME NEW a \in Nat, NEW c \in Nat, NEW s \in Nat \ {0}
    PROVE  /\ ((a % s) + c) \div s = ((a + c) \div s) - (a \div s)
           /\ ((a % s) + c) % s = (a + c) % s
<1> DEFINE p == a \div s
           m == a % s
           q == (m + c) \div s
           r == (m + c) % s
<1>1. a = s * p + m /\ m \in 0..(s - 1) /\ p \in Nat
    BY DivMod
<1> HIDE DEF p, m
<1>2. m + c \in Nat
    BY <1>1
<1>7. m + c = s * q + r /\ r \in 0..(s - 1) /\ q \in Nat
    BY <1>2, DivMod
<1> HIDE DEF q, r
<1>3. s * (p + q) = s * p + s * q
    BY <1>1, <1>7
<1>4. a + c = s * (p + q) + r /\ p + q \in Int
    BY <1>1, <1>7, <1>3
<1>5. (a + c) \div s = p + q /\ (a + c) % s = r
    BY <1>7, <1>4, DivModIs
<1>6. q = (p + q) - p
    BY <1>1, <1>7
<1> QED
    BY <1>5, <1>6 DEF p, m, q, r

\* The quotient by a product.
LEMMA DivDiv ==
    ASSUME NEW a \in Nat, NEW s \in Nat \ {0}, NEW t \in Nat \ {0}
    PROVE  (a \div s) \div t = a \div (s * t) /\ s * t \in Nat \ {0}
<1> DEFINE p == a \div s
           m == a % s
           q == p \div t
           r == p % t
<1>1. a = s * p + m /\ m \in 0..(s - 1) /\ p \in Nat
    BY DivMod
<1>2. p = t * q + r /\ r \in 0..(t - 1) /\ q \in Nat
    BY <1>1, DivMod
<1> HIDE DEF p, m, q, r
<1>3. s * p = (s * t) * q + s * r
    BY <1>1, <1>2
<1>4. s * r <= s * (t - 1) /\ s * (t - 1) = s * t - s /\ s * r >= 0
    BY <1>1, <1>2
<1>5. s * t \in Nat \ {0}
    OBVIOUS
<1>6. a = (s * t) * q + (s * r + m) /\ s * r + m \in 0..(s * t - 1)
    BY <1>1, <1>2, <1>3, <1>4, <1>5
<1>7. a \div (s * t) = q
    BY <1>5, <1>6, <1>2, DivModIs
<1> QED
    BY <1>5, <1>7 DEF p, q

\* Numbers are well ordered: there is no infinite descent.
LEMMA NatOrder == IsWellFoundedOn({p \in Nat \X Nat : p[1] < p[2]}, Nat)
<1>1. OpToRel(<, Nat) = {p \in Nat \X Nat : p[1] < p[2]}
    BY DEF OpToRel
<1> QED
    BY <1>1, NatLessThanWellFounded

\* Every nonempty set of numbers has a least element.
LEMMA LeastNumber ==
    ASSUME NEW T \in SUBSET Nat, T # {}
    PROVE  \E m \in T : \A k \in T : m <= k
<1> DEFINE R == {p \in Nat \X Nat : p[1] < p[2]}
<1>1. PICK m \in T : \A k \in T : <<k, m>> \notin R
    <2> HIDE DEF R
    <2> QED
        BY NatOrder, WFMin DEF R
<1>2. ASSUME NEW k \in T PROVE m <= k
    <2>1. k \in Nat /\ m \in Nat /\ <<k, m>> \in Nat \X Nat
        OBVIOUS
    <2>2. ~(k < m)
        BY <1>1, <2>1
    <2> QED
        BY <2>1, <2>2
<1> QED
    BY <1>2

\* Induction over 0..n, for a set of the numbers for which something holds.
LEMMA Climb ==
    ASSUME NEW n \in Nat, NEW S, 0 \in S, \A i \in 1..n : i - 1 \in S => i \in S
    PROVE  0..n \subseteq S
<1> DEFINE T == {i \in 0..n : i \notin S}
<1>1. SUFFICES ASSUME T # {} PROVE FALSE
    OBVIOUS
<1>2. T \in SUBSET Nat
    OBVIOUS
<1>3. PICK m \in T : \A k \in T : m <= k
    BY <1>1, <1>2, LeastNumber
<1>4. m # 0 /\ m - 1 \in 0..n /\ m \in 1..n
    BY <1>3
<1>5. m - 1 \in S
    BY <1>3, <1>4
<1> QED
    BY <1>3, <1>4, <1>5

\* A function of a number and a result gives a result; and the results f
\* follow from the first one, each from the one before it.
GivesResults(g, n, D) == \A i \in 1..n, x \in D : g[<<i, x>>] \in D
Follow(f, n, a, g) == f[0] = a /\ \A i \in 1..n : f[i] = g[<<i, f[i - 1]>>]

\* What recursive functions over 0..n rest on: there are such results.
LEMMA Iterates ==
    ASSUME NEW n \in Nat, NEW D, NEW a \in D, NEW g, GivesResults(g, n, D)
    PROVE  \E f \in [0..n -> D] : Follow(f, n, a, g)
<1> USE DEF GivesResults, Follow
<1> DEFINE Upto(k, f) == Follow(f, k, a, g)
           S == {k \in 0..n : \E f \in [0..k -> D] : Upto(k, f)}
<1>1. 0 \in S
    <2> DEFINE f == [i \in 0..0 |-> a]
    <2>1. f \in [0..0 -> D] /\ f[0] = a /\ 1..0 = {}
        OBVIOUS
    <2> HIDE DEF f
    <2>2. Upto(0, f)
        BY <2>1
    <2> QED
        BY <2>1, <2>2
<1>2. ASSUME NEW k \in 1..n, k - 1 \in S PROVE k \in S
    <2>1. PICK f \in [0..(k - 1) -> D] : Upto(k - 1, f)
        BY <1>2
    <2> DEFINE h == [i \in 0..k |-> IF i = k THEN g[<<k, f[k - 1]>>] ELSE f[i]]
    <2>2. f[k - 1] \in D /\ g[<<k, f[k - 1]>>] \in D
        BY <2>1
    <2>3. h \in [0..k -> D]
        BY <2>1, <2>2
    <2>4. h[0] = a
        BY <2>1
    <2>5. ASSUME NEW i \in 1..k PROVE h[i] = g[<<i, h[i - 1]>>]
        <3>1. i - 1 \in 0..(k - 1) /\ i - 1 \in 0..k /\ i \in 0..k
            OBVIOUS
        <3>2. h[i - 1] = f[i - 1]
            BY <3>1
        <3>3. CASE i = k
            BY <3>1, <3>2, <3>3
        <3>4. CASE i # k
            <4>1. i \in 1..(k - 1)
                BY <3>4
            <4>2. f[i] = g[<<i, f[i - 1]>>]
                BY <2>1, <4>1
            <4> QED
                BY <3>1, <3>2, <3>4, <4>2
        <3> QED
            BY <3>3, <3>4
    <2> HIDE DEF h
    <2>6. Upto(k, h)
        BY <2>4, <2>5
    <2> QED
        BY <2>3, <2>6
<1>3. 0..n \subseteq S
    <2> HIDE DEF S
    <2> QED
        BY <1>1, <1>2, Climb
<1>4. n \in S
    BY <1>3
<1> QED
    BY <1>4

\* The numbers a kernel may have of anything in each of n dimensions.
Sizes(n) == [1..n -> Nat \ {0}]

\* What one step in each dimension is worth: the sizes of the faster
\* dimensions multiplied, and in position n all of them.
Weights(s) ==
    CHOOSE f : f = [i \in 0..Len(s) |-> IF i = 0 THEN 1 ELSE f[i - 1] * s[i]]

\* The indexes, the first dimension running fastest, of number v.
Digits(v, s) == [i \in 1..Len(s) |-> (v \div Weights(s)[i - 1]) % s[i]]

\* A function on 1..n is a sequence of length n.
LEMMA LenOf ==
    ASSUME NEW n \in Nat, NEW S, NEW s \in [1..n -> S]
    PROVE  s \in Seq(S) /\ Len(s) = n
<1>1. s \in Seq(S)
    BY SeqDef
<1>2. Len(s) \in Nat /\ DOMAIN s = 1..Len(s) /\ DOMAIN s = 1..n
    BY <1>1, LenProperties
<1> QED
    BY <1>1, <1>2

\* Weights exist, and the last one is the product of the sizes.
LEMMA WeightsAre ==
    ASSUME NEW n \in Nat, NEW s \in Sizes(n)
    PROVE  /\ Len(s) = n
           /\ Weights(s) \in [0..n -> Nat \ {0}]
           /\ Weights(s)[0] = 1
           /\ \A i \in 1..n : Weights(s)[i] = Weights(s)[i - 1] * s[i]
           /\ Product(s) = Weights(s)[n]
           /\ Product(s) \in Nat \ {0}
<1>1. Len(s) = n
    BY LenOf DEF Sizes
<1> DEFINE D == Nat \ {0}
           g == [p \in (1..n) \X D |-> p[2] * s[p[1]]]
<1>2. \A i \in 1..n, x \in D : g[<<i, x>>] = x * s[i] /\ x * s[i] \in D
    BY DEF Sizes
<1>3. PICK f \in [0..n -> D] : Follow(f, n, 1, g)
    <2>1. 1 \in D
        OBVIOUS
    <2> HIDE DEF g, D
    <2>2. GivesResults(g, n, D)
        BY <1>2 DEF GivesResults
    <2> QED
        BY <2>1, <2>2, Iterates
<1>3a. f[0] = 1 /\ \A i \in 1..n : f[i] = g[<<i, f[i - 1]>>]
    BY <1>3 DEF Follow
<1>4. ASSUME NEW i \in 1..n PROVE f[i] = f[i - 1] * s[i]
    <2>1. i - 1 \in 0..n
        OBVIOUS
    <2>2. f[i - 1] \in D
        BY <2>1, <1>3
    <2> HIDE DEF g, D
    <2> QED
        BY <2>2, <1>2, <1>3a
<1> HIDE DEF g
<1>5. f = [i \in 0..n |-> IF i = 0 THEN 1 ELSE f[i - 1] * s[i]]
    BY <1>3a, <1>4
<1> DEFINE w == Weights(s)
<1>6. w = [i \in 0..n |-> IF i = 0 THEN 1 ELSE w[i - 1] * s[i]]
    BY <1>1, <1>5 DEF Weights
<1> HIDE DEF w
<1>7. w[0] = 1 /\ \A i \in 1..n : w[i] = w[i - 1] * s[i]
    <2>1. 0 \in 0..n /\ \A i \in 1..n : i \in 0..n /\ i # 0
        OBVIOUS
    <2> QED
        BY <1>6, <2>1
<1>8. w \in [0..n -> D]
    <2> DEFINE S == {i \in 0..n : w[i] \in D}
    <2>1. 0 \in S
        BY <1>7
    <2>2. ASSUME NEW i \in 1..n, i - 1 \in S PROVE i \in S
        <3>1. w[i - 1] \in D /\ i \in 0..n
            BY <2>2
        <3>2. w[i - 1] * s[i] \in D
            BY <3>1, <1>2
        <3> QED
            BY <3>1, <3>2, <1>7
    <2>3. 0..n \subseteq S
        <3> HIDE DEF S
        <3> QED
            BY <2>1, <2>2, Climb
    <2> QED
        BY <2>3, <1>6
<1>9. Product(s) = w[n]
    BY <1>1 DEF Product, Weights, w
<1> QED
    BY <1>1, <1>7, <1>8, <1>9 DEF w

\* The quotient by a weight is that by the one before it and the size.
LEMMA QuotientStep ==
    ASSUME NEW n \in Nat, NEW s \in Sizes(n), NEW v \in Nat, NEW i \in 1..n
    PROVE  /\ v \div Weights(s)[i] = (v \div Weights(s)[i - 1]) \div s[i]
           /\ v \div Weights(s)[i - 1] \in Nat
           /\ v \div Weights(s)[i] \in Nat
           /\ s[i] \in Nat \ {0}
<1>1. i - 1 \in 0..n /\ i \in 0..n
    OBVIOUS
<1>2. Weights(s)[i - 1] \in Nat \ {0} /\ Weights(s)[i] \in Nat \ {0} /\ s[i] \in Nat \ {0}
    BY <1>1, WeightsAre DEF Sizes
<1>3. Weights(s)[i] = Weights(s)[i - 1] * s[i]
    BY WeightsAre
<1>4. \A w \in Nat \ {0} : v \div w \in Nat
    BY DivMod
<1>5. (v \div Weights(s)[i - 1]) \div s[i] = v \div (Weights(s)[i - 1] * s[i])
    BY <1>2, DivDiv
<1> QED
    BY <1>2, <1>3, <1>4, <1>5

\* Indexes are below the sizes.
LEMMA DigitsAre ==
    ASSUME NEW n \in Nat, NEW s \in Sizes(n), NEW v \in Nat
    PROVE  /\ Digits(v, s) \in [1..n -> Nat]
           /\ Len(Digits(v, s)) = n
           /\ \A i \in 1..n : /\ Digits(v, s)[i] = (v \div Weights(s)[i - 1]) % s[i]
                              /\ Digits(v, s)[i] \in 0..(s[i] - 1)
<1>1. Digits(v, s) = [i \in 1..n |-> (v \div Weights(s)[i - 1]) % s[i]]
    BY WeightsAre DEF Digits
<1>2. ASSUME NEW i \in 1..n
      PROVE  (v \div Weights(s)[i - 1]) % s[i] \in 0..(s[i] - 1) /\ s[i] \in Nat \ {0}
    BY QuotientStep, DivMod
<1>3. Digits(v, s) \in [1..n -> Nat]
    BY <1>1, <1>2
<1> QED
    BY <1>1, <1>2, <1>3, LenOf

\* The loops of Advance add: to the indexes of a number they leave those of
\* the sum, and carry what is beyond the sizes.
LEMMA CarriedIs ==
    ASSUME NEW n \in Nat, NEW s \in Sizes(n), NEW v \in Nat, NEW c \in Nat
    PROVE  Carried(Digits(v, s), s, c)
               = [ids   |-> Digits(v + c, s),
                  carry |-> ((v + c) \div Product(s)) - (v \div Product(s))]
<1> DEFINE ids == Digits(v, s)
           w == Weights(s)
           D == Nat
           over == [i \in 0..n |-> ((v + c) \div w[i]) - (v \div w[i])]
<1>1. Len(ids) = n /\ Len(s) = n /\ w[0] = 1 /\ Product(s) = w[n]
    BY DigitsAre, WeightsAre
<1>2. over[0] = c
    BY <1>1
<1>3. ASSUME NEW i \in 1..n
      PROVE  /\ (ids[i] + over[i - 1]) \div s[i] = over[i]
             /\ (ids[i] + over[i - 1]) % s[i] = ((v + c) \div w[i - 1]) % s[i]
    <2> DEFINE a == v \div w[i - 1]
               b == (v + c) \div w[i - 1]
    <2>1. a \in Nat /\ s[i] \in Nat \ {0} /\ v \div w[i] = a \div s[i]
        BY QuotientStep
    <2>2. v + c \in Nat
        OBVIOUS
    <2>3. b \in Nat /\ (v + c) \div w[i] = b \div s[i]
        BY <2>2, QuotientStep
    <2>4. ids[i] = a % s[i]
        BY DigitsAre
    <2>5. a <= b
        <3>1. w[i - 1] \in Nat \ {0}
            BY WeightsAre
        <3> DEFINE u == w[i - 1]
        <3>2. u \in Nat \ {0}
            BY <3>1
        <3> HIDE DEF u
        <3>3. v \div u <= (v + c) \div u
            <4>1. v = u * (v \div u) + (v % u) /\ v % u \in 0..(u - 1) /\ v \div u \in Nat
                BY <3>2, DivMod
            <4>2. ((v % u) + c) \div u = ((v + c) \div u) - (v \div u)
                BY <3>2, DivModAdd
            <4>3. (v % u) + c \in Nat
                BY <4>1
            <4>4. ((v % u) + c) \div u \in Nat
                BY <3>2, <4>3, DivMod
            <4>5. (v + c) \div u \in Nat
                BY <3>2, <2>2, DivMod
            <4> QED
                BY <4>1, <4>2, <4>4, <4>5
        <3> QED
            BY <3>3 DEF u
    <2>6. over[i - 1] = b - a
        OBVIOUS
    <2>7. over[i] = (b \div s[i]) - (a \div s[i])
        BY <2>1, <2>3
    <2> HIDE DEF a, b, over, ids, w
    <2>8. b - a \in Nat /\ a + (b - a) = b
        BY <2>1, <2>3, <2>5
    <2> DEFINE d == s[i]
               e == b - a
    <2>9. /\ ((a % s[i]) + (b - a)) \div s[i] = (b \div s[i]) - (a \div s[i])
          /\ ((a % s[i]) + (b - a)) % s[i] = b % s[i]
        <3>1. d \in Nat \ {0} /\ e \in Nat /\ a \in Nat /\ a + e = b
            BY <2>1, <2>8
        <3> HIDE DEF d, e
        <3>2. /\ ((a % d) + e) \div d = ((a + e) \div d) - (a \div d)
              /\ ((a % d) + e) % d = (a + e) % d
            BY <3>1, DivModAdd
        <3> QED
            BY <3>1, <3>2 DEF d, e
    <2> QED
        BY <2>4, <2>6, <2>7, <2>9 DEF b
<1> HIDE DEF ids, w
<1>4. over = [i \in 0..n |-> IF i = 0 THEN c ELSE (ids[i] + over[i - 1]) \div s[i]]
    <2>1. over = [i \in 0..n |-> over[i]]
        OBVIOUS
    <2> HIDE DEF over
    <2>2. ASSUME NEW i \in 0..n
          PROVE  over[i] = IF i = 0 THEN c ELSE (ids[i] + over[i - 1]) \div s[i]
        <3>1. CASE i = 0
            BY <1>2, <3>1
        <3>2. CASE i # 0
            <4>1. i \in 1..n
                BY <3>2
            <4> QED
                BY <3>2, <4>1, <1>3
        <3> QED
            BY <3>1, <3>2
    <2> QED
        BY <2>1, <2>2
<1> DEFINE out == CHOOSE f : f = [i \in 0..Len(ids) |->
                      IF i = 0 THEN c ELSE (ids[i] + f[i - 1]) \div s[i]]
<1>5. out = [i \in 0..n |-> IF i = 0 THEN c ELSE (ids[i] + out[i - 1]) \div s[i]]
    <2> HIDE DEF over
    <2> QED
        BY <1>1, <1>4
<1>6. Carried(ids, s, c)
        = [ids   |-> [i \in 1..Len(ids) |-> (ids[i] + out[i - 1]) % s[i]],
           carry |-> out[Len(ids)]]
    BY DEF Carried
<1> HIDE DEF out, over
<1>7. \A i \in 0..n : out[i] = over[i]
    <2> DEFINE S == {i \in 0..n : out[i] = over[i]}
    <2>1. 0 \in S
        BY <1>5, <1>2
    <2>2. ASSUME NEW i \in 1..n, i - 1 \in S PROVE i \in S
        <3>1. i \in 0..n /\ i # 0 /\ out[i - 1] = over[i - 1]
            BY <2>2
        <3>2. out[i] = (ids[i] + out[i - 1]) \div s[i]
            BY <3>1, <1>5
        <3> QED
            BY <3>1, <3>2, <1>3
    <2>3. 0..n \subseteq S
        <3> HIDE DEF S
        <3> QED
            BY <2>1, <2>2, Climb
    <2> QED
        BY <2>3
<1>8. \A i \in 1..n : (ids[i] + out[i - 1]) % s[i] = ((v + c) \div w[i - 1]) % s[i]
    <2>1. \A i \in 1..n : i - 1 \in 0..n
        OBVIOUS
    <2> QED
        BY <2>1, <1>7, <1>3
<1>9. [i \in 1..Len(ids) |-> (ids[i] + out[i - 1]) % s[i]] = Digits(v + c, s)
    BY <1>1, <1>8 DEF Digits, w
<1>10. out[Len(ids)] = ((v + c) \div Product(s)) - (v \div Product(s))
    BY <1>1, <1>7 DEF over
<1> QED
    BY <1>6, <1>9, <1>10 DEF ids

\* Numbers with the same indexes and the same rest are equal.
LEMMA DigitsDiffer ==
    ASSUME NEW n \in Nat, NEW s \in Sizes(n), NEW v \in Nat, NEW u \in Nat,
           Digits(v, s) = Digits(u, s), v \div Product(s) = u \div Product(s)
    PROVE  v = u
<1> DEFINE w == Weights(s)
           Same(i) == v \div w[n - i] = u \div w[n - i]
           S == {i \in 0..n : Same(i)}
<1>1. 0 \in S
    BY WeightsAre
<1>2. ASSUME NEW i \in 1..n, i - 1 \in S PROVE i \in S
    <2> DEFINE k == n - (i - 1)
               a == v \div w[k - 1]
               b == u \div w[k - 1]
    <2>1. k \in 1..n /\ k - 1 = n - i
        OBVIOUS
    <2>2. a \in Nat /\ s[k] \in Nat \ {0} /\ v \div w[k] = a \div s[k]
        BY <2>1, QuotientStep
    <2>3. b \in Nat /\ u \div w[k] = b \div s[k]
        BY <2>1, QuotientStep
    <2>4. v \div w[k] = u \div w[k]
        <3>1. Same(i - 1)
            <4> HIDE DEF Same
            <4> QED
                BY <1>2
        <3> QED
            BY <3>1
    <2>5. a % s[k] = b % s[k]
        <3>1. \A j \in 1..n : /\ Digits(v, s)[j] = (v \div Weights(s)[j - 1]) % s[j]
                              /\ Digits(u, s)[j] = (u \div Weights(s)[j - 1]) % s[j]
            BY DigitsAre
        <3> HIDE DEF k
        <3> QED
            BY <2>1, <3>1
    <2> HIDE DEF a, b, k
    <2>6. a = s[k] * (a \div s[k]) + (a % s[k]) /\ b = s[k] * (b \div s[k]) + (b % s[k])
        BY <2>2, <2>3, DivMod
    <2>7. a = b
        BY <2>2, <2>3, <2>4, <2>5, <2>6
    <2> QED
        BY <2>7, <2>1 DEF a, b
<1>3. n \in S
    <2>1. 0..n \subseteq S
        <3> HIDE DEF S
        <3> QED
            BY <1>1, <1>2, Climb
    <2> QED
        BY <2>1
<1>4. n - n = 0 /\ w[0] = 1
    BY WeightsAre
<1>5. v \div 1 = v /\ u \div 1 = u
    OBVIOUS
<1> QED
    BY <1>3, <1>4, <1>5

\* Any indexes below the sizes are those of a number, with any rest.
Fit(d, s, n) == d \in [1..n -> Nat] /\ \A i \in 1..n : d[i] < s[i]
Reached(d, t, s) == \E v \in Nat : Digits(v, s) = d /\ v \div Product(s) = t

LEMMA DigitsReach ==
    ASSUME NEW n \in Nat, NEW s \in Sizes(n), NEW t \in Nat, NEW d, Fit(d, s, n)
    PROVE  Reached(d, t, s)
<1>0. d \in [1..n -> Nat] /\ \A i \in 1..n : d[i] < s[i]
    BY DEF Fit
<1> SUFFICES \E v \in Nat : Digits(v, s) = d /\ v \div Product(s) = t
    BY DEF Reached
<1> DEFINE Of(i, x) == d[i] + s[i] * x
           g == [p \in (1..n) \X Nat |-> Of(n + 1 - p[1], p[2])]
           w == Weights(s)
<1>1. ASSUME NEW i \in 1..n, NEW x \in Nat
      PROVE  g[<<i, x>>] = Of(n + 1 - i, x) /\ Of(n + 1 - i, x) \in Nat
    <2>1. n + 1 - i \in 1..n
        OBVIOUS
    <2>2. \A j \in 1..n : d[j] \in Nat /\ s[j] \in Nat
        BY <1>0 DEF Sizes
    <2>3. Of(n + 1 - i, x) \in Nat
        <3> DEFINE j == n + 1 - i
        <3>1. j \in 1..n
            BY <2>1
        <3> HIDE DEF j
        <3>2. d[j] \in Nat /\ s[j] \in Nat
            BY <3>1, <2>2
        <3>3. Of(j, x) \in Nat
            BY <3>2
        <3> QED
            BY <3>3 DEF j
    <2> HIDE DEF Of
    <2> QED
        BY <2>3
<1>2. PICK h \in [0..n -> Nat] : Follow(h, n, t, g)
    <2> HIDE DEF g
    <2>1. GivesResults(g, n, Nat)
        BY <1>1 DEF GivesResults
    <2> QED
        BY <2>1, Iterates
<1>3. h[0] = t
    BY <1>2 DEF Follow
<1>4. ASSUME NEW i \in 1..n PROVE h[n - (i - 1)] = Of(i, h[n - i])
    <2> DEFINE j == n - (i - 1)
    <2>1. j \in 1..n /\ j - 1 = n - i /\ j - 1 \in 0..n /\ n + 1 - j = i
        OBVIOUS
    <2> HIDE DEF j, g
    <2>2. h[j] = g[<<j, h[j - 1]>>] /\ h[j - 1] \in Nat
        BY <1>2, <2>1 DEF Follow
    <2>3. h[j] = Of(n + 1 - j, h[j - 1])
        BY <2>1, <2>2, <1>1
    <2> QED
        BY <2>1, <2>3 DEF j
<1>5. ASSUME NEW i \in 1..n
      PROVE  h[n - (i - 1)] \div s[i] = h[n - i] /\ h[n - (i - 1)] % s[i] = d[i]
    <2>1. h[n - i] \in Nat /\ s[i] \in Nat \ {0} /\ d[i] \in 0..(s[i] - 1)
        <3>1. n - i \in 0..n
            OBVIOUS
        <3>2. h[n - i] \in Nat
            BY <3>1, <1>2
        <3>3. s[i] \in Nat \ {0} /\ d[i] \in Nat /\ d[i] < s[i]
            BY <1>0 DEF Sizes
        <3> QED
            BY <3>2, <3>3
    <2>2. h[n - (i - 1)] = d[i] + s[i] * h[n - i]
        BY <1>4
    <2> DEFINE a == h[n - (i - 1)]
               q == h[n - i]
               c == s[i]
               r == d[i]
    <2>4. a \in Nat /\ q \in Int /\ c \in Nat \ {0} /\ r \in 0..(c - 1) /\ a = c * q + r
        <3>1. q \in Nat /\ c \in Nat \ {0} /\ r \in 0..(c - 1) /\ a = r + c * q
            BY <2>1, <2>2
        <3> HIDE DEF a, q, c, r
        <3>2. c * q \in Nat
            BY <3>1
        <3>3. a = c * q + r /\ a \in Nat
            BY <3>1, <3>2
        <3> QED
            BY <3>1, <3>3
    <2> HIDE DEF a, q, c, r
    <2>5. a \div c = q /\ a % c = r
        BY <2>4, DivModIs
    <2> QED
        BY <2>5 DEF a, q, c, r
<1> DEFINE v == h[n]
<1>6. v \in Nat
    BY <1>2
<1> HIDE DEF v
<1>7. \A i \in 0..n : v \div w[i] = h[n - i]
    <2> DEFINE S == {i \in 0..n : v \div w[i] = h[n - i]}
    <2>1. 0 \in S
        <3>1. v \div 1 = v /\ w[0] = 1 /\ n - 0 = n
            BY <1>6, WeightsAre
        <3> QED
            BY <3>1 DEF v
    <2>2. ASSUME NEW i \in 1..n, i - 1 \in S PROVE i \in S
        <3>1. v \div w[i - 1] = h[n - (i - 1)]
            BY <2>2
        <3>2. v \div w[i] = (v \div w[i - 1]) \div s[i]
            BY <1>6, QuotientStep
        <3> QED
            BY <3>1, <3>2, <1>5
    <2>3. 0..n \subseteq S
        <3> HIDE DEF S
        <3> QED
            BY <2>1, <2>2, Climb
    <2> QED
        BY <2>3
<1>8. ASSUME NEW i \in 1..n PROVE Digits(v, s)[i] = d[i]
    <2>1. i - 1 \in 0..n
        OBVIOUS
    <2>2. v \div w[i - 1] = h[n - (i - 1)]
        BY <2>1, <1>7
    <2>3. Digits(v, s)[i] = (v \div w[i - 1]) % s[i]
        BY <1>6, DigitsAre
    <2> QED
        BY <2>2, <2>3, <1>5
<1>9. Digits(v, s) = d
    <2>1. Digits(v, s) \in [1..n -> Nat]
        BY <1>6, DigitsAre
    <2> QED
        BY <2>1, <1>0, <1>8
<1>10. v \div Product(s) = t
    <2>1. Product(s) = w[n] /\ n - n = 0
        BY WeightsAre
    <2> QED
        BY <2>1, <1>7, <1>3
<1> QED
    BY <1>6, <1>9, <1>10

\* The product of products.
LEMMA ProductOfProducts ==
    ASSUME NEW n \in Nat, NEW s \in Sizes(n), NEW u \in Sizes(n), NEW p \in Sizes(n),
           \A i \in 1..n : p[i] = s[i] * u[i]
    PROVE  Product(p) = Product(s) * Product(u)
<1> DEFINE a == Weights(s)
           b == Weights(u)
           c == Weights(p)
           S == {i \in 0..n : c[i] = a[i] * b[i]}
<1>1. a \in [0..n -> Nat \ {0}] /\ b \in [0..n -> Nat \ {0}] /\ c \in [0..n -> Nat \ {0}]
    BY WeightsAre
<1>2. a[0] = 1 /\ b[0] = 1 /\ c[0] = 1
    BY WeightsAre
<1>3. \A i \in 1..n : /\ a[i] = a[i - 1] * s[i]
                      /\ b[i] = b[i - 1] * u[i]
                      /\ c[i] = c[i - 1] * p[i]
    BY WeightsAre
<1>4. a[n] = Product(s) /\ b[n] = Product(u) /\ c[n] = Product(p)
    BY WeightsAre
<1> HIDE DEF a, b, c
<1>5. 0 \in S
    BY <1>2
<1>6. ASSUME NEW i \in 1..n, i - 1 \in S PROVE i \in S
    <2> DEFINE x == a[i - 1]
               y == b[i - 1]
               f == s[i]
               e == u[i]
    <2>1. x \in Nat /\ y \in Nat /\ f \in Nat /\ e \in Nat
        BY <1>1 DEF Sizes
    <2>2. c[i - 1] = x * y
        BY <1>6
    <2>3. c[i] = (x * y) * (f * e) /\ a[i] = x * f /\ b[i] = y * e
        BY <1>3, <2>2
    <2> HIDE DEF x, y, f, e
    <2>4. (x * y) * (f * e) = (x * f) * (y * e)
        BY <2>1
    <2> QED
        BY <2>3, <2>4
<1>7. 0..n \subseteq S
    <2> HIDE DEF S
    <2> QED
        BY <1>5, <1>6, Climb
<1>8. c[n] = a[n] * b[n]
    BY <1>7
<1> QED
    BY <1>4, <1>8

---------------------------------------------------------------------------
(* The iterator.  A work-item has a number, which Advance adds to.         *)

\* A space of n dimensions that is cut into whole work-groups.
IsSpace(sp, n) ==
    /\ n \in Nat \ {0}
    /\ sp.global \in Sizes(n) /\ sp.local \in Sizes(n)
    /\ \A i \in 1..n : sp.global[i] % sp.local[i] = 0

Groups(sp) == [i \in Dims(sp) |-> GroupsIn(sp, i)]
Items(sp) == GroupSize(sp) * GroupsCount(sp)

\* Work-item p of the space; behind the last one the end.
Item(sp, p) ==
    [local |-> Digits(p, sp.local), group |-> Digits(p \div GroupSize(sp), Groups(sp))]
At(sp, p) == IF p < Items(sp) THEN Item(sp, p) ELSE End(sp)

\* A space, its groups and its work-items, counted.
LEMMA SpaceIs ==
    ASSUME NEW sp, NEW n, IsSpace(sp, n)
    PROVE  /\ Len(sp.global) = n /\ Len(sp.local) = n /\ Dims(sp) = 1..n
           /\ Groups(sp) \in Sizes(n)
           /\ \A i \in 1..n : /\ sp.global[i] = sp.local[i] * Groups(sp)[i]
                              /\ Groups(sp)[i] = GroupsIn(sp, i)
                              /\ Groups(sp)[i] \in Nat \ {0}
                              /\ sp.local[i] \in Nat \ {0} /\ sp.global[i] \in Nat \ {0}
           /\ GroupSize(sp) = Product(sp.local) /\ GroupSize(sp) \in Nat \ {0}
           /\ GroupsCount(sp) = Product(Groups(sp)) /\ GroupsCount(sp) \in Nat \ {0}
           /\ Items(sp) = Product(sp.global) /\ Items(sp) \in Nat \ {0}
<1> USE DEF IsSpace
<1>1. Len(sp.global) = n /\ Len(sp.local) = n
    BY WeightsAre
<1>2. Dims(sp) = 1..n
    BY <1>1 DEF Dims
<1>3. ASSUME NEW i \in 1..n
      PROVE  /\ sp.global[i] = sp.local[i] * GroupsIn(sp, i)
             /\ GroupsIn(sp, i) \in Nat \ {0}
             /\ sp.local[i] \in Nat \ {0} /\ sp.global[i] \in Nat \ {0}
    <2> DEFINE a == sp.global[i]
               b == sp.local[i]
    <2>1. a \in Nat \ {0} /\ b \in Nat \ {0} /\ a % b = 0
        BY DEF Sizes
    <2>2. GroupsIn(sp, i) = (a \div b) + (IF a % b = 0 THEN 0 ELSE 1)
        BY DEF GroupsIn
    <2> HIDE DEF a, b
    <2>3. a = b * (a \div b) + (a % b) /\ a \div b \in Nat
        BY <2>1, DivMod
    <2>4. GroupsIn(sp, i) = a \div b
        BY <2>1, <2>2, <2>3
    <2>5. a = b * (a \div b)
        BY <2>1, <2>3
    <2>6. a \div b # 0
        BY <2>1, <2>5
    <2> QED
        BY <2>1, <2>3, <2>4, <2>5, <2>6 DEF a, b
<1>4. Groups(sp) = [i \in 1..n |-> GroupsIn(sp, i)]
    BY <1>2 DEF Groups
<1>5. Groups(sp) \in Sizes(n) /\ \A i \in 1..n : Groups(sp)[i] = GroupsIn(sp, i)
    BY <1>3, <1>4 DEF Sizes
<1>6. Product(sp.global) = Product(sp.local) * Product(Groups(sp))
    BY <1>3, <1>5, ProductOfProducts
<1>7. /\ Product(sp.local) \in Nat \ {0}
      /\ Product(Groups(sp)) \in Nat \ {0}
    BY <1>5, WeightsAre
<1>8. GroupSize(sp) = Product(sp.local)
    BY DEF GroupSize
<1> DEFINE a == Product(sp.local)
           b == Product(Groups(sp))
<1>9. GroupsCount(sp) = (a * b) \div a
    BY <1>6, <1>8 DEF GroupsCount
<1>10. a \in Nat \ {0} /\ b \in Nat \ {0}
    BY <1>7
<1> HIDE DEF a, b
<1>11. a * b \in Nat \ {0} /\ a * b = a * b + 0 /\ 0 \in 0..(a - 1)
    BY <1>10
<1>12. (a * b) \div a = b
    BY <1>10, <1>11, DivModIs
<1>13. GroupsCount(sp) = b /\ Items(sp) = a * b
    BY <1>8, <1>9, <1>12 DEF Items, a
<1> QED
    BY <1>1, <1>2, <1>3, <1>5, <1>6, <1>8, <1>10, <1>11, <1>13 DEF a, b

\* A work-item is in the group of its number divided by the size of a group.
LEMMA GroupOfItem ==
    ASSUME NEW a \in Nat \ {0}, NEW b \in Nat \ {0}, NEW p \in Nat
    PROVE  (p \div a < b <=> p < a * b) /\ ((p \div a) \div b = 0 <=> p < a * b)
<1> DEFINE q == p \div a
           r == p % a
<1>1. p = a * q + r /\ r \in 0..(a - 1) /\ q \in Nat
    BY DivMod
<1> HIDE DEF q, r
<1>2. ASSUME q < b PROVE p < a * b
    <2>1. a * (q + 1) <= a * b /\ a * (q + 1) = a * q + a
        BY <1>1, <1>2
    <2> QED
        BY <1>1, <2>1
<1>3. ASSUME ~(q < b) PROVE ~(p < a * b)
    <2>1. a * b <= a * q
        BY <1>1, <1>3
    <2> QED
        BY <1>1, <2>1
<1>4. q \div b = 0 <=> q < b
    <2> DEFINE k == q \div b
               m == q % b
    <2>1. q = b * k + m /\ m \in 0..(b - 1) /\ k \in Nat
        BY <1>1, DivMod
    <2> HIDE DEF k, m
    <2>2. CASE k = 0
        BY <2>1, <2>2, <1>1 DEF k
    <2>3. CASE k # 0
        <3>1. b * k >= b
            BY <2>1, <2>3
        <3>2. ~(q < b)
            BY <2>1, <3>1
        <3> QED
            BY <2>3, <3>2 DEF k
    <2> QED
        BY <2>2, <2>3
<1> QED
    BY <1>2, <1>3, <1>4 DEF q

\* Advance, which carries from dimension to dimension, adds: from work-item p
\* it goes to work-item p + c, or to the end if there is none.
THEOREM Advance_Adds ==
    ASSUME NEW sp, NEW n, IsSpace(sp, n), NEW p \in Nat, p < Items(sp), NEW c \in Nat
    PROVE  Advance(sp, Item(sp, p), c) = At(sp, p + c)
<1> DEFINE s == sp.local
           u == Groups(sp)
           size == GroupSize(sp)
           count == GroupsCount(sp)
           q == p \div size
           r == (p + c) \div size
           inside == Carried(Digits(p, s), s, c)
           between == Carried(Digits(q, u), u, inside.carry)
<1>1. /\ n \in Nat /\ s \in Sizes(n) /\ u \in Sizes(n) /\ Dims(sp) = 1..n
      /\ size = Product(s) /\ count = Product(u) /\ size \in Nat \ {0} /\ count \in Nat \ {0}
      /\ Items(sp) = size * count
    BY SpaceIs DEF IsSpace, Items
<1>2. u = [i \in Dims(sp) |-> GroupsIn(sp, i)]
    BY DEF Groups
<1>3. Advance(sp, Item(sp, p), c)
        = IF between.carry > 0 THEN End(sp)
          ELSE [local |-> inside.ids, group |-> between.ids]
    BY <1>2 DEF Advance, Item
<1>4. At(sp, p + c)
        = IF p + c < size * count THEN [local |-> Digits(p + c, s), group |-> Digits(r, u)]
          ELSE End(sp)
    BY <1>1 DEF At, Item
<1> HIDE DEF s, u, size, count
<1>5. q \in Nat /\ r \in Nat /\ q <= r
    <2>0. p + c \in Nat /\ \A w \in Nat : w \div size \in Nat /\ w % size \in Nat
        <3>1. size \in Nat \ {0}
            BY <1>1
        <3>2. ASSUME NEW w \in Nat PROVE w \div size \in Nat /\ w % size \in Nat
            BY <3>1, DivModKind
        <3> QED
            BY <3>2
    <2>1. q \in Nat /\ r \in Nat
        BY <2>0
    <2>2. ((p % size) + c) \div size = r - q /\ p % size \in Nat
        <3>1. ((p % size) + c) \div size = r - q
            <4>1. p \in Nat /\ c \in Nat /\ size \in Nat \ {0}
                BY <1>1
            <4> QED
                BY <4>1, DivModAdd
        <3> QED
            BY <2>0, <3>1
    <2>3. r - q \in Nat
        <3> HIDE DEF q, r
        <3>1. (p % size) + c \in Nat
            BY <2>2
        <3>2. ((p % size) + c) \div size \in Nat
            BY <2>0, <3>1
        <3> QED
            BY <2>2, <3>2
    <2> QED
        BY <2>1, <2>3
<1>6. inside.ids = Digits(p + c, s) /\ inside.carry = r - q
    <2>1. inside = [ids   |-> Digits(p + c, s),
                    carry |-> ((p + c) \div Product(s)) - (p \div Product(s))]
        BY <1>1, CarriedIs
    <2> HIDE DEF inside
    <2> QED
        BY <1>1, <2>1
<1> HIDE DEF q, r
<1>7. r - q \in Nat /\ q + (r - q) = r
    BY <1>5
<1>8. Carried(Digits(q, u), u, r - q)
        = [ids |-> Digits(q + (r - q), u), carry |-> ((q + (r - q)) \div count) - (q \div count)]
    BY <1>1, <1>5, <1>7, CarriedIs
<1>9. q \div count = 0
    BY <1>1, GroupOfItem DEF q
<1>10. between.ids = Digits(r, u) /\ between.carry = r \div count
    <2>1. r \div count \in Nat
        BY <1>1, <1>5, DivMod
    <2> QED
        BY <1>6, <1>7, <1>8, <1>9, <2>1
<1>11. r \div count = 0 <=> p + c < size * count
    <2>1. p + c \in Nat
        OBVIOUS
    <2> QED
        BY <1>1, <2>1, GroupOfItem DEF r
<1>12. r \div count \in Nat
    BY <1>1, <1>5, DivMod
<1> QED
    BY <1>3, <1>4, <1>6, <1>10, <1>11, <1>12 DEF r

\* The indexes of a work-item.
LEMMA ItemIs ==
    ASSUME NEW sp, NEW n, IsSpace(sp, n), NEW p \in Nat
    PROVE  /\ p \div GroupSize(sp) \in Nat
           /\ Item(sp, p).local = Digits(p, sp.local)
           /\ Item(sp, p).group = Digits(p \div GroupSize(sp), Groups(sp))
           /\ Item(sp, p).local \in [1..n -> Nat] /\ Item(sp, p).group \in [1..n -> Nat]
           /\ \A i \in 1..n : /\ Item(sp, p).local[i] \in 0..(sp.local[i] - 1)
                              /\ Item(sp, p).group[i] \in 0..(Groups(sp)[i] - 1)
<1>1. n \in Nat /\ sp.local \in Sizes(n) /\ Groups(sp) \in Sizes(n) /\ GroupSize(sp) \in Nat \ {0}
    BY SpaceIs DEF IsSpace
<1>2. p \div GroupSize(sp) \in Nat
    BY <1>1, DivModKind
<1>3. /\ Item(sp, p).local = Digits(p, sp.local)
      /\ Item(sp, p).group = Digits(p \div GroupSize(sp), Groups(sp))
    BY DEF Item
<1>4. \A i \in 1..n : Groups(sp)[i] \in Nat \ {0} /\ sp.local[i] \in Nat \ {0}
    BY SpaceIs
<1>5. n \in Nat
    BY <1>1
<1>6. /\ Digits(p, sp.local) \in [1..n -> Nat]
      /\ \A i \in 1..n : Digits(p, sp.local)[i] \in 0..(sp.local[i] - 1)
    BY <1>1, <1>5, DigitsAre
<1>7. ASSUME NEW q \in Nat
      PROVE  /\ Digits(q, Groups(sp)) \in [1..n -> Nat]
             /\ \A i \in 1..n : Digits(q, Groups(sp))[i] \in 0..(Groups(sp)[i] - 1)
    BY <1>1, <1>5, DigitsAre
<1> QED
    BY <1>2, <1>3, <1>6, <1>7

\* The kernel starts with work-item 0.
LEMMA BeginIs ==
    ASSUME NEW sp, NEW n, IsSpace(sp, n)
    PROVE  Begin(sp) = At(sp, 0)
<1>1. ASSUME NEW s \in Sizes(n) PROVE Digits(0, s) = [i \in 1..n |-> 0]
    <2>0. n \in Nat
        BY DEF IsSpace
    <2>1. ASSUME NEW i \in 1..n PROVE Weights(s)[i - 1] \in Nat \ {0} /\ s[i] \in Nat \ {0}
        <3>1. i - 1 \in 0..n
            BY <2>0
        <3>2. Weights(s) \in [0..n -> Nat \ {0}]
            BY <2>0, WeightsAre
        <3>3. s[i] \in Nat \ {0}
            BY DEF Sizes
        <3> QED
            BY <3>1, <3>2, <3>3
    <2>2. \A a, b \in Nat \ {0} : (0 \div a) % b = 0
        OBVIOUS
    <2>3. Len(s) = n
        BY WeightsAre DEF IsSpace
    <2> QED
        BY <2>1, <2>2, <2>3 DEF Digits
<1>2. /\ sp.local \in Sizes(n) /\ Groups(sp) \in Sizes(n) /\ GroupSize(sp) \in Nat \ {0}
      /\ Dims(sp) = 1..n /\ Items(sp) \in Nat \ {0}
    BY SpaceIs DEF IsSpace
<1>3. 0 \div GroupSize(sp) = 0
    BY <1>2
<1>4. At(sp, 0) = Item(sp, 0)
    BY <1>2 DEF At
<1> QED
    BY <1>1, <1>2, <1>3, <1>4 DEF Begin, Zeros, Item

\* Two work-items, and the end, are different.
LEMMA AtDiffers ==
    ASSUME NEW sp, NEW n, IsSpace(sp, n), NEW p \in 0..Items(sp), NEW q \in 0..Items(sp),
           At(sp, p) = At(sp, q)
    PROVE  p = q
<1>0. /\ n \in Nat /\ 1 \in 1..n /\ sp.local \in Sizes(n) /\ Groups(sp) \in Sizes(n)
      /\ Dims(sp) = 1..n
      /\ GroupSize(sp) = Product(sp.local) /\ GroupsCount(sp) = Product(Groups(sp))
      /\ GroupSize(sp) \in Nat \ {0} /\ GroupsCount(sp) \in Nat \ {0}
      /\ Items(sp) = GroupSize(sp) * GroupsCount(sp) /\ Items(sp) \in Nat
    BY SpaceIs DEF IsSpace, Items
<1>1. ASSUME NEW k \in Nat PROVE Item(sp, k) # End(sp)
    <2>1. End(sp).group[1] = GroupsIn(sp, 1)
        BY <1>0 DEF End, Zeros
    <2>2. Item(sp, k).group[1] \in 0..(Groups(sp)[1] - 1)
        BY <1>0, ItemIs
    <2>3. Groups(sp)[1] = GroupsIn(sp, 1) /\ Groups(sp)[1] \in Nat
        BY <1>0, SpaceIs
    <2>4. Item(sp, k).group[1] # GroupsIn(sp, 1)
        BY <2>2, <2>3
    <2> QED
        BY <2>1, <2>4
<1>2. ASSUME p < Items(sp), q < Items(sp) PROVE p = q
    <2> DEFINE a == p \div GroupSize(sp)
               b == q \div GroupSize(sp)
    <2>1. Item(sp, p) = Item(sp, q)
        BY <1>2 DEF At
    <2>2. p \in Nat /\ q \in Nat /\ a \in Nat /\ b \in Nat
        BY <1>0, DivModKind
    <2>3. Digits(p, sp.local) = Digits(q, sp.local) /\ Digits(a, Groups(sp)) = Digits(b, Groups(sp))
        <3>1. /\ Item(sp, p).local = Digits(p, sp.local)
              /\ Item(sp, p).group = Digits(a, Groups(sp))
            BY <2>2, ItemIs
        <3>2. /\ Item(sp, q).local = Digits(q, sp.local)
              /\ Item(sp, q).group = Digits(b, Groups(sp))
            BY <2>2, ItemIs
        <3> HIDE DEF a, b
        <3> QED
            BY <2>1, <3>1, <3>2
    <2>4. a \div GroupsCount(sp) = 0 /\ b \div GroupsCount(sp) = 0
        BY <1>0, <1>2, <2>2, GroupOfItem
    <2>5. a = b
        <3> HIDE DEF a, b
        <3> QED
            BY <1>0, <2>2, <2>3, <2>4, DigitsDiffer
    <2> QED
        BY <1>0, <2>2, <2>3, <2>5, DigitsDiffer
<1>3. p \in Nat /\ q \in Nat
    BY <1>0
<1>4. CASE p < Items(sp) /\ ~(q < Items(sp))
    BY <1>1, <1>3, <1>4 DEF At
<1>5. CASE ~(p < Items(sp)) /\ q < Items(sp)
    BY <1>1, <1>3, <1>5 DEF At
<1>6. CASE ~(p < Items(sp)) /\ ~(q < Items(sp))
    BY <1>0, <1>3, <1>6
<1> QED
    BY <1>2, <1>4, <1>5, <1>6

\* Different work-items have different global indexes.
LEMMA GlobalIdIs ==
    ASSUME NEW sp, NEW n, IsSpace(sp, n), NEW p \in Nat
    PROVE  /\ GlobalId(sp, Item(sp, p)) =
                 [i \in 1..n |-> Item(sp, p).group[i] * sp.local[i] + Item(sp, p).local[i]]
           /\ GlobalId(sp, Item(sp, p)) \in [1..n -> Nat]
           /\ \A i \in 1..n :
                 /\ GlobalId(sp, Item(sp, p))[i] < sp.global[i]
                 /\ GlobalId(sp, Item(sp, p))[i] \div sp.local[i] = Item(sp, p).group[i]
                 /\ GlobalId(sp, Item(sp, p))[i] % sp.local[i] = Item(sp, p).local[i]
<1> DEFINE id == GlobalId(sp, Item(sp, p))
           g == Item(sp, p).group
           l == Item(sp, p).local
<1>1. id = [i \in 1..n |-> g[i] * sp.local[i] + l[i]]
    BY SpaceIs DEF GlobalId
<1> HIDE DEF id
<1>2. ASSUME NEW i \in 1..n
      PROVE  /\ id[i] \in Nat /\ id[i] < sp.global[i]
             /\ id[i] \div sp.local[i] = g[i] /\ id[i] % sp.local[i] = l[i]
    <2> DEFINE a == g[i]
               b == l[i]
               s == sp.local[i]
               u == Groups(sp)[i]
               j == id[i]
    <2>1. a \in 0..(u - 1) /\ b \in 0..(s - 1)
        BY ItemIs
    <2>2. s \in Nat \ {0} /\ u \in Nat \ {0} /\ sp.global[i] = s * u
        BY SpaceIs
    <2>3. j = a * s + b
        BY <1>1
    <2> HIDE DEF a, b, s, u, j
    <2>4. a * s = s * a /\ s * a \in Nat /\ b \in Nat
        BY <2>1, <2>2
    <2>5. j \in Nat /\ j = s * a + b
        BY <2>3, <2>4
    <2>6. s * (a + 1) <= s * u /\ s * (a + 1) = s * a + s
        BY <2>1, <2>2
    <2>7. s * a + b < s * u
        BY <2>1, <2>2, <2>4, <2>6
    <2>8. j \div s = a /\ j % s = b
        <3>1. a \in Int
            BY <2>1, <2>2
        <3> QED
            BY <2>1, <2>2, <2>5, <3>1, DivModIs
    <2>9. j \in Nat /\ j < sp.global[i]
        BY <2>2, <2>5, <2>7
    <2> QED
        BY <2>8, <2>9 DEF a, b, s, j
<1>3. id \in [1..n -> Nat]
    BY <1>1, <1>2
<1> QED
    BY <1>1, <1>2, <1>3 DEF id

\* Functions on 1..n that agree are equal.
LEMMA SameFunction ==
    ASSUME NEW n \in Nat, NEW f \in [1..n -> Nat], NEW g \in [1..n -> Nat], \A i \in 1..n : f[i] = g[i]
    PROVE  f = g
OBVIOUS

\* Work-items with the same global index are the same.
LEMMA IdsDiffer ==
    ASSUME NEW sp, NEW n, IsSpace(sp, n), NEW p \in 0..(Items(sp) - 1), NEW q \in 0..(Items(sp) - 1),
           GlobalId(sp, Item(sp, p)) = GlobalId(sp, Item(sp, q))
    PROVE  p = q
<1>1. n \in Nat /\ Items(sp) \in Nat /\ p \in Nat /\ q \in Nat /\ p < Items(sp) /\ q < Items(sp)
    BY SpaceIs DEF IsSpace
<1>2. /\ Item(sp, p).local \in [1..n -> Nat] /\ Item(sp, p).group \in [1..n -> Nat]
      /\ Item(sp, q).local \in [1..n -> Nat] /\ Item(sp, q).group \in [1..n -> Nat]
    BY <1>1, ItemIs
<1>3. ASSUME NEW i \in 1..n
      PROVE  /\ Item(sp, p).local[i] = Item(sp, q).local[i]
             /\ Item(sp, p).group[i] = Item(sp, q).group[i]
    <2> DEFINE id == GlobalId(sp, Item(sp, p))
    <2>1. id[i] \div sp.local[i] = Item(sp, p).group[i] /\ id[i] % sp.local[i] = Item(sp, p).local[i]
        BY <1>1, GlobalIdIs
    <2>2. /\ GlobalId(sp, Item(sp, q))[i] \div sp.local[i] = Item(sp, q).group[i]
          /\ GlobalId(sp, Item(sp, q))[i] % sp.local[i] = Item(sp, q).local[i]
        BY <1>1, GlobalIdIs
    <2>3. id = GlobalId(sp, Item(sp, q))
        OBVIOUS
    <2> HIDE DEF id
    <2> QED
        BY <2>1, <2>2, <2>3
<1>4. Item(sp, p).local = Item(sp, q).local /\ Item(sp, p).group = Item(sp, q).group
    <2>2. Item(sp, p).local = Item(sp, q).local
        BY <1>1, <1>2, <1>3, SameFunction
    <2>3. Item(sp, p).group = Item(sp, q).group
        BY <1>1, <1>2, <1>3, SameFunction
    <2> QED
        BY <2>2, <2>3
<1>5. Item(sp, p) = Item(sp, q)
    BY <1>4 DEF Item
<1>6. At(sp, p) = At(sp, q)
    BY <1>1, <1>5 DEF At
<1> QED
    BY <1>1, <1>6, AtDiffers

\* Every index of the space is that of a work-item.
LEMMA IdsReach ==
    ASSUME NEW sp, NEW n, IsSpace(sp, n), NEW id \in [1..n -> Nat],
           \A i \in 1..n : id[i] < sp.global[i]
    PROVE  \E p \in 0..(Items(sp) - 1) : GlobalId(sp, Item(sp, p)) = id
<1> DEFINE g == [i \in 1..n |-> id[i] \div sp.local[i]]
           l == [i \in 1..n |-> id[i] % sp.local[i]]
           a == GroupSize(sp)
           b == GroupsCount(sp)
<1>1. /\ n \in Nat /\ sp.local \in Sizes(n) /\ Groups(sp) \in Sizes(n)
      /\ a = Product(sp.local) /\ b = Product(Groups(sp)) /\ a \in Nat \ {0} /\ b \in Nat \ {0}
      /\ Items(sp) = a * b
    BY SpaceIs DEF IsSpace, Items
<1>2. ASSUME NEW i \in 1..n
      PROVE  /\ g[i] \in Nat /\ g[i] < Groups(sp)[i]
             /\ l[i] \in Nat /\ l[i] < sp.local[i]
             /\ g[i] * sp.local[i] + l[i] = id[i]
    <2> DEFINE s == sp.local[i]
               u == Groups(sp)[i]
               v == id[i]
    <2>1. s \in Nat \ {0} /\ u \in Nat \ {0} /\ sp.global[i] = s * u /\ v \in Nat /\ v < s * u
        BY SpaceIs
    <2> HIDE DEF s, u, v
    <2>2. v \div s < u
        BY <2>1, GroupOfItem
    <2> DEFINE x == v \div s
               y == v % s
    <2>3. x \in Nat /\ y \in 0..(s - 1) /\ v = s * x + y
        BY <2>1, DivMod
    <2>4. x < u
        BY <2>2
    <2> HIDE DEF x, y
    <2>5. y \in Nat /\ y < s /\ x * s + y = v
        <3>1. x * s = s * x
            BY <2>1, <2>3
        <3> QED
            BY <2>1, <2>3, <3>1
    <2> QED
        BY <2>3, <2>4, <2>5 DEF s, u, v, x, y
<1>3. g \in [1..n -> Nat] /\ l \in [1..n -> Nat]
    BY <1>2
<1>4. /\ \A i \in 1..n : g[i] < Groups(sp)[i]
      /\ \A i \in 1..n : l[i] < sp.local[i]
      /\ id = [i \in 1..n |-> g[i] * sp.local[i] + l[i]]
    BY <1>2
<1> HIDE DEF g, l, a, b
<1>5. PICK k \in Nat : Digits(k, Groups(sp)) = g /\ k \div b = 0
    <2> DEFINE u == Groups(sp)
    <2>1. u \in Sizes(n) /\ b = Product(u) /\ Fit(g, u, n)
        BY <1>1, <1>3, <1>4 DEF Fit
    <2> HIDE DEF u
    <2>2. Reached(g, 0, u)
        BY <1>1, <2>1, DigitsReach, 0 \in Nat
    <2> QED
        BY <2>1, <2>2 DEF u, Reached
<1>6. PICK p \in Nat : Digits(p, sp.local) = l /\ p \div a = k
    <2> DEFINE s == sp.local
    <2>1. s \in Sizes(n) /\ a = Product(s) /\ Fit(l, s, n)
        BY <1>1, <1>3, <1>4 DEF Fit
    <2> HIDE DEF s
    <2>2. Reached(l, k, s)
        BY <1>1, <2>1, DigitsReach
    <2> QED
        BY <2>1, <2>2 DEF s, Reached
<1>7. p < a * b
    <2>1. (p \div a) \div b = 0
        BY <1>5, <1>6
    <2> QED
        BY <1>1, <2>1, GroupOfItem
<1>8. Item(sp, p).local = l /\ Item(sp, p).group = g
    BY <1>5, <1>6 DEF Item, a
<1>9. GlobalId(sp, Item(sp, p)) = id
    BY <1>4, <1>8, GlobalIdIs
<1>10. p \in 0..(Items(sp) - 1)
    BY <1>1, <1>7
<1> QED
    BY <1>9, <1>10

\* The global indexes of the work-items are the indexes of the space.
LEMMA IdsAre ==
    ASSUME NEW sp, NEW n, IsSpace(sp, n), SizeMax \in Nat, \A i \in 1..n : sp.global[i] <= SizeMax
    PROVE  {GlobalId(sp, Item(sp, p)) : p \in 0..(Items(sp) - 1)} = Below(sp.global)
<1>1. DOMAIN sp.global = 1..n /\ Items(sp) \in Nat /\ \A i \in 1..n : sp.global[i] \in Nat
    BY SpaceIs DEF IsSpace, Sizes
<1>2. ASSUME NEW p \in 0..(Items(sp) - 1) PROVE GlobalId(sp, Item(sp, p)) \in Below(sp.global)
    <2> DEFINE id == GlobalId(sp, Item(sp, p))
    <2>0. p \in Nat
        BY <1>1
    <2>1. id \in [1..n -> Nat] /\ \A i \in 1..n : id[i] < sp.global[i]
        BY <2>0, GlobalIdIs
    <2> HIDE DEF id
    <2>2. id = [i \in 1..n |-> id[i]] /\ \A i \in 1..n : id[i] \in 0..SizeMax
        BY <1>1, <2>1
    <2>3. id \in [1..n -> 0..SizeMax]
        BY <2>2
    <2> QED
        BY <1>1, <2>1, <2>3 DEF Below, id
<1>3. ASSUME NEW id \in Below(sp.global)
      PROVE  \E p \in 0..(Items(sp) - 1) : id = GlobalId(sp, Item(sp, p))
    <2>1. id \in [1..n -> 0..SizeMax] /\ \A i \in 1..n : id[i] < sp.global[i]
        BY <1>1 DEF Below
    <2>2. id \in [1..n -> Nat]
        BY <2>1
    <2>3. PICK p \in 0..(Items(sp) - 1) : GlobalId(sp, Item(sp, p)) = id
        BY <2>1, <2>2, IdsReach
    <2> QED
        BY <2>3
<1> QED
    BY <1>2, <1>3

---------------------------------------------------------------------------
(* A call that is accepted makes a space that is cut into whole groups.    *)

\* A check of its own, and a chain of two.
LEMMA CheckIs == ASSUME NEW f \in BOOLEAN, NEW e PROVE Check(f, e) = IF f THEN <<e>> ELSE <<>>
<1> DEFINE c == << <<f, e>> >>
  failed == {i \in 1..Len(c) : c[i][1]}
  first  == CHOOSE i \in failed : \A j \in failed : i <= j
<1>1. Check(f, e) = IF failed = {} THEN <<>> ELSE <<c[first][2]>>
  BY DEF Check, FirstOf
<1>2. Len(c) = 1 /\ c[1][1] = f /\ c[1][2] = e
  OBVIOUS
<1>0. 1..Len(c) = {1}
  BY <1>2
<1> HIDE DEF c
<1>3. CASE f
  <2>0. c[1][1]
    BY <1>2, <1>3, Zenon
  <2>1. failed = {1}
    BY <1>0, <2>0, Zenon
  <2>2. first = 1
    BY <2>1
  <2> QED BY <1>1, <1>2, <1>3, <2>1, <2>2
<1>4. CASE ~f
  <2>0. ~c[1][1]
    BY <1>2, <1>4, Zenon
  <2>1. failed = {}
    BY <1>0, <2>0, Zenon
  <2> QED BY <1>1, <1>4, <2>1
<1> QED BY <1>3, <1>4
LEMMA FirstOfTwo == ASSUME NEW f \in BOOLEAN, NEW g \in BOOLEAN, NEW e, NEW h
   PROVE FirstOf(<< <<f, e>>, <<g, h>> >>) = IF f THEN <<e>> ELSE IF g THEN <<h>> ELSE <<>>
<1> DEFINE c == << <<f, e>>, <<g, h>> >>
  failed == {i \in 1..Len(c) : c[i][1]}
  first  == CHOOSE i \in failed : \A j \in failed : i <= j
<1>1. FirstOf(c) = IF failed = {} THEN <<>> ELSE <<c[first][2]>>
  BY DEF FirstOf
<1>2. Len(c) = 2 /\ c[1][1] = f /\ c[1][2] = e /\ c[2][1] = g /\ c[2][2] = h
  OBVIOUS
<1>0. 1..Len(c) = {1, 2}
  BY <1>2
<1> HIDE DEF c
<1>3. CASE f
  <2>0. c[1][1]
    BY <1>2, <1>3, Zenon
  <2>1. 1 \in failed /\ failed \subseteq {1, 2}
    BY <1>0, <2>0, Zenon
  <2>2. first = 1
    <3> HIDE DEF failed
    <3>1. \A j \in failed : 1 <= j
      BY <2>1
    <3>2. \A i \in failed : (\A j \in failed : i <= j) => i = 1
      BY <2>1
    <3> QED BY <2>1, <3>1, <3>2
  <2> QED BY <1>1, <1>2, <1>3, <2>1, <2>2 DEF c
<1>4. CASE ~f /\ g
  <2>0. ~c[1][1] /\ c[2][1]
    BY <1>2, <1>4, Zenon
  <2>1. failed = {2}
    BY <1>0, <2>0, Zenon
  <2>2. first = 2
    BY <2>1
  <2> QED BY <1>1, <1>2, <1>4, <2>1, <2>2 DEF c
<1>5. CASE ~f /\ ~g
  <2>0. ~c[1][1] /\ ~c[2][1]
    BY <1>2, <1>5, Zenon
  <2>1. failed = {}
    BY <1>0, <2>0, Zenon
  <2> QED BY <1>1, <1>5, <2>1 DEF c
<1> QED BY <1>3, <1>4, <1>5

\* What a check notifies, and when it notifies nothing.
LEMMA CheckKinds ==
    ASSUME NEW f \in BOOLEAN, NEW S, NEW e \in S
    PROVE  Check(f, e) \in Seq(S) /\ (Check(f, e) = <<>> <=> ~f)
<1>1. Check(f, e) = IF f THEN <<e>> ELSE <<>>
    BY CheckIs
<1> QED
    BY <1>1

\* The same of a chain of two checks.
LEMMA TwoKinds ==
    ASSUME NEW f \in BOOLEAN, NEW g \in BOOLEAN, NEW S, NEW e \in S, NEW h \in S
    PROVE  /\ FirstOf(<< <<f, e>>, <<g, h>> >>) \in Seq(S)
           /\ FirstOf(<< <<f, e>>, <<g, h>> >>) = <<>> <=> ~f /\ ~g
<1>1. FirstOf(<< <<f, e>>, <<g, h>> >>) = IF f THEN <<e>> ELSE IF g THEN <<h>> ELSE <<>>
    BY FirstOfTwo
<1>2. <<e>> # <<>> /\ <<h>> # <<>> /\ <<e>> \in Seq(S) /\ <<h>> \in Seq(S) /\ <<>> \in Seq(S)
    OBVIOUS
<1> QED
    BY <1>1, <1>2

\* No error in two sequences of them put together.
LEMMA BothEmpty ==
    ASSUME NEW S, NEW s \in Seq(S), NEW t \in Seq(S)
    PROVE  s \o t \in Seq(S) /\ (s \o t = <<>> <=> s = <<>> /\ t = <<>>)
<1>1. Len(s) \in Nat /\ Len(t) \in Nat /\ Len(s \o t) = Len(s) + Len(t) /\ s \o t \in Seq(S)
    BY ConcatProperties, LenProperties
<1>2. \A u \in Seq(S) : u = <<>> <=> Len(u) = 0
    BY EmptySeq
<1> QED
    BY <1>1, <1>2

\* What the parts of a call may be told.
Errors ==
    {InvalidExecutable, InvalidContext, InvalidDimension, InvalidGlobalSize, InvalidOffset,
     InvalidGroupSize, InvalidWaitList}

\* A call that is accepted has passed each check.
LEMMA AcceptedIs ==
    ASSUME NEW c, EnqueueAnswer(c) = Success
    PROVE  /\ GoodDims(c) /\ \A i \in 1..c.dims : ~BadSize(c.global[i])
           /\ "local" \notin c.nulls => \A i \in 1..c.dims : c.global[i] % c.local[i] = 0
<1> DEFINE k1 == Check(c.kernel = "unbuilt", InvalidExecutable)
           k2 == Check(c.kernel = "foreign", InvalidContext)
           k3 == Check(~GoodDims(c), InvalidDimension)
           k4 == FirstOf(<< <<"global" \in c.nulls, InvalidGlobalSize>>,
                            <<\E i \in 1..c.dims : BadSize(c.global[i]), InvalidGlobalSize>> >>)
           S == Seq(Errors)
<1>1. k1 \in S /\ k2 \in S
    <2>1. (c.kernel = "unbuilt") \in BOOLEAN /\ (c.kernel = "foreign") \in BOOLEAN
        OBVIOUS
    <2>2. InvalidExecutable \in Errors /\ InvalidContext \in Errors
        BY DEF Errors
    <2> QED
        BY <2>1, <2>2, CheckKinds, Zenon
<1>2. k3 \in S /\ (k3 = <<>> => GoodDims(c))
    <2>1. (~GoodDims(c)) \in BOOLEAN
        OBVIOUS
    <2>2. InvalidDimension \in Errors
        BY DEF Errors
    <2> QED
        BY <2>1, <2>2, CheckKinds, Zenon
<1>3. k4 \in S /\ (k4 = <<>> => \A i \in 1..c.dims : ~BadSize(c.global[i]))
    <2>1. /\ ("global" \in c.nulls) \in BOOLEAN
          /\ (\E i \in 1..c.dims : BadSize(c.global[i])) \in BOOLEAN
        OBVIOUS
    <2>2. InvalidGlobalSize \in Errors
        BY DEF Errors
    <2> QED
        BY <2>1, <2>2, TwoKinds, Zenon
<1>4. OffsetErrors(c) \in S
    <2> DEFINE F == /\ GoodDims(c) /\ c.nulls \cap {"global", "off"} = {} /\ ~BadSize(c.global[1])
                    /\ \E i \in 1..c.dims : c.off[i] + c.global[i] > SizeMax
    <2>1. F \in BOOLEAN
        BY Zenon
    <2>2. InvalidOffset \in Errors
        BY DEF Errors
    <2>3. OffsetErrors(c) = Check(F, InvalidOffset)
        BY Zenon DEF OffsetErrors
    <2> HIDE DEF F
    <2> QED
        BY <2>1, <2>2, <2>3, CheckKinds, Zenon
<1>5. /\ LocalErrors(c) \in S
      /\ LocalErrors(c) = <<>> /\ GoodDims(c) /\ "local" \notin c.nulls
             => \A i \in 1..c.dims : c.global[i] % c.local[i] = 0
    <2> DEFINE F == GoodDims(c) /\ (\/ \E i \in 1..c.dims :
                                          \/ c.local[i] > MaxItemSizes[i]
                                          \/ c.global[i] % c.local[i] # 0
                                          \/ c.required # <<>> /\ c.required[i] # c.local[i]
                                    \/ Product(SubSeq(c.local, 1, c.dims)) > MaxGroup)
               R == c.required # <<>>
    <2>1. F \in BOOLEAN /\ R \in BOOLEAN
        BY Zenon
    <2>2. InvalidGroupSize \in Errors
        BY DEF Errors
    <2>3. LocalErrors(c) = IF "local" \in c.nulls THEN Check(R, InvalidGroupSize)
                           ELSE Check(F, InvalidGroupSize)
        BY Zenon DEF LocalErrors
    <2>4. ~F /\ GoodDims(c) => \A i \in 1..c.dims : c.global[i] % c.local[i] = 0
        BY Zenon
    <2> HIDE DEF F, R
    <2> QED
        BY <2>1, <2>2, <2>3, <2>4, CheckKinds, Zenon
<1>6. SetWaitList(c.wl) \in S
    <2> DEFINE F == \/ (c.wl.n > 0) # c.wl.given
                    \/ c.wl.given /\ "null" \in {c.wl.evs[i] : i \in 1..Len(c.wl.evs)}
    <2>1. F \in BOOLEAN
        BY Zenon
    <2>2. InvalidWaitList \in Errors
        BY DEF Errors
    <2>3. SetWaitList(c.wl) = Check(F, InvalidWaitList)
        BY Zenon DEF SetWaitList
    <2> HIDE DEF F
    <2> QED
        BY <2>1, <2>2, <2>3, CheckKinds, Zenon
<1>7. KernelErrors(c) = k1 \o k2 \o k3 \o k4
    BY DEF KernelErrors
<1> HIDE DEF k1, k2, k3, k4
<1> DEFINE k == KernelErrors(c)
           o == OffsetErrors(c)
           l == LocalErrors(c)
           w == SetWaitList(c.wl)
           all == NDRangeErrors(c)
<1>8. all = k \o o \o l \o w
    BY DEF NDRangeErrors
<1>9. k \in S /\ (k = <<>> => k3 = <<>> /\ k4 = <<>>)
    <2>1. k1 \o k2 \in S
        BY <1>1, BothEmpty
    <2>2. k1 \o k2 \o k3 \in S /\ (k1 \o k2 \o k3 = <<>> => k3 = <<>>)
        BY <2>1, <1>2, BothEmpty
    <2> QED
        BY <2>2, <1>3, <1>7, BothEmpty
<1> HIDE DEF k, o, l, w, all
<1>10. all \in S /\ (all = <<>> => k = <<>> /\ l = <<>>)
    <2>0. o \in S /\ l \in S /\ w \in S
        BY <1>4, <1>5, <1>6 DEF o, l, w
    <2>1. k \o o \in S /\ (k \o o = <<>> => k = <<>>)
        BY <2>0, <1>9, BothEmpty
    <2>2. k \o o \o l \in S /\ (k \o o \o l = <<>> => l = <<>> /\ k = <<>>)
        BY <2>0, <2>1, BothEmpty
    <2> QED
        BY <2>0, <2>2, <1>8, BothEmpty
<1>11. all = <<>>
    <2>1. Result(c.nulls, <<>>, all) = Success
        BY DEF EnqueueAnswer, all, Success, InvalidContext
    <2>2. Create(all) = Success
        BY <2>1 DEF Result, Success, InvalidQueue
    <2>3. SUFFICES ASSUME all # <<>> PROVE FALSE
        OBVIOUS
    <2>4. Len(all) \in Nat \ {0}
        BY <1>10, <2>3, EmptySeq
    <2>5. Len(all) \in 1..Len(all)
        BY <2>4
    <2>6. all[Len(all)] \in Errors
        BY <1>10, <2>5, ElementOfSeq
    <2>7. Success \notin Errors
        BY DEF Errors, Success, InvalidExecutable, InvalidContext, InvalidDimension,
               InvalidGlobalSize, InvalidOffset, InvalidGroupSize, InvalidWaitList
    <2> QED
        BY <2>2, <2>3, <2>6, <2>7 DEF Create
<1>12. k = <<>> /\ l = <<>> /\ k3 = <<>> /\ k4 = <<>>
    BY <1>9, <1>10, <1>11
<1> QED
    BY <1>2, <1>3, <1>5, <1>12 DEF l

\* The greatest common divisor exists, and it divides.
LEMMA GcdDivides ==
    ASSUME NEW a \in Nat \ {0}, NEW b \in Nat
    PROVE  Gcd(a, b) \in Nat \ {0} /\ a % Gcd(a, b) = 0
<1> DEFINE Common(d) == a % d = 0 /\ b % d = 0
           T == {k \in Nat : \E d \in 1..(a + b) : Common(d) /\ k = a + b - d}
           Is(d) == /\ Common(d) /\ \A e \in (d + 1)..(a + b) : a % e # 0 \/ b % e # 0
<1>1. a + b - 1 \in T
    <2>1. a % 1 = 0 /\ b % 1 = 0 /\ 1 \in 1..(a + b) /\ a + b - 1 \in Nat
        OBVIOUS
    <2> QED
        BY <2>1
<1>2. PICK m \in T : \A k \in T : m <= k
    <2>1. T \in SUBSET Nat /\ T # {}
        BY <1>1
    <2> HIDE DEF T
    <2> QED
        BY <2>1, LeastNumber
<1>3. PICK d \in 1..(a + b) : Common(d) /\ m = a + b - d
    BY <1>2
<1>4. ASSUME NEW e \in (d + 1)..(a + b), Common(e) PROVE FALSE
    <2>1. e \in 1..(a + b) /\ a + b - e \in Nat /\ a + b - e < m
        BY <1>3, <1>4
    <2>2. a + b - e \in T
        BY <2>1, <1>4
    <2> QED
        BY <1>2, <2>1, <2>2
<1>5. Is(d)
    BY <1>3, <1>4
<1>6. Gcd(a, b) = CHOOSE x \in 1..(a + b) : Is(x)
    BY DEF Gcd
<1> HIDE DEF Is
<1>7. Gcd(a, b) \in 1..(a + b) /\ Is(Gcd(a, b))
    BY <1>5, <1>6
<1> QED
    BY <1>7 DEF Is

\* The sizes of the groups the builder chooses divide those of the space.
LEMMA PartitionIs ==
    ASSUME LaunchKinds, NEW n \in 1..Len(MaxItemSizes), NEW global \in Sizes(n), NEW stray \in Stray
    PROVE  /\ Partition(global, stray) \in Sizes(n)
           /\ \A i \in 1..n : global[i] % Partition(global, stray)[i] = 0
<1> DEFINE cut == Partition(global, stray)
<1>0. Len(MaxItemSizes) \in Nat /\ n \in Nat
    BY LenProperties DEF LaunchKinds
<1>1. Len(global) = n
    BY <1>0, LenOf DEF Sizes
<1>2. ASSUME NEW i \in 1..n PROVE Preset(n, i, stray) \in Nat
    <2>1. i \in 1..Len(MaxItemSizes)
        BY <1>0
    <2>2. stray[i] \in Nat
        BY <2>1 DEF LaunchKinds
    <2>3. n < Len(Presets) => Presets[n + 1][i] \in Nat
        <3>1. Len(Presets) \in Nat
            BY LenProperties DEF LaunchKinds
        <3>2. n < Len(Presets) => n + 1 \in 1..Len(Presets)
            BY <1>0, <3>1
        <3>3. n < Len(Presets) => Presets[n + 1] \in [1..Len(MaxItemSizes) -> Nat]
            BY <3>2, ElementOfSeq DEF LaunchKinds
        <3> QED
            BY <2>1, <3>3
    <2> QED
        BY <2>2, <2>3 DEF Preset
<1>3. cut = [i \in 1..n |-> IF Preset(n, i, stray) < global[i]
                            THEN Gcd(global[i], Preset(n, i, stray)) ELSE global[i]]
    BY <1>1 DEF Partition
<1>4. ASSUME NEW i \in 1..n PROVE cut[i] \in Nat \ {0} /\ global[i] % cut[i] = 0
    <2> DEFINE a == global[i]
               b == Preset(n, i, stray)
    <2>1. a \in Nat \ {0} /\ b \in Nat
        BY <1>2 DEF Sizes
    <2>2. cut[i] = IF b < a THEN Gcd(a, b) ELSE a
        BY <1>3
    <2>3. a % a = 0
        BY <2>1
    <2>4. Gcd(a, b) \in Nat \ {0} /\ a % Gcd(a, b) = 0
        BY <2>1, GcdDivides
    <2> HIDE DEF cut
    <2> QED
        BY <2>1, <2>2, <2>3, <2>4
<1>5. cut \in [1..n -> Nat \ {0}]
    <2>1. cut = [i \in 1..n |-> cut[i]]
        BY <1>3
    <2> HIDE DEF cut
    <2> QED
        BY <1>4, <2>1
<1> QED
    BY <1>4, <1>5 DEF Sizes

\* What the device is given for a call that is accepted.
SpaceFits(sp, n) == IsSpace(sp, n) /\ \A i \in 1..n : sp.global[i] <= SizeMax

\* The space of an accepted call fits the device.
LEMMA SpaceOfIs ==
    ASSUME LaunchKinds, NEW c \in Calls, NEW stray \in Stray, EnqueueAnswer(c) = Success
    PROVE  SpaceFits(SpaceOf(c, stray), c.dims)
<1> DEFINE n == c.dims
           global == SubSeq(c.global, 1, n)
           own == SubSeq(c.local, 1, n)
           sp == SpaceOf(c, stray)
<1>1. Len(MaxItemSizes) \in Nat /\ n \in 1..Len(MaxItemSizes) /\ n \in Nat \ {0}
    BY AcceptedIs, LenProperties DEF LaunchKinds, GoodDims
<1>2. /\ c.global \in Seq(Nat) /\ c.local \in Seq(Nat \ {0}) /\ SizeMax \in Nat
      /\ n <= Len(c.global) /\ n <= Len(c.local)
      /\ Len(c.global) \in Nat /\ Len(c.local) \in Nat
    BY <1>1, LenProperties DEF LaunchKinds, CallIsKnown
<1>3. ASSUME NEW i \in 1..n
      PROVE  c.global[i] \in Nat \ {0} /\ c.global[i] <= SizeMax /\ c.local[i] \in Nat \ {0}
    <2>1. i \in 1..Len(c.global) /\ i \in 1..Len(c.local)
        BY <1>1, <1>2
    <2>2. c.global[i] \in Nat /\ c.local[i] \in Nat \ {0}
        BY <1>2, <2>1, ElementOfSeq
    <2>3. ~BadSize(c.global[i])
        BY AcceptedIs
    <2> QED
        BY <1>2, <2>2, <2>3 DEF BadSize
<1>4. /\ global \in Sizes(n) /\ \A i \in 1..n : global[i] = c.global[i]
      /\ own \in Sizes(n) /\ \A i \in 1..n : own[i] = c.local[i]
    <2>1. ASSUME NEW s, \A i \in 1..n : s[i] \in Nat \ {0}
          PROVE  SubSeq(s, 1, n) \in Sizes(n) /\ \A i \in 1..n : SubSeq(s, 1, n)[i] = s[i]
        <3> DEFINE t == SubSeq(s, 1, n)
        <3>1. /\ t \in Seq(Nat \ {0}) /\ Len(t) = n - 1 + 1
              /\ \A i \in 1..(n - 1 + 1) : t[i] = s[1 + i - 1]
            BY <1>1, <2>1, SubSeqProperties
        <3> HIDE DEF t
        <3>2. Len(t) = n /\ \A i \in 1..n : t[i] = s[i]
            BY <1>1, <3>1
        <3>3. t \in [1..n -> Nat \ {0}]
            BY <3>1, <3>2, LenProperties
        <3> QED
            BY <3>2, <3>3 DEF Sizes, t
    <2>2. global \in Sizes(n) /\ \A i \in 1..n : global[i] = c.global[i]
        BY <1>3, <2>1
    <2>3. own \in Sizes(n) /\ \A i \in 1..n : own[i] = c.local[i]
        BY <1>3, <2>1
    <2> QED
        BY <2>2, <2>3
<1>5. sp.global = global
    BY DEF SpaceOf
<1>6. sp.local = IF "local" \in c.nulls THEN Partition(global, stray) ELSE own
    BY DEF SpaceOf
<1> HIDE DEF n, global, own, sp
<1>7. sp.local \in Sizes(n) /\ \A i \in 1..n : global[i] % sp.local[i] = 0
    <2>1. CASE "local" \in c.nulls
        BY <1>1, <1>4, <1>6, <2>1, PartitionIs
    <2>2. CASE "local" \notin c.nulls
        <3>1. \A i \in 1..n : c.global[i] % c.local[i] = 0
            BY <2>2, AcceptedIs DEF n
        <3> QED
            BY <1>4, <1>6, <2>2, <3>1
    <2> QED
        BY <2>1, <2>2
<1>8. IsSpace(sp, n)
    BY <1>1, <1>4, <1>5, <1>7 DEF IsSpace
<1>9. \A i \in 1..n : sp.global[i] <= SizeMax
    BY <1>3, <1>4, <1>5
<1> QED
    BY <1>8, <1>9 DEF SpaceFits, sp, n

---------------------------------------------------------------------------
(* The invariant.  Each block is unsent, queued, running or finished, and  *)
(* has a worker once it is sent.                                           *)

Blocks(sp) == 0..(GroupsCount(sp) - 1)
First(sp, b) == At(sp, b * GroupSize(sp))
Block(sp, b) == [begin |-> First(sp, b), end |-> First(sp, b + 1)]

\* Work-item i of block b, counted from 1 as the stacks are.
Nth(sp, b, i) == b * GroupSize(sp) + (i - 1)

\* A worker that executes block b in its round q, on stack s: those before it
\* are one part ahead, and its current index is that of the work-item of s.
Ring(sp, b, s, q) ==
    [active |-> TRUE, begin |-> First(sp, b), end |-> First(sp, b + 1),
     cur |-> At(sp, Nth(sp, b, s)), stack |-> s,
     part |-> [i \in 1..GroupSize(sp) |-> IF i < s THEN q + 1 ELSE q]]
Rounds(sp) ==
    {x \in (1..GroupSize(sp)) \X (0..(Barriers + 1)) : x[2] = Barriers + 1 => x[1] = 1}
Executes(r, sp, b) == \E x \in Rounds(sp) : r = Ring(sp, b, x[1], x[2])

NextHolds(st) ==
    \E k \in 0..GroupsCount(space) :
        /\ next = IF k < GroupsCount(space) THEN <<First(space, k)>> ELSE <<>>
        /\ \A b \in Blocks(space) : st[b] = "unsent" <=> k <= b
JobsHold(st, by) ==
    /\ jobs \in [Threads -> Seq({Block(space, b) : b \in Blocks(space)})]
    /\ \A t \in Threads : \A j \in 1..Len(jobs[t]) :
           /\ \E b \in Blocks(space) : jobs[t][j] = Block(space, b) /\ st[b] = "queued" /\ by[b] = t
           /\ \A i \in 1..Len(jobs[t]) : jobs[t][i] = jobs[t][j] => i = j
RunsHold(st, by) ==
    /\ run = [t \in Threads |-> run[t]]
    /\ \A t \in Threads :
           \/ run[t] = Idle
           \/ \E b \in Blocks(space) :
                  st[b] = "running" /\ by[b] = t /\ Executes(run[t], space, b)
    /\ \A b \in Blocks(space) : st[b] = "running" => Executes(run[by[b]], space, b)
CountHolds(st) == WaitCount = Cardinality({b \in Blocks(space) : st[b] # "finished"})

\* What each work-item has executed.
Parts(sp) == Blocks(sp) \X (1..GroupSize(sp)) \X (0..Barriers)
Ran(st, by, x) ==
    \/ st[x[1]] = "finished"
    \/ st[x[1]] = "running" /\ run[by[x[1]]].part[x[2]] > x[3]
Executed(st, by) == {x \in Parts(space) : Ran(st, by, x)}
Did(sp, x) == <<GlobalId(sp, At(sp, Nth(sp, x[1], x[2]))), x[3]>>
LogHolds(st, by) == log = [d \in {Did(space, x) : x \in Executed(st, by)} |-> 1]

Placed(st, by) ==
    NextHolds(st) /\ JobsHold(st, by) /\ RunsHold(st, by) /\ CountHolds(st) /\ LogHolds(st, by)

Fresh ==
    /\ space = NoSpace /\ next = <<>> /\ WaitCount = 0
    /\ jobs = [t \in Threads |-> <<>>] /\ run = [t \in Threads |-> Idle]
Launched ==
    /\ SpaceFits(space, Len(space.global))
    /\ \E st \in [Blocks(space) -> {"unsent", "queued", "running", "finished"}],
          by \in [Blocks(space) -> Threads] : Placed(st, by)
LoadsHold == loads \in Seq(Nat) /\ \A i \in 1..Len(loads) : i \in Threads
LaunchInv == LoadsHold /\ (Fresh \/ Launched)

---------------------------------------------------------------------------
(* Blocks and their work-items.                                            *)

\* The number of a work-item tells its block and its place in it.
LEMMA NthIs ==
    ASSUME NEW sp, NEW n, IsSpace(sp, n), NEW b \in Blocks(sp), NEW i \in 1..GroupSize(sp)
    PROVE  /\ Nth(sp, b, i) \in Nat /\ Nth(sp, b, i) < Items(sp)
           /\ Nth(sp, b, i) \div GroupSize(sp) = b
           /\ Nth(sp, b, i) % GroupSize(sp) = i - 1
<1> DEFINE l == GroupSize(sp)
           g == GroupsCount(sp)
           p == Nth(sp, b, i)
           r == i - 1
<1>1. /\ l \in Nat \ {0} /\ g \in Nat \ {0} /\ Items(sp) = l * g
      /\ b \in 0..(g - 1) /\ i \in 1..l /\ p = b * l + r
    BY SpaceIs DEF Items, Blocks, Nth
<1> HIDE DEF l, g, p
<1>2. b * l = l * b /\ l * b \in Nat /\ r \in 0..(l - 1) /\ r \in Nat /\ b \in Int
    BY <1>1
<1> HIDE DEF r
<1>3. p = l * b + r /\ p \in Nat
    BY <1>1, <1>2
<1>4. p \div l = b /\ p % l = r
    BY <1>1, <1>2, <1>3, DivModIs
<1>5. b < g
    BY <1>1
<1>6. p < l * g
    BY <1>1, <1>3, <1>4, <1>5, GroupOfItem
<1> QED
    BY <1>1, <1>3, <1>4, <1>6 DEF l, p, r

\* Every work-item is in a block.
LEMMA NthReach ==
    ASSUME NEW sp, NEW n, IsSpace(sp, n), NEW p \in 0..(Items(sp) - 1)
    PROVE  \E b \in Blocks(sp), i \in 1..GroupSize(sp) : p = Nth(sp, b, i)
<1> DEFINE l == GroupSize(sp)
           g == GroupsCount(sp)
           b == p \div l
           m == p % l
<1>1. /\ l \in Nat \ {0} /\ g \in Nat \ {0} /\ Items(sp) = l * g /\ Items(sp) \in Nat
      /\ p \in Nat /\ p < Items(sp)
    BY SpaceIs DEF Items
<1> HIDE DEF l, g
<1>2. b \in Nat /\ m \in 0..(l - 1) /\ p = l * b + m
    BY <1>1, DivMod
<1>3. b < g
    BY <1>1, GroupOfItem
<1> HIDE DEF b, m
<1>4. b * l = l * b /\ l * b \in Nat
    BY <1>1, <1>2
<1>5. m + 1 \in 1..l /\ (m + 1) - 1 = m /\ b \in 0..(g - 1)
    BY <1>1, <1>2, <1>3
<1>6. p = b * l + ((m + 1) - 1)
    BY <1>2, <1>4, <1>5
<1> QED
    BY <1>5, <1>6 DEF Blocks, Nth, l, g

\* Advance by the size of a group goes from block to block, and to the end.
LEMMA FirstIs ==
    ASSUME NEW sp, NEW n, IsSpace(sp, n), NEW b \in 0..GroupsCount(sp)
    PROVE  /\ b * GroupSize(sp) \in 0..Items(sp)
           /\ b * GroupSize(sp) < Items(sp) <=> b < GroupsCount(sp)
           /\ (b + 1) * GroupSize(sp) = b * GroupSize(sp) + GroupSize(sp)
           /\ First(sp, b) = End(sp) <=> b = GroupsCount(sp)
           /\ b < GroupsCount(sp) =>
                /\ First(sp, b) = Item(sp, b * GroupSize(sp))
                /\ Advance(sp, First(sp, b), GroupSize(sp)) = First(sp, b + 1)
<1> DEFINE l == GroupSize(sp)
           g == GroupsCount(sp)
           p == b * l
<1>1. /\ l \in Nat \ {0} /\ g \in Nat \ {0} /\ Items(sp) = l * g /\ Items(sp) \in Nat \ {0}
      /\ b \in Nat /\ b <= g
    BY SpaceIs DEF Items
<1>2. (b + 1) * l = p + l
    <2> HIDE DEF l, g
    <2> QED
        BY <1>1
<1>3. p \in Nat /\ p <= Items(sp) /\ (p < Items(sp) <=> b < g)
    <2> HIDE DEF l, g
    <2>1. p \in Nat /\ p = l * b
        BY <1>1
    <2>2. CASE b = g
        BY <1>1, <2>1, <2>2
    <2>3. CASE b < g
        <3> DEFINE d == g - b - 1
        <3>1. d \in Nat /\ g = b + d + 1
            BY <1>1, <2>3
        <3> HIDE DEF d
        <3>2. l * g = l * b + l * d + l /\ l * d \in Nat
            BY <1>1, <3>1
        <3> HIDE DEF p
        <3> QED
            BY <1>1, <2>1, <2>3, <3>2
    <2> QED
        BY <1>1, <2>2, <2>3
<1>4. p \in 0..Items(sp) /\ Items(sp) \in 0..Items(sp)
    BY <1>1, <1>3
<1>5. First(sp, b) = At(sp, p) /\ First(sp, b + 1) = At(sp, (b + 1) * l)
    BY DEF First
<1>6. End(sp) = At(sp, Items(sp))
    BY <1>1 DEF At
<1>7. First(sp, b) = End(sp) <=> b = g
    <2>1. First(sp, b) = End(sp) => p = Items(sp)
        BY <1>4, <1>5, <1>6, AtDiffers
    <2>2. p = Items(sp) <=> b = g
        BY <1>1, <1>3
    <2> QED
        BY <1>5, <1>6, <2>1, <2>2
<1>8. ASSUME b < g
      PROVE  First(sp, b) = Item(sp, p) /\ Advance(sp, First(sp, b), l) = First(sp, b + 1)
    <2>1. p < Items(sp) /\ l \in Nat
        BY <1>1, <1>3, <1>8
    <2>2. First(sp, b) = Item(sp, p)
        BY <1>5, <2>1 DEF At
    <2>3. Advance(sp, Item(sp, p), l) = At(sp, p + l)
        BY <1>3, <2>1, Advance_Adds
    <2> QED
        BY <1>2, <1>5, <2>2, <2>3
<1> QED
    BY <1>2, <1>3, <1>4, <1>7, <1>8

\* Blocks that start at the same work-item are the same.
LEMMA FirstDiffers ==
    ASSUME NEW sp, NEW n, IsSpace(sp, n), NEW b \in 0..GroupsCount(sp), NEW c \in 0..GroupsCount(sp),
           First(sp, b) = First(sp, c)
    PROVE  b = c
<1> DEFINE l == GroupSize(sp)
<1>1. l \in Nat \ {0} /\ b \in Nat /\ c \in Nat
    BY SpaceIs
<1>2. b * l = c * l
    BY FirstIs, AtDiffers DEF First
<1> HIDE DEF l
<1>3. b * l = l * b /\ c * l = l * c
    BY <1>1
<1>4. (l * b + 0) \div l = b /\ (l * c + 0) \div l = c
    <2>1. ASSUME NEW k \in Nat PROVE (l * k + 0) \div l = k
        <3>1. l * k + 0 \in Nat /\ 0 \in 0..(l - 1) /\ k \in Int
            BY <1>1
        <3> QED
            BY <1>1, <3>1, DivModIs
    <2> QED
        BY <1>1, <2>1
<1> QED
    BY <1>2, <1>3, <1>4

\* The parts of the work-items are told apart by what is logged of them.
LEMMA DidDiffers ==
    ASSUME NEW sp, NEW n, IsSpace(sp, n), NEW x \in Parts(sp), NEW y \in Parts(sp),
           Did(sp, x) = Did(sp, y)
    PROVE  x = y
<1> DEFINE p == Nth(sp, x[1], x[2])
           q == Nth(sp, y[1], y[2])
           l == GroupSize(sp)
<1>1. /\ x[1] \in Blocks(sp) /\ x[2] \in 1..l /\ x = <<x[1], x[2], x[3]>>
      /\ y[1] \in Blocks(sp) /\ y[2] \in 1..l /\ y = <<y[1], y[2], y[3]>>
    BY DEF Parts
<1>2. /\ p \in Nat /\ p < Items(sp) /\ p \div l = x[1] /\ p % l = x[2] - 1
      /\ q \in Nat /\ q < Items(sp) /\ q \div l = y[1] /\ q % l = y[2] - 1
    BY <1>1, NthIs
<1>3. Items(sp) \in Nat /\ l \in Nat
    BY SpaceIs
<1>4. At(sp, p) = Item(sp, p) /\ At(sp, q) = Item(sp, q)
    BY <1>2 DEF At
<1>5. GlobalId(sp, Item(sp, p)) = GlobalId(sp, Item(sp, q)) /\ x[3] = y[3]
    BY <1>4 DEF Did
<1>6. p = q
    <2>1. p \in 0..(Items(sp) - 1) /\ q \in 0..(Items(sp) - 1)
        BY <1>2, <1>3
    <2> HIDE DEF p, q
    <2> QED
        BY <1>5, <2>1, IdsDiffer
<1> HIDE DEF p, q
<1>7. x[1] = y[1] /\ x[2] = y[2]
    BY <1>1, <1>2, <1>3, <1>6
<1> QED
    BY <1>1, <1>5, <1>7

\* A work-item reaches its barrier: the ring goes on by one stack, and after
\* the last one the next round begins.
LEMMA RingIs ==
    ASSUME NEW n, SpaceFits(space, n), Barriers \in Nat,
           NEW b \in Blocks(space), NEW s \in 1..GroupSize(space), NEW q \in 0..Barriers,
           NEW r, r = Ring(space, b, s, q)
    PROVE  \E x \in Rounds(space) :
              [active |-> TRUE, begin |-> r.begin, end |-> r.end, cur |-> NextItem(r),
               stack |-> Link(GroupSize(space))[r.stack],
               part |-> [r.part EXCEPT ![r.stack] = @ + 1]] = Ring(space, b, x[1], x[2])
<1> DEFINE l == GroupSize(space)
           p == Nth(space, b, s)
           s1 == IF s = l THEN 1 ELSE s + 1
           q1 == IF s = l THEN q + 1 ELSE q
<1>1. /\ IsSpace(space, n) /\ l \in Nat \ {0} /\ GroupsCount(space) \in Nat /\ Items(space) \in Nat
      /\ b \in 0..GroupsCount(space) /\ b < GroupsCount(space) /\ b \in Nat
    BY SpaceIs DEF SpaceFits, Blocks
<1>2. /\ r.begin = First(space, b) /\ r.end = First(space, b + 1) /\ r.cur = At(space, p)
      /\ r.stack = s /\ r.part = [i \in 1..l |-> IF i < s THEN q + 1 ELSE q]
    BY DEF Ring
<1>3. s1 \in 1..l /\ Link(l)[s] = s1 /\ q1 \in 0..(Barriers + 1)
    <2>0. s \in 1..l
        OBVIOUS
    <2> HIDE DEF l
    <2>1. s1 \in 1..l /\ q1 \in 0..(Barriers + 1)
        BY <1>1, <2>0
    <2>2. Link(l)[s] = s1
        BY <1>1, <2>0 DEF Link
    <2> QED
        BY <2>1, <2>2
<1>4. <<s1, q1>> \in Rounds(space)
    <2> HIDE DEF l
    <2>1. q1 = Barriers + 1 => s1 = 1
        BY <1>1
    <2> HIDE DEF s1, q1
    <2> QED
        BY <1>3, <2>1 DEF Rounds, l
<1>5. [r.part EXCEPT ![r.stack] = @ + 1] = [i \in 1..l |-> IF i < s1 THEN q1 + 1 ELSE q1]
    <2>1. ASSUME NEW i \in 1..l
          PROVE  (IF i = s THEN r.part[s] + 1 ELSE r.part[i]) = (IF i < s1 THEN q1 + 1 ELSE q1)
        <3>1. r.part[i] = (IF i < s THEN q + 1 ELSE q) /\ r.part[s] = q
            BY <1>2
        <3> HIDE DEF l
        <3> QED
            BY <1>1, <3>1
    <2>2. [r.part EXCEPT ![r.stack] = @ + 1] = [i \in 1..l |-> IF i = s THEN r.part[s] + 1 ELSE r.part[i]]
        BY <1>2
    <2> HIDE DEF s1, q1, l
    <2> QED
        BY <2>1, <2>2
<1>6. NextItem(r) = At(space, Nth(space, b, s1))
    <2>1. p \in Nat /\ p < Items(space)
        BY <1>1, NthIs
    <2>2. r.cur = Item(space, p) /\ Advance(space, Item(space, p), 1) = At(space, p + 1)
        BY <1>1, <1>2, <2>1, Advance_Adds DEF At
    <2>3. First(space, b + 1) = At(space, (b + 1) * l) /\ (b + 1) * l = b * l + l
        BY <1>1, FirstIs DEF First
    <2>4. NextItem(r) = IF At(space, p + 1) = First(space, b + 1) THEN First(space, b)
                        ELSE At(space, p + 1)
        BY <1>2, <2>2 DEF NextItem
    <2>5. p = b * l + (s - 1) /\ b * l \in Nat
        <3>1. b * l \in Nat
            BY <1>1
        <3> QED
            BY <3>1 DEF Nth
    <2>6. CASE s = l
        <3>1. p + 1 = (b + 1) * l
            BY <1>1, <2>3, <2>5, <2>6
        <3>2. Nth(space, b, s1) = b * l
            BY <2>5, <2>6 DEF Nth
        <3> QED
            BY <2>3, <2>4, <3>1, <3>2 DEF First
    <2>7. CASE s # l
        <3>1. p + 1 # (b + 1) * l /\ Nth(space, b, s1) = p + 1
            <4> DEFINE m == b * l
            <4> HIDE DEF m, l
            <4>1. p + 1 = m + s /\ (b + 1) * l = m + l
                BY <1>1, <2>3, <2>5 DEF m
            <4>2. s1 = s + 1 /\ (s + 1) - 1 = s
                BY <2>7
            <4> QED
                BY <1>1, <2>5, <2>7, <4>1, <4>2 DEF Nth, m, l
        <3>2. p + 1 \in 0..Items(space) /\ (b + 1) * l \in 0..Items(space)
            <4> DEFINE c == b + 1
            <4>1. c \in 0..GroupsCount(space)
                BY <1>1
            <4> HIDE DEF c
            <4>2. c * l \in 0..Items(space)
                BY <1>1, <4>1, FirstIs
            <4>3. (b + 1) * l \in 0..Items(space)
                BY <4>2 DEF c
            <4>4. p + 1 \in 0..Items(space)
                <5> HIDE DEF p
                <5> QED
                    BY <1>1, <2>1
            <4> QED
                BY <4>3, <4>4
        <3>3. At(space, p + 1) # At(space, (b + 1) * l)
            BY <1>1, <3>1, <3>2, AtDiffers
        <3> QED
            BY <2>3, <2>4, <3>1, <3>3
    <2> QED
        BY <2>6, <2>7
<1> DEFINE next_r == [active |-> TRUE, begin |-> r.begin, end |-> r.end, cur |-> NextItem(r),
                      stack |-> Link(GroupSize(space))[r.stack],
                      part |-> [r.part EXCEPT ![r.stack] = @ + 1]]
<1>7. next_r = Ring(space, b, s1, q1)
    <2> HIDE DEF s1, q1
    <2> QED
        BY <1>2, <1>3, <1>5, <1>6 DEF Ring
<1> HIDE DEF next_r, s1, q1
<1> QED
    BY <1>4, <1>7 DEF next_r

---------------------------------------------------------------------------
(* Every step keeps the invariant.                                         *)

States == {"unsent", "queued", "running", "finished"}

\* A step that moves no block.
LEMMA Unmoved ==
    ASSUME Fresh \/ Launched, UNCHANGED <<space, next, jobs, run, WaitCount, log>>
    PROVE  Fresh' \/ Launched'
<1>1. ASSUME Fresh PROVE Fresh'
    BY <1>1 DEF Fresh
<1>2. ASSUME Launched PROVE Launched'
    <2>1. PICK st \in [Blocks(space) -> States], by \in [Blocks(space) -> Threads] : Placed(st, by)
        BY <1>2 DEF Launched, States
    <2>2. NextHolds(st)' /\ JobsHold(st, by)' /\ CountHolds(st)'
        BY <2>1 DEF Placed, NextHolds, JobsHold, CountHolds
    <2>3. RunsHold(st, by)'
        BY <2>1 DEF Placed, RunsHold
    <2>4. Executed(st, by)' = Executed(st, by)
        BY DEF Executed, Ran
    <2>5. LogHolds(st, by)'
        BY <2>1, <2>4 DEF Placed, LogHolds
    <2>6. SpaceFits(space, Len(space.global))'
        BY <1>2 DEF Launched, SpaceFits, IsSpace
    <2>7. /\ st \in [Blocks(space) -> {"unsent", "queued", "running", "finished"}]'
          /\ by \in [Blocks(space) -> Threads]'
        BY <2>1 DEF States
    <2> QED
        BY <2>2, <2>3, <2>5, <2>6, <2>7 DEF Launched, Placed
<1> QED
    BY <1>1, <1>2

\* The load of every worker was read: one of them is the least.
LEMMA LeastLoadedIs ==
    ASSUME LaunchKinds, LoadsHold, Len(loads) + 1 \notin Threads
    PROVE  LeastLoaded \in Threads
<1>1. PICK m \in Nat : m >= 1 /\ Threads = 1..m
    <2>1. PICK m \in Threads : Threads = 1..m
        BY DEF LaunchKinds
    <2>2. m \in Nat
        BY DEF LaunchKinds
    <2> QED
        BY <2>1, <2>2
<1>2. Len(loads) \in Nat /\ \A i \in 1..Len(loads) : i \in 1..m
    BY <1>1, LenProperties DEF LoadsHold
<1>3. Len(loads) = m
    <2>1. Len(loads) > 0 => Len(loads) \in 1..m
        BY <1>2
    <2>2. ~(Len(loads) + 1 \in 1..m)
        BY <1>1
    <2> QED
        BY <1>1, <1>2, <2>1, <2>2
<1>4. \A t \in Threads : loads[t] \in Nat
    BY <1>1, <1>3, ElementOfSeq DEF LoadsHold
<1> DEFINE T == {loads[t] : t \in Threads}
<1>5. PICK x \in T : \A y \in T : x <= y
    <2>1. T \in SUBSET Nat /\ T # {}
        BY <1>1, <1>4
    <2> HIDE DEF T
    <2> QED
        BY <2>1, LeastNumber
<1> DEFINE U == {t \in Threads : loads[t] = x}
<1>6. PICK t \in U : \A u \in U : t <= u
    <2>1. U \in SUBSET Nat /\ U # {}
        BY <1>1, <1>5
    <2> HIDE DEF U
    <2> QED
        BY <2>1, LeastNumber
<1> DEFINE Is(w) == /\ \A u \in Threads : loads[w] <= loads[u]
                    /\ \A u \in Threads : u < w => loads[u] > loads[w]
<1>7. t \in Threads /\ loads[t] = x /\ \A u \in Threads : loads[t] <= loads[u]
    BY <1>5, <1>6
<1>8. ASSUME NEW u \in Threads, u < t PROVE loads[u] > loads[t]
    <2>1. loads[u] # x
        BY <1>1, <1>6, <1>7, <1>8
    <2> QED
        BY <1>4, <1>7, <2>1
<1>9. Is(t)
    BY <1>7, <1>8
<1>10. LeastLoaded = CHOOSE w \in Threads : Is(w)
    BY DEF LeastLoaded
<1> HIDE DEF Is
<1> QED
    BY <1>7, <1>9, <1>10

\* Nothing is launched at first.
LEMMA InitHolds ==
    ASSUME Init PROVE LaunchInv
<1>1. LoadsHold
    <2>1. loads = <<>>
        BY DEF Init
    <2> QED
        BY <2>1 DEF LoadsHold
<1>2. Fresh
    BY DEF Init, Fresh
<1> QED
    BY <1>1, <1>2 DEF LaunchInv

\* The load of a worker is a number.
LEMMA ReadLoadKeeps ==
    ASSUME LaunchInv, ReadLoad PROVE LaunchInv'
<1>1. Launched
    BY DEF LaunchInv, Fresh, ReadLoad
<1> DEFINE t == Len(loads) + 1
<1>2. t \in Threads /\ loads' = Append(loads, Len(jobs[t])) /\ loads \in Seq(Nat)
    BY DEF ReadLoad, LaunchInv, LoadsHold
<1>3. Len(jobs[t]) \in Nat
    <2>1. PICK S : jobs \in [Threads -> Seq(S)]
        BY <1>1 DEF Launched, Placed, JobsHold
    <2> HIDE DEF t
    <2>2. jobs[t] \in Seq(S)
        BY <1>2, <2>1
    <2> QED
        BY <2>2, LenProperties
<1>4. LoadsHold'
    <2>1. loads' \in Seq(Nat) /\ Len(loads') = Len(loads) + 1 /\ Len(loads) \in Nat
        BY <1>2, <1>3, AppendProperties, LenProperties
    <2>2. ASSUME NEW i \in 1..Len(loads') PROVE i \in Threads
        <3>1. i \in 1..Len(loads) \/ i = t
            BY <2>1
        <3> QED
            BY <1>2, <3>1 DEF LaunchInv, LoadsHold
    <2> QED
        BY <2>1, <2>2 DEF LoadsHold
<1>5. Launched' \/ Fresh'
    BY Unmoved DEF ReadLoad, LaunchInv
<1> QED
    BY <1>4, <1>5 DEF LaunchInv

\* A call that is accepted finds every worker idle: what is not finished is
\* counted.
LEMMA AllFinished ==
    ASSUME LaunchKinds, Launched, WaitCount = 0, NEW st \in [Blocks(space) -> States], CountHolds(st)
    PROVE  \A b \in Blocks(space) : st[b] = "finished"
<1> DEFINE W == {b \in Blocks(space) : st[b] # "finished"}
<1>1. GroupsCount(space) \in Nat
    BY SpaceIs DEF Launched, SpaceFits
<1>2. IsFiniteSet(Blocks(space))
    BY <1>1, FS_Interval DEF Blocks
<1>3. IsFiniteSet(W)
    BY <1>2, FS_Subset
<1>4. Cardinality(W) = 0
    BY DEF CountHolds
<1>5. W = {}
    <2> HIDE DEF W
    <2> QED
        BY <1>3, <1>4, FS_EmptySet
<1> QED
    BY <1>5

\* A kernel that is accepted starts with all of its blocks unsent.
LEMMA EnqueueKeeps ==
    ASSUME LaunchKinds, LaunchInv, NEW c \in Calls, NEW stray \in Stray,
           EnqueueNDRangeKernel(c, stray)
    PROVE  LaunchInv'
<1>1. LoadsHold'
    BY DEF LaunchInv, LoadsHold, EnqueueNDRangeKernel
<1>2. ASSUME EnqueueAnswer(c) # Success PROVE Fresh' \/ Launched'
    <2>1. UNCHANGED <<space, next, jobs, run, WaitCount, log>>
        BY <1>2 DEF EnqueueNDRangeKernel
    <2> QED
        BY <2>1, Unmoved DEF LaunchInv
<1>3. jobs = [t \in Threads |-> <<>>] /\ run = [t \in Threads |-> Idle]
    <2>1. CASE Fresh
        BY <2>1 DEF Fresh
    <2>2. CASE Launched
        <3>1. PICK st \in [Blocks(space) -> States], by \in [Blocks(space) -> Threads] :
                  Placed(st, by)
            BY <2>2 DEF Launched, States
        <3>2. \A b \in Blocks(space) : st[b] = "finished"
            BY <2>2, <3>1, AllFinished DEF Placed, EnqueueNDRangeKernel
        <3>3. ASSUME NEW t \in Threads PROVE jobs[t] = <<>>
            <4> DEFINE S == {Block(space, b) : b \in Blocks(space)}
            <4>1. jobs[t] \in Seq(S)
                BY <3>1 DEF Placed, JobsHold
            <4> HIDE DEF S
            <4>2. Len(jobs[t]) \in Nat
                BY <4>1, LenProperties
            <4>3. ASSUME NEW j \in 1..Len(jobs[t]) PROVE FALSE
                BY <3>1, <3>2 DEF Placed, JobsHold
            <4>4. Len(jobs[t]) = 0
                BY <4>2, <4>3
            <4> QED
                BY <4>1, <4>4, EmptySeq
        <3>4. jobs = [t \in Threads |-> jobs[t]]
            BY <3>1 DEF Placed, JobsHold
        <3>5. \A t \in Threads : run[t] = Idle
            BY <3>1, <3>2 DEF Placed, RunsHold
        <3>6. run = [t \in Threads |-> run[t]]
            BY <3>1 DEF Placed, RunsHold
        <3>7. jobs = [t \in Threads |-> <<>>]
            BY <3>3, <3>4
        <3>8. run = [t \in Threads |-> Idle]
            BY <3>5, <3>6
        <3> QED
            BY <3>7, <3>8
    <2> QED
        BY <2>1, <2>2 DEF LaunchInv
<1>4. ASSUME EnqueueAnswer(c) = Success PROVE Launched'
    <2> DEFINE sp == SpaceOf(c, stray)
    <2>1. PICK n : n = c.dims
        OBVIOUS
    <2>2. SpaceFits(sp, n)
        BY <1>4, <2>1, SpaceOfIs
    <2>3. /\ space' = sp /\ next' = <<Begin(sp)>> /\ WaitCount' = GroupsCount(sp) /\ log' = <<>>
          /\ jobs' = [t \in Threads |-> <<>>] /\ run' = [t \in Threads |-> Idle]
        BY <1>3, <1>4 DEF EnqueueNDRangeKernel
    <2>4. IsSpace(sp, n) /\ Len(sp.global) = n /\ GroupSize(sp) \in Nat /\ GroupsCount(sp) \in Nat \ {0}
        BY <2>2, SpaceIs DEF SpaceFits
    <2> HIDE DEF sp
    <2>5. PICK t0 \in Threads : TRUE
        BY DEF LaunchKinds
    <2>6. PICK st : st = [b \in Blocks(sp) |-> "unsent"]
        OBVIOUS
    <2>7. PICK by : by = [b \in Blocks(sp) |-> t0]
        OBVIOUS
    <2>8. SpaceFits(space, Len(space.global))'
        BY <2>2, <2>3, <2>4 DEF SpaceFits, IsSpace
    <2>9. st \in [Blocks(sp) -> {"unsent", "queued", "running", "finished"}]
          /\ by \in [Blocks(sp) -> Threads]
        BY <2>6, <2>7
    <2>10. NextHolds(st)'
        <3>1. Begin(sp) = First(sp, 0)
            <4>1. 0 * GroupSize(sp) = 0
                BY <2>4
            <4> QED
                BY <2>4, <4>1, BeginIs DEF First
        <3>2. 0 \in 0..GroupsCount(sp) /\ 0 < GroupsCount(sp)
            BY <2>4
        <3>3. \A b \in Blocks(sp) : st[b] = "unsent" /\ 0 <= b
            BY <2>6 DEF Blocks
        <3> QED
            BY <2>3, <3>1, <3>2, <3>3 DEF NextHolds
    <2>11. JobsHold(st, by)'
        <3> DEFINE S == {Block(sp, b) : b \in Blocks(sp)}
        <3>1. <<>> \in Seq(S) /\ Len(<<>>) = 0
            BY EmptySeq
        <3>2. jobs' \in [Threads -> Seq(S)]
            <4> HIDE DEF S
            <4> QED
                BY <2>3, <3>1
        <3>3. \A t \in Threads : 1..Len(jobs'[t]) = {}
            BY <2>3, <3>1
        <3> QED
            BY <2>3, <3>2, <3>3 DEF JobsHold
    <2>12. RunsHold(st, by)'
        <3>1. run' = [t \in Threads |-> run'[t]] /\ \A t \in Threads : run'[t] = Idle
            BY <2>3
        <3> QED
            BY <2>3, <2>6, <3>1 DEF RunsHold
    <2>13. CountHolds(st)'
        <3>1. {b \in Blocks(sp) : st[b] # "finished"} = Blocks(sp)
            BY <2>6
        <3>2. Cardinality(Blocks(sp)) = GroupsCount(sp)
            <4> DEFINE g == GroupsCount(sp)
            <4> HIDE DEF g
            <4>1. g \in Nat \ {0} /\ Blocks(sp) = 0..(g - 1)
                BY <2>4 DEF Blocks, g
            <4>2. 0 \in Int /\ g - 1 \in Int
                BY <4>1
            <4>3. Cardinality(0..(g - 1)) = IF 0 > g - 1 THEN 0 ELSE g - 1 - 0 + 1
                BY <4>2, FS_Interval
            <4> QED
                BY <4>1, <4>3 DEF g
        <3> QED
            BY <2>3, <3>1, <3>2 DEF CountHolds
    <2>14. LogHolds(st, by)'
        <3>1. Executed(st, by)' = {}
            BY <2>3, <2>6 DEF Executed, Parts, Ran
        <3>2. <<>> = [d \in {} |-> 1]
            OBVIOUS
        <3>3. {Did(space, x) : x \in Executed(st, by)}' = {}
            BY <3>1
        <3> QED
            BY <2>3, <3>2, <3>3 DEF LogHolds
    <2>15. Placed(st, by)'
        BY <2>10, <2>11, <2>12, <2>13, <2>14 DEF Placed
    <2> QED
        BY <2>3, <2>8, <2>9, <2>15 DEF Launched
<1> QED
    BY <1>1, <1>2, <1>4 DEF LaunchInv

\* What a step that moves a block starts from.
LEMMA Start ==
    ASSUME LaunchInv, ~Fresh
    PROVE  \E n : /\ SpaceFits(space, n) /\ IsSpace(space, n) /\ n = Len(space.global)
                  /\ GroupSize(space) \in Nat \ {0} /\ GroupsCount(space) \in Nat \ {0}
                  /\ \E st \in [Blocks(space) -> States], by \in [Blocks(space) -> Threads] :
                         Placed(st, by)
BY SpaceIs DEF LaunchInv, Launched, SpaceFits, States

\* Where it arrives, if the space stays.
LEMMA Arrive ==
    ASSUME LaunchInv, ~Fresh, space' = space,
           NEW st \in [Blocks(space) -> States], NEW by \in [Blocks(space) -> Threads], Placed(st, by)'
    PROVE  Launched'
<1>1. SpaceFits(space, Len(space.global))'
    BY DEF LaunchInv, Launched, SpaceFits, IsSpace
<1>2. /\ st \in [Blocks(space) -> {"unsent", "queued", "running", "finished"}]'
      /\ by \in [Blocks(space) -> Threads]'
    BY DEF States
<1> QED
    BY <1>1, <1>2 DEF Launched

\* The next block is queued.
LEMMA SubmitKeeps ==
    ASSUME LaunchKinds, LaunchInv, SubmitBlock
    PROVE  LaunchInv'
<1>1. ~Fresh
    BY DEF Fresh, SubmitBlock
<1>2. PICK n : /\ SpaceFits(space, n) /\ IsSpace(space, n) /\ n = Len(space.global)
               /\ GroupSize(space) \in Nat \ {0} /\ GroupsCount(space) \in Nat \ {0}
               /\ \E st \in [Blocks(space) -> States], by \in [Blocks(space) -> Threads] :
                      Placed(st, by)
    BY <1>1, Start
<1>3. PICK st \in [Blocks(space) -> States], by \in [Blocks(space) -> Threads] : Placed(st, by)
    BY <1>2
<1>4. PICK k \in 0..GroupsCount(space) :
          /\ next = IF k < GroupsCount(space) THEN <<First(space, k)>> ELSE <<>>
          /\ \A b \in Blocks(space) : st[b] = "unsent" <=> k <= b
    BY <1>3 DEF Placed, NextHolds
<1>5. k \in Nat /\ k < GroupsCount(space) /\ next[1] = First(space, k) /\ k \in Blocks(space)
    <2>1. k < GroupsCount(space)
        BY <1>4 DEF SubmitBlock
    <2> QED
        BY <1>2, <1>4, <2>1 DEF Blocks
<1>6. PICK t \in Threads : t = LeastLoaded
    BY LeastLoadedIs DEF LaunchInv, SubmitBlock
<1>7. /\ jobs' = [jobs EXCEPT ![t] = Append(@, Block(space, k))]
      /\ next' = IF First(space, k + 1) = End(space) THEN <<>> ELSE <<First(space, k + 1)>>
      /\ loads' = <<>> /\ UNCHANGED <<space, run, WaitCount, log>>
    <2>1. Advance(space, First(space, k), GroupSize(space)) = First(space, k + 1)
        BY <1>2, <1>5, FirstIs
    <2> QED
        BY <1>5, <1>6, <2>1 DEF SubmitBlock, Block
<1>8. LoadsHold'
    BY <1>7 DEF LoadsHold
<1>9. st[k] = "unsent"
    BY <1>4, <1>5
<1>10. PICK st1 \in [Blocks(space) -> States] :
          st1[k] = "queued" /\ \A b \in Blocks(space) \ {k} : st1[b] = st[b]
    <2>1. [st EXCEPT ![k] = "queued"] \in [Blocks(space) -> States]
        BY DEF States
    <2> QED
        BY <1>5, <2>1
<1>11. PICK by1 \in [Blocks(space) -> Threads] :
          by1[k] = t /\ \A b \in Blocks(space) \ {k} : by1[b] = by[b]
    <2>1. [by EXCEPT ![k] = t] \in [Blocks(space) -> Threads]
        OBVIOUS
    <2> QED
        BY <1>5, <2>1
<1>12. NextHolds(st1)'
    <2> DEFINE m == k + 1
    <2>1. m \in 0..GroupsCount(space)
        BY <1>2, <1>5
    <2>2. First(space, m) = End(space) <=> ~(m < GroupsCount(space))
        <3> HIDE DEF m
        <3>1. First(space, m) = End(space) <=> m = GroupsCount(space)
            BY <1>2, <2>1, FirstIs
        <3> QED
            BY <1>2, <2>1, <3>1
    <2>3. next' = IF m < GroupsCount(space) THEN <<First(space, m)>> ELSE <<>>
        BY <1>7, <2>2
    <2>4. ASSUME NEW b \in Blocks(space) PROVE st1[b] = "unsent" <=> m <= b
        BY <1>2, <1>4, <1>5, <1>10 DEF Blocks
    <2> HIDE DEF m
    <2> QED
        BY <1>7, <2>1, <2>3, <2>4 DEF NextHolds
<1>13. JobsHold(st1, by1)'
    <2> DEFINE S == {Block(space, b) : b \in Blocks(space)}
               new == Block(space, k)
    <2>1. jobs \in [Threads -> Seq(S)] /\ new \in S
        BY <1>3, <1>5 DEF Placed, JobsHold
    <2>2. ASSUME NEW u \in Threads, NEW j \in 1..Len(jobs[u])
          PROVE  /\ \E b \in Blocks(space) :
                        jobs[u][j] = Block(space, b) /\ st1[b] = "queued" /\ by1[b] = u /\ b # k
                 /\ \A i \in 1..Len(jobs[u]) : jobs[u][i] = jobs[u][j] => i = j
                 /\ jobs[u][j] # new
        <3>1. PICK b \in Blocks(space) :
                  jobs[u][j] = Block(space, b) /\ st[b] = "queued" /\ by[b] = u
            BY <1>3 DEF Placed, JobsHold
        <3>2. b # k
            BY <1>9, <3>1
        <3>3. Block(space, b) # new
            <4>1. b \in 0..GroupsCount(space) /\ k \in 0..GroupsCount(space)
                BY <1>2 DEF Blocks
            <4>2. First(space, b) # First(space, k)
                BY <1>2, <3>2, <4>1, FirstDiffers
            <4> QED
                BY <4>2 DEF Block
        <3>4. \A i \in 1..Len(jobs[u]) : jobs[u][i] = jobs[u][j] => i = j
            BY <1>3 DEF Placed, JobsHold
        <3> QED
            BY <1>10, <1>11, <3>1, <3>2, <3>3, <3>4
    <2> HIDE DEF S, new
    <2>8. \A u \in Threads : \A j \in 1..Len(jobs[u]) :
              \E b \in Blocks(space) :
                  jobs[u][j] = Block(space, b) /\ st1[b] = "queued" /\ by1[b] = u /\ b # k
        BY <2>2
    <2>9. \A u \in Threads : \A i, j \in 1..Len(jobs[u]) : jobs[u][i] = jobs[u][j] => i = j
        BY <2>2
    <2>10. \A u \in Threads : \A j \in 1..Len(jobs[u]) : jobs[u][j] # new
        BY <2>2
    <2>3. jobs' = [jobs EXCEPT ![t] = Append(@, new)]
        BY <1>7 DEF new
    <2>4. /\ jobs'[t] \in Seq(S) /\ Len(jobs'[t]) = Len(jobs[t]) + 1 /\ Len(jobs[t]) \in Nat
          /\ \A j \in 1..Len(jobs[t]) : jobs'[t][j] = jobs[t][j]
          /\ jobs'[t][Len(jobs[t]) + 1] = new
        <3>1. jobs'[t] = Append(jobs[t], new) /\ jobs[t] \in Seq(S)
            BY <2>1, <2>3
        <3> QED
            BY <2>1, <3>1, AppendProperties, LenProperties
    <2>5. \A u \in Threads \ {t} : jobs'[u] = jobs[u]
        BY <2>1, <2>3
    <2>6. jobs' \in [Threads -> Seq(S)]
        BY <2>1, <2>3, <2>4
    <2>7. ASSUME NEW u \in Threads, NEW j \in 1..Len(jobs'[u])
          PROVE  /\ \E b \in Blocks(space) :
                        jobs'[u][j] = Block(space, b) /\ st1[b] = "queued" /\ by1[b] = u
                 /\ \A i \in 1..Len(jobs'[u]) : jobs'[u][i] = jobs'[u][j] => i = j
        <3>1. CASE u # t
            <4>1. jobs'[u] = jobs[u]
                BY <2>5, <3>1
            <4> QED
                BY <2>8, <2>9, <4>1
        <3>2. CASE u = t /\ j \in 1..Len(jobs[t])
            <4>1. jobs'[t][j] = jobs[t][j]
                BY <2>4, <3>2
            <4>2. \A i \in 1..Len(jobs'[t]) : i \in 1..Len(jobs[t]) \/ i = Len(jobs[t]) + 1
                BY <2>4
            <4>3. jobs[t][j] # new
                BY <2>10, <3>2
            <4>4. \A i \in 1..Len(jobs'[t]) : jobs'[t][i] = jobs'[t][j] => i = j
                BY <2>4, <2>9, <3>2, <4>1, <4>2, <4>3
            <4>5. \E b \in Blocks(space) :
                      jobs'[t][j] = Block(space, b) /\ st1[b] = "queued" /\ by1[b] = t
                BY <2>8, <3>2, <4>1
            <4> QED
                BY <3>2, <4>4, <4>5
        <3>3. CASE u = t /\ j = Len(jobs[t]) + 1
            <4>1. jobs'[t][j] = new
                BY <2>4, <3>3
            <4>2. \A i \in 1..Len(jobs'[t]) : i \in 1..Len(jobs[t]) \/ i = j
                BY <2>4, <3>3
            <4>3. \A i \in 1..Len(jobs[t]) : jobs'[t][i] # new
                BY <2>10, <2>4
            <4>4. new = Block(space, k) /\ st1[k] = "queued" /\ by1[k] = t
                BY <1>10, <1>11 DEF new
            <4> QED
                BY <1>5, <3>3, <4>1, <4>2, <4>3, <4>4
        <3>4. j \in 1..Len(jobs[t]) \/ j = Len(jobs[t]) + 1 \/ u # t
            BY <2>4
        <3> QED
            BY <3>1, <3>2, <3>3, <3>4
    <2> QED
        <3>1. (jobs \in [Threads -> Seq({Block(space, b) : b \in Blocks(space)})])'
            BY <1>7, <2>6 DEF S
        <3>2. \A u \in Threads : \A j \in 1..Len(jobs'[u]) :
                 /\ \E b \in Blocks(space') :
                        jobs'[u][j] = Block(space', b) /\ st1[b] = "queued" /\ by1[b] = u
                 /\ \A i \in 1..Len(jobs'[u]) : jobs'[u][i] = jobs'[u][j] => i = j
            BY <1>7, <2>7
        <3> QED
            BY <3>1, <3>2, Zenon DEF JobsHold
<1>14. RunsHold(st1, by1)'
    <2>1. \A b \in Blocks(space) : st1[b] = "running" <=> st[b] = "running"
        BY <1>9, <1>10
    <2>2. \A b \in Blocks(space) : st[b] = "running" => by1[b] = by[b]
        BY <1>9, <1>11
    <2>3. ASSUME NEW u \in Threads
          PROVE  \/ run[u] = Idle
                 \/ \E b \in Blocks(space) :
                        st1[b] = "running" /\ by1[b] = u /\ Executes(run[u], space, b)
        BY <1>3, <2>1, <2>2 DEF Placed, RunsHold
    <2>4. ASSUME NEW b \in Blocks(space), st1[b] = "running"
          PROVE  Executes(run[by1[b]], space, b)
        BY <1>3, <2>1, <2>2, <2>4 DEF Placed, RunsHold
    <2>5. run = [u \in Threads |-> run[u]]
        BY <1>3 DEF Placed, RunsHold
    <2> QED
        BY <1>7, <2>3, <2>4, <2>5 DEF RunsHold
<1>15. CountHolds(st1)'
    <2>1. {b \in Blocks(space) : st1[b] # "finished"} = {b \in Blocks(space) : st[b] # "finished"}
        BY <1>9, <1>10
    <2> QED
        BY <1>3, <1>7, <2>1 DEF Placed, CountHolds
<1>16. LogHolds(st1, by1)'
    <2>1. Executed(st1, by1)' = Executed(st, by)
        <3>1. ASSUME NEW x \in Parts(space)
              PROVE  x[1] \in Blocks(space) /\ x[2] \in 1..GroupSize(space) /\ x[3] \in 0..Barriers
            BY DEF Parts
        <3>2. ASSUME NEW b \in Blocks(space)
              PROVE  /\ st1[b] = "finished" <=> st[b] = "finished"
                     /\ st1[b] = "running" <=> st[b] = "running"
                     /\ st[b] = "running" => by1[b] = by[b]
            BY <1>9, <1>10, <1>11
        <3> QED
            BY <1>7, <3>1, <3>2 DEF Executed, Ran
    <2> QED
        BY <1>3, <1>7, <2>1 DEF Placed, LogHolds
<1>17. Placed(st1, by1)'
    BY <1>12, <1>13, <1>14, <1>15, <1>16 DEF Placed
<1> QED
    BY <1>1, <1>7, <1>8, <1>17, Arrive DEF LaunchInv

\* A queued block is started, on the first stack and in round 0.
LEMMA StartBlockKeeps ==
    ASSUME LaunchKinds, LaunchInv, NEW t \in Threads, StartBlock(t)
    PROVE  LaunchInv'
<1>1. ~Fresh
    BY DEF Fresh, StartBlock
<1>2. PICK n : /\ SpaceFits(space, n) /\ IsSpace(space, n) /\ n = Len(space.global)
               /\ GroupSize(space) \in Nat \ {0} /\ GroupsCount(space) \in Nat \ {0}
               /\ \E st \in [Blocks(space) -> States], by \in [Blocks(space) -> Threads] :
                      Placed(st, by)
    BY <1>1, Start
<1>3. PICK st \in [Blocks(space) -> States], by \in [Blocks(space) -> Threads] : Placed(st, by)
    BY <1>2
<1> DEFINE S == {Block(space, b) : b \in Blocks(space)}
<1>4. jobs \in [Threads -> Seq(S)] /\ jobs[t] \in Seq(S) /\ jobs[t] # <<>> /\ ~run[t].active
    BY <1>3 DEF Placed, JobsHold, StartBlock
<1>5. /\ Len(jobs[t]) \in Nat \ {0} /\ Head(jobs[t]) = jobs[t][1]
      /\ Tail(jobs[t]) \in Seq(S) /\ Len(Tail(jobs[t])) = Len(jobs[t]) - 1
      /\ \A j \in 1..Len(Tail(jobs[t])) : Tail(jobs[t])[j] = jobs[t][j + 1]
    <2> HIDE DEF S
    <2> QED
        BY <1>4, EmptySeq, HeadTailProperties
<1>6. PICK k \in Blocks(space) : jobs[t][1] = Block(space, k) /\ st[k] = "queued" /\ by[k] = t
    <2>1. 1 \in 1..Len(jobs[t])
        BY <1>5
    <2> QED
        BY <1>3, <2>1 DEF Placed, JobsHold
<1>7. /\ jobs' = [jobs EXCEPT ![t] = Tail(@)] /\ run' = [run EXCEPT ![t] = Ring(space, k, 1, 0)]
      /\ UNCHANGED <<space, next, loads, WaitCount, log>>
    <2>1. Head(jobs[t]).begin = First(space, k) /\ Head(jobs[t]).end = First(space, k + 1)
        BY <1>5, <1>6 DEF Block
    <2>2. At(space, Nth(space, k, 1)) = First(space, k)
        <3>1. k * GroupSize(space) + (1 - 1) = k * GroupSize(space)
            BY <1>2 DEF Blocks
        <3> QED
            BY <3>1 DEF Nth, First
    <2>3. [i \in 1..GroupSize(space) |-> 0] =
              [i \in 1..GroupSize(space) |-> IF i < 1 THEN 0 + 1 ELSE 0]
        BY <1>2
    <2> QED
        BY <2>1, <2>2, <2>3 DEF StartBlock, Ring
<1>8. PICK st1 \in [Blocks(space) -> States] :
          st1[k] = "running" /\ \A b \in Blocks(space) \ {k} : st1[b] = st[b]
    <2>1. [st EXCEPT ![k] = "running"] \in [Blocks(space) -> States]
        BY DEF States
    <2> QED
        BY <1>6, <2>1
<1>9. NextHolds(st1)'
    <2>1. \A b \in Blocks(space) : st1[b] = "unsent" <=> st[b] = "unsent"
        BY <1>6, <1>8
    <2> QED
        BY <1>3, <1>7, <2>1 DEF Placed, NextHolds
<1>10. JobsHold(st1, by)'
    <2> HIDE DEF S
    <2>1. jobs' \in [Threads -> Seq(S)] /\ jobs'[t] = Tail(jobs[t])
          /\ \A u \in Threads \ {t} : jobs'[u] = jobs[u]
        BY <1>4, <1>5, <1>7
    <2>2. \A u \in Threads : \A j \in 1..Len(jobs[u]) :
              \E b \in Blocks(space) : jobs[u][j] = Block(space, b) /\ st[b] = "queued" /\ by[b] = u
        BY <1>3 DEF Placed, JobsHold
    <2>3. \A u \in Threads : \A i, j \in 1..Len(jobs[u]) : jobs[u][i] = jobs[u][j] => i = j
        BY <1>3 DEF Placed, JobsHold
    <2>4. ASSUME NEW u \in Threads, NEW j \in 1..Len(jobs'[u])
          PROVE  /\ \E b \in Blocks(space) :
                        jobs'[u][j] = Block(space, b) /\ st1[b] = "queued" /\ by[b] = u
                 /\ \A i \in 1..Len(jobs'[u]) : jobs'[u][i] = jobs'[u][j] => i = j
        <3>1. CASE u # t
            <4>1. jobs'[u] = jobs[u]
                BY <2>1, <3>1
            <4>2. PICK b \in Blocks(space) :
                      jobs[u][j] = Block(space, b) /\ st[b] = "queued" /\ by[b] = u
                BY <2>2, <4>1
            <4>3. st1[b] = "queued"
                BY <1>6, <1>8, <3>1, <4>2
            <4> QED
                BY <2>3, <4>1, <4>2, <4>3
        <3>2. CASE u = t
            <4>1. \A i \in 1..Len(jobs'[t]) : i + 1 \in 1..Len(jobs[t]) /\ i + 1 # 1
                BY <1>5, <2>1
            <4>2. j \in 1..Len(jobs'[t]) /\ 1 \in 1..Len(jobs[t])
                BY <1>5, <3>2
            <4>3. \A i \in 1..Len(jobs'[t]) : jobs'[t][i] = jobs[t][i + 1]
                BY <1>5, <2>1
            <4>4. PICK b \in Blocks(space) :
                      jobs[t][j + 1] = Block(space, b) /\ st[b] = "queued" /\ by[b] = t
                BY <2>2, <4>1, <4>2
            <4>5. b # k
                <5>1. jobs[t][j + 1] # jobs[t][1]
                    BY <2>3, <4>1, <4>2
                <5> QED
                    BY <1>6, <4>4, <5>1
            <4>6. st1[b] = "queued" /\ jobs'[t][j] = Block(space, b)
                BY <1>8, <4>2, <4>3, <4>4, <4>5
            <4>7. ASSUME NEW i \in 1..Len(jobs'[t]), jobs'[t][i] = jobs'[t][j] PROVE i = j
                <5>1. jobs[t][i + 1] = jobs[t][j + 1]
                    BY <4>2, <4>3, <4>7
                <5>2. i + 1 = j + 1
                    BY <2>3, <4>1, <4>2, <5>1
                <5> QED
                    BY <4>2, <5>2
            <4> QED
                BY <3>2, <4>4, <4>6, <4>7
        <3> QED
            BY <3>1, <3>2
    <2>5. (jobs \in [Threads -> Seq({Block(space, b) : b \in Blocks(space)})])'
        BY <1>7, <2>1 DEF S
    <2>6. \A u \in Threads : \A j \in 1..Len(jobs'[u]) :
             /\ \E b \in Blocks(space') :
                    jobs'[u][j] = Block(space', b) /\ st1[b] = "queued" /\ by[b] = u
             /\ \A i \in 1..Len(jobs'[u]) : jobs'[u][i] = jobs'[u][j] => i = j
        <3>1. space' = space
            BY <1>7
        <3> QED
            BY <2>4, <3>1
    <2> QED
        BY <2>5, <2>6, Zenon DEF JobsHold
<1>11. run = [u \in Threads |-> run[u]]
    BY <1>3 DEF Placed, RunsHold
<1>12. run' = [u \in Threads |-> run'[u]] /\ run'[t] = Ring(space, k, 1, 0)
       /\ \A u \in Threads \ {t} : run'[u] = run[u]
    BY <1>7, <1>11
<1>13. \A b \in Blocks(space) : st[b] = "running" => by[b] # t
    <2> SUFFICES ASSUME NEW b \in Blocks(space), st[b] = "running", by[b] = t PROVE FALSE
        OBVIOUS
    <2>1. PICK x \in Rounds(space) : run[t] = Ring(space, b, x[1], x[2])
        BY <1>3 DEF Placed, RunsHold, Executes
    <2>2. run[t].active
        BY <2>1 DEF Ring
    <2> QED
        BY <1>4, <2>2
<1>14. RunsHold(st1, by)'
    <2>1. Executes(run'[t], space, k)
        <3>1. <<1, 0>> \in Rounds(space)
            BY <1>2 DEF Rounds, LaunchKinds
        <3> QED
            BY <1>12, <3>1 DEF Executes
    <2>2. ASSUME NEW u \in Threads
          PROVE  \/ run'[u] = Idle
                 \/ \E b \in Blocks(space) :
                        st1[b] = "running" /\ by[b] = u /\ Executes(run'[u], space, b)
        <3>1. CASE u = t
            BY <1>6, <1>8, <2>1, <3>1
        <3>2. CASE u # t
            <4>1. run'[u] = run[u]
                BY <1>12, <3>2
            <4>2. \A b \in Blocks(space) : st[b] = "running" => st1[b] = "running"
                BY <1>8
            <4> QED
                BY <1>3, <4>1, <4>2 DEF Placed, RunsHold
        <3> QED
            BY <3>1, <3>2
    <2>3. ASSUME NEW b \in Blocks(space), st1[b] = "running"
          PROVE  Executes(run'[by[b]], space, b)
        <3>1. CASE b = k
            BY <1>6, <2>1, <3>1
        <3>2. CASE b # k
            <4>1. st[b] = "running"
                BY <1>8, <2>3, <3>2
            <4>2. run'[by[b]] = run[by[b]]
                BY <1>12, <1>13, <4>1
            <4> QED
                BY <1>3, <4>1, <4>2 DEF Placed, RunsHold
        <3> QED
            BY <3>1, <3>2
    <2> QED
        BY <1>7, <1>12, <2>2, <2>3 DEF RunsHold
<1>15. CountHolds(st1)'
    <2>1. {b \in Blocks(space) : st1[b] # "finished"} = {b \in Blocks(space) : st[b] # "finished"}
        BY <1>6, <1>8
    <2> QED
        BY <1>3, <1>7, <2>1 DEF Placed, CountHolds
<1>16. LogHolds(st1, by)'
    <2>1. ASSUME NEW x \in Parts(space)
          PROVE  Ran(st1, by, x)' <=> Ran(st, by, x)
        <3>1. x[1] \in Blocks(space) /\ x[2] \in 1..GroupSize(space) /\ x[3] \in Nat
            BY DEF Parts, LaunchKinds
        <3>2. CASE x[1] = k
            <4>1. run'[by[k]].part[x[2]] = 0
                BY <1>2, <1>6, <1>12, <3>1 DEF Ring
            <4>2. st1[k] = "running" /\ st[k] = "queued" /\ ~(0 > x[3])
                BY <1>6, <1>8, <3>1
            <4>3. ~Ran(st, by, x)
                BY <3>2, <4>2 DEF Ran
            <4>4. ~Ran(st1, by, x)'
                BY <3>2, <4>1, <4>2 DEF Ran
            <4> QED
                BY <4>3, <4>4
        <3>3. CASE x[1] # k
            <4>1. st1[x[1]] = st[x[1]]
                BY <1>8, <3>1, <3>3
            <4>2. st[x[1]] = "running" => run'[by[x[1]]] = run[by[x[1]]]
                BY <1>12, <1>13, <3>1
            <4> QED
                BY <4>1, <4>2 DEF Ran
        <3> QED
            BY <3>2, <3>3
    <2>2. Executed(st1, by)' = Executed(st, by)
        <3>1. space' = space
            BY <1>7
        <3> QED
            BY <2>1, <3>1 DEF Executed
    <2> QED
        BY <1>3, <1>7, <2>2 DEF Placed, LogHolds
<1>17. Placed(st1, by)'
    BY <1>9, <1>10, <1>14, <1>15, <1>16 DEF Placed
<1>18. LoadsHold'
    BY <1>7 DEF LaunchInv, LoadsHold
<1> QED
    BY <1>1, <1>7, <1>17, <1>18, Arrive DEF LaunchInv

\* The block of a worker that is active.
LEMMA ActiveIs ==
    ASSUME NEW t \in Threads, run[t].active,
           NEW st \in [Blocks(space) -> States], NEW by \in [Blocks(space) -> Threads], RunsHold(st, by)
    PROVE  \E k \in Blocks(space), s \in 1..GroupSize(space), q \in 0..(Barriers + 1) :
               /\ st[k] = "running" /\ by[k] = t /\ run[t] = Ring(space, k, s, q)
               /\ (q = Barriers + 1 => s = 1)
<1>1. run[t] # Idle
    BY DEF Idle
<1>2. PICK k \in Blocks(space) : st[k] = "running" /\ by[k] = t /\ Executes(run[t], space, k)
    BY <1>1 DEF RunsHold
<1>3. PICK x \in Rounds(space) : run[t] = Ring(space, k, x[1], x[2])
    BY <1>2 DEF Executes
<1>4. x[1] \in 1..GroupSize(space) /\ x[2] \in 0..(Barriers + 1) /\ (x[2] = Barriers + 1 => x[1] = 1)
    BY DEF Rounds
<1> QED
    BY <1>2, <1>3, <1>4

\* No other running block is at the same worker.
LEMMA OneEach ==
    ASSUME NEW n, IsSpace(space, n), NEW st, NEW by, RunsHold(st, by), NEW t,
           NEW k \in Blocks(space), NEW s, NEW q, run[t] = Ring(space, k, s, q),
           NEW b \in Blocks(space), st[b] = "running", by[b] = t
    PROVE  b = k
<1>1. PICK x \in Rounds(space) : run[t] = Ring(space, b, x[1], x[2])
    BY DEF RunsHold, Executes
<1>2. First(space, b) = First(space, k)
    BY <1>1 DEF Ring
<1>3. b \in 0..GroupsCount(space) /\ k \in 0..GroupsCount(space)
    BY SpaceIs DEF Blocks
<1> QED
    BY <1>2, <1>3, FirstDiffers

\* A work-item reaches its barrier: one part of one work-item is logged, that
\* was not before.
LEMMA RunKeeps ==
    ASSUME LaunchKinds, LaunchInv, NEW t \in Threads, RunToBarrier(t)
    PROVE  LaunchInv'
<1>1. ~Fresh
    BY DEF Fresh, RunToBarrier, Idle
<1>2. PICK n : /\ SpaceFits(space, n) /\ IsSpace(space, n) /\ n = Len(space.global)
               /\ GroupSize(space) \in Nat \ {0} /\ GroupsCount(space) \in Nat \ {0}
               /\ \E st \in [Blocks(space) -> States], by \in [Blocks(space) -> Threads] :
                      Placed(st, by)
    BY <1>1, Start
<1>3. PICK st \in [Blocks(space) -> States], by \in [Blocks(space) -> Threads] : Placed(st, by)
    BY <1>2
<1>4. PICK k \in Blocks(space), s \in 1..GroupSize(space), q \in 0..(Barriers + 1) :
          st[k] = "running" /\ by[k] = t /\ run[t] = Ring(space, k, s, q)
    BY <1>3, ActiveIs DEF Placed, RunToBarrier
<1>0. \A b \in Blocks(space) : st[b] = "running" /\ b # k => by[b] # t
    <2>1. RunsHold(st, by) /\ IsSpace(space, n) /\ run[t] = Ring(space, k, s, q)
        BY <1>2, <1>3, <1>4 DEF Placed
    <2> SUFFICES ASSUME NEW b \in Blocks(space), st[b] = "running", by[b] = t PROVE b = k
        OBVIOUS
    <2> QED
        BY <2>1, OneEach
<1> DEFINE r == run[t]
           x0 == <<k, s, q>>
           did == <<GlobalId(space, r.cur), r.part[r.stack]>>
           so_far == IF did \in DOMAIN log THEN log[did] ELSE 0
<1>5. Barriers \in Nat
    BY DEF LaunchKinds
<1>6. /\ r.cur = At(space, Nth(space, k, s)) /\ r.stack = s
      /\ r.part = [i \in 1..GroupSize(space) |-> IF i < s THEN q + 1 ELSE q] /\ r.part[s] = q
    BY <1>2, <1>4 DEF Ring
<1>7. q \in 0..Barriers
    BY <1>5, <1>6 DEF RunToBarrier
<1>8. did = Did(space, x0) /\ x0 \in Parts(space)
    BY <1>6, <1>7 DEF Did, Parts
<1>9. /\ log' = [d \in DOMAIN log \cup {did} |-> IF d = did THEN so_far + 1 ELSE log[d]]
      /\ run' = [run EXCEPT ![t] =
              [active |-> TRUE, begin |-> r.begin, end |-> r.end,
               cur   |-> NextItem(r),
               stack |-> Link(GroupSize(space))[r.stack],
               part  |-> [r.part EXCEPT ![r.stack] = @ + 1]]]
      /\ UNCHANGED <<space, next, loads, jobs, WaitCount>>
    BY DEF RunToBarrier
<1>10. PICK x \in Rounds(space) :
          [active |-> TRUE, begin |-> r.begin, end |-> r.end, cur |-> NextItem(r),
           stack |-> Link(GroupSize(space))[r.stack],
           part |-> [r.part EXCEPT ![r.stack] = @ + 1]] = Ring(space, k, x[1], x[2])
    BY <1>2, <1>4, <1>5, <1>7, RingIs
<1>11. run = [u \in Threads |-> run[u]]
    BY <1>3 DEF Placed, RunsHold
<1>12. /\ run' = [u \in Threads |-> run'[u]] /\ run'[t] = Ring(space, k, x[1], x[2])
       /\ \A u \in Threads \ {t} : run'[u] = run[u]
       /\ run'[t].part = [r.part EXCEPT ![s] = @ + 1]
    <2> DEFINE new == [active |-> TRUE, begin |-> r.begin, end |-> r.end, cur |-> NextItem(r),
                       stack |-> Link(GroupSize(space))[r.stack],
                       part |-> [r.part EXCEPT ![r.stack] = @ + 1]]
    <2>1. new.part = [r.part EXCEPT ![s] = @ + 1] /\ new = Ring(space, k, x[1], x[2])
        BY <1>6, <1>10
    <2>2. run' = [run EXCEPT ![t] = new]
        BY <1>9
    <2> HIDE DEF new, r
    <2> QED
        BY <1>11, <2>1, <2>2
<1>14. RunsHold(st, by)'
    <2>1. Executes(run'[t], space, k)
        BY <1>12 DEF Executes
    <2>2. ASSUME NEW u \in Threads
          PROVE  \/ run'[u] = Idle
                 \/ \E b \in Blocks(space) :
                        st[b] = "running" /\ by[b] = u /\ Executes(run'[u], space, b)
        <3>1. CASE u = t
            BY <1>4, <2>1, <3>1
        <3>2. CASE u # t
            <4>1. run'[u] = run[u]
                BY <1>12, <3>2
            <4> QED
                BY <1>3, <4>1 DEF Placed, RunsHold
        <3> QED
            BY <3>1, <3>2
    <2>3. ASSUME NEW b \in Blocks(space), st[b] = "running"
          PROVE  Executes(run'[by[b]], space, b)
        <3>1. CASE b = k
            BY <1>4, <2>1, <3>1
        <3>2. CASE b # k
            <4>1. run'[by[b]] = run[by[b]]
                BY <1>12, <1>0, <2>3, <3>2
            <4> QED
                BY <1>3, <2>3, <4>1 DEF Placed, RunsHold
        <3> QED
            BY <3>1, <3>2
    <2>4. space' = space
        BY <1>9
    <2> QED
        BY <1>12, <2>2, <2>3, <2>4 DEF RunsHold
<1>15. ASSUME NEW x1 \in Parts(space)
       PROVE  Ran(st, by, x1)' <=> Ran(st, by, x1) \/ x1 = x0
    <2>1. /\ x1[1] \in Blocks(space) /\ x1[2] \in 1..GroupSize(space) /\ x1[3] \in 0..Barriers
          /\ x1 = <<x1[1], x1[2], x1[3]>>
        BY DEF Parts
    <2>2. CASE x1[1] = k /\ x1[2] = s
        <3>1. run'[by[k]].part[s] = q + 1
            BY <1>4, <1>6, <1>12
        <3>2. run[by[k]].part[s] = q
            BY <1>4, <1>6
        <3>3. q + 1 > x1[3] <=> q > x1[3] \/ x1[3] = q
            BY <1>5, <1>7, <2>1
        <3>4. x1 = x0 <=> x1[3] = q
            BY <2>1, <2>2
        <3>5. Ran(st, by, x1)' <=> q + 1 > x1[3]
            BY <1>4, <2>2, <3>1 DEF Ran
        <3>6. Ran(st, by, x1) <=> q > x1[3]
            BY <1>4, <2>2, <3>2 DEF Ran
        <3> QED
            BY <3>3, <3>4, <3>5, <3>6
    <2>3. CASE x1[1] = k /\ x1[2] # s
        <3>1. run'[by[k]].part[x1[2]] = run[by[k]].part[x1[2]]
            BY <1>4, <1>6, <1>12, <2>1, <2>3
        <3>2. x1 # x0
            BY <2>3
        <3> QED
            BY <2>3, <3>1, <3>2 DEF Ran
    <2>4. CASE x1[1] # k
        <3>1. st[x1[1]] = "running" => run'[by[x1[1]]] = run[by[x1[1]]]
            BY <1>12, <1>0, <2>1, <2>4
        <3>2. x1 # x0
            BY <2>4
        <3> QED
            BY <3>1, <3>2 DEF Ran
    <2> QED
        BY <2>2, <2>3, <2>4
<1>16. Executed(st, by)' = Executed(st, by) \cup {x0}
    <2>1. space' = space
        BY <1>9
    <2> QED
        BY <1>8, <1>15, <2>1 DEF Executed
<1>17. did \notin DOMAIN log
    <2>1. log = [d \in {Did(space, y) : y \in Executed(st, by)} |-> 1]
        BY <1>3 DEF Placed, LogHolds
    <2>2. ASSUME NEW y \in Executed(st, by), Did(space, y) = did PROVE FALSE
        <3>1. y \in Parts(space) /\ Ran(st, by, y)
            BY DEF Executed
        <3>2. y = x0
            BY <1>2, <1>8, <2>2, <3>1, DidDiffers
        <3>3. run[by[k]].part[s] = q
            BY <1>4, <1>6
        <3>4. ~(q > q)
            BY <1>7, <1>5
        <3> QED
            BY <1>4, <3>1, <3>2, <3>3, <3>4 DEF Ran
    <2> QED
        BY <2>1, <2>2
<1>18. LogHolds(st, by)'
    <2> DEFINE D == {Did(space, y) : y \in Executed(st, by)}
               D1 == {Did(space, y) : y \in Executed(st, by) \cup {x0}}
    <2>1. log = [d \in D |-> 1]
        BY <1>3 DEF Placed, LogHolds
    <2>2. D1 = D \cup {did}
        BY <1>8
    <2>3. so_far = 0
        BY <1>17
    <2> HIDE DEF D, D1, did, so_far
    <2>4. log' = [d \in D1 |-> 1]
        BY <1>9, <2>1, <2>2, <2>3
    <2>5. space' = space
        BY <1>9
    <2> QED
        BY <1>16, <2>4, <2>5 DEF LogHolds, D1
<1>19. NextHolds(st)' /\ CountHolds(st)' /\ JobsHold(st, by)'
    <2>1. UNCHANGED <<space, next, jobs, WaitCount>>
        BY <1>9
    <2>2. NextHolds(st)'
        BY <1>3, <2>1 DEF Placed, NextHolds
    <2>3. CountHolds(st)'
        BY <1>3, <2>1 DEF Placed, CountHolds
    <2>4. JobsHold(st, by)'
        BY <1>3, <2>1 DEF Placed, JobsHold
    <2> QED
        BY <2>2, <2>3, <2>4
<1>20. Placed(st, by)'
    BY <1>14, <1>18, <1>19 DEF Placed
<1>21. LoadsHold'
    BY <1>9 DEF LaunchInv, LoadsHold
<1> QED
    BY <1>1, <1>9, <1>20, <1>21, Arrive DEF LaunchInv

\* A block whose work-items have executed all parts is finished.
LEMMA EndKeeps ==
    ASSUME LaunchKinds, LaunchInv, NEW t \in Threads, EndBlock(t)
    PROVE  LaunchInv'
<1>1. ~Fresh
    BY DEF Fresh, EndBlock, Idle
<1>2. PICK n : /\ SpaceFits(space, n) /\ IsSpace(space, n) /\ n = Len(space.global)
               /\ GroupSize(space) \in Nat \ {0} /\ GroupsCount(space) \in Nat \ {0}
               /\ \E st \in [Blocks(space) -> States], by \in [Blocks(space) -> Threads] :
                      Placed(st, by)
    BY <1>1, Start
<1>3. PICK st \in [Blocks(space) -> States], by \in [Blocks(space) -> Threads] : Placed(st, by)
    BY <1>2
<1>4. PICK k \in Blocks(space), s \in 1..GroupSize(space), q \in 0..(Barriers + 1) :
          st[k] = "running" /\ by[k] = t /\ run[t] = Ring(space, k, s, q)
    BY <1>3, ActiveIs DEF Placed, EndBlock
<1>5. Barriers \in Nat
    BY DEF LaunchKinds
<1>6. /\ s = 1 /\ q = Barriers + 1
      /\ \A i \in 1..GroupSize(space) : run[t].part[i] = Barriers + 1
    <2>1. run[t].stack = s /\ run[t].part = [i \in 1..GroupSize(space) |-> IF i < s THEN q + 1 ELSE q]
        BY <1>4 DEF Ring
    <2>2. s = 1 /\ run[t].part[1] = Barriers + 1
        BY <2>1 DEF EndBlock
    <2>3. \A i \in 1..GroupSize(space) : run[t].part[i] = q
        BY <1>2, <2>1, <2>2
    <2>4. 1 \in 1..GroupSize(space)
        BY <1>2
    <2> QED
        BY <2>2, <2>3, <2>4
<1>7. run' = [run EXCEPT ![t] = Idle] /\ WaitCount' = WaitCount - 1
      /\ UNCHANGED <<space, next, loads, jobs, log>>
    BY DEF EndBlock
<1>8. PICK st1 \in [Blocks(space) -> States] :
          st1[k] = "finished" /\ \A b \in Blocks(space) \ {k} : st1[b] = st[b]
    <2>1. [st EXCEPT ![k] = "finished"] \in [Blocks(space) -> States]
        BY DEF States
    <2> QED
        BY <2>1
<1>9. NextHolds(st1)'
    <2>1. \A b \in Blocks(space) : st1[b] = "unsent" <=> st[b] = "unsent"
        BY <1>4, <1>8
    <2> QED
        BY <1>3, <1>7, <2>1 DEF Placed, NextHolds
<1>10. JobsHold(st1, by)'
    <2>1. \A b \in Blocks(space) : st[b] = "queued" => st1[b] = "queued"
        BY <1>4, <1>8
    <2>2. ASSUME NEW u \in Threads, NEW j \in 1..Len(jobs[u])
          PROVE  /\ \E b \in Blocks(space) :
                        jobs[u][j] = Block(space, b) /\ st1[b] = "queued" /\ by[b] = u
                 /\ \A i \in 1..Len(jobs[u]) : jobs[u][i] = jobs[u][j] => i = j
        BY <1>3, <2>1 DEF Placed, JobsHold
    <2>3. jobs \in [Threads -> Seq({Block(space, b) : b \in Blocks(space)})]
        BY <1>3 DEF Placed, JobsHold
    <2>4. space' = space /\ jobs' = jobs
        BY <1>7
    <2> QED
        BY <2>2, <2>3, <2>4 DEF JobsHold
<1>11. run = [u \in Threads |-> run[u]]
    BY <1>3 DEF Placed, RunsHold
<1>12. /\ run' = [u \in Threads |-> run'[u]] /\ run'[t] = Idle
       /\ \A u \in Threads \ {t} : run'[u] = run[u]
    BY <1>7, <1>11
<1>13. \A b \in Blocks(space) : st[b] = "running" /\ b # k => by[b] # t
    <2>1. RunsHold(st, by) /\ IsSpace(space, n) /\ run[t] = Ring(space, k, s, q)
        BY <1>2, <1>3, <1>4 DEF Placed
    <2> SUFFICES ASSUME NEW b \in Blocks(space), st[b] = "running", by[b] = t PROVE b = k
        OBVIOUS
    <2> QED
        BY <2>1, OneEach
<1>14. RunsHold(st1, by)'
    <2>1. ASSUME NEW u \in Threads
          PROVE  \/ run'[u] = Idle
                 \/ \E b \in Blocks(space) :
                        st1[b] = "running" /\ by[b] = u /\ Executes(run'[u], space, b)
        <3>1. CASE u = t
            BY <1>12, <3>1
        <3>2. CASE u # t
            <4>1. run'[u] = run[u]
                BY <1>12, <3>2
            <4>2. \A b \in Blocks(space) : st[b] = "running" /\ by[b] = u => st1[b] = "running"
                BY <1>4, <1>8, <3>2
            <4> QED
                BY <1>3, <4>1, <4>2 DEF Placed, RunsHold
        <3> QED
            BY <3>1, <3>2
    <2>2. ASSUME NEW b \in Blocks(space), st1[b] = "running"
          PROVE  Executes(run'[by[b]], space, b)
        <3>1. b # k /\ st[b] = "running"
            BY <1>8, <2>2
        <3>2. run'[by[b]] = run[by[b]]
            BY <1>12, <1>13, <3>1
        <3> QED
            BY <1>3, <3>1, <3>2 DEF Placed, RunsHold
    <2>3. space' = space
        BY <1>7
    <2> QED
        BY <1>12, <2>1, <2>2, <2>3 DEF RunsHold
<1>15. CountHolds(st1)'
    <2> DEFINE W == {b \in Blocks(space) : st[b] # "finished"}
               W1 == {b \in Blocks(space) : st1[b] # "finished"}
    <2>1. W1 = W \ {k} /\ k \in W
        BY <1>4, <1>8
    <2>2. IsFiniteSet(W)
        <3>1. IsFiniteSet(Blocks(space))
            BY <1>2, FS_Interval DEF Blocks
        <3> QED
            BY <3>1, FS_Subset
    <2>3. WaitCount = Cardinality(W)
        BY <1>3 DEF Placed, CountHolds
    <2> HIDE DEF W
    <2>4. Cardinality(W \ {k}) = Cardinality(W) - 1
        BY <2>1, <2>2, FS_RemoveElement
    <2>5. WaitCount' = Cardinality(W1) /\ space' = space
        BY <1>7, <2>1, <2>3, <2>4
    <2> QED
        BY <2>5 DEF CountHolds
<1>16. LogHolds(st1, by)'
    <2>1. ASSUME NEW x \in Parts(space) PROVE Ran(st1, by, x)' <=> Ran(st, by, x)
        <3>1. x[1] \in Blocks(space) /\ x[2] \in 1..GroupSize(space) /\ x[3] \in 0..Barriers
            BY DEF Parts
        <3>2. CASE x[1] = k
            <4>1. run[by[k]].part[x[2]] = Barriers + 1
                BY <1>4, <1>6, <3>1
            <4>2. Barriers + 1 > x[3]
                BY <1>5, <3>1
            <4>3. Ran(st, by, x)
                BY <1>4, <3>2, <4>1, <4>2 DEF Ran
            <4>4. Ran(st1, by, x)'
                BY <1>8, <3>2 DEF Ran
            <4> QED
                BY <4>3, <4>4
        <3>3. CASE x[1] # k
            <4>1. st1[x[1]] = st[x[1]]
                BY <1>8, <3>1, <3>3
            <4>2. st[x[1]] = "running" => run'[by[x[1]]] = run[by[x[1]]]
                BY <1>12, <1>13, <3>1, <3>3
            <4> QED
                BY <4>1, <4>2 DEF Ran
        <3> QED
            BY <3>2, <3>3
    <2>2. Executed(st1, by)' = Executed(st, by)
        <3>1. space' = space
            BY <1>7
        <3> QED
            BY <2>1, <3>1 DEF Executed
    <2> QED
        BY <1>3, <1>7, <2>2 DEF Placed, LogHolds
<1>17. Placed(st1, by)'
    BY <1>9, <1>10, <1>14, <1>15, <1>16 DEF Placed
<1>18. LoadsHold'
    BY <1>7 DEF LaunchInv, LoadsHold
<1> QED
    BY <1>1, <1>7, <1>17, <1>18, Arrive DEF LaunchInv

\* Nothing happens.
LEMMA StutterKeeps ==
    ASSUME LaunchInv, UNCHANGED vars PROVE LaunchInv'
<1>1. Fresh' \/ Launched'
    BY Unmoved DEF LaunchInv, vars
<1>2. LoadsHold'
    BY DEF LaunchInv, LoadsHold, vars
<1> QED
    BY <1>1, <1>2 DEF LaunchInv

\* Each block is in one place, its ring in step with its iterator, and what
\* was executed is logged once.
THEOREM Blocks_In_One_Place ==
    ASSUME LaunchKinds PROVE Spec => []LaunchInv
<1>1. Init => LaunchInv
    BY InitHolds
<1>2. LaunchInv /\ [Next]_vars => LaunchInv'
    <2> SUFFICES ASSUME LaunchInv, [Next]_vars PROVE LaunchInv'
        OBVIOUS
    <2>1. ASSUME NEW c \in Calls, NEW stray \in Stray, EnqueueNDRangeKernel(c, stray)
          PROVE  LaunchInv'
        BY <2>1, EnqueueKeeps
    <2>2. CASE ReadLoad
        BY <2>2, ReadLoadKeeps
    <2>3. CASE SubmitBlock
        BY <2>3, SubmitKeeps
    <2>4. ASSUME NEW t \in Threads, StartBlock(t) PROVE LaunchInv'
        BY <2>4, StartBlockKeeps
    <2>5. ASSUME NEW t \in Threads, RunToBarrier(t) PROVE LaunchInv'
        BY <2>5, RunKeeps
    <2>6. ASSUME NEW t \in Threads, EndBlock(t) PROVE LaunchInv'
        BY <2>6, EndKeeps
    <2>7. CASE UNCHANGED vars
        BY <2>7, StutterKeeps
    <2> QED
        BY <2>1, <2>2, <2>3, <2>4, <2>5, <2>6, <2>7 DEF Next, Submitter, Worker
<1> QED
    BY <1>1, <1>2, PTL DEF Spec

\* When all blocks are finished, all parts of all work-items are logged.
LEMMA EveryItemFollows ==
    ASSUME LaunchKinds, LaunchInv PROVE EveryItemOnce
<1> SUFFICES ASSUME Done PROVE log = [d \in Below(space.global) \X (0..Barriers) |-> 1]
    BY DEF EveryItemOnce
<1>1. ~Fresh
    BY DEF Done, Fresh
<1>2. PICK n : /\ SpaceFits(space, n) /\ IsSpace(space, n) /\ n = Len(space.global)
               /\ GroupSize(space) \in Nat \ {0} /\ GroupsCount(space) \in Nat \ {0}
               /\ \E st \in [Blocks(space) -> States], by \in [Blocks(space) -> Threads] :
                      Placed(st, by)
    BY <1>1, Start
<1>3. PICK st \in [Blocks(space) -> States], by \in [Blocks(space) -> Threads] : Placed(st, by)
    BY <1>2
<1>4. \A b \in Blocks(space) : st[b] = "finished"
    BY <1>1, <1>3, AllFinished DEF Placed, Done, LaunchInv
<1>5. Executed(st, by) = Parts(space)
    BY <1>4 DEF Executed, Ran, Parts
<1>6. {GlobalId(space, Item(space, p)) : p \in 0..(Items(space) - 1)} = Below(space.global)
    BY <1>2, IdsAre DEF SpaceFits, LaunchKinds
<1>7. {Did(space, x) : x \in Parts(space)} = Below(space.global) \X (0..Barriers)
    <2>0. Items(space) \in Nat
        BY <1>2, SpaceIs
    <2>1. ASSUME NEW x \in Parts(space)
          PROVE  Did(space, x) \in Below(space.global) \X (0..Barriers)
        <3> DEFINE p == Nth(space, x[1], x[2])
        <3>1. x[1] \in Blocks(space) /\ x[2] \in 1..GroupSize(space) /\ x[3] \in 0..Barriers
            BY DEF Parts
        <3>2. p \in Nat /\ p < Items(space)
            BY <1>2, <3>1, NthIs
        <3> HIDE DEF p
        <3>3. p \in 0..(Items(space) - 1) /\ At(space, p) = Item(space, p)
            BY <2>0, <3>2 DEF At
        <3>4. GlobalId(space, At(space, p)) \in Below(space.global)
            BY <1>6, <3>3
        <3> QED
            BY <3>1, <3>4 DEF Did, p
    <2>2. ASSUME NEW id \in Below(space.global), NEW c \in 0..Barriers
          PROVE  \E x \in Parts(space) : <<id, c>> = Did(space, x)
        <3>1. PICK p \in 0..(Items(space) - 1) : id = GlobalId(space, Item(space, p))
            BY <1>6
        <3>2. PICK b \in Blocks(space), i \in 1..GroupSize(space) : p = Nth(space, b, i)
            BY <1>2, NthReach
        <3>3. At(space, p) = Item(space, p)
            BY <2>0 DEF At
        <3>4. <<b, i, c>> \in Parts(space)
            BY DEF Parts
        <3>5. Did(space, <<b, i, c>>) = <<id, c>>
            BY <3>1, <3>2, <3>3 DEF Did
        <3> QED
            BY <3>4, <3>5
    <2> QED
        BY <2>1, <2>2
<1> QED
    BY <1>3, <1>5, <1>7 DEF Placed, LogHolds

\* Inside a round the work-items differ by one part.
LEMMA RingFollows ==
    ASSUME LaunchKinds, LaunchInv PROVE BarriersHold
<1>1. SUFFICES ASSUME NEW t \in Threads, run[t].active
               PROVE  /\ \A i, j \in DOMAIN run[t].part : run[t].part[i] <= run[t].part[j] + 1
                      /\ run[t].cur = Advance(space, run[t].begin, run[t].stack - 1)
    BY DEF BarriersHold, PartsTogether, IndexFollowsStack
<1>2. ~Fresh
    BY <1>1 DEF Fresh, Idle
<1>3. PICK n : /\ SpaceFits(space, n) /\ IsSpace(space, n) /\ n = Len(space.global)
               /\ GroupSize(space) \in Nat \ {0} /\ GroupsCount(space) \in Nat \ {0}
               /\ \E st \in [Blocks(space) -> States], by \in [Blocks(space) -> Threads] :
                      Placed(st, by)
    BY <1>2, Start
<1>4. PICK st \in [Blocks(space) -> States], by \in [Blocks(space) -> Threads] : Placed(st, by)
    BY <1>3
<1>5. PICK k \in Blocks(space), s \in 1..GroupSize(space), q \in 0..(Barriers + 1) :
          run[t] = Ring(space, k, s, q)
    BY <1>1, <1>4, ActiveIs DEF Placed
<1>6. /\ run[t].part = [i \in 1..GroupSize(space) |-> IF i < s THEN q + 1 ELSE q]
      /\ run[t].cur = At(space, Nth(space, k, s)) /\ run[t].begin = First(space, k)
      /\ run[t].stack = s
    BY <1>5 DEF Ring
<1>7. \A i, j \in DOMAIN run[t].part : run[t].part[i] <= run[t].part[j] + 1
    <2>1. q \in Nat
        BY DEF LaunchKinds
    <2> QED
        BY <1>6, <2>1
<1>8. run[t].cur = Advance(space, run[t].begin, run[t].stack - 1)
    <2> DEFINE p == k * GroupSize(space)
    <2>1. k \in 0..GroupsCount(space) /\ k < GroupsCount(space)
        BY <1>3 DEF Blocks
    <2>2. First(space, k) = Item(space, p) /\ p < Items(space) /\ p \in Nat
        BY <1>3, <2>1, FirstIs
    <2>3. s - 1 \in Nat
        OBVIOUS
    <2>4. Advance(space, Item(space, p), s - 1) = At(space, p + (s - 1))
        BY <1>3, <2>2, <2>3, Advance_Adds
    <2> QED
        BY <1>6, <2>2, <2>4 DEF Nth
<1> QED
    BY <1>7, <1>8

\* EveryItemOnce: when the last block of a kernel is finished, every work-item
\* has executed every part of the kernel, and only once.
THEOREM Every_Item_Once ==
    ASSUME LaunchKinds PROVE Spec => []EveryItemOnce
<1>1. LaunchInv => EveryItemOnce
    BY EveryItemFollows
<1> QED
    BY <1>1, Blocks_In_One_Place, PTL

\* BarriersHold: no work-item is past a barrier that another of its group has
\* not reached, and the index it is told is that of the stack it runs on.
THEOREM Barriers_Hold ==
    ASSUME LaunchKinds PROVE Spec => []BarriersHold
<1>1. LaunchInv => BarriersHold
    BY RingFollows
<1> QED
    BY <1>1, Blocks_In_One_Place, PTL

---------------------------------------------------------------------------
(* The arguments of a kernel.                                              *)

\* What the caller gives, what an argument and a command are.
ArgValues == {g.value : g \in Given} \cup {Null}
Arg == [kind : Kinds \cup {"none"}, value : ArgValues, size : Nat]
Args == [Indexes -> Arg]
Buffers == UNION {[S -> [first : Nat, size : Nat]] : S \in SUBSET Indexes}
Command == [state : {"queued", "submitted", "ready"}, args : Args,
            ptrs : {<<>>} \cup [Indexes -> ArgValues], locals : {<<>>} \cup Buffers]

\* All of them were set.
AllSet(args) == \A i \in Indexes : args[i] # NoArg

\* The local buffers as prepareArgumentsBuffer makes them.
Locals(args) ==
    [i \in {k \in Indexes : args[k].kind = "local"} |->
        [first |-> LocalBase(args, i), size |-> args[i].size]]

ArgumentsTypeInv ==
    /\ Arguments \in Args
    /\ wanted \in Seq(Args) /\ commands \in Seq(Command) /\ Len(wanted) = Len(commands)

\* A command keeps what the kernel was enqueued with.
CommandsHold ==
    \A c \in 1..Len(commands) :
        /\ commands[c].args = wanted[c]
        /\ commands[c].state # "queued" /\ AllSet(wanted[c]) =>
              \A i \in Indexes : commands[c].ptrs[i] = Pointer(wanted[c][i])
        /\ commands[c].state = "ready" => commands[c].locals = Locals(wanted[c])

ArgumentsInv == ArgumentsTypeInv /\ CommandsHold

\* A parameter has an index, and there are as many as the length says.
LEMMA IndexesAre ==
    ASSUME ArgumentKinds
    PROVE  Len(Params) \in Nat /\ Indexes = 1..Len(Params) /\ \A i \in Indexes : Params[i] \in Kinds
BY DEF ArgumentKinds, Indexes

LEMMA PointerIs == ASSUME NEW arg \in Arg PROVE Pointer(arg) \in ArgValues
BY DEF Pointer, Arg, ArgValues

\* createKernelArguments fills the vector from its first place to its last.
LEMMA PointersAre ==
    ASSUME ArgumentKinds, NEW args \in Args, NEW stray \in Indexes
    PROVE  /\ Pointers(args, stray) \in [Indexes -> ArgValues]
           /\ AllSet(args) => \A i \in Indexes : Pointers(args, stray)[i] = Pointer(args[i])
<1> DEFINE n == Len(Params)
           Index(i) == IF args[i] = NoArg THEN stray ELSE i
           D == [Indexes -> ArgValues]
           none == [i \in Indexes |-> Null]
           Put(x, k) == [x EXCEPT ![Index(k)] = Pointer(args[k])]
           F(f) == [k \in 0..n |-> IF k = 0 THEN none ELSE Put(f[k - 1], k)]
           g == [p \in (1..n) \X D |-> Put(p[2], p[1])]
           w == CHOOSE f : f = F(f)
<1>1. n \in Nat /\ Indexes = 1..n
    BY IndexesAre
<1>2. \A i \in Indexes : Index(i) \in Indexes /\ Pointer(args[i]) \in ArgValues
    BY PointerIs DEF Args
<1>3. \A i \in 1..n, x \in D : g[<<i, x>>] = Put(x, i) /\ Put(x, i) \in D
    BY <1>1, <1>2
<1>4. none \in D
    BY DEF ArgValues
<1>8. Pointers(args, stray) = w[n]
    BY DEF Pointers
<1>5. PICK f \in [0..n -> D] : Follow(f, n, none, g)
    <2>0. \A i \in 1..n, x \in D : g[<<i, x>>] \in D
        <3> HIDE DEF g, D
        <3> QED
            BY <1>3
    <2> HIDE DEF g, D, none
    <2>1. GivesResults(g, n, D)
        BY <2>0 DEF GivesResults
    <2> QED
        BY <1>1, <1>4, <2>1, Iterates
<1>6. f = F(f)
    <2>1. f[0] = none /\ \A i \in 1..n : f[i] = g[<<i, f[i - 1]>>]
        BY <1>5 DEF Follow
    <2>2. ASSUME NEW i \in 1..n PROVE f[i] = Put(f[i - 1], i)
        <3> HIDE DEF g, D, Put
        <3>1. f[i - 1] \in D
            BY <1>5
        <3> QED
            BY <1>3, <2>1, <3>1
    <2> HIDE DEF g, D, Put, none
    <2> QED
        BY <1>1, <1>5, <2>1, <2>2
<1>7. w = F(w)
    <2> HIDE DEF F
    <2> QED
        BY <1>6
<1> HIDE DEF w
<1>9. w[0] = none /\ \A k \in 1..n : w[k] = Put(w[k - 1], k)
    <2> HIDE DEF Put, none
    <2> QED
        BY <1>1, <1>7
<1>10. \A k \in 0..n : w[k] \in D
    <2> DEFINE S == {k \in 0..n : w[k] \in D}
    <2>1. 0 \in S
        BY <1>1, <1>4, <1>9
    <2>2. ASSUME NEW k \in 1..n, k - 1 \in S PROVE k \in S
        <3>1. w[k - 1] \in D /\ k \in 0..n
            BY <2>2
        <3> HIDE DEF D, Put
        <3> QED
            BY <1>3, <1>9, <3>1
    <2>3. 0..n \subseteq S
        <3> HIDE DEF S
        <3> QED
            BY <1>1, <2>1, <2>2, Climb
    <2> QED
        BY <2>3
<1>11. ASSUME AllSet(args), NEW i \in Indexes PROVE w[n][i] = Pointer(args[i])
    <2> DEFINE Upto(k) == \A j \in 1..k : w[k][j] = Pointer(args[j])
               S == {k \in 0..n : Upto(k)}
    <2>1. 0 \in S
        BY <1>1
    <2>2. ASSUME NEW k \in 1..n, k - 1 \in S PROVE k \in S
        <3>1. w[k - 1] \in D /\ Upto(k - 1) /\ k \in 0..n
            BY <1>10, <2>2
        <3>2. w[k] = [w[k - 1] EXCEPT ![k] = Pointer(args[k])]
            BY <1>1, <1>9, <1>11 DEF AllSet
        <3>3. ASSUME NEW j \in 1..k PROVE w[k][j] = Pointer(args[j])
            <4>1. j \in Indexes
                BY <1>1
            <4>2. CASE j = k
                BY <3>1, <3>2, <4>1, <4>2
            <4>3. CASE j # k
                BY <3>1, <3>2, <4>1, <4>3
            <4> QED
                BY <4>2, <4>3
        <3> QED
            BY <3>1, <3>3
    <2>3. 0..n \subseteq S
        <3> HIDE DEF S
        <3> QED
            BY <1>1, <2>1, <2>2, Climb
    <2>4. Upto(n)
        BY <1>1, <2>3
    <2> QED
        BY <1>1, <2>4
<1> QED
    BY <1>1, <1>8, <1>10, <1>11

\* The bytes of the first arguments are those before the last of them and
\* its own.
BytesOf(arg) == IF arg.kind = "local" THEN arg.size ELSE 0

LEMMA LocalBytesAre ==
    ASSUME ArgumentKinds, NEW args \in Args
    PROVE  /\ \A i \in 0..Len(Params) : LocalBytes(args)[i] \in Nat
           /\ \A i \in Indexes : LocalBytes(args)[i] = LocalBytes(args)[i - 1] + BytesOf(args[i])
<1> DEFINE n == Len(Params)
           F(f) == [k \in 0..n |-> IF k = 0 THEN 0
                                   ELSE f[k - 1] + IF args[k].kind = "local" THEN args[k].size ELSE 0]
           D == Nat
           g == [p \in (1..n) \X D |-> p[2] + BytesOf(args[p[1]])]
           w == LocalBytes(args)
<1>1. n \in Nat /\ Indexes = 1..n
    BY IndexesAre
<1>2. \A i \in 1..n : BytesOf(args[i]) \in Nat
    BY <1>1 DEF BytesOf, Args, Arg
<1>3. \A i \in 1..n, x \in D : g[<<i, x>>] = x + BytesOf(args[i]) /\ x + BytesOf(args[i]) \in D
    BY <1>1, <1>2
<1>4. PICK f \in [0..n -> D] : Follow(f, n, 0, g)
    <2>0. 0 \in D
        OBVIOUS
    <2> HIDE DEF g, D
    <2>1. GivesResults(g, n, D)
        BY <1>3 DEF GivesResults
    <2> QED
        BY <1>1, <2>0, <2>1, Iterates
<1>5. f = F(f)
    <2>1. f[0] = 0 /\ \A i \in 1..n : f[i] = g[<<i, f[i - 1]>>]
        BY <1>4 DEF Follow
    <2>2. ASSUME NEW i \in 1..n PROVE f[i] = f[i - 1] + BytesOf(args[i])
        <3>1. f[i - 1] \in Nat
            BY <1>4
        <3> HIDE DEF g
        <3> QED
            BY <1>3, <2>1, <3>1
    <2> HIDE DEF g
    <2> QED
        BY <1>1, <1>4, <2>1, <2>2 DEF BytesOf
<1>6. w = CHOOSE f_ : f_ = F(f_)
    BY DEF LocalBytes
<1> HIDE DEF w
<1>7. w = F(w)
    <2> HIDE DEF F
    <2> QED
        BY <1>5, <1>6
<1>8. w[0] = 0 /\ \A i \in 1..n : w[i] = w[i - 1] + BytesOf(args[i])
    BY <1>1, <1>7 DEF BytesOf
<1>9. \A i \in 0..n : w[i] \in Nat
    <2> DEFINE S == {i \in 0..n : w[i] \in Nat}
    <2>1. 0 \in S
        BY <1>1, <1>8
    <2>2. ASSUME NEW i \in 1..n, i - 1 \in S PROVE i \in S
        BY <1>2, <1>8, <2>2
    <2>3. 0..n \subseteq S
        <3> HIDE DEF S
        <3> QED
            BY <1>1, <2>1, <2>2, Climb
    <2> QED
        BY <2>3
<1> QED
    BY <1>1, <1>8, <1>9 DEF w

\* The bytes before an argument include all of an earlier one.
LEMMA LocalBytesGrow ==
    ASSUME ArgumentKinds, NEW args \in Args, NEW i \in Indexes, NEW j \in Indexes, i < j
    PROVE  LocalBytes(args)[i - 1] + BytesOf(args[i]) <= LocalBytes(args)[j - 1]
<1> DEFINE n == Len(Params)
           w == LocalBytes(args)
           S == {k \in 0..n : k >= i => w[i] <= w[k]}
<1>1. n \in Nat /\ Indexes = 1..n /\ \A k \in 0..n : w[k] \in Nat
    BY IndexesAre, LocalBytesAre
<1>2. \A k \in 1..n : w[k] = w[k - 1] + BytesOf(args[k]) /\ BytesOf(args[k]) \in Nat
    BY <1>1, LocalBytesAre DEF BytesOf, Args, Arg
<1> HIDE DEF w
<1>3. 0 \in S
    BY <1>1
<1>4. ASSUME NEW k \in 1..n, k - 1 \in S PROVE k \in S
    <2>1. k - 1 \in 0..n /\ k \in 0..n /\ w[k - 1] \in Nat /\ w[k] \in Nat /\ w[i] \in Nat
        BY <1>1, <1>4
    <2>2. CASE k - 1 >= i
        <3>1. w[i] <= w[k - 1]
            BY <1>4, <2>2
        <3>2. w[k] = w[k - 1] + BytesOf(args[k]) /\ BytesOf(args[k]) \in Nat
            BY <1>2
        <3>3. w[i] <= w[k]
            BY <2>1, <3>1, <3>2
        <3> QED
            BY <2>1, <3>3
    <2>3. CASE k = i
        BY <2>1, <2>3
    <2>4. CASE k < i
        BY <1>1, <2>1, <2>4
    <2> QED
        BY <1>1, <2>1, <2>2, <2>3, <2>4
<1>5. 0..n \subseteq S
    <2> HIDE DEF S
    <2> QED
        BY <1>1, <1>3, <1>4, Climb
<1>6. j - 1 \in 0..n /\ j - 1 >= i /\ j - 1 \in S
    BY <1>1, <1>5
<1> QED
    BY <1>1, <1>2, <1>6 DEF w

\* Local buffers made one after the other are numbers, behind the local
\* variables and apart.
LEMMA LocalsAre ==
    ASSUME ArgumentKinds, NEW args \in Args
    PROVE  /\ Locals(args) \in Buffers
           /\ \A i \in DOMAIN Locals(args) :
                 /\ Locals(args)[i].first >= AutoLocals
                 /\ \A j \in DOMAIN Locals(args) \ {i} :
                       \/ Locals(args)[i].first + Locals(args)[i].size <= Locals(args)[j].first
                       \/ Locals(args)[j].first + Locals(args)[j].size <= Locals(args)[i].first
<1> DEFINE T == {k \in Indexes : args[k].kind = "local"}
<1>1. Len(Params) \in Nat /\ Indexes = 1..Len(Params) /\ AutoLocals \in Nat
    BY IndexesAre DEF ArgumentKinds
<1>2. ASSUME NEW i \in T
      PROVE  /\ Locals(args)[i].first = AutoLocals + LocalBytes(args)[i - 1]
             /\ Locals(args)[i].size = BytesOf(args[i])
             /\ LocalBytes(args)[i - 1] \in Nat /\ BytesOf(args[i]) \in Nat
    <2>1. i - 1 \in 0..Len(Params) /\ args[i] \in Arg
        BY <1>1 DEF Args
    <2>2. LocalBytes(args)[i - 1] \in Nat
        BY <2>1, LocalBytesAre
    <2> QED
        BY <2>1, <2>2 DEF Locals, LocalBase, BytesOf, Arg
<1>3. DOMAIN Locals(args) = T /\ T \in SUBSET Indexes
    BY DEF Locals
<1>4. Locals(args) \in Buffers
    <2>1. \A i \in T : Locals(args)[i] \in [first : Nat, size : Nat]
        <3>1. ASSUME NEW i \in T PROVE LocalBase(args, i) \in Nat /\ args[i].size \in Nat
            BY <1>1, <1>2 DEF LocalBase, Args, Arg
        <3> QED
            BY <3>1 DEF Locals
    <2>2. Locals(args) \in [T -> [first : Nat, size : Nat]]
        BY <1>3, <2>1 DEF Locals
    <2> HIDE DEF T
    <2> QED
        BY <1>3, <2>2 DEF Buffers
<1>5. ASSUME NEW i \in T, NEW j \in T, i # j
      PROVE  \/ Locals(args)[i].first + Locals(args)[i].size <= Locals(args)[j].first
             \/ Locals(args)[j].first + Locals(args)[j].size <= Locals(args)[i].first
    <2>1. CASE i < j
        <3>1. LocalBytes(args)[i - 1] + BytesOf(args[i]) <= LocalBytes(args)[j - 1]
            BY <2>1, LocalBytesGrow
        <3> QED
            BY <1>1, <1>2, <3>1
    <2>2. CASE j < i
        <3>1. LocalBytes(args)[j - 1] + BytesOf(args[j]) <= LocalBytes(args)[i - 1]
            BY <2>2, LocalBytesGrow
        <3> QED
            BY <1>1, <1>2, <3>1
    <2>3. i \in Int /\ j \in Int
        BY <1>1
    <2>4. i < j \/ j < i
        BY <1>5, <2>3
    <2> QED
        BY <2>1, <2>2, <2>4
<1>6. \A i \in T : Locals(args)[i].first >= AutoLocals
    BY <1>1, <1>2
<1> HIDE DEF T
<1> QED
    BY <1>3, <1>4, <1>5, <1>6

\* SetArg changes the kernel only.
LEMMA SetArgKeeps ==
    ASSUME ArgumentKinds, ArgumentsInv, NEW i \in 1..(Len(Params) + 1), NEW g \in Given, SetArg(i, g)
    PROVE  ArgumentsInv'
<1>1. UNCHANGED <<wanted, commands>> /\ Arguments \in Args
    BY DEF SetArg, ArgumentsInv, ArgumentsTypeInv
<1>2. Arguments' \in Args
    <2>0. CASE argAnswer' # Success
        BY <1>1, <2>0 DEF SetArg
    <2>1. CASE argAnswer' = Success
      <3>1. i \in Indexes
        BY <2>1 DEF SetArg, ArgError, InvalidIndex, Success
      <3>2. Params[i] \in Kinds /\ g.size \in Nat /\ g.value \in ArgValues
        BY <3>1, IndexesAre DEF ArgumentKinds, ArgValues
      <3>3. [kind |-> Params[i], value |-> g.value, size |-> g.size] \in Arg
        BY <3>2 DEF Arg
      <3> QED
        BY <1>1, <2>1, <3>1, <3>3 DEF SetArg, Args
    <2> QED
        BY <2>0, <2>1
<1> QED
    BY <1>1, <1>2 DEF ArgumentsInv, ArgumentsTypeInv, CommandsHold

\* The command takes a copy of the arguments.
LEMMA EnqueueKernelKeeps ==
    ASSUME ArgumentsInv, EnqueueKernel
    PROVE  ArgumentsInv'
<1> DEFINE new == [state |-> "queued", args |-> Arguments, ptrs |-> <<>>, locals |-> <<>>]
<1>1. /\ Arguments \in Args /\ wanted \in Seq(Args) /\ commands \in Seq(Command)
      /\ Len(wanted) = Len(commands) /\ new \in Command
    BY DEF ArgumentsInv, ArgumentsTypeInv, Command
<1>2. /\ wanted' = Append(wanted, Arguments) /\ commands' = Append(commands, new)
      /\ Arguments' = Arguments
    BY DEF EnqueueKernel
<1> HIDE DEF new
<1>3. ArgumentsTypeInv'
    BY <1>1, <1>2 DEF ArgumentsTypeInv
<1>4. ASSUME NEW c \in 1..Len(commands')
      PROVE  \/ c \in 1..Len(commands) /\ commands'[c] = commands[c] /\ wanted'[c] = wanted[c]
             \/ commands'[c] = new /\ wanted'[c] = Arguments
    BY <1>1, <1>2
<1>5. new.args = Arguments /\ new.state = "queued"
    BY DEF new
<1>6. CommandsHold'
    BY <1>4, <1>5 DEF ArgumentsInv, CommandsHold
<1> QED
    BY <1>3, <1>6 DEF ArgumentsInv

\* A step of one command leaves the others alone.
LEMMA CommandSteps ==
    ASSUME ArgumentsInv, NEW c \in 1..Len(commands), NEW new \in Command,
           commands' = [commands EXCEPT ![c] = new], UNCHANGED <<Arguments, wanted>>,
           new.args = wanted[c],
           new.state # "queued" /\ AllSet(wanted[c]) =>
               \A i \in Indexes : new.ptrs[i] = Pointer(wanted[c][i]),
           new.state = "ready" => new.locals = Locals(wanted[c])
    PROVE  ArgumentsInv'
<1>1. /\ commands \in Seq(Command) /\ Len(commands') = Len(commands) /\ commands' \in Seq(Command)
      /\ \A e \in 1..Len(commands) : commands'[e] = IF e = c THEN new ELSE commands[e]
    BY DEF ArgumentsInv, ArgumentsTypeInv
<1>2. ArgumentsTypeInv'
    BY <1>1 DEF ArgumentsInv, ArgumentsTypeInv
<1>3. ASSUME NEW e \in 1..Len(commands')
      PROVE  /\ commands'[e].args = wanted'[e]
             /\ commands'[e].state # "queued" /\ AllSet(wanted'[e]) =>
                   \A i \in Indexes : commands'[e].ptrs[i] = Pointer(wanted'[e][i])
             /\ commands'[e].state = "ready" => commands'[e].locals = Locals(wanted'[e])
    <2>1. wanted' = wanted /\ e \in 1..Len(commands)
        BY <1>1
    <2>2. CASE e = c
        BY <1>1, <2>1, <2>2
    <2>3. CASE e # c
        BY <1>1, <2>1, <2>3 DEF ArgumentsInv, CommandsHold
    <2> QED
        BY <2>2, <2>3
<1> QED
    BY <1>2, <1>3 DEF ArgumentsInv, CommandsHold

\* The device fills the vector of pointers from the copy.
LEMMA SubmitArgumentsKeeps ==
    ASSUME ArgumentKinds, ArgumentsInv, NEW c \in DOMAIN commands, NEW stray \in Indexes, Submit(c, stray)
    PROVE  ArgumentsInv'
<1> DEFINE cmd == commands[c]
           args == cmd.args
           new == [state |-> "submitted", args |-> args, ptrs |-> Pointers(args, stray),
                   locals |-> <<>>]
<1>1. /\ c \in 1..Len(commands) /\ cmd \in Command /\ args \in Args /\ args = wanted[c]
      /\ UNCHANGED <<Arguments, wanted>>
    <2>1. c \in 1..Len(commands) /\ cmd \in Command
        BY DEF ArgumentsInv, ArgumentsTypeInv
    <2>2. args \in Args /\ args = wanted[c]
        BY <2>1 DEF ArgumentsInv, CommandsHold, Command
    <2> QED
        BY <2>1, <2>2 DEF Submit
<1>2. /\ Pointers(args, stray) \in [Indexes -> ArgValues]
      /\ AllSet(args) => \A i \in Indexes : Pointers(args, stray)[i] = Pointer(args[i])
    <2> HIDE DEF args
    <2> QED
        BY <1>1, PointersAre
<1>3. commands' = [commands EXCEPT ![c] = new]
    BY DEF Submit, ArgsOf
<1>4. new \in Command
    BY <1>1, <1>2 DEF Command
<1>5. new.args = args /\ new.state = "submitted" /\ new.ptrs = Pointers(args, stray)
    OBVIOUS
<1> HIDE DEF new, args, cmd
<1> QED
    BY <1>1, <1>2, <1>3, <1>4, <1>5, CommandSteps

\* A worker makes the local buffers.
LEMMA PrepareKeeps ==
    ASSUME ArgumentKinds, ArgumentsInv, NEW c \in DOMAIN commands, Prepare(c)
    PROVE  ArgumentsInv'
<1> DEFINE cmd == commands[c]
           args == cmd.args
           new == [state |-> "ready", args |-> args, ptrs |-> cmd.ptrs, locals |-> Locals(args)]
<1>1. /\ c \in 1..Len(commands) /\ cmd \in Command /\ args \in Args /\ args = wanted[c]
      /\ cmd.state = "submitted" /\ UNCHANGED <<Arguments, wanted>>
      /\ AllSet(args) => \A i \in Indexes : cmd.ptrs[i] = Pointer(args[i])
    <2>1. c \in 1..Len(commands) /\ cmd \in Command
        BY DEF ArgumentsInv, ArgumentsTypeInv
    <2>2. args \in Args /\ args = wanted[c]
        BY <2>1 DEF ArgumentsInv, CommandsHold, Command
    <2>3. cmd.state = "submitted" /\ UNCHANGED <<Arguments, wanted>>
        BY DEF Prepare
    <2> QED
        BY <2>1, <2>2, <2>3 DEF ArgumentsInv, CommandsHold
<1>2. Locals(args) \in Buffers
    <2> HIDE DEF args
    <2> QED
        BY <1>1, LocalsAre
<1>3. commands' = [commands EXCEPT ![c] = new]
    BY DEF Prepare, Locals
<1>4. new \in Command
    BY <1>1, <1>2 DEF Command
<1>5. new.args = args /\ new.ptrs = cmd.ptrs /\ new.locals = Locals(args)
    OBVIOUS
<1> HIDE DEF new, args, cmd
<1> QED
    BY <1>1, <1>3, <1>4, <1>5, CommandSteps

\* The invariant of the arguments, for any kernel and any calls.
LEMMA ArgumentsInvariant ==
    ASSUME ArgumentKinds
    PROVE  ArgumentsSpec => []ArgumentsInv
<1>1. ArgumentsInit => ArgumentsInv
    <2>1. NoArg \in Arg
        BY DEF NoArg, Arg, ArgValues, Null
    <2> QED
        BY <2>1 DEF ArgumentsInit, ArgumentsInv, ArgumentsTypeInv, CommandsHold, Args
<1>2. ArgumentsInv /\ [ArgumentsNext]_argumentVars => ArgumentsInv'
    <2>1. SUFFICES ASSUME ArgumentsInv, [ArgumentsNext]_argumentVars PROVE ArgumentsInv'
        OBVIOUS
    <2>2. ASSUME NEW i \in 1..(Len(Params) + 1), NEW g \in Given, SetArg(i, g) PROVE ArgumentsInv'
        BY <2>1, <2>2, SetArgKeeps
    <2>3. CASE EnqueueKernel
        BY <2>1, <2>3, EnqueueKernelKeeps
    <2>4. ASSUME NEW c \in DOMAIN commands, Prepare(c) PROVE ArgumentsInv'
        BY <2>1, <2>4, PrepareKeeps
    <2>5. ASSUME NEW c \in DOMAIN commands, NEW stray \in Indexes, Submit(c, stray)
          PROVE  ArgumentsInv'
        BY <2>1, <2>5, SubmitArgumentsKeeps
    <2>6. CASE UNCHANGED argumentVars
        BY <2>1, <2>6 DEF argumentVars, ArgumentsInv, ArgumentsTypeInv, CommandsHold
    <2> QED
        BY <2>1, <2>2, <2>3, <2>4, <2>5, <2>6 DEF ArgumentsNext
<1> QED
    BY <1>1, <1>2, PTL DEF ArgumentsSpec

\* Whatever the program sets and enqueues in between, a kernel all of whose
\* arguments were set runs with those it had when it was enqueued, each at
\* its own place, and its local buffers overlap neither one another nor its
\* local variables (EnqueueNDRangeKernel copies the kernel,
\* createKernelArguments reads the copy, LocalMemory::Alloc goes on from
\* the variables).
THEOREM Runs_As_Enqueued ==
    ASSUME ArgumentKinds
    PROVE  ArgumentsSpec => []RunsAsEnqueued
<1>1. ArgumentsInv => ArgumentsAreKept
    <2>1. SUFFICES ASSUME ArgumentsInv, NEW c \in Started,
                          \A i \in DOMAIN wanted[c] : wanted[c][i] # NoArg,
                          NEW i \in DOMAIN wanted[c]
                   PROVE  commands[c].ptrs[i] = Pointer(wanted[c][i])
        BY DEF ArgumentsAreKept
    <2>2. c \in 1..Len(commands) /\ commands[c].state # "queued" /\ wanted[c] \in Args
        <3>1. c \in DOMAIN commands /\ commands[c].state # "queued"
            BY DEF Started
        <3>2. commands \in Seq(Command) /\ wanted \in Seq(Args) /\ Len(wanted) = Len(commands)
            BY <2>1 DEF ArgumentsInv, ArgumentsTypeInv
        <3> QED
            BY <3>1, <3>2
    <2>3. DOMAIN wanted[c] = Indexes
        BY <2>2 DEF Args
    <2> QED
        BY <2>1, <2>2, <2>3 DEF AllSet, ArgumentsInv, CommandsHold
<1>2. ArgumentsInv => LocalsAreApart
    <2>1. SUFFICES ASSUME ArgumentsInv PROVE LocalsAreApart
        OBVIOUS
    <2>2. ASSUME NEW c \in Ready PROVE commands[c].locals = Locals(wanted[c]) /\ wanted[c] \in Args
        BY <2>1 DEF Ready, ArgumentsInv, ArgumentsTypeInv, CommandsHold
    <2>3. \A c \in Ready :
              \A i \in DOMAIN commands[c].locals :
                 /\ commands[c].locals[i].first >= AutoLocals
                 /\ \A j \in DOMAIN commands[c].locals \ {i} :
                       \/ commands[c].locals[i].first + commands[c].locals[i].size
                              <= commands[c].locals[j].first
                       \/ commands[c].locals[j].first + commands[c].locals[j].size
                              <= commands[c].locals[i].first
        BY <2>2, LocalsAre
    <2> QED
        BY <2>3 DEF LocalsAreApart
<1> QED
    BY <1>1, <1>2, ArgumentsInvariant, PTL DEF RunsAsEnqueued

=============================================================================
