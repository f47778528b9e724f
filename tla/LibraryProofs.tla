---------------------------- MODULE LibraryProofs ----------------------------
(***************************************************************************)
(* Two facts about the library, for every value of the constants.  The     *)
(* atomic functions, as they are made, take effect one at a time: for any  *)
(* items, programs and values, the loops of min and max included.  And the *)
(* comparison by which the generator sorts puts the types that are neither *)
(* qualified nor pointers in one line.                                     *)
(***************************************************************************)
EXTENDS Atomics, TypeOrder, SequenceTheorems, TLAPS

(* The atomic functions.                                                   *)

IInv == AtomicTypeOK /\ LoopsChange

\* A call that is made is one of the functions.
LEMMA CurrentIsCall ==
    ASSUME AtomicTypeOK, NEW i \in Items, Running(i)
    PROVE  Current(i) \in AtomicCall
<1>1. Program[i] \in Seq(AtomicCall) /\ results[i] \in Seq(Values)
  BY AtomicsAssumption DEF AtomicTypeOK
<1>2. Len(results[i]) + 1 \in 1..Len(Program[i])
  BY <1>1 DEF Running
<1> QED BY <1>1, <1>2 DEF Current

\* The arguments of a call are values of the type.
LEMMA CallArguments ==
    ASSUME NEW c \in AtomicCall
    PROVE  /\ c.f \in Fetches \/ c.f \in Loops \/ c.f = "cmpxchg"
           /\ c.x \in Values
           /\ c.f = "cmpxchg" => c.cmp \in Values
BY DEF AtomicCall, Fetches, Loops

\* What a call returns is added to the results of its item.
LEMMA ReturnType ==
    ASSUME AtomicTypeOK, NEW i \in Items, NEW v \in Values, Return(i, v)
    PROVE  results' \in [Items -> Seq(Values)]
<1>1. results[i] \in Seq(Values) BY DEF AtomicTypeOK
<1>2. Append(results[i], v) \in Seq(Values) BY <1>1
<1> QED BY <1>2 DEF Return, AtomicTypeOK

\* A step of one item leaves what the others are at.
LEMMA OthersStay ==
    ASSUME AtomicTypeOK, NEW i \in Items, NEW v, Return(i, v), NEW j \in Items, j # i
    PROVE  results'[j] = results[j]
BY DEF Return, AtomicTypeOK

\* AtomicInit establishes the invariant.
LEMMA InitIInv == AtomicInit => IInv
<1>1. SUFFICES ASSUME AtomicInit PROVE IInv
  OBVIOUS
<1>2. <<>> \in Seq(Values) OBVIOUS
<1> QED BY <1>1, <1>2, AtomicsAssumption DEF AtomicInit, IInv, AtomicTypeOK, LoopsChange

\* An instruction keeps it.
LEMMA FetchIInv == ASSUME IInv, NEW i \in Items, Fetch(i) PROVE IInv'
<1> USE DEF IInv
<1>1. Current(i) \in AtomicCall /\ Current(i).x \in Values
  BY CurrentIsCall, CallArguments DEF Fetch
<1>2. value \in Values /\ Return(i, value) BY DEF Fetch, AtomicTypeOK
<1>3. value' \in Values BY <1>1, <1>2, AtomicsAssumption DEF Fetch
<1>4. AtomicTypeOK' BY <1>2, <1>3, ReturnType DEF AtomicTypeOK, Fetch
<1>5. ASSUME NEW j \in Items, old[j] # None
      PROVE  results'[j] = results[j] /\ j # i
  <2>1. j # i BY <1>5 DEF LoopsChange, Fetch, Fetches, Loops
  <2> QED BY <1>2, <2>1, OthersStay
<1>6. LoopsChange'
  BY <1>5 DEF LoopsChange, Fetch, Running, Current
<1> QED BY <1>4, <1>6

\* So does a compare-and-exchange, which returns the old value either way.
LEMMA CmpXchgIInv == ASSUME IInv, NEW i \in Items, CmpXchg(i) PROVE IInv'
<1> USE DEF IInv
<1>1. Current(i) \in AtomicCall BY CurrentIsCall DEF CmpXchg
<1>2. Current(i).x \in Values /\ Current(i).cmp \in Values
  BY <1>1, CallArguments DEF CmpXchg
<1>3. value \in Values /\ value' \in Values BY <1>2 DEF CmpXchg, AtomicTypeOK
<1> DEFINE r == IF value = Current(i).cmp THEN Current(i).cmp ELSE value
<1>4. r \in Values /\ Return(i, r) BY <1>2, <1>3 DEF CmpXchg
<1>5. AtomicTypeOK' BY <1>3, <1>4, ReturnType DEF AtomicTypeOK, CmpXchg
<1>6. ASSUME NEW j \in Items, old[j] # None
      PROVE  results'[j] = results[j] /\ j # i
  <2>1. j # i BY <1>6 DEF LoopsChange, CmpXchg, Loops
  <2> QED BY <1>4, <2>1, OthersStay
<1>7. LoopsChange'
  BY <1>6 DEF LoopsChange, CmpXchg, Running, Current
<1> QED BY <1>5, <1>7

\* The read of a loop.
LEMMA ReadIInv == ASSUME IInv, NEW i \in Items, Read(i) PROVE IInv'
<1> USE DEF IInv
<1>1. value \in Values /\ value' = value BY DEF Read, AtomicTypeOK
<1>2. CASE Beyond(Current(i), value)
  <2>1. old' = [old EXCEPT ![i] = value] /\ results' = results
    BY <1>2 DEF Read
  <2>2. AtomicTypeOK' BY <1>1, <2>1 DEF AtomicTypeOK
  <2>3. LoopsChange'
    BY <1>1, <1>2, <2>1 DEF LoopsChange, Read, Running, Current, AtomicTypeOK, Beyond
  <2> QED BY <2>2, <2>3
<1>3. CASE ~Beyond(Current(i), value)
  <2>1. Return(i, value) /\ old' = old BY <1>3 DEF Read
  <2>2. AtomicTypeOK' BY <1>1, <2>1, ReturnType DEF AtomicTypeOK
  <2>3. ASSUME NEW j \in Items, old[j] # None
        PROVE  results'[j] = results[j] /\ j # i
    <3>1. j # i BY <2>3 DEF Read
    <3> QED BY <2>1, <3>1, OthersStay
  <2>4. LoopsChange'
    BY <2>1, <2>3 DEF LoopsChange, Running, Current
  <2> QED BY <2>2, <2>4
<1> QED BY <1>2, <1>3

\* Its exchange.
LEMMA ExchangeIInv == ASSUME IInv, NEW i \in Items, Exchange(i) PROVE IInv'
<1> USE DEF IInv
<1>1. Running(i) BY DEF LoopsChange, Exchange
<1>2. Current(i).x \in Values BY <1>1, CurrentIsCall, CallArguments
<1>3. old[i] \in Values BY DEF Exchange, AtomicTypeOK
<1>4. old' = [old EXCEPT ![i] = None] BY DEF Exchange
<1>5. old' \in [Items -> Values \cup {None}] BY <1>4 DEF AtomicTypeOK
<1>6. CASE value = old[i]
  <2>1. value' \in Values /\ Return(i, old[i]) BY <1>2, <1>6 DEF Exchange
  <2>2. AtomicTypeOK' BY <1>3, <1>5, <2>1, ReturnType DEF AtomicTypeOK
  <2>3. ASSUME NEW j \in Items, old'[j] # None
        PROVE  results'[j] = results[j] /\ old'[j] = old[j]
    <3>1. j # i /\ old'[j] = old[j] BY <1>4, <2>3 DEF AtomicTypeOK
    <3> QED BY <2>1, <3>1, OthersStay
  <2>4. LoopsChange'
    BY <2>3 DEF LoopsChange, Running, Current
  <2> QED BY <2>2, <2>4
<1>7. CASE value # old[i]
  <2>1. UNCHANGED <<value, results>> BY <1>7 DEF Exchange
  <2>2. AtomicTypeOK' BY <1>5, <2>1 DEF AtomicTypeOK
  <2>3. LoopsChange'
    BY <1>4, <2>1 DEF LoopsChange, Running, Current, AtomicTypeOK
  <2> QED BY <2>2, <2>3
<1> QED BY <1>6, <1>7

\* Every step keeps the invariant.
LEMMA NextIInv == IInv /\ [AtomicNext]_atomicVars => IInv'
<1>1. SUFFICES ASSUME IInv, [AtomicNext]_atomicVars PROVE IInv'
  OBVIOUS
<1>2. CASE UNCHANGED atomicVars
  BY <1>1, <1>2 DEF IInv, AtomicTypeOK, LoopsChange, Running, Current, atomicVars
<1>3. ASSUME NEW i \in Items, Step(i) PROVE IInv'
  BY <1>1, <1>3, FetchIInv, CmpXchgIInv, ReadIInv, ExchangeIInv DEF Step
<1> QED BY <1>1, <1>2, <1>3 DEF AtomicNext

\* The invariant holds in every state.
LEMMA IInvariant == AtomicSpec => []IInv
BY InitIInv, NextIInv, PTL DEF AtomicSpec

\* The location, the results and what the loops have read are values of the
\* type, whatever the calls.
THEOREM AtomicsType == AtomicSpec => []AtomicTypeOK
BY IInvariant, PTL DEF IInv

\* What is read is kept only between the read of min or max and its exchange,
\* and the exchange is a change that is right to make at the value read.
THEOREM LoopsChangeAlways == AtomicSpec => []LoopsChange
BY IInvariant, PTL DEF IInv

---------------------------------------------------------------------------
\* The four kinds of step are calls of the object, or the step leaves it.
LEMMA StepImplements ==
    ASSUME IInv, NEW i \in Items, Step(i)
    PROVE  Object!Call(i) \/ UNCHANGED <<value, results>>
<1> USE DEF IInv
<1>1. CASE Fetch(i)
  <2>1. Current(i).f \in Fetches /\ Running(i) BY <1>1 DEF Fetch
  <2>2. Object!Applied(Current(i), value) = Fetched(Current(i).f, value, Current(i).x)
    BY <2>1 DEF Object!Applied, Object!Fetches, Fetches
  <2> QED BY <1>1, <2>1, <2>2 DEF Fetch, Return, Object!Call, Object!Running,
                                  Object!Current, Running, Current
<1>2. CASE CmpXchg(i)
  <2>1. Current(i).f = "cmpxchg" /\ Running(i) BY <1>2 DEF CmpXchg
  <2>2. Object!Applied(Current(i), value)
            = IF value = Current(i).cmp THEN Current(i).x ELSE value
    BY <2>1 DEF Object!Applied, Object!Changed, Object!Loops, Object!Fetches
  <2>3. Return(i, value) BY <1>2 DEF CmpXchg
  <2> QED BY <1>2, <2>1, <2>2, <2>3 DEF CmpXchg, Return, Object!Call, Object!Running,
                                        Object!Current, Running, Current
<1>3. CASE Read(i)
  <2>1. CASE Beyond(Current(i), value) BY <1>3, <2>1 DEF Read
  <2>2. CASE ~Beyond(Current(i), value)
    <3>1. Object!Applied(Current(i), value) = value
      BY <1>3, <2>2 DEF Object!Applied, Object!Changed, Object!Fetches, Object!Loops,
                               Object!Beyond, Loops, Beyond, Read
    <3> QED BY <1>3, <2>2, <3>1 DEF Read, Return, Object!Call, Object!Running,
                                    Object!Current, Running, Current
  <2> QED BY <2>1, <2>2
<1>4. CASE Exchange(i)
  <2>1. Running(i) /\ Current(i).f \in Loops /\ Beyond(Current(i), old[i])
    BY <1>4 DEF LoopsChange, Exchange
  <2>2. CASE value = old[i]
    <3>1. Object!Applied(Current(i), value) = Current(i).x
      BY <2>1, <2>2 DEF Object!Applied, Object!Changed, Object!Fetches, Object!Loops,
                               Object!Beyond, Loops, Beyond
    <3> QED BY <1>4, <2>1, <2>2, <3>1 DEF Exchange, Return, Object!Call, Object!Running,
                                          Object!Current, Running, Current
  <2>3. CASE value # old[i] BY <1>4, <2>3 DEF Exchange
  <2> QED BY <2>2, <2>3
<1> QED BY <1>1, <1>2, <1>3, <1>4 DEF Step

\* Whatever the items and their programs, the calls take effect one at a
\* time: a min or max whose exchange succeeds takes effect there, at the value
\* it read, and one that ends at the read takes effect there.
THEOREM AtomicsImplementObject == AtomicSpec => ImplementsAtomicObject
<1>1. AtomicInit => Object!Init BY DEF AtomicInit, Object!Init
<1>2. IInv /\ [AtomicNext]_atomicVars => [Object!Next]_(Object!vars)
  BY StepImplements DEF AtomicNext, Object!Next, atomicVars, Object!vars
<1> QED BY <1>1, <1>2, IInvariant, PTL DEF AtomicSpec, ImplementsAtomicObject, Object!Spec

---------------------------------------------------------------------------
(* The order of the types.                                                 *)

\* Integers and reals are in one line.
LEMMA ScalarOrder ==
    ASSUME NEW s \in ScalarTypes, NEW t \in ScalarTypes, NEW u \in ScalarTypes
    PROVE  /\ ~ScalarLess(s, s)
           /\ ScalarLess(s, t) /\ ScalarLess(t, u) => ScalarLess(s, u)
           /\ s # t => ScalarLess(s, t) \/ ScalarLess(t, s)
           /\ ScalarLess(s, t) => ~ScalarLess(t, s)
<1>1. /\ s.kind = "integer" => s \in IntegerTypes
      /\ s.kind # "integer" => s \in RealTypes /\ s.kind = "real"
      /\ t.kind = "integer" => t \in IntegerTypes
      /\ t.kind # "integer" => t \in RealTypes /\ t.kind = "real"
      /\ u.kind = "integer" => u \in IntegerTypes
      /\ u.kind # "integer" => u \in RealTypes /\ u.kind = "real"
  BY DEF ScalarTypes, IntegerTypes, RealTypes
<1>2. ~ScalarLess(s, s)
  BY <1>1 DEF ScalarLess, IntegerLess, IntegerTypes, RealTypes
<1>3. ScalarLess(s, t) /\ ScalarLess(t, u) => ScalarLess(s, u)
  BY <1>1 DEF ScalarLess, IntegerLess, IntegerTypes, RealTypes
<1>4. s # t => ScalarLess(s, t) \/ ScalarLess(t, s)
  BY <1>1 DEF ScalarLess, IntegerLess, IntegerTypes, RealTypes
<1>5. ScalarLess(s, t) => ~ScalarLess(t, s)
  BY <1>1 DEF ScalarLess, IntegerLess, IntegerTypes, RealTypes
<1> QED BY <1>2, <1>3, <1>4, <1>5

\* A type that is not opaque is a vector or a scalar.
LEMMA Kinds ==
    ASSUME NEW t \in PlainTypes
    PROVE  \/ t.kind = "opaque" /\ t \in OpaqueTypes
           \/ t.kind = "vector" /\ t \in VectorTypes /\ t.base \in ScalarTypes
           \/ t.kind \notin {"opaque", "vector"} /\ t \in ScalarTypes
BY DEF PlainTypes, OpaqueTypes, VectorTypes, ScalarTypes, IntegerTypes, RealTypes

\* No type is before itself.
LEMMA PlainIrreflexive ==
    ASSUME NEW s \in PlainTypes
    PROVE  ~PlainLess(s, s)
<1>1. CASE s.kind = "opaque" BY <1>1, Kinds DEF PlainLess, OpaqueTypes
<1>2. CASE s.kind = "vector"
  <2>1. s.base \in ScalarTypes /\ s.width \in Nat BY <1>2, Kinds DEF VectorTypes
  <2>2. ~ScalarLess(s.base, s.base) BY <2>1, ScalarOrder
  <2> QED BY <1>2, <2>1, <2>2 DEF PlainLess
<1>3. CASE s.kind \notin {"opaque", "vector"}
  <2>1. ~ScalarLess(s, s) BY <1>3, Kinds, ScalarOrder
  <2> QED BY <1>3, <2>1 DEF PlainLess
<1> QED BY <1>1, <1>2, <1>3

\* Of two different types one is before the other.
LEMMA PlainTotal ==
    ASSUME NEW s \in PlainTypes, NEW t \in PlainTypes, s # t
    PROVE  PlainLess(s, t) \/ PlainLess(t, s)
<1>1. CASE s.kind = "opaque" \/ t.kind = "opaque"
  BY <1>1, Kinds DEF PlainLess, OpaqueTypes
<1>2. CASE s.kind # "opaque" /\ t.kind # "opaque"
  <2>1. BaseOf(s) \in ScalarTypes /\ BaseOf(t) \in ScalarTypes
    BY <1>2, Kinds DEF BaseOf
  <2>2. BaseOf(s) # BaseOf(t) =>
            ScalarLess(BaseOf(s), BaseOf(t)) \/ ScalarLess(BaseOf(t), BaseOf(s))
    BY <2>1, ScalarOrder
  <2>3. CASE s.kind = "vector" /\ t.kind = "vector"
    <3>1. s \in VectorTypes /\ t \in VectorTypes BY <2>3, Kinds
    <3>2. s.base = t.base => s.width # t.width BY <3>1 DEF VectorTypes
    <3>3. s.width \in Nat /\ t.width \in Nat BY <3>1 DEF VectorTypes
    <3> QED BY <2>2, <2>3, <3>2, <3>3 DEF PlainLess, BaseOf
  <2>4. CASE ~(s.kind = "vector" /\ t.kind = "vector")
    BY <1>2, <2>2, <2>4 DEF PlainLess, BaseOf
  <2> QED BY <2>3, <2>4
<1> QED BY <1>1, <1>2

\* What is before a type is before those after it.
LEMMA PlainTransitive ==
    ASSUME NEW s \in PlainTypes, NEW t \in PlainTypes, NEW u \in PlainTypes,
           PlainLess(s, t), PlainLess(t, u)
    PROVE  PlainLess(s, u)
<1>1. CASE s.kind = "opaque"
  <2>1. t.kind = "opaque" /\ s.name < t.name BY <1>1 DEF PlainLess
  <2>2. u.kind = "opaque" /\ t.name < u.name BY <2>1 DEF PlainLess
  <2>3. s.name \in Nat /\ t.name \in Nat /\ u.name \in Nat
    BY <1>1, <2>1, <2>2, Kinds DEF OpaqueTypes
  <2> QED BY <1>1, <2>1, <2>2, <2>3 DEF PlainLess
<1>2. CASE s.kind # "opaque" /\ u.kind = "opaque" BY <1>2 DEF PlainLess
<1>3. CASE s.kind # "opaque" /\ u.kind # "opaque"
  <2>0. t.kind # "opaque" BY <1>3 DEF PlainLess
  <2>1. BaseOf(s) \in ScalarTypes /\ BaseOf(t) \in ScalarTypes /\ BaseOf(u) \in ScalarTypes
    BY <1>3, <2>0, Kinds DEF BaseOf
  <2> DEFINE W(v) == IF v.kind = "vector" THEN v.width ELSE -1
             Less(v, w) == \/ ScalarLess(BaseOf(v), BaseOf(w))
                           \/ BaseOf(v) = BaseOf(w) /\ W(v) < W(w)
  <2>2. W(s) \in Int /\ W(t) \in Int /\ W(u) \in Int
    BY Kinds DEF VectorTypes
  <2>3. Less(s, t) BY <1>3, <2>0, <2>2, Kinds DEF PlainLess, BaseOf, VectorTypes
  <2>4. Less(t, u) BY <1>3, <2>0, <2>2, Kinds DEF PlainLess, BaseOf, VectorTypes
  <2>5. ScalarLess(BaseOf(s), BaseOf(t)) /\ ScalarLess(BaseOf(t), BaseOf(u)) =>
            ScalarLess(BaseOf(s), BaseOf(u))
    BY <2>1, ScalarOrder
  <2>6. Less(s, u)
    <3> HIDE DEF W
    <3> QED BY <2>2, <2>3, <2>4, <2>5
  <2>7. ~ScalarLess(BaseOf(s), BaseOf(s)) BY <2>1, ScalarOrder
  <2> QED BY <1>3, <2>2, <2>6, <2>7, Kinds DEF PlainLess, BaseOf, VectorTypes
<1> QED BY <1>1, <1>2, <1>3

\* The order in which the generator sorts integers, reals, their vectors and
\* opaque types is a strict total order, so that a signature made of them has
\* one place among the others, where it is found again.
THEOREM PlainOrder ==
    /\ \A s \in PlainTypes : ~PlainLess(s, s)
    /\ \A s, t \in PlainTypes : s # t => PlainLess(s, t) \/ PlainLess(t, s)
    /\ \A s, t, u \in PlainTypes :
          PlainLess(s, t) /\ PlainLess(t, u) => PlainLess(s, u)
<1>1. \A s \in PlainTypes : ~PlainLess(s, s) BY PlainIrreflexive
<1>2. \A s, t \in PlainTypes : s # t => PlainLess(s, t) \/ PlainLess(t, s)
  BY PlainTotal
<1>3. \A s, t, u \in PlainTypes :
          PlainLess(s, t) /\ PlainLess(t, u) => PlainLess(s, u)
  BY PlainTransitive
<1> QED BY <1>1, <1>2, <1>3
=============================================================================
