----------------------------- MODULE AtomicCalls -----------------------------
(***************************************************************************)
(* The calls of atomic functions that some work-items make on one          *)
(* location.  inc and dec are add and sub of one.                          *)
(***************************************************************************)
EXTENDS Integers, Sequences

CONSTANTS
    Items,            \* the work-items that share the location
    Program,          \* by item: the calls it makes, in order
    Fetched(_, _, _), \* the value that a fetch-and-change function leaves
    First,            \* the value of the location at the start
    Values,           \* of the location
    None              \* nothing is read

Fetches == {"add", "sub", "xchg", "and", "or", "xor"}
Loops == {"min", "max"}
AtomicCall == [f : Fetches \cup Loops, x : Values]
                  \cup [f : {"cmpxchg"}, x : Values, cmp : Values]

\* min and max change the location only if it is beyond the argument.
Beyond(c, v) ==
    \/ c.f = "min" /\ v > c.x
    \/ c.f = "max" /\ v < c.x

ASSUME AtomicsAssumption ==
    /\ Values \subseteq Int
    /\ First \in Values
    /\ None \notin Values
    /\ Program \in [Items -> Seq(AtomicCall)]
    /\ \A f \in Fetches, v, x \in Values : Fetched(f, v, x) \in Values
=============================================================================
