---------------------------- MODULE AtomicObject -----------------------------
(***************************************************************************)
(* What the atomic functions of kernels promise: every call reads a        *)
(* location, changes it and returns what it read in one step.              *)
(***************************************************************************)
EXTENDS AtomicCalls

VARIABLES
    value,   \* of the location
    results  \* by item: what its calls returned

vars == <<value, results>>

\* The call an item is at, if it has one left.
Running(i) == Len(results[i]) < Len(Program[i])
Current(i) == Program[i][Len(results[i]) + 1]

Changed(c, v) ==
    \/ c.f \in Loops /\ Beyond(c, v)
    \/ c.f = "cmpxchg" /\ v = c.cmp

Applied(c, v) ==
    IF c.f \in Fetches THEN Fetched(c.f, v, c.x) ELSE IF Changed(c, v) THEN c.x ELSE v

Call(i) ==
    /\ Running(i)
    /\ value' = Applied(Current(i), value)
    /\ results' = [results EXCEPT ![i] = Append(@, value)]

Init == value = First /\ results = [i \in Items |-> <<>>]

Next == \E i \in Items : Call(i)

Spec == Init /\ [][Next]_vars

=============================================================================
