------------------------------- MODULE Atomics -------------------------------
(***************************************************************************)
(* The atomic functions as they are made: most are one instruction of the  *)
(* machine; min and max read the location and exchange it in a second      *)
(* step, which fails if it was changed in between.  The work-items run on  *)
(* different workers.                                                      *)
(***************************************************************************)
EXTENDS AtomicCalls

VARIABLES
    value,   \* of the location
    results, \* by item: what its calls returned
    old      \* by item: what the loop of min or max read

atomicVars == <<value, results, old>>

Running(i) == Len(results[i]) < Len(Program[i])
Current(i) == Program[i][Len(results[i]) + 1]
Return(i, v) == results' = [results EXCEPT ![i] = Append(@, v)]

\* One instruction of the machine.
Fetch(i) ==
    /\ Running(i) /\ Current(i).f \in Fetches
    /\ value' = Fetched(Current(i).f, value, Current(i).x)
    /\ Return(i, value)
    /\ UNCHANGED old

\* A failed exchange stores what it found where the expected value was: what
\* the function returns is the old value either way.
CmpXchg(i) ==
    /\ Running(i) /\ Current(i).f = "cmpxchg"
    /\ value' = IF value = Current(i).cmp THEN Current(i).x ELSE value
    /\ Return(i, IF value = Current(i).cmp THEN Current(i).cmp ELSE value)
    /\ UNCHANGED old

\* The loop ends without an exchange if there is nothing to change.
Read(i) ==
    /\ Running(i) /\ Current(i).f \in Loops
    /\ old[i] = None
    /\ IF Beyond(Current(i), value)
       THEN old' = [old EXCEPT ![i] = value] /\ UNCHANGED results
       ELSE Return(i, value) /\ UNCHANGED old
    /\ UNCHANGED value

\* Mutant: the location is written whatever it holds by now.
ExchangeBlindly(i) ==
    /\ old[i] # None
    /\ value' = Current(i).x
    /\ Return(i, old[i])
    /\ old' = [old EXCEPT ![i] = None]

\* Mutant: after a failure the loop goes on with the value it had.
ExchangeAgain(i) ==
    /\ old[i] # None
    /\ value = old[i]
    /\ value' = Current(i).x
    /\ Return(i, old[i])
    /\ old' = [old EXCEPT ![i] = None]

\* A failed exchange goes back to the read.
Exchange(i) ==
    /\ old[i] # None
    /\ IF value = old[i]
       THEN value' = Current(i).x /\ Return(i, old[i])
       ELSE UNCHANGED <<value, results>>
    /\ old' = [old EXCEPT ![i] = None]

Step(i) == Fetch(i) \/ CmpXchg(i) \/ Read(i) \/ Exchange(i)

AtomicInit ==
    /\ value = First
    /\ results = [i \in Items |-> <<>>]
    /\ old = [i \in Items |-> None]

AtomicNext == \E i \in Items : Step(i)

\* A worker goes on with the item it runs.
AtomicSpec ==
    AtomicInit /\ [][AtomicNext]_atomicVars /\ \A i \in Items : WF_atomicVars(Step(i))

---------------------------------------------------------------------------
\* What is read is a value of the type, and kept only between the two steps
\* of a loop that is going to change it.
AtomicTypeOK ==
    /\ value \in Values
    /\ results \in [Items -> Seq(Values)]
    /\ old \in [Items -> Values \cup {None}]

\* A loop is about to make a change that it is right to make.
LoopsChange ==
    \A i \in Items : old[i] # None =>
        Running(i) /\ Current(i).f \in Loops /\ Beyond(Current(i), old[i])

Object == INSTANCE AtomicObject

\* The calls take effect one at a time, each at some moment between its start
\* and its return, and return what the location held at that moment: no
\* change of another item falls between the read of min or max and its
\* exchange unnoticed.
ImplementsAtomicObject == Object!Spec

\* Every call returns: an exchange fails only if another one succeeded.
CallsReturn == <>(\A i \in Items : ~Running(i))
=============================================================================
