----------------------------- MODULE IndexSpace -----------------------------
(***************************************************************************)
(* DimensionInfo: the iteration space of a kernel and its iterator.  A     *)
(* space is [off, global, local], three sequences of one length, at most   *)
(* three.  An iterator is the pair of the indexes inside the work-group    *)
(* and of the indexes of the work-group; the first dimension runs fastest. *)
(***************************************************************************)
EXTENDS Naturals, Sequences

Dims(sp) == 1..Len(sp.global)

Product(s) ==
    LET upTo[n \in 0..Len(s)] == IF n = 0 THEN 1 ELSE upTo[n - 1] * s[n]
    IN  upTo[Len(s)]

\* GetWorkGroupsCount(I): rounded up.
GroupsIn(sp, i) ==
    sp.global[i] \div sp.local[i] + IF sp.global[i] % sp.local[i] = 0 THEN 0 ELSE 1

\* GetLocalWorkItems, GetWorkGroupsCount.
GroupSize(sp) == Product(sp.local)
GroupsCount(sp) == Product(sp.global) \div GroupSize(sp)

Zeros(sp) == [i \in Dims(sp) |-> 0]

Begin(sp) == [local |-> Zeros(sp), group |-> Zeros(sp)]
End(sp) == [local |-> Zeros(sp), group |-> [Zeros(sp) EXCEPT ![1] = GroupsIn(sp, 1)]]

\* One of the loops of Advance: adds a carry to the indexes of the given sizes.
Carried(ids, sizes, carry) ==
    LET out[n \in 0..Len(ids)] ==
            IF n = 0 THEN carry ELSE (ids[n] + out[n - 1]) \div sizes[n]
    IN  [ids   |-> [i \in 1..Len(ids) |-> (ids[i] + out[i - 1]) % sizes[i]],
         carry |-> out[Len(ids)]]

\* Advance: inside the work-group, then between work-groups; what is still
\* carried is beyond the last work-item.
Advance(sp, it, n) ==
    LET inside == Carried(it.local, sp.local, n)
        between == Carried(it.group, [i \in Dims(sp) |-> GroupsIn(sp, i)], inside.carry)
    IN  IF between.carry > 0 THEN End(sp)
        ELSE [local |-> inside.ids, group |-> between.ids]

\* Mutant: the index of the work-group is scaled by their number.
GlobalIdByCount(sp, it) ==
    [i \in Dims(sp) |-> it.group[i] * GroupsIn(sp, i) + it.local[i]]

\* GetGlobalId, in all dimensions.
GlobalId(sp, it) == [i \in Dims(sp) |-> it.group[i] * sp.local[i] + it.local[i]]

=============================================================================
