----------------------------- MODULE Transfers ------------------------------
(***************************************************************************)
(* The loops with which a worker moves bytes.  A transfer is the set of    *)
(* the pairs <<target byte, source byte>> it copies.  An area of a rect-   *)
(* angular transfer is [offset, row, slice]: where it starts, and how far  *)
(* apart its rows and slices are.                                          *)
(***************************************************************************)
EXTENDS Naturals

Host == "host"   \* the memory of the host

NoMoves == {}

\* std::memcpy from an offset to an offset.
Memcpy(to, from, n) == {<<to + i, from + i>> : i \in 0..(n - 1)}

\* Mutant: one pattern too many.
MemFillOnce(to, n, size) == {<<to + i, i % size>> : i \in 0..(n + size - 1)}

\* MemFill: a pattern of the given size, n / size times.
MemFill(to, n, size) ==
    {<<to + i, i % size>> : i \in 0..((n \div size) * size - 1)}

At(area, y, z) == area.offset + y * area.row + z * area.slice

Rows(region) == (0..(region[2] - 1)) \X (0..(region[3] - 1))

\* MemRectCpy: a memcpy of region[1] bytes for every row and slice.
MemRectCpy(region, to, fr) ==
    UNION {Memcpy(At(to, r[1], r[2]), At(fr, r[1], r[2]), region[1]) :
               r \in Rows(region)}

\* MemRectFill: the same element all over the area.
MemRectFill(region, to, size) ==
    UNION {MemFill(At(to, r[1], r[2]), region[1], size) : r \in Rows(region)}

\* The content of memory after the moves.
Moved(m, target, source, moves) ==
    [m EXCEPT ![target] = [i \in DOMAIN @ |->
        LET from == {mv[2] : mv \in {mv \in moves : mv[1] = i}} \cap DOMAIN m[source]
        IN  IF from = {} THEN @[i] ELSE m[source][CHOOSE f \in from : TRUE]]]

=============================================================================
