------------------------ MODULE MemoryCoherencyProofs ------------------------
(***************************************************************************)
(* What is proved of one memory object, for any size, devices and          *)
(* submissions.                                                            *)
(*                                                                         *)
(* Chunks_Partition: the chunks of MemoryCoherencyTracker partition the    *)
(* object whatever is split, transferred and written, provided that no     *)
(* image ends where the object ends (splitChunk would leave an empty       *)
(* chunk).  Validity_Never_Lies and Readers_See_Latest: the validity bits  *)
(* tell the truth, and a reader finds what was written last.               *)
(*                                                                         *)
(* The argument in five parts: the partition; what the tracker finds in    *)
(* it; Common, which every step keeps, with one Effect lemma per action    *)
(* for what it does to the submissions; then HostInv, for an object in the *)
(* host's memory, and OwnInv, for any other.                               *)
(***************************************************************************)
EXTENDS MemoryCoherency, TLAPS, WellFoundedInduction, FiniteSetTheorems

\* A record with the fields of a MemoryChunk.
IsChunk(c) ==
    /\ c = [off |-> c.off, size |-> c.size, valid |-> c.valid]
    /\ c.off \in Nat /\ c.size \in Nat

\* Partitioned, of any set of chunks.
IsPartition(P) ==
    /\ \A c \in P : IsChunk(c) /\ c.size > 0
    /\ \A x \in Cells : \E c \in P : x \in CellsOf(c)
    /\ \A c, e \in P : CellsOf(c) \cap CellsOf(e) # {} => c = e

Inv == IsPartition(partition)

---------------------------------------------------------------------------
\* The cells of a chunk are those from its offset to its end, the offset
\* being one of them.
LEMMA CellsOfChunk ==
    ASSUME NEW c, IsChunk(c), c.size > 0
    PROVE  /\ c.off \in CellsOf(c)
           /\ \A x : x \in CellsOf(c) <=> x \in Int /\ c.off <= x /\ x < c.off + c.size
BY DEF IsChunk, CellsOf

\* A chunk with fields replaced.
LEMMA ChunkExcept ==
    ASSUME NEW c, NEW o, NEW s, NEW v, c = [off |-> o, size |-> s, valid |-> v]
    PROVE  /\ c.off = o /\ c.size = s /\ c.valid = v
           /\ \A n : [c EXCEPT !.size = n] = [off |-> o, size |-> n, valid |-> v]
           /\ \A w : [c EXCEPT !.valid = w] = [off |-> o, size |-> s, valid |-> w]
<1>1. c.off = o /\ c.size = s /\ c.valid = v
    OBVIOUS
<1>2. \A n : [c EXCEPT !.size = n] = [off |-> o, size |-> n, valid |-> v]
    OBVIOUS
<1>3. \A w : [c EXCEPT !.valid = w] = [off |-> o, size |-> s, valid |-> w]
    OBVIOUS
<1> QED
    BY <1>1, <1>2, <1>3

\* No chunk starts between a chunk that covers a cell and the cell.
LEMMA LastBefore ==
    ASSUME NEW P, IsPartition(P), NEW x \in Cells, NEW e \in P, x \in CellsOf(e),
           NEW d \in P, d.off <= x
    PROVE  d.off <= e.off
<1>0. x \in Int
    BY DEF Cells
<1>1. IsChunk(d) /\ d.size > 0 /\ IsChunk(e) /\ e.size > 0
    BY DEF IsPartition
<1>2. e.off <= x /\ x < e.off + e.size /\ e.off \in Nat /\ e.size \in Nat /\ d.off \in Nat
    BY <1>1, CellsOfChunk DEF IsChunk
<1>3. SUFFICES ASSUME ~(d.off <= e.off) PROVE FALSE
    OBVIOUS
<1>4. d.off \in CellsOf(d)
    BY <1>1, CellsOfChunk
<1>5. d.off \in CellsOf(e)
    BY <1>0, <1>1, <1>2, <1>3, CellsOfChunk
<1>6. d = e
    BY <1>4, <1>5 DEF IsPartition
<1> QED
    BY <1>2, <1>3, <1>6

\* What is behind an offset of a chunk.
LEMMA TailOfChunk ==
    ASSUME NEW c, NEW k, NEW m, NEW v, c = [off |-> k, size |-> m, valid |-> v], NEW o, NEW s
    PROVE  [c EXCEPT !.off = o, !.size = s] = [off |-> o, size |-> s, valid |-> v]
<1>1. [c EXCEPT !.off = o, !.size = s] = [[c EXCEPT !.off = o] EXCEPT !.size = s]
    OBVIOUS
<1> DEFINE d == [c EXCEPT !.off = o]
<1>2. d = [off |-> o, size |-> m, valid |-> v]
    OBVIOUS
<1> HIDE DEF d
<1>3. [d EXCEPT !.size = s] = [off |-> o, size |-> s, valid |-> v]
    BY <1>2, ChunkExcept
<1> QED
    BY <1>1, <1>3 DEF d

\* findChunk finds the chunk that covers a cell.
LEMMA FindChunkCovers ==
    ASSUME NEW P, IsPartition(P), NEW x \in Cells
    PROVE  FindChunk(P, x) \in P /\ x \in CellsOf(FindChunk(P, x))
<1>0. x \in Int
    BY DEF Cells
<1>1. PICK e \in P : x \in CellsOf(e)
    BY DEF IsPartition
<1>2. IsChunk(e) /\ e.size > 0
    BY DEF IsPartition
<1>3. e.off <= x /\ x < e.off + e.size /\ e.off \in Nat /\ e.size \in Nat
    BY <1>1, <1>2, CellsOfChunk DEF IsChunk
<1>4. \A d \in P : d.off <= x => d.off <= e.off
    BY <1>0, <1>1, LastBefore
<1> DEFINE Q(c) == c.off <= x /\ \A d \in P : d.off <= x => d.off <= c.off
<1>5. \E c \in P : Q(c)
    BY <1>3, <1>4
<1>6. FindChunk(P, x) = CHOOSE c \in P : Q(c)
    BY DEF FindChunk
<1>7. FindChunk(P, x) \in P /\ Q(FindChunk(P, x))
    <2> HIDE DEF Q
    <2> QED
        BY <1>5, <1>6, Zenon
<1> DEFINE f == FindChunk(P, x)
<1> HIDE DEF f
<1>8. f \in P /\ f.off <= x /\ e.off <= f.off /\ IsChunk(f) /\ f.size > 0
    BY <1>7, <1>3 DEF f, IsPartition
<1>9. f.off \in CellsOf(f) /\ f.off \in CellsOf(e)
    BY <1>8, <1>2, <1>3, <1>0, CellsOfChunk DEF IsChunk
<1>10. f = e
    BY <1>8, <1>9 DEF IsPartition
<1> QED
    BY <1>8, <1>10, <1>1 DEF f

\* splitChunk inside a chunk replaces it by its two parts.
LEMMA SplitChunkPartitions ==
    ASSUME NEW P, IsPartition(P), NEW c \in P, NEW x \in CellsOf(c)
    PROVE  IsPartition(SplitChunk(P, c, x))
<1>1. CASE c.off = x
    BY <1>1 DEF SplitChunk
<1>2. CASE c.off # x
    <2> DEFINE n == c.off + c.size - x
               a == [c EXCEPT !.size = @ - n]
               b == [off |-> x, size |-> n, valid |-> c.valid]
    <2>1. SplitChunk(P, c, x) = (P \ {c}) \cup {a, b}
        BY <1>2 DEF SplitChunk
    <2>2. IsChunk(c) /\ c.size > 0
        BY DEF IsPartition
    <2>3. x \in Int /\ c.off < x /\ x < c.off + c.size /\ c.off \in Nat /\ c.size \in Nat
        BY <2>2, <1>2, CellsOfChunk DEF IsChunk
    <2>4. /\ a = [off |-> c.off, size |-> c.size - n, valid |-> c.valid]
          /\ b = [off |-> x, size |-> n, valid |-> c.valid]
        <3>1. c = [off |-> c.off, size |-> c.size, valid |-> c.valid]
            BY <2>2 DEF IsChunk
        <3>2. \A m : [c EXCEPT !.size = m] = [off |-> c.off, size |-> m, valid |-> c.valid]
            BY <3>1, ChunkExcept
        <3> QED
            BY <3>2
    <2>5. n \in Nat /\ n > 0 /\ c.size - n = x - c.off /\ x - c.off \in Nat
          /\ x - c.off > 0 /\ x \in Nat
        BY <2>3
    <2> HIDE DEF n
    <2>6. IsChunk(a) /\ a.size > 0 /\ IsChunk(b) /\ b.size > 0
        BY <2>4, <2>5, <2>3 DEF IsChunk
    <2>7. /\ \A y : y \in CellsOf(a) <=> y \in Int /\ c.off <= y /\ y < x
          /\ \A y : y \in CellsOf(b) <=> y \in Int /\ x <= y /\ y < c.off + c.size
          /\ \A y : y \in CellsOf(c) <=> y \in Int /\ c.off <= y /\ y < c.off + c.size
        <3>1. a.off = c.off /\ a.size = x - c.off /\ b.off = x /\ b.size = n
            BY <2>4, <2>5
        <3>2. /\ \A y : y \in CellsOf(a) <=> y \in Int /\ c.off <= y /\ y < c.off + (x - c.off)
              /\ \A y : y \in CellsOf(b) <=> y \in Int /\ x <= y /\ y < x + n
              /\ \A y : y \in CellsOf(c) <=> y \in Int /\ c.off <= y /\ y < c.off + c.size
            BY <3>1, <2>2, <2>6, CellsOfChunk
        <3>3. c.off + (x - c.off) = x /\ x + n = c.off + c.size
            BY <2>3, <2>5 DEF n
        <3> QED
            BY <3>2, <3>3
    <2>8. CellsOf(a) \cap CellsOf(b) = {}
        BY <2>7, <2>3
    <2>9. /\ \A y \in CellsOf(c) : y \in CellsOf(a) \/ y \in CellsOf(b)
          /\ CellsOf(a) \subseteq CellsOf(c) /\ CellsOf(b) \subseteq CellsOf(c)
        BY <2>7, <2>3
    <2> HIDE DEF a, b
    <2>10. \A d \in P \ {c} : CellsOf(d) \cap CellsOf(a) = {} /\ CellsOf(d) \cap CellsOf(b) = {}
        BY <2>9 DEF IsPartition
    <2> DEFINE S == (P \ {c}) \cup {a, b}
    <2>11. \A d \in S : IsChunk(d) /\ d.size > 0
        BY <2>6 DEF IsPartition
    <2>12. \A y \in Cells : \E d \in S : y \in CellsOf(d)
        <3> TAKE y \in Cells
        <3>1. PICK d \in P : y \in CellsOf(d)
            BY DEF IsPartition
        <3> QED
            BY <3>1, <2>9
    <2>13. \A d, e \in S : CellsOf(d) \cap CellsOf(e) # {} => d = e
        BY <2>8, <2>10 DEF IsPartition
    <2> HIDE DEF S
    <2> QED
        BY <2>1, <2>11, <2>12, <2>13 DEF IsPartition, S
<1> QED
    BY <1>1, <1>2

\* Chunks that are replaced by ones at the same place.
LEMMA UpdatePartitions ==
    ASSUME NEW P, IsPartition(P), NEW R \in SUBSET P, NEW f, NEW S,
           \A c \in R : \E v : f[c] = [c EXCEPT !.valid = v],
           \A s \in S : s \in P \ R \/ \E c \in R : s = f[c],
           \A c \in P : IF c \in R THEN f[c] \in S ELSE c \in S
    PROVE  IsPartition(S)
<1>1. ASSUME NEW c \in R
      PROVE  IsChunk(f[c]) /\ f[c].size > 0 /\ CellsOf(f[c]) = CellsOf(c)
    <2>1. PICK v : f[c] = [c EXCEPT !.valid = v]
        BY <1>1
    <2>2. c.off \in Nat /\ c.size \in Nat /\ c.size > 0
          /\ c = [off |-> c.off, size |-> c.size, valid |-> c.valid]
        BY DEF IsPartition, IsChunk
    <2>3. f[c] = [off |-> c.off, size |-> c.size, valid |-> v]
        BY <2>1, <2>2, ChunkExcept
    <2>4. f[c].off = c.off /\ f[c].size = c.size /\ f[c].valid = v
        BY <2>3
    <2> QED
        BY <2>2, <2>3, <2>4 DEF IsChunk, CellsOf
<1>2. \A s \in S : \E c \in P :
          /\ CellsOf(s) = CellsOf(c)
          /\ (s = c /\ c \notin R) \/ (c \in R /\ s = f[c])
    BY <1>1
<1>3. \A s \in S : IsChunk(s) /\ s.size > 0
    BY <1>1 DEF IsPartition
<1>4. \A x \in Cells : \E s \in S : x \in CellsOf(s)
    <2> TAKE x \in Cells
    <2>1. PICK c \in P : x \in CellsOf(c)
        BY DEF IsPartition
    <2>2. CASE c \in R
        BY <2>1, <2>2, <1>1
    <2>3. CASE c \notin R
        BY <2>1, <2>3
    <2> QED
        BY <2>2, <2>3
<1>5. \A s, t \in S : CellsOf(s) \cap CellsOf(t) # {} => s = t
    <2> SUFFICES ASSUME NEW s \in S, NEW t \in S, CellsOf(s) \cap CellsOf(t) # {}
                 PROVE  s = t
        OBVIOUS
    <2>1. PICK c \in P : /\ CellsOf(s) = CellsOf(c)
                         /\ (s = c /\ c \notin R) \/ (c \in R /\ s = f[c])
        BY <1>2
    <2>2. PICK d \in P : /\ CellsOf(t) = CellsOf(d)
                         /\ (t = d /\ d \notin R) \/ (d \in R /\ t = f[d])
        BY <1>2
    <2>3. c = d
        BY <2>1, <2>2 DEF IsPartition
    <2> QED
        BY <2>1, <2>2, <2>3
<1> QED
    BY <1>3, <1>4, <1>5 DEF IsPartition

---------------------------------------------------------------------------
LEMMA InitInv == Init => Inv
<1> SUFFICES ASSUME Init PROVE Inv
    OBVIOUS
<1>1. PICK v : partition = {[off |-> 0, size |-> Size, valid |-> v]}
    BY DEF Init
<1> DEFINE c == [off |-> 0, size |-> Size, valid |-> v]
<1>2. c.off = 0 /\ c.size = Size /\ Size \in Nat /\ Size > 0
    BY CoherencyAssumption
<1>3. IsChunk(c) /\ c.size > 0
    BY <1>2 DEF IsChunk
<1>4. \A x \in Cells : x \in CellsOf(c)
    BY <1>2 DEF Cells, CellsOf
<1> HIDE DEF c
<1> QED
    BY <1>1, <1>3, <1>4 DEF Inv, IsPartition, c

\* The end of an image lies inside the chunk that findChunk returns.
LEMMA CreateImageInv ==
    ASSUME Size \notin ImageSizes, Inv, NEW k \in ImageSizes, CreateImage(k)
    PROVE  Inv'
<1>1. k \in Cells
    BY CoherencyAssumption DEF Cells
<1>2. partition' = SplitChunk(partition, FindChunk(partition, k), k)
    BY DEF CreateImage, AddRegion
<1> QED
    BY <1>1, <1>2, FindChunkCovers, SplitChunkPartitions DEF Inv

LEMMA UpdateRegionInv ==
    ASSUME Inv, NEW t \in Submissions, UpdateRegion(t)
    PROVE  Inv'
<1> DEFINE R == FindRangeFor(partition, 0, RegionSize(op[t].obj))
           f == [c \in R |-> UpdateValidity(c, op[t].mode, op[t].dev, ptr)]
<1>1. R \in SUBSET partition
    BY DEF FindRangeFor
<1>2. partition' = (partition \ R) \cup {f[c] : c \in R}
    BY DEF UpdateRegion
<1>3. \A c \in R : \E v : f[c] = [c EXCEPT !.valid = v]
    BY DEF UpdateValidity
<1> HIDE DEF R, f
<1>4. /\ \A s \in partition' : s \in partition \ R \/ \E c \in R : s = f[c]
      /\ \A c \in partition : IF c \in R THEN f[c] \in partition' ELSE c \in partition'
    BY <1>2
<1> QED
    BY <1>1, <1>3, <1>4, UpdatePartitions DEF Inv

LEMMA NextInv ==
    ASSUME Size \notin ImageSizes, Inv, [Next]_vars
    PROVE  Inv'
<1>1. ASSUME NEW k \in ImageSizes, CreateImage(k) PROVE Inv'
    BY <1>1, CreateImageInv
<1>2. ASSUME NEW t \in Submissions, UpdateRegion(t) PROVE Inv'
    BY <1>2, UpdateRegionInv
<1>3. ASSUME UNCHANGED partition PROVE Inv'
    BY <1>3 DEF Inv
<1>4. ASSUME NEW t \in Submissions,
             \/ \E d \in Devices, o \in Objects, mode \in Modes : Submit(t, d, o, mode)
             \/ MapDevice(t) \/ AllocateDevice(t) \/ ComputeChunks(t) \/ NextChunk(t)
             \/ CopyChunk(t) \/ Run(t) \/ Complete(t)
             \/ \E d \in Devices : Unmap(t, d)
      PROVE  Inv'
    BY <1>3, <1>4 DEF Submit, MapDevice, AllocateDevice, ComputeChunks, NextChunk, CopyChunk,
                Run, Complete, Unmap
<1>5. CASE UNCHANGED vars
    BY <1>3, <1>5 DEF vars
<1> QED
    <2>1. SUFFICES ASSUME Next PROVE Inv'
        BY <1>5
    <2>2. CASE \E k \in ImageSizes : CreateImage(k)
        BY <2>2, <1>1
    <2>3. ASSUME ~ \E k \in ImageSizes : CreateImage(k) PROVE Inv'
        <3>1. PICK t \in Submissions :
                 \/ \E d \in Devices, o \in Objects, mode \in Modes : Submit(t, d, o, mode)
                 \/ MapDevice(t) \/ AllocateDevice(t) \/ ComputeChunks(t) \/ NextChunk(t)
                 \/ CopyChunk(t) \/ UpdateRegion(t) \/ Run(t) \/ Complete(t)
                 \/ \E d \in Devices : Unmap(t, d)
            BY <2>1, <2>3, Zenon DEF Next
        <3> QED
            BY <3>1, <1>2, <1>4
    <2> QED
        BY <2>2, <2>3

\* The chunks of the tracker cover the object, none is empty, and no two of
\* them overlap, so that every cell has one set of validity bits
\* (MemoryCoherencyTracker::addRegion, splitChunk, updateRegion).
THEOREM Chunks_Partition ==
    ASSUME Size \notin ImageSizes
    PROVE  Spec => []Partitioned
<1>1. Init => Inv
    BY InitInv
<1>2. Inv /\ [Next]_vars => Inv'
    BY NextInv
<1>3. Inv => Partitioned
    BY DEF Inv, IsPartition, Partitioned
<1> QED
    BY <1>1, <1>2, <1>3, PTL DEF Spec

---------------------------------------------------------------------------
(* What the tracker finds in a partition of the object.                    *)

\* The chunks are inside the object and valid at locations it may be at.
InObject(P) == \A c \in P : c \in Chunks /\ c.off + c.size <= Size

\* A piece of a chunk, valid where the chunk is.
PieceOf(c, e) == c.valid = e.valid /\ CellsOf(c) \subseteq CellsOf(e)

LEMMA ChunkKind ==
    ASSUME NEW c \in Chunks
    PROVE  IsChunk(c) /\ c.valid \in SUBSET Locations
BY CoherencyAssumption DEF Chunks, IsChunk

LEMMA CellsInObject ==
    ASSUME NEW P, IsPartition(P), InObject(P), NEW c \in P
    PROVE  CellsOf(c) \subseteq Cells
<1>1. c.off \in Nat /\ c.size \in Nat /\ c.off + c.size <= Size
    BY DEF IsPartition, IsChunk, InObject
<1> QED
    BY <1>1, CoherencyAssumption DEF CellsOf, Cells

\* findChunk, at any offset up to the size of the object: the last chunk that
\* does not start behind it.
LEMMA FindChunkAt ==
    ASSUME NEW P, IsPartition(P), InObject(P), NEW x \in 0..Size
    PROVE  /\ FindChunk(P, x) \in P /\ FindChunk(P, x).off <= x
           /\ \A d \in P : d.off <= x => d.off <= FindChunk(P, x).off
<1> DEFINE y == IF x = Size THEN Size - 1 ELSE x
<1>0. y \in Cells /\ y <= x /\ Size \in Nat /\ y \in Int /\ x \in Int
    BY CoherencyAssumption DEF Cells
<1>1. PICK e \in P : y \in CellsOf(e)
    BY <1>0 DEF IsPartition
<1>2. ASSUME NEW d \in P, d.off <= x PROVE d.off <= e.off
    <2>1. d.off \in Nat /\ d.size \in Nat /\ d.size > 0 /\ d.off + d.size <= Size
        BY DEF IsPartition, IsChunk, InObject
    <2>2. d.off <= y
        BY <2>1, <1>2, CoherencyAssumption
    <2> QED
        BY <2>2, <1>0, <1>1, LastBefore
<1>3. e.off <= x
    <2>1. IsChunk(e) /\ e.size > 0 /\ e.off \in Nat
        BY DEF IsPartition, IsChunk
    <2> QED
        BY <2>1, <1>0, <1>1, CellsOfChunk
<1> DEFINE Q(c) == c.off <= x /\ \A d \in P : d.off <= x => d.off <= c.off
<1>4. \E c \in P : Q(c)
    BY <1>2, <1>3
<1>5. FindChunk(P, x) = CHOOSE c \in P : Q(c)
    BY DEF FindChunk
<1>6. FindChunk(P, x) \in P /\ Q(FindChunk(P, x))
    <2> HIDE DEF Q
    <2> QED
        BY <1>4, <1>5, Zenon
<1> QED
    BY <1>6

\* findRangeFor: the region of the whole object is all chunks, and a region
\* of the first cells starts with the chunk of the first.
LEMMA RangeOfAll ==
    ASSUME NEW P, IsPartition(P), InObject(P)
    PROVE  FindRangeFor(P, 0, Size) = P
<1> DEFINE f == FindChunk(P, 0)
           l == FindChunk(P, Size)
<1>1. 0 \in 0..Size /\ Size \in 0..Size /\ Size \in Nat
    BY CoherencyAssumption
<1>2. /\ f \in P /\ f.off <= 0
      /\ l \in P /\ \A d \in P : d.off <= Size => d.off <= l.off
    BY <1>1, FindChunkAt
<1>3. FindRangeFor(P, 0, Size) = {c \in P : f.off <= c.off /\ c.off <= l.off}
    BY <1>1 DEF FindRangeFor
<1> HIDE DEF f, l
<1>4. ASSUME NEW c \in P PROVE f.off <= c.off /\ c.off <= l.off
    <2>1. c.off \in Nat /\ c.size \in Nat /\ c.off + c.size <= Size /\ f.off \in Nat
        BY <1>2 DEF IsPartition, IsChunk, InObject
    <2> QED
        BY <2>1, <1>1, <1>2
<1> QED
    BY <1>3, <1>4

LEMMA RangeStarts ==
    ASSUME NEW P, IsPartition(P), InObject(P), NEW n \in 1..Size
    PROVE  FindRangeFor(P, 0, n) \subseteq P /\ FindRangeFor(P, 0, n) # {}
<1> DEFINE f == FindChunk(P, 0)
           l == FindChunk(P, n)
<1>1. 0 \in 0..Size /\ n \in 0..Size /\ 0 + n = n /\ n \in Nat
    BY CoherencyAssumption
<1>2. /\ f \in P /\ f.off <= 0
      /\ l \in P /\ \A d \in P : d.off <= n => d.off <= l.off
    BY <1>1, FindChunkAt
<1>3. FindRangeFor(P, 0, n) = {c \in P : f.off <= c.off /\ c.off <= l.off}
    BY <1>1 DEF FindRangeFor
<1> HIDE DEF f, l
<1>4. f.off \in Nat /\ f.off <= l.off
    BY <1>1, <1>2 DEF IsPartition, IsChunk
<1> QED
    BY <1>2, <1>3, <1>4

\* Chunks of a partition start at different offsets.
LEMMA OffsetsDiffer ==
    ASSUME NEW P, IsPartition(P), NEW c \in P, NEW e \in P, c.off = e.off
    PROVE  c = e
<1>1. IsChunk(c) /\ c.size > 0 /\ IsChunk(e) /\ e.size > 0
    BY DEF IsPartition
<1>2. c.off \in CellsOf(c) /\ e.off \in CellsOf(e)
    BY <1>1, CellsOfChunk
<1> QED
    BY <1>2 DEF IsPartition

\* splitChunk leaves pieces of chunks.
LEMMA SplitChunkPieces ==
    ASSUME NEW P, IsPartition(P), InObject(P), NEW c \in P, NEW x \in CellsOf(c)
    PROVE  /\ InObject(SplitChunk(P, c, x))
           /\ \A s \in SplitChunk(P, c, x) : \E e \in P : PieceOf(s, e)
<1>1. CASE c.off = x
    BY <1>1 DEF SplitChunk, PieceOf
<1>2. CASE c.off # x
    <2> DEFINE n == c.off + c.size - x
               a == [c EXCEPT !.size = @ - n]
               b == [off |-> x, size |-> n, valid |-> c.valid]
    <2>1. SplitChunk(P, c, x) = (P \ {c}) \cup {a, b}
        BY <1>2 DEF SplitChunk
    <2>2. /\ IsChunk(c) /\ c.size > 0 /\ c.off \in Nat /\ c.size \in Nat
          /\ c.off + c.size <= Size /\ c \in Chunks
        BY DEF IsPartition, InObject, IsChunk
    <2>3. x \in Int /\ c.off < x /\ x < c.off + c.size
        BY <2>2, <1>2, CellsOfChunk
    <2>4. a = [off |-> c.off, size |-> c.size - n, valid |-> c.valid]
        <3>1. c = [off |-> c.off, size |-> c.size, valid |-> c.valid]
            BY <2>2 DEF IsChunk
        <3> QED
            BY <3>1, ChunkExcept
    <2>5. n \in Nat /\ c.size - n \in Nat /\ n <= c.size /\ x + n = c.off + c.size
        BY <2>2, <2>3
    <2>6. Size \in Nat /\ c.valid \in SUBSET Locations
        BY <2>2, ChunkKind, CoherencyAssumption
    <2>7. a \in Chunks /\ a.off + a.size <= Size
        BY <2>2, <2>4, <2>5, <2>6 DEF Chunks
    <2>8. b \in Chunks /\ b.off + b.size <= Size
        BY <2>2, <2>3, <2>5, <2>6 DEF Chunks
    <2>9. PieceOf(a, c)
        BY <2>2, <2>4, <2>5 DEF PieceOf, CellsOf
    <2>10. PieceOf(b, c)
        BY <2>2, <2>3, <2>5 DEF PieceOf, CellsOf
    <2> HIDE DEF a, b
    <2>11. InObject((P \ {c}) \cup {a, b})
        BY <2>7, <2>8 DEF InObject
    <2>12. \A s \in (P \ {c}) \cup {a, b} : \E e \in P : PieceOf(s, e)
        BY <2>9, <2>10 DEF PieceOf
    <2> QED
        BY <2>1, <2>11, <2>12
<1> QED
    BY <1>1, <1>2

\* computeChunksToTransfer, for a region of the first cells.
LEMMA ChunksToTransfer ==
    ASSUME NEW P, IsPartition(P), InObject(P), NEW n \in 1..Size, NEW mode
    PROVE  LET C == ComputeChunksToTransfer(P, 0, n, mode)
           IN  /\ C \in SUBSET Chunks
               /\ \A c \in C : \E e \in P : PieceOf(c, e)
               /\ \A c, e \in C : c.off = e.off => c = e
               /\ "read" \in mode \/ n # Size => C # {}
               /\ "read" \in mode /\ n = Size => C = P
               /\ "read" \notin mode /\ n = Size => C = {}
<1> DEFINE C == ComputeChunksToTransfer(P, 0, n, mode)
           f == FindChunk(P, 0)
           l == FindChunk(P, n)
           t == [l EXCEPT !.off = n, !.size = l.off + l.size - n]
<1>1. 0 \in 0..Size /\ n \in 0..Size /\ 0 + n = n /\ n \in Nat /\ n > 0 /\ Size \in Nat
    BY CoherencyAssumption
<1>2. f \in P /\ l \in P /\ l.off <= n
    BY <1>1, FindChunkAt
<1>3. /\ f.off \in Nat /\ l.off \in Nat /\ l.size \in Nat /\ l.size > 0
      /\ l.off + l.size <= Size /\ l \in Chunks /\ IsChunk(l)
    BY <1>2 DEF IsPartition, IsChunk, InObject
<1>4. CASE "read" \in mode
    <2>1. C = FindRangeFor(P, 0, n)
        BY <1>4 DEF ComputeChunksToTransfer
    <2>2. C \subseteq P /\ C # {} /\ (n = Size => C = P)
        BY <2>1, RangeStarts, RangeOfAll
    <2> HIDE DEF C
    <2>3. /\ \A c \in C : \E e \in P : PieceOf(c, e)
          /\ \A c, e \in C : c.off = e.off => c = e
          /\ C \in SUBSET Chunks
        BY <2>2, OffsetsDiffer DEF PieceOf, InObject
    <2> QED
        BY <1>4, <2>2, <2>3 DEF C
<1>5. CASE "read" \notin mode
    <2>1. C = {t : z \in {y \in {1} : l.off + l.size > n}}
        <3>1. C = {[f EXCEPT !.size = 0 - f.off] : z \in {y \in {1} : f.off < 0}}
                  \cup {t : z \in {y \in {1} : l.off + l.size > n}}
            BY <1>1, <1>5 DEF ComputeChunksToTransfer
        <3>2. {y \in {1} : f.off < 0} = {}
            BY <1>3
        <3> QED
            BY <3>1, <3>2
    <2>2. t = [off |-> n, size |-> l.off + l.size - n, valid |-> l.valid]
        <3> DEFINE k == l.off
                   z == l.size
                   v == l.valid
                   x == k + z - n
        <3>1. l = [off |-> k, size |-> z, valid |-> v]
            BY <1>3 DEF IsChunk
        <3>2. t = [l EXCEPT !.off = n, !.size = x]
            OBVIOUS
        <3> HIDE DEF l, t, k, z, v, x
        <3>3. t = [off |-> n, size |-> x, valid |-> v]
            BY <3>1, <3>2, TailOfChunk
        <3> QED
            BY <3>3 DEF k, z, v, x
    <2>3. CASE n = Size
        <3>1. C = {}
            BY <1>1, <1>3, <2>1, <2>3
        <3> QED
            BY <3>1, <1>5, <2>3
    <2>4. CASE n # Size
        <3>1. l.off + l.size > n
            <4>1. n \in Cells
                BY <1>1, <2>4 DEF Cells
            <4>2. n \in CellsOf(l)
                BY <4>1, FindChunkCovers
            <4> QED
                BY <4>2, <1>3, CellsOfChunk
        <3>2. C = {t}
            BY <2>1, <3>1
        <3>3. l.off + l.size - n \in 0..Size /\ l.valid \in SUBSET Locations
            BY <1>1, <1>2, <1>3, <3>1, ChunkKind
        <3>4. t \in Chunks
            BY <2>2, <3>3, <1>1 DEF Chunks
        <3>5. PieceOf(t, l)
            BY <2>2, <1>1, <1>2, <1>3, <3>1 DEF PieceOf, CellsOf
        <3> HIDE DEF t, C
        <3> QED
            BY <3>2, <3>4, <3>5, <1>2, <1>5, <2>4 DEF C
    <2> QED
        BY <2>3, <2>4
<1> QED
    BY <1>4, <1>5

\* Natural numbers are well ordered by <.
LEMMA NatOrder == IsWellFoundedOn({p \in Nat \X Nat : p[1] < p[2]}, Nat)
<1>1. OpToRel(<, Nat) = {p \in Nat \X Nat : p[1] < p[2]}
    BY DEF OpToRel
<1> QED
    BY <1>1, NatLessThanWellFounded

\* The first of some locations.
LEMMA LeastLocation ==
    ASSUME NEW V \in SUBSET Locations, V # {}
    PROVE  \E d \in V : \A e \in V : d <= e
<1> DEFINE R == {p \in Nat \X Nat : p[1] < p[2]}
<1>1. V \subseteq Nat
    BY CoherencyAssumption DEF Locations, Devices, Host
<1>2. PICK d \in V : \A e \in V : <<e, d>> \notin R
    <2> HIDE DEF R
    <2> QED BY <1>1, NatOrder, WFMin DEF R
<1>3. ASSUME NEW e \in V PROVE d <= e
    <2>1. d \in Nat /\ e \in Nat /\ <<e, d>> \in Nat \X Nat
        BY <1>1
    <2>2. ~(e < d)
        BY <2>1, <1>2
    <2> QED
        BY <2>1, <2>2
<1> QED
    BY <1>3

LEMMA NullIsNoStore == ASSUME NEW d, NEW k PROVE Null # <<d, k>>
BY DEF Null

---------------------------------------------------------------------------
(* What every step keeps, however the object was made.                     *)

\* Where a storage may be, and what a submission may be busy with.
Places == (Devices \X Int) \cup {HostStore, Null}

Steps == {"idle", "map", "allocate", "compute", "transfer", "copy", "validity", "run", "done"}

Ops == [pc : Steps, dev : Devices, obj : Objects, mode : SUBSET {"map", "read", "write"},
        excl : BOOLEAN, todo : SUBSET Chunks, dst : Places, addr : Places,
        next : {"idle", "compute", "copy", "run"}]

Shapes ==
    /\ IsPartition(partition) /\ InObject(partition)
    /\ ptr \in [Objects -> [Devices -> Places]]
    /\ allocs \in [Devices -> Nat]
    /\ DOMAIN mem = Stores
    /\ writes \in Nat
    /\ op \in [Submissions -> Ops]

Busy(t) == op[t].pc # "idle"

\* Submissions at work at once are of different devices, and none of them
\* writes.
Exclusive ==
    /\ \A t, u \in Submissions : t # u /\ Busy(t) /\ Busy(u) =>
           ~op[t].excl /\ op[t].dev # op[u].dev
    /\ \A t \in Submissions : Busy(t) =>
           /\ "read" \in op[t].mode \/ "write" \in op[t].mode
           /\ "write" \in op[t].mode => op[t].excl

\* A submission maps its device for what comes next; copies a chunk; is
\* anywhere in step 2 of updateRegion; is behind step 3.
Mapping(t, next) == op[t].pc \in {"map", "allocate"} /\ op[t].next = next
Copying(t) == op[t].pc = "copy" \/ Mapping(t, "copy")
Transferring(t) == op[t].pc \in {"transfer", "validity"} \/ Copying(t)
Running(t) == op[t].next = "run" /\ op[t].pc \in {"map", "allocate", "run"}

Target(t) == IF "map" \in op[t].mode /\ HostPtrMode = "use" THEN Host ELSE op[t].dev

IsFirst(c, S) == c \in S /\ \A e \in S : c.off <= e.off

\* The chunks to transfer are told apart by their offsets; the first one is
\* copied because it is valid somewhere else.
KnowsChunks(t) ==
    /\ Transferring(t) => \A c, e \in op[t].todo : c.off = e.off => c = e
    /\ Copying(t) => \E c \in op[t].todo :
           IsFirst(c, op[t].todo) /\ c.valid # {} /\ Target(t) \notin c.valid
    /\ op[t].pc = "validity" => op[t].todo = {}

Transfers == \A t \in Submissions : KnowsChunks(t)

Common == Shapes /\ Exclusive /\ Transfers

---------------------------------------------------------------------------
(* What a step does to the submissions.                                    *)

Others(t) == \A u \in Submissions \ {t} : op'[u] = op[u]

\* The command of a submission stays the same.
SameCommand(t) ==
    /\ op'[t].dev = op[t].dev /\ op'[t].obj = op[t].obj
    /\ op'[t].mode = op[t].mode /\ op'[t].excl = op[t].excl

\* The object of which the storage is mapped.
Mapped(t) == IF op[t].next = "copy" THEN 0 ELSE op[t].obj

LEMMA ObjectKinds ==
    /\ 0 \in Objects /\ Objects \subseteq 0..Size /\ ImageSizes \subseteq Objects
    /\ \A o \in Objects : RegionSize(o) \in 1..Size
    /\ Null \in Places /\ HostStore \in Places
BY CoherencyAssumption DEF Objects, RegionSize, Places

LEMMA NewStorePlace ==
    ASSUME Shapes, NEW o \in Objects, NEW d \in Devices
    PROVE  NewStore(o, d) \in Places
<1>1. o \in Int /\ allocs[d] \in Nat
    BY ObjectKinds, CoherencyAssumption DEF Shapes
<1> QED
    BY <1>1 DEF NewStore, Places

LEMMA IdleKind ==
    /\ Idle \in Ops
    /\ Idle.pc = "idle" /\ Idle.dev = 1 /\ Idle.obj = 0 /\ Idle.mode = {} /\ Idle.excl = FALSE
    /\ Idle.todo = {} /\ Idle.dst = Null /\ Idle.addr = Null /\ Idle.next = "idle"
<1>1. 1 \in Devices
    BY CoherencyAssumption DEF Devices
<1> QED
    BY <1>1, ObjectKinds DEF Idle, Ops, Steps

LEMMA SubmitEffect ==
    ASSUME Shapes, NEW t \in Submissions, NEW d \in Devices, NEW o \in Objects,
           NEW mode \in Modes, Submit(t, d, o, mode)
    PROVE  /\ op' \in [Submissions -> Ops] /\ Others(t)
           /\ op'[t].dev = d /\ op'[t].obj = o /\ op'[t].mode = mode
           /\ op'[t].excl = ("write" \in mode) /\ op'[t].next = "compute"
           /\ op'[t].dst = HostStore
           /\ op'[t].pc = IF "map" \in mode /\ HostPtrMode # "use" THEN "map" ELSE "compute"
<1>1. mode \in SUBSET {"map", "read", "write"} /\ 1 \in Devices
    BY CoherencyAssumption DEF Devices
<1> DEFINE w == "write" \in mode
           s == IF "map" \in mode /\ HostPtrMode # "use" THEN "map" ELSE "compute"
           r == [Idle EXCEPT !.dev = d, !.obj = o, !.mode = mode, !.excl = w,
                             !.dst = HostStore, !.pc = s, !.next = "compute"]
<1>2. op' = [op EXCEPT ![t] = r]
    BY DEF Submit
<1>3. w \in BOOLEAN /\ s \in Steps
    BY DEF Steps
<1> HIDE DEF w, s
<1>4. r \in Ops
    BY <1>1, <1>3, IdleKind, ObjectKinds DEF Ops
<1>5. /\ r.dev = d /\ r.obj = o /\ r.mode = mode /\ r.excl = w
      /\ r.next = "compute" /\ r.dst = HostStore /\ r.pc = s
    BY IdleKind DEF Ops
<1> HIDE DEF r
<1>6. op' \in [Submissions -> Ops] /\ Others(t) /\ op'[t] = r
    BY <1>2, <1>4 DEF Shapes, Others
<1> QED
    BY <1>5, <1>6 DEF w, s

LEMMA MapDeviceEffect ==
    ASSUME Shapes, NEW t \in Submissions, MapDevice(t)
    PROVE  /\ op' \in [Submissions -> Ops] /\ Others(t) /\ SameCommand(t)
           /\ op'[t].todo = op[t].todo /\ op'[t].addr = op[t].addr /\ op'[t].next = op[t].next
           /\ \/ /\ ptr[Mapped(t)][op[t].dev] = Null
                 /\ op'[t].pc = "allocate" /\ op'[t].dst = op[t].dst
              \/ /\ ptr[Mapped(t)][op[t].dev] # Null
                 /\ op'[t].pc = op[t].next
                 /\ op'[t].dst = ptr[Mapped(t)][op[t].dev]
<1> DEFINE p == ptr[Mapped(t)][op[t].dev]
<1>0. op[t] \in Ops /\ Mapped(t) \in Objects /\ op[t].dev \in Devices
    BY ObjectKinds DEF Shapes, Ops, Mapped
<1>1. op[t] \in Ops /\ p \in Places
    BY <1>0 DEF Shapes
<1>2. CASE p = Null
    <2>1. op' = [op EXCEPT ![t].pc = "allocate"]
        BY <1>2 DEF MapDevice, Mapped
    <2> QED
        BY <1>1, <1>2, <2>1 DEF Shapes, Ops, Steps, Others, SameCommand
<1>3. CASE p # Null
    <2>1. op' = [op EXCEPT ![t].pc = op[t].next, ![t].dst = p]
        BY <1>3 DEF MapDevice, Mapped
    <2> HIDE DEF p
    <2> QED
        BY <1>1, <1>3, <2>1 DEF Shapes, Ops, Steps, Others, SameCommand, p
<1> QED
    BY <1>2, <1>3

LEMMA AllocateDeviceEffect ==
    ASSUME Shapes, NEW t \in Submissions, AllocateDevice(t)
    PROVE  /\ op' \in [Submissions -> Ops] /\ Others(t) /\ SameCommand(t)
           /\ op'[t].todo = op[t].todo /\ op'[t].addr = op[t].addr /\ op'[t].next = op[t].next
           /\ op'[t].pc = op[t].next /\ op'[t].dst = NewStore(Mapped(t), op[t].dev)
<1> DEFINE p == NewStore(Mapped(t), op[t].dev)
<1>1. op[t] \in Ops /\ Mapped(t) \in Objects /\ op[t].dev \in Devices
    BY ObjectKinds DEF Shapes, Ops, Mapped
<1>2. p \in Places
    BY <1>1, NewStorePlace
<1>3. op' = [op EXCEPT ![t].pc = op[t].next, ![t].dst = p]
    BY DEF AllocateDevice, Mapped
<1> HIDE DEF p
<1>4. QED
    BY <1>1, <1>2, <1>3 DEF Shapes, Ops, Steps, Others, SameCommand, p

LEMMA ComputeChunksEffect ==
    ASSUME Shapes, NEW t \in Submissions, ComputeChunks(t)
    PROVE  /\ op' \in [Submissions -> Ops] /\ Others(t) /\ SameCommand(t)
           /\ op'[t].pc = "transfer" /\ op'[t].addr = op[t].dst
           /\ op'[t].dst = op[t].dst /\ op'[t].next = op[t].next
           /\ op'[t].todo =
                  ComputeChunksToTransfer(partition, 0, RegionSize(op[t].obj), op[t].mode)
<1> DEFINE C == ComputeChunksToTransfer(partition, 0, RegionSize(op[t].obj), op[t].mode)
<1>1. op[t] \in Ops /\ op[t].obj \in Objects
    BY DEF Shapes, Ops
<1>2. C \in SUBSET Chunks
    <2> DEFINE n == RegionSize(op[t].obj)
    <2>1. n \in 1..Size
        BY <1>1, ObjectKinds
    <2> HIDE DEF n
    <2>2. ComputeChunksToTransfer(partition, 0, n, op[t].mode) \in SUBSET Chunks
        BY <2>1, ChunksToTransfer DEF Shapes
    <2> QED
        BY <2>2 DEF n
<1>3. op' = [op EXCEPT ![t].pc = "transfer", ![t].addr = op[t].dst, ![t].todo = C]
    BY DEF ComputeChunks
<1> HIDE DEF C
<1>4. op' \in [Submissions -> Ops] /\ Others(t)
    BY <1>1, <1>2, <1>3 DEF Shapes, Ops, Steps, Others
<1>5. /\ SameCommand(t)
      /\ op'[t].pc = "transfer" /\ op'[t].addr = op[t].dst
      /\ op'[t].dst = op[t].dst /\ op'[t].next = op[t].next
      /\ op'[t].todo = C
    BY <1>1, <1>3 DEF Shapes, Ops, SameCommand
<1> QED
    BY <1>4, <1>5 DEF C

LEMMA NextChunkEffect ==
    ASSUME Shapes, NEW t \in Submissions, NextChunk(t)
    PROVE  /\ op' \in [Submissions -> Ops] /\ Others(t) /\ SameCommand(t)
           /\ op'[t].addr = op[t].addr
           /\ \/ /\ op[t].todo = {} /\ op'[t].pc = "validity"
                 /\ op'[t].todo = op[t].todo /\ op'[t].dst = op[t].dst
                 /\ op'[t].next = op[t].next
              \/ \E c \in op[t].todo :
                   /\ IsFirst(c, op[t].todo)
                   /\ \/ /\ c.valid = {} \/ Target(t) \in c.valid
                         /\ op'[t].todo = op[t].todo \ {c} /\ op'[t].pc = "transfer"
                         /\ op'[t].dst = op[t].dst /\ op'[t].next = op[t].next
                      \/ /\ c.valid # {} /\ Target(t) \notin c.valid
                         /\ op'[t].todo = op[t].todo
                         /\ \/ /\ Target(t) = Host /\ op'[t].pc = "copy"
                               /\ op'[t].dst = HostStore /\ op'[t].next = op[t].next
                            \/ /\ Target(t) = op[t].dev /\ op'[t].pc = "map"
                               /\ op'[t].dst = op[t].dst /\ op'[t].next = "copy"
<1>1. op[t] \in Ops /\ op[t].pc = "transfer"
    BY DEF Shapes, NextChunk
<1>2. CASE op[t].todo = {} /\ Goto(t, "validity")
    BY <1>1, <1>2 DEF Shapes, Ops, Steps, Others, SameCommand, Goto
<1>3. ASSUME NEW c \in op[t].todo, IsFirst(c, op[t].todo),
             c.valid = {} \/ Target(t) \in c.valid, op' = [op EXCEPT ![t].todo = @ \ {c}]
      PROVE  /\ op' \in [Submissions -> Ops] /\ Others(t) /\ SameCommand(t)
             /\ op'[t].addr = op[t].addr /\ op'[t].todo = op[t].todo \ {c}
             /\ op'[t].pc = "transfer" /\ op'[t].dst = op[t].dst /\ op'[t].next = op[t].next
    BY <1>1, <1>3 DEF Shapes, Ops, Others, SameCommand
<1>4. ASSUME op' = [op EXCEPT ![t].pc = "copy", ![t].dst = HostStore]
      PROVE  /\ op' \in [Submissions -> Ops] /\ Others(t) /\ SameCommand(t)
             /\ op'[t].addr = op[t].addr /\ op'[t].todo = op[t].todo
             /\ op'[t].pc = "copy" /\ op'[t].dst = HostStore /\ op'[t].next = op[t].next
    <2>1. HostStore \in Places
        BY ObjectKinds
    <2> HIDE DEF HostStore
    <2> QED
        BY <1>1, <1>4, <2>1 DEF Shapes, Ops, Steps, Others, SameCommand
<1>5. ASSUME op' = [op EXCEPT ![t].pc = "map", ![t].next = "copy"]
      PROVE  /\ op' \in [Submissions -> Ops] /\ Others(t) /\ SameCommand(t)
             /\ op'[t].addr = op[t].addr /\ op'[t].todo = op[t].todo
             /\ op'[t].pc = "map" /\ op'[t].dst = op[t].dst /\ op'[t].next = "copy"
    BY <1>1, <1>5 DEF Shapes, Ops, Steps, Others, SameCommand
<1>6. \/ op[t].todo = {} /\ Goto(t, "validity")
      \/ \E c \in op[t].todo :
            /\ IsFirst(c, op[t].todo)
            /\ \/ /\ c.valid = {} \/ Target(t) \in c.valid
                  /\ op' = [op EXCEPT ![t].todo = @ \ {c}]
               \/ /\ c.valid # {} /\ Target(t) \notin c.valid
                  /\ \/ /\ Target(t) = Host
                        /\ op' = [op EXCEPT ![t].pc = "copy", ![t].dst = HostStore]
                     \/ /\ Target(t) = op[t].dev
                        /\ op' = [op EXCEPT ![t].pc = "map", ![t].next = "copy"]
    BY DEF NextChunk, IsFirst, Target
<1> QED
    <2>1. CASE op[t].todo = {} /\ Goto(t, "validity")
        BY <1>1, <2>1 DEF Shapes, Ops, Steps, Others, SameCommand, Goto
    <2>2. ASSUME NEW c \in op[t].todo, IsFirst(c, op[t].todo),
                 \/ /\ c.valid = {} \/ Target(t) \in c.valid
                    /\ op' = [op EXCEPT ![t].todo = @ \ {c}]
                 \/ /\ c.valid # {} /\ Target(t) \notin c.valid
                    /\ \/ /\ Target(t) = Host
                          /\ op' = [op EXCEPT ![t].pc = "copy", ![t].dst = HostStore]
                       \/ /\ Target(t) = op[t].dev
                          /\ op' = [op EXCEPT ![t].pc = "map", ![t].next = "copy"]
          PROVE  /\ op' \in [Submissions -> Ops] /\ Others(t) /\ SameCommand(t)
                 /\ op'[t].addr = op[t].addr
                 /\ \/ /\ c.valid = {} \/ Target(t) \in c.valid
                       /\ op'[t].todo = op[t].todo \ {c} /\ op'[t].pc = "transfer"
                       /\ op'[t].dst = op[t].dst /\ op'[t].next = op[t].next
                    \/ /\ c.valid # {} /\ Target(t) \notin c.valid
                       /\ op'[t].todo = op[t].todo
                       /\ \/ /\ Target(t) = Host /\ op'[t].pc = "copy"
                             /\ op'[t].dst = HostStore /\ op'[t].next = op[t].next
                          \/ /\ Target(t) = op[t].dev /\ op'[t].pc = "map"
                             /\ op'[t].dst = op[t].dst /\ op'[t].next = "copy"
        <3>1. CASE /\ c.valid = {} \/ Target(t) \in c.valid
                   /\ op' = [op EXCEPT ![t].todo = @ \ {c}]
            BY <2>2, <3>1, <1>3, Zenon
        <3>2. CASE /\ c.valid # {} /\ Target(t) \notin c.valid /\ Target(t) = Host
                   /\ op' = [op EXCEPT ![t].pc = "copy", ![t].dst = HostStore]
            BY <3>2, <1>4, Zenon
        <3>3. CASE /\ c.valid # {} /\ Target(t) \notin c.valid /\ Target(t) = op[t].dev
                   /\ op' = [op EXCEPT ![t].pc = "map", ![t].next = "copy"]
            BY <3>3, <1>5, Zenon
        <3> QED
            BY <2>2, <3>1, <3>2, <3>3, Zenon
    <2> QED
        BY <1>2, <1>6, <2>2, Zenon

\* The chunk that is copied, where it comes from, and where it goes.
FirstOf(t) == CHOOSE c \in op[t].todo : \A e \in op[t].todo : c.off <= e.off
FirstValid(c) == CHOOSE d \in c.valid : \A e \in c.valid : d <= e
FromHost(t) == Target(t) # Host /\ Host \in FirstOf(t).valid
Source(t) ==
    LET first == FirstValid(FirstOf(t))
    IN  IF FromHost(t) THEN HostStore
        ELSE IF ptr[0][first] = Null THEN NewStore(0, first) ELSE ptr[0][first]

LEMMA TargetIs ==
    ASSUME Shapes, NEW t \in Submissions
    PROVE  /\ Target(t) = Host <=> "map" \in op[t].mode /\ HostPtrMode = "use"
           /\ Target(t) # Host => Target(t) = op[t].dev
           /\ op[t].dev \in Devices /\ op[t].dev # Host
<1>1. op[t].dev \in Devices /\ op[t].dev # Host
    BY CoherencyAssumption DEF Shapes, Ops, Devices, Host
<1> QED
    BY <1>1 DEF Target

LEMMA FirstOfTodo ==
    ASSUME Shapes, Transfers, NEW t \in Submissions, op[t].pc = "copy"
    PROVE  /\ IsFirst(FirstOf(t), op[t].todo)
           /\ FirstOf(t) \in Chunks
           /\ FirstOf(t).valid \in SUBSET Locations
           /\ Target(t) \notin FirstOf(t).valid
           /\ FirstValid(FirstOf(t)) \in FirstOf(t).valid
           /\ ~FromHost(t) => FirstValid(FirstOf(t)) \in Devices
<1>1. PICK c \in op[t].todo : IsFirst(c, op[t].todo) /\ c.valid # {} /\ Target(t) \notin c.valid
    BY DEF Transfers, KnowsChunks, Copying
<1>2. \A e \in op[t].todo : c.off = e.off => c = e
    BY DEF Transfers, KnowsChunks, Transferring, Copying
<1>3. op[t].todo \in SUBSET Chunks
    BY DEF Shapes, Ops
<1>4. FirstOf(t) \in op[t].todo /\ \A e \in op[t].todo : FirstOf(t).off <= e.off
    BY <1>1 DEF FirstOf, IsFirst
<1>5. FirstOf(t) = c
    <2>1. FirstOf(t).off <= c.off /\ c.off <= FirstOf(t).off
        BY <1>1, <1>4 DEF IsFirst
    <2>2. FirstOf(t).off \in Nat /\ c.off \in Nat
        BY <1>3, <1>4, CoherencyAssumption DEF Chunks
    <2> QED
        BY <1>2, <1>4, <2>1, <2>2
<1>6. c \in Chunks /\ c.valid \in SUBSET Locations
    BY <1>3, ChunkKind
<1>7. FirstValid(c) \in c.valid
    BY <1>1, <1>6, LeastLocation DEF FirstValid
<1>8. ~FromHost(t) => FirstValid(c) \in Devices
    BY <1>1, <1>5, <1>6, <1>7, TargetIs DEF FromHost, Locations
<1> QED
    BY <1>1, <1>4, <1>5, <1>6, <1>7, <1>8

LEMMA CopyChunkEffect ==
    ASSUME Shapes, NEW t \in Submissions, CopyChunk(t)
    PROVE  /\ op' \in [Submissions -> Ops] /\ Others(t) /\ SameCommand(t)
           /\ op'[t].addr = op[t].addr /\ op'[t].dst = op[t].dst /\ op'[t].next = op[t].next
           /\ op'[t].pc = "transfer" /\ op'[t].todo = op[t].todo \ {FirstOf(t)}
           /\ mem' = [mem EXCEPT ![op[t].dst] = [x \in Cells |->
                         IF x \in CellsOf(FirstOf(t)) THEN mem[Source(t)][x] ELSE @[x]]]
           /\ \/ UNCHANGED <<ptr, allocs>>
              \/ LET first == FirstValid(FirstOf(t))
                 IN  /\ ~FromHost(t) /\ ptr[0][first] = Null
                     /\ ptr' = [ptr EXCEPT ![0][first] = NewStore(0, first)]
                     /\ allocs' = [allocs EXCEPT ![first] =
                                      IF HostPtrMode # "use" THEN @ + 1 ELSE @]
<1> DEFINE c == FirstOf(t)
           first == FirstValid(c)
<1>1. op[t] \in Ops
    BY DEF Shapes
<1>2. op' = [op EXCEPT ![t].pc = "transfer", ![t].todo = @ \ {c}]
    BY DEF CopyChunk, FirstOf
<1>3. mem' = [mem EXCEPT ![op[t].dst] = [x \in Cells |->
                 IF x \in CellsOf(c) THEN mem[Source(t)][x] ELSE @[x]]]
    <2> DEFINE fromHost == ~("map" \in op[t].mode /\ HostPtrMode = "use") /\ Host \in c.valid
               src == IF fromHost THEN HostStore
                      ELSE IF ptr[0][first] = Null THEN NewStore(0, first) ELSE ptr[0][first]
    <2>1. mem' = [mem EXCEPT ![op[t].dst] = [x \in Cells |->
                     IF x \in CellsOf(c) THEN mem[src][x] ELSE @[x]]]
        BY Zenon DEF CopyChunk, FirstOf, FirstValid
    <2>2. src = Source(t)
        BY TargetIs, Zenon DEF Source, FromHost
    <2> HIDE DEF src
    <2> QED
        BY <2>1, <2>2, Zenon
<1>4. IF FromHost(t) \/ ptr[0][first] # Null
      THEN UNCHANGED <<ptr, allocs>>
      ELSE /\ ptr' = [ptr EXCEPT ![0][first] = NewStore(0, first)]
           /\ allocs' = [allocs EXCEPT ![first] =
                            IF HostPtrMode # "use" THEN @ + 1 ELSE @]
    BY TargetIs DEF CopyChunk, FirstOf, FirstValid, FromHost
<1> HIDE DEF c
<1>5. /\ op' \in [Submissions -> Ops] /\ Others(t) /\ SameCommand(t)
      /\ op'[t].addr = op[t].addr /\ op'[t].dst = op[t].dst /\ op'[t].next = op[t].next
      /\ op'[t].pc = "transfer" /\ op'[t].todo = op[t].todo \ {c}
    BY <1>1, <1>2 DEF Shapes, Ops, Steps, Others, SameCommand
<1> QED
    BY <1>3, <1>4, <1>5, Zenon DEF c

LEMMA UpdateRegionEffect ==
    ASSUME Shapes, NEW t \in Submissions, UpdateRegion(t)
    PROVE  /\ op' \in [Submissions -> Ops] /\ Others(t) /\ SameCommand(t)
           /\ op'[t].addr = op[t].addr /\ op'[t].dst = op[t].dst /\ op'[t].todo = op[t].todo
           /\ op'[t].pc = "map" /\ op'[t].next = "run"
BY DEF Shapes, UpdateRegion, Ops, Steps, Others, SameCommand

LEMMA RunEffect ==
    ASSUME Shapes, NEW t \in Submissions, Run(t)
    PROVE  /\ op' \in [Submissions -> Ops] /\ Others(t) /\ SameCommand(t)
           /\ op'[t].pc = "done" /\ op'[t].addr = op[t].addr
<1>1. op' = [op EXCEPT ![t].pc = "done"]
    BY Zenon DEF Run, Goto
<1>2. op[t] \in Ops
    BY DEF Shapes
<1> QED
    BY <1>1, <1>2 DEF Shapes, Ops, Steps, Others, SameCommand

LEMMA CompleteEffect ==
    ASSUME Shapes, NEW t \in Submissions, Complete(t)
    PROVE  /\ op' \in [Submissions -> Ops] /\ Others(t)
           /\ op'[t] = Idle
BY IdleKind DEF Shapes, Complete, Others

LEMMA UnmapEffect ==
    ASSUME Shapes, NEW t \in Submissions, NEW d \in Devices, Unmap(t, d)
    PROVE  /\ op' \in [Submissions -> Ops] /\ Others(t)
           /\ op'[t].pc = "compute" /\ op'[t].dev = d /\ op'[t].obj = op[t].obj
           /\ op'[t].mode = {"read"} /\ op'[t].excl = op[t].excl
           /\ op'[t].dst = Null /\ op'[t].next = "idle"
<1> DEFINE r == [Idle EXCEPT !.pc = "compute", !.dev = d, !.obj = op[t].obj,
                             !.mode = {"read"}, !.excl = op[t].excl]
<1>1. op' = [op EXCEPT ![t] = r]
    BY DEF Unmap
<1>2. op[t].obj \in Objects /\ op[t].excl \in BOOLEAN /\ {"read"} \in SUBSET {"map", "read", "write"}
    BY DEF Shapes, Ops
<1>3. r \in Ops
    BY <1>2, IdleKind DEF Ops, Steps
<1>4. /\ r.pc = "compute" /\ r.dev = d /\ r.obj = op[t].obj /\ r.mode = {"read"}
      /\ r.excl = op[t].excl /\ r.dst = Null /\ r.next = "idle"
    BY IdleKind DEF Ops
<1> HIDE DEF r
<1> QED
    BY <1>1, <1>3, <1>4 DEF Shapes, Others

---------------------------------------------------------------------------
(* Common is kept by every step.                                           *)

LEMMA OthersKnow ==
    ASSUME Transfers, NEW t \in Submissions, Others(t), KnowsChunks(t)'
    PROVE  Transfers'
<1>1. ASSUME NEW u \in Submissions, u # t PROVE KnowsChunks(u)'
    <2>1. op'[u] = op[u] /\ KnowsChunks(u)
        BY <1>1 DEF Others, Transfers
    <2> QED
        BY <2>1 DEF KnowsChunks, Transferring, Copying, Mapping, Target
<1> QED
    BY <1>1 DEF Transfers

LEMMA SameExclusive ==
    ASSUME Exclusive, NEW t \in Submissions, Busy(t), Others(t), SameCommand(t)
    PROVE  Exclusive'
<1>1. \A u \in Submissions : /\ op'[u].dev = op[u].dev /\ op'[u].mode = op[u].mode
                             /\ op'[u].excl = op[u].excl /\ (Busy(u)' => Busy(u))
    BY DEF Others, SameCommand, Busy
<1> QED
    BY <1>1 DEF Exclusive, Busy

LEMMA UpdateValidityKind ==
    ASSUME NEW c \in Chunks, NEW mode, NEW d \in Devices, NEW p
    PROVE  \E v \in SUBSET Locations :
               UpdateValidity(c, mode, d, p) = [off |-> c.off, size |-> c.size, valid |-> v]
<1>1. c = [off |-> c.off, size |-> c.size, valid |-> c.valid] /\ c.valid \in SUBSET Locations
    BY ChunkKind DEF IsChunk
<1> DEFINE kept == IF "write" \in mode THEN {} ELSE c.valid
           v == IF "map" \in mode /\ HostPtrMode = "use"
                THEN UpdateHostValidity(kept, p)
                ELSE IF Aliases(p, d)
                THEN UpdateHostValidity(kept \cup {d}, p)
                ELSE kept \cup {d}
<1>2. kept \in SUBSET Locations /\ d \in Locations /\ Host \in Locations /\ Devices \subseteq Locations
    BY <1>1 DEF Locations
<1> HIDE DEF kept
<1>3. v \in SUBSET Locations
    BY <1>2 DEF UpdateHostValidity
<1>4. UpdateValidity(c, mode, d, p) = [c EXCEPT !.valid = v]
    BY DEF UpdateValidity, kept
<1> HIDE DEF v
<1> QED
    BY <1>1, <1>3, <1>4, ChunkExcept

LEMMA CreateImageCommon ==
    ASSUME Size \notin ImageSizes, Common, NEW k \in ImageSizes, CreateImage(k)
    PROVE  Common'
<1> USE DEF Common
<1>1. k \in Cells
    BY CoherencyAssumption DEF Cells
<1>2. partition' = SplitChunk(partition, FindChunk(partition, k), k)
    BY DEF CreateImage, AddRegion
<1>3. FindChunk(partition, k) \in partition /\ k \in CellsOf(FindChunk(partition, k))
    BY <1>1, FindChunkCovers DEF Shapes
<1>4. IsPartition(partition')
    BY <1>2, <1>3, SplitChunkPartitions DEF Shapes
<1>5. InObject(partition')
    BY <1>2, <1>3, SplitChunkPieces DEF Shapes
<1>6. ptr' \in [Objects -> [Devices -> Places]]
    <2>1. \A d \in Devices : NewStore(k, d) \in Places
        BY ObjectKinds, NewStorePlace
    <2> QED
        BY <2>1, ObjectKinds DEF CreateImage, Shapes
<1>7. UNCHANGED <<allocs, mem, writes, op>>
    BY DEF CreateImage
<1>8. Shapes'
    BY <1>4, <1>5, <1>6, <1>7 DEF Shapes
<1>9. Exclusive'
    BY <1>7 DEF Exclusive, Busy
<1>10. Transfers'
    BY <1>7 DEF Transfers, KnowsChunks, Transferring, Copying, Mapping, Target
<1> QED
    BY <1>8, <1>9, <1>10

LEMMA SubmitCommon ==
    ASSUME ~ShareDevice, Common, NEW t \in Submissions, NEW d \in Devices, NEW o \in Objects,
           NEW mode \in Modes, Submit(t, d, o, mode)
    PROVE  Common'
<1> USE DEF Common
<1>1. /\ op' \in [Submissions -> Ops] /\ Others(t)
      /\ op'[t].dev = d /\ op'[t].mode = mode
      /\ op'[t].excl = ("write" \in mode) /\ op'[t].next = "compute"
      /\ op'[t].pc \in {"map", "compute"}
    BY SubmitEffect
<1>2. UNCHANGED <<partition, ptr, allocs, mem, writes>>
    BY DEF Submit
<1>3. Shapes'
    BY <1>1, <1>2 DEF Shapes
<1>4. Exclusive'
    <2>1. \A u \in Submissions : Busy(u) =>
              /\ "write" \notin mode /\ ~op[u].excl /\ op[u].dev # d
        BY DEF Submit, Busy
    <2>2. \A u \in Submissions \ {t} : op'[u] = op[u]
        BY <1>1 DEF Others
    <2>3. ASSUME NEW u \in Submissions, u # t, op'[u].pc # "idle"
          PROVE  ~op'[t].excl /\ op'[t].dev # op'[u].dev /\ ~op'[u].excl
        BY <1>1, <2>1, <2>2, <2>3 DEF Busy
    <2>4. /\ "write" \in op'[t].mode => op'[t].excl
          /\ "read" \in op'[t].mode \/ "write" \in op'[t].mode
        BY <1>1, CoherencyAssumption
    <2> QED
        BY <2>2, <2>3, <2>4 DEF Exclusive, Busy
<1>5. Transfers'
    <2>1. KnowsChunks(t)'
        BY <1>1 DEF KnowsChunks, Transferring, Copying, Mapping
    <2> QED
        BY <1>1, <2>1, OthersKnow
<1> QED
    BY <1>3, <1>4, <1>5

LEMMA MapDeviceCommon ==
    ASSUME Common, NEW t \in Submissions, MapDevice(t)
    PROVE  Common'
<1> USE DEF Common
<1>1. /\ op' \in [Submissions -> Ops] /\ Others(t) /\ SameCommand(t)
      /\ op'[t].todo = op[t].todo /\ op'[t].next = op[t].next
      /\ op'[t].pc = "allocate" \/ op'[t].pc = op[t].next
      /\ op[t].pc = "map" /\ op[t].next \in {"idle", "compute", "copy", "run"}
    BY MapDeviceEffect DEF MapDevice, Shapes, Ops
<1>2. UNCHANGED <<partition, ptr, allocs, mem, writes>>
    BY DEF MapDevice
<1>3. Shapes'
    BY <1>1, <1>2 DEF Shapes
<1>4. Exclusive'
    BY <1>1, SameExclusive DEF Busy
<1>5. KnowsChunks(t)'
    BY <1>1 DEF Transfers, KnowsChunks, Transferring, Copying, Mapping, Target, SameCommand
<1> QED
    BY <1>1, <1>3, <1>4, <1>5, OthersKnow

LEMMA AllocateDeviceCommon ==
    ASSUME Common, NEW t \in Submissions, AllocateDevice(t)
    PROVE  Common'
<1> USE DEF Common
<1>1. /\ op' \in [Submissions -> Ops] /\ Others(t) /\ SameCommand(t)
      /\ op'[t].todo = op[t].todo /\ op'[t].next = op[t].next
      /\ op'[t].pc = op[t].next
      /\ op[t].pc = "allocate" /\ op[t].next \in {"idle", "compute", "copy", "run"}
    BY AllocateDeviceEffect DEF AllocateDevice, Shapes, Ops
<1>2. UNCHANGED <<partition, mem, writes>>
    BY DEF AllocateDevice
<1>3. op[t].dev \in Devices /\ Mapped(t) \in Objects
    BY ObjectKinds DEF Shapes, Ops, Mapped
<1>4. ptr' \in [Objects -> [Devices -> Places]] /\ allocs' \in [Devices -> Nat]
    <2> DEFINE p == NewStore(Mapped(t), op[t].dev)
    <2>1. p \in Places
        BY <1>3, NewStorePlace
    <2>2. /\ ptr' = [ptr EXCEPT ![Mapped(t)][op[t].dev] = p]
          /\ \/ allocs' = [allocs EXCEPT ![op[t].dev] = @ + 1]
             \/ allocs' = [allocs EXCEPT ![op[t].dev] = @]
        BY DEF AllocateDevice, Allocate, Mapped
    <2> HIDE DEF p
    <2> QED
        BY <1>3, <2>1, <2>2 DEF Shapes
<1>5. Shapes'
    BY <1>1, <1>2, <1>4 DEF Shapes
<1>6. Exclusive'
    BY <1>1, SameExclusive DEF Busy
<1>7. KnowsChunks(t)'
    BY <1>1 DEF Transfers, KnowsChunks, Transferring, Copying, Mapping, Target, SameCommand
<1> QED
    BY <1>1, <1>5, <1>6, <1>7, OthersKnow

LEMMA ComputeChunksCommon ==
    ASSUME Common, NEW t \in Submissions, ComputeChunks(t)
    PROVE  Common'
<1> USE DEF Common
<1>1. /\ op' \in [Submissions -> Ops] /\ Others(t) /\ SameCommand(t)
      /\ op'[t].pc = "transfer" /\ op[t].pc = "compute"
      /\ op'[t].todo = ComputeChunksToTransfer(partition, 0, RegionSize(op[t].obj), op[t].mode)
    BY ComputeChunksEffect DEF ComputeChunks
<1>2. UNCHANGED <<partition, ptr, allocs, mem, writes>>
    BY DEF ComputeChunks
<1>3. Shapes'
    BY <1>1, <1>2 DEF Shapes
<1>4. Exclusive'
    BY <1>1, SameExclusive DEF Busy
<1>5. \A c, e \in op'[t].todo : c.off = e.off => c = e
    <2> DEFINE n == RegionSize(op[t].obj)
               C == ComputeChunksToTransfer(partition, 0, n, op[t].mode)
    <2>1. n \in 1..Size
        BY ObjectKinds DEF Shapes, Ops
    <2> HIDE DEF n
    <2>2. \A c, e \in C : c.off = e.off => c = e
        BY <2>1, ChunksToTransfer DEF Shapes
    <2>3. op'[t].todo = C
        BY <1>1 DEF n
    <2> QED
        BY <2>2, <2>3
<1>6. KnowsChunks(t)'
    BY <1>1, <1>5 DEF KnowsChunks, Transferring, Copying, Mapping
<1> QED
    BY <1>1, <1>3, <1>4, <1>6, OthersKnow

LEMMA NextChunkCommon ==
    ASSUME Common, NEW t \in Submissions, NextChunk(t)
    PROVE  Common'
<1> USE DEF Common
<1>1. op' \in [Submissions -> Ops] /\ Others(t) /\ SameCommand(t) /\ op[t].pc = "transfer"
    BY NextChunkEffect DEF NextChunk
<1>2. UNCHANGED <<partition, ptr, allocs, mem, writes>>
    BY DEF NextChunk
<1>3. Shapes'
    BY <1>1, <1>2 DEF Shapes
<1>4. Exclusive'
    BY <1>1, SameExclusive DEF Busy
<1>5. KnowsChunks(t)'
    <2>1. \A c, e \in op[t].todo : c.off = e.off => c = e
        BY <1>1 DEF Transfers, KnowsChunks, Transferring
    <2>2. Target(t)' = Target(t)
        BY <1>1 DEF Target, SameCommand
    <2>3. CASE /\ op[t].todo = {} /\ op'[t].pc = "validity" /\ op'[t].todo = op[t].todo
        BY <2>3 DEF KnowsChunks, Transferring, Copying, Mapping
    <2>4. ASSUME NEW c \in op[t].todo, op'[t].todo = op[t].todo \ {c}, op'[t].pc = "transfer"
          PROVE  KnowsChunks(t)'
        BY <2>1, <2>4 DEF KnowsChunks, Transferring, Copying, Mapping
    <2>5. ASSUME NEW c \in op[t].todo, IsFirst(c, op[t].todo), c.valid # {},
                 Target(t) \notin c.valid, op'[t].todo = op[t].todo, op'[t].pc \in {"copy", "map"}
          PROVE  KnowsChunks(t)'
        BY <2>1, <2>2, <2>5 DEF KnowsChunks, Transferring, Copying, Mapping, IsFirst
    <2> QED
        BY <2>3, <2>4, <2>5, NextChunkEffect
<1> QED
    BY <1>1, <1>3, <1>4, <1>5, OthersKnow

LEMMA CopyChunkCommon ==
    ASSUME Common, NEW t \in Submissions, CopyChunk(t)
    PROVE  Common'
<1> USE DEF Common
<1>1. /\ op' \in [Submissions -> Ops] /\ Others(t) /\ SameCommand(t)
      /\ op'[t].pc = "transfer" /\ op'[t].todo = op[t].todo \ {FirstOf(t)}
      /\ op[t].pc = "copy"
    BY CopyChunkEffect DEF CopyChunk
<1>2. UNCHANGED <<partition, writes>>
    BY DEF CopyChunk
<1>3. DOMAIN mem' = DOMAIN mem
    BY CopyChunkEffect
<1>4. ptr' \in [Objects -> [Devices -> Places]] /\ allocs' \in [Devices -> Nat]
    <2>1. CASE UNCHANGED <<ptr, allocs>>
        BY <2>1 DEF Shapes
    <2>2. CASE ~UNCHANGED <<ptr, allocs>>
        <3> DEFINE first == FirstValid(FirstOf(t))
                   p == NewStore(0, first)
        <3>1. /\ ~FromHost(t)
              /\ ptr' = [ptr EXCEPT ![0][first] = p]
              /\ \/ allocs' = [allocs EXCEPT ![first] = @ + 1]
                 \/ allocs' = [allocs EXCEPT ![first] = @]
            BY <2>2, CopyChunkEffect
        <3>2. first \in Devices
            BY <1>1, <3>1, FirstOfTodo
        <3>3. p \in Places /\ 0 \in Objects
            BY <3>2, ObjectKinds, NewStorePlace
        <3> HIDE DEF first, p
        <3> QED
            BY <3>1, <3>2, <3>3 DEF Shapes
    <2> QED
        BY <2>1, <2>2
<1>5. Shapes'
    BY <1>1, <1>2, <1>3, <1>4 DEF Shapes
<1>6. Exclusive'
    BY <1>1, SameExclusive DEF Busy
<1>7. KnowsChunks(t)'
    BY <1>1 DEF Transfers, KnowsChunks, Transferring, Copying, Mapping
<1> QED
    BY <1>1, <1>5, <1>6, <1>7, OthersKnow

LEMMA UpdateRegionCommon ==
    ASSUME Common, NEW t \in Submissions, UpdateRegion(t)
    PROVE  Common'
<1> USE DEF Common
<1>1. /\ op' \in [Submissions -> Ops] /\ Others(t) /\ SameCommand(t)
      /\ op'[t].pc = "map" /\ op'[t].next = "run" /\ op[t].pc = "validity"
    BY UpdateRegionEffect DEF UpdateRegion
<1>2. UNCHANGED <<ptr, allocs, mem, writes>>
    BY DEF UpdateRegion
<1>3. IsPartition(partition')
    BY UpdateRegionInv DEF Inv, Shapes
<1>4. InObject(partition')
    <2> DEFINE R == FindRangeFor(partition, 0, RegionSize(op[t].obj))
               f(c) == UpdateValidity(c, op[t].mode, op[t].dev, ptr)
    <2>1. partition' = (partition \ R) \cup {f(c) : c \in R} /\ R \subseteq partition
        BY DEF UpdateRegion, FindRangeFor
    <2>2. ASSUME NEW c \in R PROVE f(c) \in Chunks /\ f(c).off + f(c).size <= Size
        <3> DEFINE d == op[t].dev
                   m == op[t].mode
        <3>1. c \in Chunks /\ c.off + c.size <= Size /\ d \in Devices
            BY <2>1 DEF Shapes, InObject, Ops
        <3> HIDE DEF d, m
        <3>2. \E v \in SUBSET Locations :
                  UpdateValidity(c, m, d, ptr) = [off |-> c.off, size |-> c.size, valid |-> v]
            <4> HIDE DEF R, f, Common
            <4> QED
                BY <3>1, UpdateValidityKind
        <3>3. PICK v \in SUBSET Locations : f(c) = [off |-> c.off, size |-> c.size, valid |-> v]
            BY <3>2 DEF d, m
        <3> HIDE DEF f
        <3> QED
            BY <3>1, <3>3 DEF Chunks
    <2> HIDE DEF R, f
    <2> QED
        BY <2>1, <2>2 DEF Shapes, InObject
<1>5. Shapes'
    BY <1>1, <1>2, <1>3, <1>4 DEF Shapes
<1>6. Exclusive'
    BY <1>1, SameExclusive DEF Busy
<1>7. KnowsChunks(t)'
    BY <1>1 DEF KnowsChunks, Transferring, Copying, Mapping
<1> QED
    BY <1>1, <1>5, <1>6, <1>7, OthersKnow

LEMMA RunCommon ==
    ASSUME Common, NEW t \in Submissions, Run(t)
    PROVE  Common'
<1> USE DEF Common
<1>1. /\ op' \in [Submissions -> Ops] /\ Others(t) /\ SameCommand(t)
      /\ op'[t].pc = "done" /\ op[t].pc = "run"
    BY RunEffect DEF Run
<1>2. UNCHANGED <<partition, ptr, allocs>> /\ writes' \in Nat /\ DOMAIN mem' = DOMAIN mem
    BY DEF Run, Shapes
<1>3. Shapes'
    BY <1>1, <1>2 DEF Shapes
<1>4. Exclusive'
    BY <1>1, SameExclusive DEF Busy
<1>5. KnowsChunks(t)'
    BY <1>1 DEF KnowsChunks, Transferring, Copying, Mapping
<1> QED
    BY <1>1, <1>3, <1>4, <1>5, OthersKnow

LEMMA CompleteCommon ==
    ASSUME Common, NEW t \in Submissions, Complete(t)
    PROVE  Common'
<1> USE DEF Common
<1>1. op' \in [Submissions -> Ops] /\ Others(t) /\ op'[t].pc = "idle"
    BY CompleteEffect, IdleKind
<1>2. UNCHANGED <<partition, ptr, allocs, mem, writes>>
    BY DEF Complete
<1>3. Shapes'
    BY <1>1, <1>2 DEF Shapes
<1>4. Exclusive'
    BY <1>1 DEF Exclusive, Busy, Others
<1>5. KnowsChunks(t)'
    BY <1>1 DEF KnowsChunks, Transferring, Copying, Mapping
<1> QED
    BY <1>1, <1>3, <1>4, <1>5, OthersKnow

LEMMA UnmapCommon ==
    ASSUME ~ShareDevice, Common, NEW t \in Submissions, NEW d \in Devices, Unmap(t, d)
    PROVE  Common'
<1> USE DEF Common
<1>1. /\ op' \in [Submissions -> Ops] /\ Others(t)
      /\ op'[t].pc = "compute" /\ op'[t].dev = d
      /\ op'[t].mode = {"read"} /\ op'[t].excl = op[t].excl /\ op[t].pc = "done"
    <2>1. op[t].pc = "done"
        BY DEF Unmap
    <2> QED
        BY <2>1, UnmapEffect
<1>2. UNCHANGED <<partition, ptr, allocs, mem, writes>>
    BY DEF Unmap
<1>3. Shapes'
    BY <1>1, <1>2 DEF Shapes
<1>4. Exclusive'
    <2>1. \A u \in Submissions \ {t} : op[u].pc = "idle" \/ op[u].dev # d
        BY DEF Unmap
    <2>2. \A u \in Submissions \ {t} : op'[u] = op[u]
        BY <1>1 DEF Others
    <2>3. Busy(t)
        BY <1>1 DEF Busy
    <2>4. ASSUME NEW u \in Submissions, u # t, op'[u].pc # "idle"
          PROVE  ~op'[t].excl /\ op'[t].dev # op'[u].dev /\ ~op'[u].excl
        BY <1>1, <2>1, <2>2, <2>3, <2>4 DEF Exclusive, Busy
    <2>5. "write" \notin op'[t].mode /\ "read" \in op'[t].mode
        BY <1>1
    <2> QED
        BY <2>2, <2>4, <2>5 DEF Exclusive, Busy
<1>5. KnowsChunks(t)'
    BY <1>1 DEF KnowsChunks, Transferring, Copying, Mapping
<1> QED
    BY <1>1, <1>3, <1>4, <1>5, OthersKnow

LEMMA InitCommon == Init => Common
<1> SUFFICES ASSUME Init PROVE Common
    OBVIOUS
<1>1. 1 \in Devices /\ Host \in Locations /\ Devices \subseteq Locations /\ Size \in Nat
    BY CoherencyAssumption DEF Devices, Locations
<1>2. IsPartition(partition)
    BY InitInv DEF Inv
<1>3. InObject(partition)
    <2>1. PICK v \in SUBSET Locations : partition = {[off |-> 0, size |-> Size, valid |-> v]}
        BY <1>1, CoherencyAssumption DEF Init
    <2>2. [off |-> 0, size |-> Size, valid |-> v] \in Chunks
        BY <1>1 DEF Chunks
    <2> QED
        BY <1>1, <2>1, <2>2 DEF InObject
<1>4. ptr \in [Objects -> [Devices -> Places]]
    BY DEF Init, Places
<1>5. allocs \in [Devices -> Nat] /\ DOMAIN mem = Stores /\ writes \in Nat
    BY DEF Init
<1>6. \A t \in Submissions : op[t] = Idle
    BY DEF Init
<1>7. op \in [Submissions -> Ops]
    BY IdleKind DEF Init
<1>8. Shapes
    BY <1>2, <1>3, <1>4, <1>5, <1>7 DEF Shapes
<1>9. Exclusive
    BY <1>6, IdleKind DEF Exclusive, Busy
<1>10. Transfers
    BY <1>6, IdleKind DEF Transfers, KnowsChunks, Transferring, Copying, Mapping
<1> QED
    BY <1>8, <1>9, <1>10 DEF Common

\* Common is inductive when queues of one device take turns.
LEMMA NextCommon ==
    ASSUME Size \notin ImageSizes, ~ShareDevice, Common, [Next]_vars
    PROVE  Common'
<1>1. CASE UNCHANGED vars
    BY <1>1 DEF vars, Common, Shapes, Exclusive, Busy, Transfers, KnowsChunks, Transferring,
                Copying, Mapping, Target
<1>2. ASSUME NEW k \in ImageSizes, CreateImage(k) PROVE Common'
    BY <1>2, CreateImageCommon
<1>3. ASSUME NEW t \in Submissions,
             NEW d \in Devices, NEW o \in Objects, NEW mode \in Modes, Submit(t, d, o, mode)
      PROVE  Common'
    BY <1>3, SubmitCommon
<1>4. ASSUME NEW t \in Submissions, NEW d \in Devices, Unmap(t, d) PROVE Common'
    BY <1>4, UnmapCommon
<1>5. ASSUME NEW t \in Submissions,
             \/ MapDevice(t) \/ AllocateDevice(t) \/ ComputeChunks(t) \/ NextChunk(t)
             \/ CopyChunk(t) \/ UpdateRegion(t) \/ Run(t) \/ Complete(t)
      PROVE  Common'
    BY <1>5, MapDeviceCommon, AllocateDeviceCommon, ComputeChunksCommon, NextChunkCommon,
       CopyChunkCommon, UpdateRegionCommon, RunCommon, CompleteCommon
<1> QED
    BY <1>1, <1>2, <1>3, <1>4, <1>5, Zenon DEF Next

---------------------------------------------------------------------------
(* An object on the host's memory (CL_MEM_USE_HOST_PTR): every storage is  *)
(* the host's, which holds the latest versions; what may be wrong is that  *)
(* a device is valid and has no storage yet.                               *)

\* A write-only command has made its device valid and maps it now.
Allocates(d) ==
    \E t \in Submissions : /\ Mapping(t, "run") /\ "write" \in op[t].mode
                           /\ op[t].dev = d /\ op[t].obj = 0

\* A chunk that is valid somewhere, and where it is there is a storage.
HasStorage(c) == c.valid # {} /\ \A d \in c.valid \cap Devices : ptr[0][d] # Null
WillHaveStorage(c) ==
    c.valid # {} /\ \A d \in c.valid \cap Devices : ptr[0][d] # Null \/ Allocates(d)

UsesHost(t) ==
    /\ op[t].pc \in {"copy", "run"} => op[t].dst = HostStore
    /\ "map" \in op[t].mode =>
          /\ op[t].pc = "compute" => op[t].dst = HostStore
          /\ op[t].pc \notin {"idle", "compute"} => op[t].addr = HostStore
    /\ Transferring(t) =>
          /\ \A c \in op[t].todo : HasStorage(c)
          /\ Target(t) # Host /\ ("read" \in op[t].mode \/ op[t].obj # 0) =>
                op[t].todo # {} \/ ptr[0][op[t].dev] # Null
    /\ op[t].pc = "copy" /\ Target(t) # Host => ptr[0][op[t].dev] # Null
    /\ op[t].pc \in {"map", "allocate"} => op[t].next \in {"copy", "run"}

HostStorages == \A o \in Objects, d \in Devices : ptr[o][d] \in {Null, HostStore}
HostLatest == \A x \in Cells : mem[HostStore][x] = latest[x]
HostChunks == \A c \in partition : WillHaveStorage(c)
HostUsed == \A t \in Submissions : UsesHost(t)

HostInv == Common /\ HostStorages /\ HostLatest /\ HostChunks /\ HostUsed

\* No storage is given up.
Keeping == \A d \in Devices : ptr[0][d] # Null => ptr'[0][d] # Null

LEMMA HostNewStore == ASSUME HostPtrMode = "use", NEW o, NEW d PROVE NewStore(o, d) = HostStore
BY DEF NewStore

LEMMA HostIsStore == HostStore \in Stores /\ HostStore # Null
BY NullIsNoStore DEF Stores, HostStore

LEMMA OthersUseHost ==
    ASSUME Shapes, HostUsed, NEW t \in Submissions, Others(t), Keeping, UsesHost(t)'
    PROVE  HostUsed'
<1>1. ASSUME NEW u \in Submissions, u # t PROVE UsesHost(u)'
    <2>1. op'[u] = op[u] /\ UsesHost(u) /\ op[u].dev \in Devices
        BY <1>1 DEF Others, HostUsed, Shapes, Ops
    <2>2. \A c : HasStorage(c) => HasStorage(c)'
        BY DEF HasStorage, Keeping
    <2>3. (Transferring(u)' <=> Transferring(u)) /\ Target(u)' = Target(u)
        BY <2>1 DEF Transferring, Copying, Mapping, Target
    <2> QED
        BY <2>1, <2>2, <2>3 DEF UsesHost, Keeping
<1> QED
    BY <1>1 DEF HostUsed

\* Chunks that are valid where chunks were stay usable.
LEMMA ChunksStay ==
    ASSUME HostChunks, Keeping,
           \A d \in Devices : Allocates(d) => Allocates(d)' \/ ptr'[0][d] # Null,
           \A c \in partition' : \E e \in partition : c.valid = e.valid
    PROVE  HostChunks'
<1>1. ASSUME NEW c \in partition' PROVE WillHaveStorage(c)'
    <2>1. PICK e \in partition : c.valid = e.valid
        BY <1>1
    <2>2. WillHaveStorage(e)
        BY DEF HostChunks
    <2> QED
        BY <2>1, <2>2 DEF WillHaveStorage, Keeping
<1> QED
    BY <1>1 DEF HostChunks

\* Only the submission that allocates can end it.
LEMMA AllocatesStays ==
    ASSUME NEW t \in Submissions, Others(t), ~Mapping(t, "run")
    PROVE  \A d \in Devices : Allocates(d) => Allocates(d)'
BY DEF Allocates, Others, Mapping

LEMMA HostCreateImage ==
    ASSUME Size \notin ImageSizes, HostPtrMode = "use", HostInv, NEW k \in ImageSizes,
           CreateImage(k)
    PROVE  HostInv'
<1> USE DEF HostInv
<1>1. Common'
    BY CreateImageCommon
<1>2. UNCHANGED <<ptr, mem, latest, op>>
    BY DEF CreateImage
<1>3. \A c \in partition' : \E e \in partition : c.valid = e.valid
    <2>1. k \in Cells
        BY CoherencyAssumption DEF Cells
    <2>2. partition' = SplitChunk(partition, FindChunk(partition, k), k)
        BY DEF CreateImage, AddRegion
    <2>3. FindChunk(partition, k) \in partition /\ k \in CellsOf(FindChunk(partition, k))
        BY <2>1, FindChunkCovers DEF Common, Shapes
    <2> QED
        BY <2>2, <2>3, SplitChunkPieces DEF Common, Shapes, PieceOf
<1>4. HostStorages' /\ HostLatest' /\ Keeping
    BY <1>2 DEF HostStorages, HostLatest, Keeping
<1>5. HostChunks'
    BY <1>2, <1>3, <1>4, ChunksStay DEF Allocates, Mapping
<1>6. HostUsed'
    BY <1>2 DEF HostUsed, UsesHost, Transferring, Copying, Mapping, Target, HasStorage
<1> QED
    BY <1>1, <1>4, <1>5, <1>6

LEMMA HostSubmit ==
    ASSUME ~ShareDevice, HostPtrMode = "use", HostInv, NEW t \in Submissions,
           NEW d \in Devices, NEW o \in Objects, NEW mode \in Modes, Submit(t, d, o, mode)
    PROVE  HostInv'
<1> USE DEF HostInv
<1>1. Common'
    BY SubmitCommon
<1>2. UNCHANGED <<partition, ptr, mem, latest>> /\ op[t].pc = "idle"
    BY DEF Submit
<1>3. /\ Others(t) /\ op'[t].pc = "compute" /\ op'[t].dst = HostStore
    BY SubmitEffect DEF Common
<1>4. HostStorages' /\ HostLatest' /\ Keeping
    BY <1>2 DEF HostStorages, HostLatest, Keeping
<1>5. HostChunks'
    BY <1>2, <1>3, <1>4, ChunksStay, AllocatesStays DEF Mapping
<1>6. UsesHost(t)'
    BY <1>3 DEF UsesHost, Transferring, Copying, Mapping
<1> QED
    BY <1>1, <1>3, <1>4, <1>5, <1>6, OthersUseHost DEF Common

\* What holds of the storage a submission maps.
LEMMA MappedStorage ==
    ASSUME HostPtrMode = "use", HostInv, NEW t \in Submissions
    PROVE  /\ op[t] \in Ops /\ Mapped(t) \in Objects /\ op[t].dev \in Devices
           /\ ptr[Mapped(t)][op[t].dev] \in {Null, HostStore}
<1>1. op[t] \in Ops /\ Mapped(t) \in Objects /\ op[t].dev \in Devices
    BY ObjectKinds DEF HostInv, Common, Shapes, Ops, Mapped
<1> QED
    BY <1>1 DEF HostInv, HostStorages

LEMMA HostMapDevice ==
    ASSUME HostPtrMode = "use", HostInv, NEW t \in Submissions, MapDevice(t)
    PROVE  HostInv'
<1> USE DEF HostInv
<1>1. Common'
    BY MapDeviceCommon
<1>2. UNCHANGED <<partition, ptr, mem, latest>> /\ op[t].pc = "map"
    BY DEF MapDevice
<1>3. /\ Others(t) /\ SameCommand(t)
      /\ op'[t].todo = op[t].todo /\ op'[t].addr = op[t].addr /\ op'[t].next = op[t].next
      /\ \/ /\ ptr[Mapped(t)][op[t].dev] = Null
            /\ op'[t].pc = "allocate" /\ op'[t].dst = op[t].dst
         \/ /\ ptr[Mapped(t)][op[t].dev] = HostStore
            /\ op'[t].pc = op[t].next
            /\ op'[t].dst = HostStore
    BY MapDeviceEffect, MappedStorage DEF Common
<1>4. HostStorages' /\ HostLatest' /\ Keeping
    BY <1>2 DEF HostStorages, HostLatest, Keeping
<1>5. UsesHost(t) /\ op[t].next \in {"copy", "run"}
    BY <1>2 DEF HostUsed, UsesHost
<1>6. HostChunks'
    <2>1. ASSUME NEW d \in Devices, Allocates(d) PROVE Allocates(d)' \/ ptr'[0][d] # Null
        <3>1. PICK u \in Submissions : /\ Mapping(u, "run") /\ "write" \in op[u].mode
                                       /\ op[u].dev = d /\ op[u].obj = 0
            BY <2>1 DEF Allocates
        <3>2. CASE u # t
            BY <3>1, <3>2, <1>3 DEF Allocates, Mapping, Others
        <3>3. CASE u = t /\ op'[t].pc = "allocate"
            BY <3>1, <3>3, <1>3 DEF Allocates, Mapping, SameCommand
        <3>4. CASE u = t /\ op'[t].pc # "allocate"
            BY <3>1, <3>4, <1>2, <1>3, HostIsStore DEF Mapping, Mapped
        <3> QED
            BY <3>2, <3>3, <3>4
    <2> QED
        BY <1>2, <1>4, <2>1, ChunksStay
<1>7. UsesHost(t)'
    <2>1. Target(t)' = Target(t) /\ op'[t].mode = op[t].mode /\ op'[t].obj = op[t].obj
          /\ op'[t].dev = op[t].dev
        BY <1>3 DEF Target, SameCommand
    <2>2. \A c : HasStorage(c) => HasStorage(c)'
        BY <1>2 DEF HasStorage
    <2>3. Transferring(t)' => Transferring(t) /\ op[t].next = "copy"
        BY <1>2, <1>3, <1>5 DEF Transferring, Copying, Mapping
    <2>4. op'[t].pc = "copy" => ptr'[0][op'[t].dev] # Null /\ op'[t].dst = HostStore
        BY <1>2, <1>3, <1>5, <2>1, HostIsStore DEF Mapped
    <2>5. op'[t].pc = "run" => op'[t].dst = HostStore
        BY <1>3, <1>5
    <2>6. op'[t].pc # "compute" /\ op[t].pc # "idle" /\ op[t].pc # "compute"
        BY <1>2, <1>3, <1>5
    <2> QED
        BY <1>2, <1>3, <1>5, <2>1, <2>2, <2>3, <2>4, <2>5, <2>6 DEF UsesHost
<1> QED
    BY <1>1, <1>3, <1>4, <1>6, <1>7, OthersUseHost DEF Common

LEMMA HostAllocateDevice ==
    ASSUME HostPtrMode = "use", HostInv, NEW t \in Submissions, AllocateDevice(t)
    PROVE  HostInv'
<1> USE DEF HostInv
<1>1. Common'
    BY AllocateDeviceCommon
<1>2. UNCHANGED <<partition, mem, latest>> /\ op[t].pc = "allocate"
    BY DEF AllocateDevice
<1>3. /\ Others(t) /\ SameCommand(t)
      /\ op'[t].todo = op[t].todo /\ op'[t].addr = op[t].addr /\ op'[t].next = op[t].next
      /\ op'[t].pc = op[t].next /\ op'[t].dst = HostStore
    BY AllocateDeviceEffect, HostNewStore DEF Common
<1>4. ptr' = [ptr EXCEPT ![Mapped(t)][op[t].dev] = HostStore]
    BY HostNewStore DEF AllocateDevice, Allocate, Mapped
<1>5. Mapped(t) \in Objects /\ op[t].dev \in Devices /\ ptr \in [Objects -> [Devices -> Places]]
    BY MappedStorage DEF Common, Shapes
<1>6. HostStorages' /\ HostLatest' /\ Keeping /\ ptr'[Mapped(t)][op[t].dev] = HostStore
    <2>1. \A o \in Objects, d \in Devices : ptr'[o][d] = HostStore \/ ptr'[o][d] = ptr[o][d]
        BY <1>4, <1>5
    <2>2. HostStorages' /\ HostLatest'
        BY <1>2, <2>1 DEF HostStorages, HostLatest
    <2>3. Keeping
        BY <2>1, ObjectKinds, HostIsStore DEF Keeping
    <2> QED
        BY <1>4, <1>5, <2>2, <2>3
<1>7. UsesHost(t) /\ op[t].next \in {"copy", "run"}
    BY <1>2 DEF HostUsed, UsesHost
<1>8. HostChunks'
    <2>1. ASSUME NEW d \in Devices, Allocates(d) PROVE Allocates(d)' \/ ptr'[0][d] # Null
        <3>1. PICK u \in Submissions : /\ Mapping(u, "run") /\ "write" \in op[u].mode
                                       /\ op[u].dev = d /\ op[u].obj = 0
            BY <2>1 DEF Allocates
        <3>2. CASE u # t
            BY <3>1, <3>2, <1>3 DEF Allocates, Mapping, Others
        <3>3. CASE u = t
            BY <3>1, <3>3, <1>6, HostIsStore DEF Mapping, Mapped
        <3> QED
            BY <3>2, <3>3
    <2> QED
        BY <1>2, <1>6, <2>1, ChunksStay
<1>9. UsesHost(t)'
    <2>1. Target(t)' = Target(t) /\ op'[t].mode = op[t].mode /\ op'[t].obj = op[t].obj
          /\ op'[t].dev = op[t].dev
        BY <1>3 DEF Target, SameCommand
    <2>2. \A c : HasStorage(c) => HasStorage(c)'
        BY <1>6 DEF HasStorage, Keeping
    <2>3. Transferring(t)' => Transferring(t) /\ op[t].next = "copy"
        BY <1>2, <1>3, <1>7 DEF Transferring, Copying, Mapping
    <2>4. op[t].next = "copy" => ptr'[0][op'[t].dev] # Null
        BY <1>6, <2>1, HostIsStore DEF Mapped
    <2>5. op'[t].pc \in {"copy", "run"} /\ op[t].pc # "idle" /\ op[t].pc # "compute"
        BY <1>2, <1>3, <1>7
    <2> QED
        BY <1>3, <1>7, <2>1, <2>2, <2>3, <2>4, <2>5 DEF UsesHost
<1> QED
    BY <1>1, <1>3, <1>6, <1>8, <1>9, OthersUseHost DEF Common


\* While a submission is at work that does not, nobody allocates so.
LEMMA NoneAllocates ==
    ASSUME Exclusive, NEW t \in Submissions, Busy(t), ~Mapping(t, "run")
    PROVE  \A d \in Devices : ~Allocates(d)
<1> SUFFICES ASSUME NEW u \in Submissions, Mapping(u, "run"), "write" \in op[u].mode
             PROVE  FALSE
    BY DEF Allocates
<1>1. u # t /\ Busy(u)
    BY DEF Mapping, Busy
<1> QED
    BY <1>1 DEF Exclusive

LEMMA HostComputeChunks ==
    ASSUME Size \notin ImageSizes, HostPtrMode = "use", HostInv, NEW t \in Submissions,
           ComputeChunks(t)
    PROVE  HostInv'
<1> USE DEF HostInv
<1>1. Common'
    BY ComputeChunksCommon
<1>2. UNCHANGED <<partition, ptr, mem, latest>> /\ op[t].pc = "compute"
    BY DEF ComputeChunks
<1> DEFINE n == RegionSize(op[t].obj)
           C == ComputeChunksToTransfer(partition, 0, n, op[t].mode)
<1>3. /\ Others(t) /\ SameCommand(t) /\ op'[t].pc = "transfer"
      /\ op'[t].addr = op[t].dst /\ op'[t].todo = C
    BY ComputeChunksEffect DEF Common
<1>4. n \in 1..Size /\ (op[t].obj # 0 => n # Size)
    BY ObjectKinds DEF Common, Shapes, Ops, RegionSize, Objects
<1> HIDE DEF n
<1>5. /\ \A c \in C : \E e \in partition : PieceOf(c, e)
      /\ "read" \in op[t].mode \/ n # Size => C # {}
    BY <1>4, ChunksToTransfer DEF Common, Shapes
<1> HIDE DEF C
<1>6. HostStorages' /\ HostLatest' /\ Keeping
    BY <1>2 DEF HostStorages, HostLatest, Keeping
<1>7. HostChunks'
    BY <1>2, <1>3, <1>6, ChunksStay, AllocatesStays DEF Mapping
<1>8. \A c \in C : HasStorage(c)'
    <2>1. \A d \in Devices : ~Allocates(d)
        BY <1>2, NoneAllocates DEF Common, Busy, Mapping
    <2>2. \A e \in partition : HasStorage(e)
        BY <2>1 DEF HostChunks, WillHaveStorage, HasStorage
    <2> QED
        BY <1>2, <1>5, <2>2 DEF PieceOf, HasStorage
<1>9. UsesHost(t)'
    <2>1. "map" \in op'[t].mode => op'[t].addr = HostStore
        BY <1>2, <1>3 DEF HostUsed, UsesHost, SameCommand
    <2>2. "read" \in op'[t].mode \/ op'[t].obj # 0 => op'[t].todo # {}
        BY <1>3, <1>4, <1>5 DEF SameCommand
    <2> QED
        BY <1>3, <1>8, <2>1, <2>2 DEF UsesHost
<1> QED
    BY <1>1, <1>3, <1>6, <1>7, <1>9, OthersUseHost DEF Common

LEMMA HostNextChunk ==
    ASSUME HostPtrMode = "use", HostInv, NEW t \in Submissions, NextChunk(t)
    PROVE  HostInv'
<1> USE DEF HostInv
<1>1. Common'
    BY NextChunkCommon
<1>2. UNCHANGED <<partition, ptr, mem, latest>> /\ op[t].pc = "transfer"
    BY DEF NextChunk
<1>3. Others(t) /\ SameCommand(t) /\ op'[t].addr = op[t].addr
    BY NextChunkEffect DEF Common
<1>4. HostStorages' /\ HostLatest' /\ Keeping
    BY <1>2 DEF HostStorages, HostLatest, Keeping
<1>5. HostChunks'
    BY <1>2, <1>3, <1>4, ChunksStay, AllocatesStays DEF Mapping
<1>6. UsesHost(t)'
    <2>1. Target(t)' = Target(t) /\ op'[t].mode = op[t].mode /\ op'[t].obj = op[t].obj
          /\ op'[t].dev = op[t].dev
        BY <1>3 DEF Target, SameCommand
    <2>2. \A c : HasStorage(c) => HasStorage(c)'
        BY <1>2 DEF HasStorage
    <2>3. /\ "map" \in op'[t].mode => op'[t].addr = HostStore
          /\ \A c \in op[t].todo : HasStorage(c)
          /\ Target(t) # Host /\ ("read" \in op[t].mode \/ op[t].obj # 0) =>
                op[t].todo # {} \/ ptr[0][op[t].dev] # Null
        BY <1>2, <1>3, <2>1 DEF HostUsed, UsesHost, Transferring
    <2>4. CASE op[t].todo = {} /\ op'[t].pc = "validity" /\ op'[t].todo = op[t].todo
        BY <1>2, <2>1, <2>3, <2>4 DEF UsesHost
    <2>5. ASSUME NEW c \in op[t].todo, c.valid = {} \/ Target(t) \in c.valid,
                 op'[t].todo = op[t].todo \ {c}, op'[t].pc = "transfer"
          PROVE  UsesHost(t)'
        <3>1. Target(t) # Host => ptr[0][op[t].dev] # Null
            BY <2>3, <2>5, TargetIs DEF HasStorage, Common
        <3> QED
            BY <1>2, <2>1, <2>2, <2>3, <2>5, <3>1 DEF UsesHost
    <2>6. ASSUME NEW c \in op[t].todo, op'[t].todo = op[t].todo,
                 \/ Target(t) = Host /\ op'[t].pc = "copy" /\ op'[t].dst = HostStore
                 \/ op'[t].pc = "map" /\ op'[t].next = "copy"
          PROVE  UsesHost(t)'
        BY <2>1, <2>2, <2>3, <2>6 DEF UsesHost
    <2> QED
        BY <2>4, <2>5, <2>6, NextChunkEffect DEF Common
<1> QED
    BY <1>1, <1>3, <1>4, <1>5, <1>6, OthersUseHost DEF Common

LEMMA HostCopyChunk ==
    ASSUME HostPtrMode = "use", HostInv, NEW t \in Submissions, CopyChunk(t)
    PROVE  HostInv'
<1> USE DEF HostInv
<1>1. Common'
    BY CopyChunkCommon
<1>2. UNCHANGED <<partition, latest>> /\ op[t].pc = "copy"
    BY DEF CopyChunk
<1>3. /\ Others(t) /\ SameCommand(t) /\ op'[t].addr = op[t].addr
      /\ op'[t].pc = "transfer" /\ op'[t].todo = op[t].todo \ {FirstOf(t)}
    BY CopyChunkEffect DEF Common
<1>4. UsesHost(t) /\ op[t].dst = HostStore
    BY <1>2 DEF HostUsed, UsesHost
<1>5. FirstOf(t) \in op[t].todo /\ HasStorage(FirstOf(t))
    BY <1>2, <1>4, FirstOfTodo DEF Common, IsFirst, UsesHost, Transferring, Copying
<1>6. ~FromHost(t) => ptr[0][FirstValid(FirstOf(t))] = HostStore
    <2>1. ~FromHost(t) => FirstValid(FirstOf(t)) \in FirstOf(t).valid \cap Devices
        BY <1>2, FirstOfTodo DEF Common
    <2> QED
        BY <1>5, <2>1, ObjectKinds DEF HasStorage, HostStorages
<1>7. UNCHANGED ptr /\ Source(t) = HostStore
    <2>1. UNCHANGED ptr \/ (~FromHost(t) /\ ptr[0][FirstValid(FirstOf(t))] = Null)
        BY CopyChunkEffect DEF Common
    <2> QED
        BY <1>6, <2>1, HostIsStore DEF Source
<1>8. HostStorages' /\ HostLatest' /\ Keeping
    <2>1. mem' = [mem EXCEPT ![HostStore] = [x \in Cells |->
                     IF x \in CellsOf(FirstOf(t)) THEN mem[HostStore][x] ELSE @[x]]]
        <3>1. mem' = [mem EXCEPT ![op[t].dst] = [x \in Cells |->
                         IF x \in CellsOf(FirstOf(t)) THEN mem[Source(t)][x] ELSE @[x]]]
            BY CopyChunkEffect DEF Common
        <3> QED
            BY <1>4, <1>7, <3>1, Zenon
    <2>2. \A x \in Cells : mem'[HostStore][x] = mem[HostStore][x]
        BY <2>1, HostIsStore DEF Common, Shapes
    <2> QED
        BY <1>2, <1>7, <2>2 DEF HostStorages, HostLatest, Keeping
<1>9. HostChunks'
    BY <1>2, <1>3, <1>8, ChunksStay, AllocatesStays DEF Mapping
<1>10. UsesHost(t)'
    <2>1. Target(t)' = Target(t) /\ op'[t].mode = op[t].mode /\ op'[t].obj = op[t].obj
          /\ op'[t].dev = op[t].dev
        BY <1>3 DEF Target, SameCommand
    <2>2. \A c : HasStorage(c) => HasStorage(c)'
        BY <1>7 DEF HasStorage
    <2>3. /\ "map" \in op'[t].mode => op'[t].addr = HostStore
          /\ \A c \in op[t].todo : HasStorage(c)
          /\ Target(t) # Host => ptr'[0][op[t].dev] # Null
        BY <1>2, <1>3, <1>4, <1>7, <2>1 DEF UsesHost, Transferring, Copying
    <2> QED
        BY <1>3, <2>1, <2>2, <2>3 DEF UsesHost
<1> QED
    BY <1>1, <1>3, <1>8, <1>9, <1>10, OthersUseHost DEF Common

\* Step 3 of updateRegion makes a device valid that has its storage, or that
\* maps it next for a write-only command.
LEMMA HostUpdateRegion ==
    ASSUME HostPtrMode = "use", HostInv, NEW t \in Submissions, UpdateRegion(t)
    PROVE  HostInv'
<1> USE DEF HostInv
<1>1. Common'
    BY UpdateRegionCommon
<1>2. UNCHANGED <<ptr, mem, latest>> /\ op[t].pc = "validity"
    BY DEF UpdateRegion
<1>3. /\ Others(t) /\ SameCommand(t) /\ op'[t].addr = op[t].addr
      /\ op'[t].pc = "map" /\ op'[t].next = "run"
    BY UpdateRegionEffect DEF Common
<1>4. HostStorages' /\ HostLatest' /\ Keeping
    BY <1>2 DEF HostStorages, HostLatest, Keeping
<1>5. UsesHost(t) /\ op[t].todo = {} /\ op[t] \in Ops
    BY <1>2 DEF HostUsed, Common, Transfers, KnowsChunks, Shapes
<1>6. Target(t) # Host => \A d \in Devices :
          d = op[t].dev => ptr[0][d] # Null \/ Allocates(d)'
    <2>1. CASE "read" \in op[t].mode \/ op[t].obj # 0
        BY <1>2, <1>5, <2>1 DEF UsesHost, Transferring
    <2>2. CASE ~("read" \in op[t].mode \/ op[t].obj # 0)
        <3>1. "write" \in op[t].mode
            BY <1>2, <2>2 DEF Common, Exclusive, Busy
        <3> QED
            BY <1>3, <2>2, <3>1 DEF Allocates, Mapping, SameCommand
    <2> QED
        BY <2>1, <2>2
<1>7. \A c \in partition : HasStorage(c)
    <2>1. \A d \in Devices : ~Allocates(d)
        BY <1>2, NoneAllocates DEF Common, Busy, Mapping
    <2> QED
        BY <2>1 DEF HostChunks, WillHaveStorage, HasStorage
<1>8. ASSUME NEW c \in partition, NEW e, e = UpdateValidity(c, op[t].mode, op[t].dev, ptr)
      PROVE  WillHaveStorage(e)'
    <2> DEFINE m == op[t].mode
               d == op[t].dev
               kept == IF "write" \in m THEN {} ELSE c.valid
               toHost == "map" \in m /\ HostPtrMode = "use"
               v == IF toHost
                    THEN UpdateHostValidity(kept, ptr)
                    ELSE IF Aliases(ptr, d)
                    THEN UpdateHostValidity(kept \cup {d}, ptr)
                    ELSE kept \cup {d}
    <2>1. c = [off |-> c.off, size |-> c.size, valid |-> c.valid]
        BY DEF Common, Shapes, IsPartition, IsChunk
    <2>2. e.valid = v
        <3>1. e = [c EXCEPT !.valid = v]
            BY <1>8 DEF UpdateValidity
        <3> HIDE DEF v
        <3> QED
            BY <2>1, <3>1
    <2>3. kept \subseteq c.valid
        OBVIOUS
    <2>4. toHost \/ Target(t) # Host
        BY TargetIs DEF Common
    <2> HIDE DEF d, kept, toHost
    <2>5. v # {} /\ \A x \in v \cap Devices :
              x \in c.valid \/ (x = d /\ ~toHost) \/ ptr[0][x] # Null
        <3>1. CASE toHost
            <4>1. v = kept \cup {Host} \cup {x \in Devices : Aliases(ptr, x)}
                BY <3>1 DEF UpdateHostValidity
            <4>2. \A x \in Devices : x # Host
                BY CoherencyAssumption DEF Devices, Host
            <4> HIDE DEF v
            <4> QED
                BY <2>3, <4>1, <4>2 DEF Aliases
        <3>2. CASE ~toHost /\ Aliases(ptr, d)
            <4>1. v = (kept \cup {d}) \cup {Host} \cup {x \in Devices : Aliases(ptr, x)}
                BY <3>2 DEF UpdateHostValidity
            <4>2. \A x \in Devices : x # Host
                BY CoherencyAssumption DEF Devices, Host
            <4> HIDE DEF v
            <4> QED
                BY <2>3, <3>2, <4>1, <4>2 DEF Aliases
        <3>3. CASE ~toHost /\ ~Aliases(ptr, d)
            <4>1. v = kept \cup {d}
                BY <3>3
            <4> HIDE DEF v
            <4> QED
                BY <2>3, <3>3, <4>1
        <3> QED
            BY <3>1, <3>2, <3>3
    <2> HIDE DEF v
    <2>6. ASSUME NEW x \in v \cap Devices PROVE ptr[0][x] # Null \/ Allocates(x)'
        <3>1. CASE x \in c.valid
            BY <1>7, <3>1 DEF HasStorage
        <3>2. CASE x = d /\ ~toHost
            BY <1>6, <2>4, <3>2 DEF d
        <3> QED
            BY <2>5, <3>1, <3>2
    <2> QED
        BY <1>2, <2>2, <2>5, <2>6 DEF WillHaveStorage
<1>9. HostChunks'
    <2> SUFFICES ASSUME NEW e \in partition' PROVE WillHaveStorage(e)'
        BY DEF HostChunks
    <2>1. CASE e \in partition
        BY <1>2, <1>7, <2>1 DEF WillHaveStorage, HasStorage
    <2>2. CASE e \notin partition
        <3>1. PICK c \in partition : e = UpdateValidity(c, op[t].mode, op[t].dev, ptr)
            BY <2>2 DEF UpdateRegion, FindRangeFor
        <3> QED
            BY <1>8, <3>1
    <2> QED
        BY <2>1, <2>2
<1>10. UsesHost(t)'
    BY <1>2, <1>3, <1>5 DEF UsesHost, SameCommand, Transferring, Copying, Mapping
<1> QED
    BY <1>1, <1>3, <1>4, <1>9, <1>10, OthersUseHost DEF Common

\* A command that writes, writes the host's memory.
LEMMA HostRun ==
    ASSUME HostPtrMode = "use", HostInv, NEW t \in Submissions, Run(t)
    PROVE  HostInv'
<1> USE DEF HostInv
<1>1. Common'
    BY RunCommon
<1>2. UNCHANGED <<partition, ptr>> /\ op[t].pc = "run"
    BY DEF Run
<1>3. /\ Others(t) /\ SameCommand(t) /\ op'[t].addr = op[t].addr
      /\ op'[t].pc = "done"
    BY RunEffect DEF Common
<1>4. UsesHost(t) /\ Used(t) = HostStore
    BY <1>2 DEF HostUsed, UsesHost, Used
<1>5. HostStorages' /\ Keeping
    BY <1>2 DEF HostStorages, Keeping
<1>6. HostLatest'
    <2>1. CASE UNCHANGED <<mem, latest>>
        BY <2>1 DEF HostLatest
    <2>2. CASE ~UNCHANGED <<mem, latest>>
        <3>1. PICK W : /\ mem' = [mem EXCEPT ![Used(t)] = [x \in Cells |->
                                     IF x \in W THEN writes + 2 ELSE @[x]]]
                       /\ latest' = [x \in Cells |-> IF x \in W THEN writes + 2 ELSE latest[x]]
            BY <2>2, Zenon DEF Run
        <3>2. mem'[HostStore] = [x \in Cells |->
                                     IF x \in W THEN writes + 2 ELSE mem[HostStore][x]]
            BY <1>4, <3>1, HostIsStore DEF Common, Shapes
        <3> QED
            BY <3>1, <3>2 DEF HostLatest
    <2> QED
        BY <2>1, <2>2
<1>7. HostChunks'
    BY <1>2, <1>3, <1>5, ChunksStay, AllocatesStays DEF Mapping
<1>8. UsesHost(t)'
    BY <1>2, <1>3, <1>4 DEF UsesHost, SameCommand, Transferring, Copying, Mapping
<1> QED
    BY <1>1, <1>3, <1>5, <1>6, <1>7, <1>8, OthersUseHost DEF Common

LEMMA HostComplete ==
    ASSUME HostPtrMode = "use", HostInv, NEW t \in Submissions, Complete(t)
    PROVE  HostInv'
<1> USE DEF HostInv
<1>1. Common'
    BY CompleteCommon
<1>2. UNCHANGED <<partition, ptr, mem, latest>> /\ op[t].pc = "done"
    BY DEF Complete
<1>3. Others(t) /\ op'[t].pc = "idle" /\ op'[t].mode = {}
    BY CompleteEffect, IdleKind DEF Common
<1>4. HostStorages' /\ HostLatest' /\ Keeping
    BY <1>2 DEF HostStorages, HostLatest, Keeping
<1>5. HostChunks'
    BY <1>2, <1>3, <1>4, ChunksStay, AllocatesStays DEF Mapping
<1>6. UsesHost(t)'
    BY <1>3 DEF UsesHost, Transferring, Copying, Mapping
<1> QED
    BY <1>1, <1>3, <1>4, <1>5, <1>6, OthersUseHost DEF Common

LEMMA HostUnmap ==
    ASSUME ~ShareDevice, HostPtrMode = "use", HostInv, NEW t \in Submissions,
           NEW d \in Devices, Unmap(t, d)
    PROVE  HostInv'
<1> USE DEF HostInv
<1>1. Common'
    BY UnmapCommon
<1>2. UNCHANGED <<partition, ptr, mem, latest>> /\ op[t].pc = "done"
    BY DEF Unmap
<1>3. Others(t) /\ op'[t].pc = "compute" /\ op'[t].mode = {"read"}
    BY UnmapEffect DEF Common
<1>4. HostStorages' /\ HostLatest' /\ Keeping
    BY <1>2 DEF HostStorages, HostLatest, Keeping
<1>5. HostChunks'
    BY <1>2, <1>3, <1>4, ChunksStay, AllocatesStays DEF Mapping
<1>6. UsesHost(t)'
    BY <1>3 DEF UsesHost, Transferring, Copying, Mapping
<1> QED
    BY <1>1, <1>3, <1>4, <1>5, <1>6, OthersUseHost DEF Common

LEMMA InitHost == ASSUME HostPtrMode = "use", Init PROVE HostInv
<1>1. Common
    BY InitCommon
<1>2. HostStorages
    BY DEF Init, HostStorages
<1>3. HostLatest
    BY HostIsStore DEF Init, HostLatest
<1>4. HostChunks
    <2>1. partition = {[off |-> 0, size |-> Size, valid |-> {Host}]} /\ Host \notin Devices
        BY CoherencyAssumption DEF Init, Devices, Host
    <2> QED
        BY <2>1 DEF HostChunks, WillHaveStorage
<1>5. HostUsed
    <2>1. \A t \in Submissions : op[t].pc = "idle" /\ op[t].mode = {}
        BY IdleKind DEF Init
    <2> QED
        BY <2>1 DEF HostUsed, UsesHost, Transferring, Copying, Mapping
<1> QED
    BY <1>1, <1>2, <1>3, <1>4, <1>5 DEF HostInv

LEMMA NextHost ==
    ASSUME Size \notin ImageSizes, ~ShareDevice, HostPtrMode = "use", HostInv, [Next]_vars
    PROVE  HostInv'
<1>1. CASE UNCHANGED vars
    <2>1. Common'
        BY <1>1, NextCommon DEF HostInv
    <2>2. UNCHANGED <<partition, ptr, mem, latest, op>>
        BY <1>1 DEF vars
    <2>3. HostStorages' /\ HostLatest' /\ HostChunks'
        BY <2>2 DEF HostInv, HostStorages, HostLatest, HostChunks, WillHaveStorage,
                    Allocates, Mapping
    <2>4. HostUsed'
        BY <2>2 DEF HostInv, HostUsed, UsesHost, Transferring, Copying, Mapping, Target,
                    HasStorage
    <2> QED
        BY <2>1, <2>3, <2>4 DEF HostInv
<1>2. ASSUME NEW k \in ImageSizes, CreateImage(k) PROVE HostInv'
    BY <1>2, HostCreateImage
<1>3. ASSUME NEW t \in Submissions,
             NEW d \in Devices, NEW o \in Objects, NEW mode \in Modes, Submit(t, d, o, mode)
      PROVE  HostInv'
    BY <1>3, HostSubmit
<1>4. ASSUME NEW t \in Submissions, NEW d \in Devices, Unmap(t, d) PROVE HostInv'
    BY <1>4, HostUnmap
<1>5. ASSUME NEW t \in Submissions,
             \/ MapDevice(t) \/ AllocateDevice(t) \/ ComputeChunks(t) \/ NextChunk(t)
             \/ CopyChunk(t) \/ UpdateRegion(t) \/ Run(t) \/ Complete(t)
      PROVE  HostInv'
    BY <1>5, HostMapDevice, HostAllocateDevice, HostComputeChunks, HostNextChunk,
       HostCopyChunk, HostUpdateRegion, HostRun, HostComplete
<1> QED
    BY <1>1, <1>2, <1>3, <1>4, <1>5, Zenon DEF Next

\* No writer is busy: no device is about to map what is valid there already.
LEMMA HostCoherent == ASSUME HostPtrMode = "use", HostInv PROVE Coherent
<1> USE DEF HostInv
<1> SUFFICES ASSUME \A t \in Submissions : op[t].pc # "idle" => ~op[t].excl,
                    NEW c \in partition, NEW x \in CellsOf(c)
             PROVE  /\ c.valid # {}
                    /\ \A l \in c.valid :
                          StoreOf(l) # Null /\ mem[StoreOf(l)][x] = latest[x]
    BY DEF Coherent
<1>1. \A d \in Devices : ~Allocates(d)
    BY DEF Allocates, Mapping, Common, Exclusive, Busy
<1>2. c.valid # {} /\ \A d \in c.valid \cap Devices : ptr[0][d] # Null
    BY <1>1 DEF HostChunks, WillHaveStorage
<1>3. x \in Cells
    BY CellsInObject DEF Common, Shapes
<1>4. ASSUME NEW l \in c.valid PROVE StoreOf(l) = HostStore
    <2>1. l \in Locations
        BY ChunkKind DEF Common, Shapes, InObject
    <2> QED
        BY <1>2, <2>1, ObjectKinds DEF StoreOf, Locations, HostStorages
<1> QED
    BY <1>2, <1>3, <1>4, HostIsStore DEF HostLatest

LEMMA HostReadsLatest == ASSUME HostPtrMode = "use", HostInv PROVE ReadsLatest
<1>1. ASSUME NEW t \in Submissions, op[t].pc = "run" PROVE Used(t) = HostStore
    BY <1>1 DEF HostInv, HostUsed, UsesHost, Used
<1> QED
    BY <1>1 DEF HostInv, HostLatest, ReadsLatest
---------------------------------------------------------------------------
(* An object without the host's memory: every device has a storage of its  *)
(* own, and what a validity bit promises is that this storage holds what   *)
(* was written last.                                                       *)

\* The device found no storage and allocates one, which replaces any other.
Allocating(d) == \E t \in Submissions : op[t].pc = "allocate" /\ op[t].dev = d

\* The device has what was last written to the cell, and keeps it.
Holds(d, x) ==
    latest[x] # 0 => ptr[0][d] # Null /\ mem[ptr[0][d]][x] = latest[x] /\ ~Allocating(d)

\* A chunk of which the validity bits tell the truth.
ValidChunk(c) ==
    /\ c.valid \subseteq Devices
    /\ \A x \in CellsOf(c) : x \in Cells /\ latest[x] # 0 =>
          c.valid # {} /\ \A d \in c.valid : Holds(d, x)

\* A write-only command made its device valid and has not run yet.
Overwriting ==
    \E t \in Submissions : Running(t) /\ "write" \in op[t].mode /\ "read" \notin op[t].mode

OwnStorages ==
    \A d \in Devices :
        /\ ptr[0][d] \in {Null, <<d, 1>>, <<d, 2>>}
        /\ allocs[d] <= 2
        /\ ptr[0][d] = Null => allocs[d] = 0
        /\ Allocating(d) => allocs[d] <= 1

OwnObject == \A t \in Submissions : op[t].obj = 0

OwnChunks ==
    /\ \A c \in partition : c.valid \subseteq Devices
    /\ Overwriting \/ \A c \in partition : ValidChunk(c)

HasAddress(t, a) == a = ptr[0][op[t].dev] /\ a # Null

\* What a submission knows: its chunks tell the truth and are all it lacks;
\* behind step 3 a reader lacks nothing and a writer's device alone is valid;
\* a mapping keeps its address.
UsesOwn(t) ==
    /\ Transferring(t) =>
          /\ \A c \in op[t].todo : ValidChunk(c)
          /\ "read" \in op[t].mode => \A x \in Cells :
                Holds(op[t].dev, x) \/ \E c \in op[t].todo : x \in CellsOf(c)
    /\ Running(t) =>
          /\ "read" \in op[t].mode => \A x \in Cells : Holds(op[t].dev, x)
          /\ "write" \in op[t].mode => \A c \in partition : c.valid = {op[t].dev}
    /\ op[t].pc \in {"copy", "run"} => HasAddress(t, op[t].dst) /\ op[t].next = op[t].pc
    /\ op[t].pc \in {"map", "allocate"} => op[t].next \in {"compute", "copy", "run"}
    /\ "map" \in op[t].mode =>
          /\ op[t].pc = "compute" => HasAddress(t, op[t].dst)
          /\ Transferring(t) \/ Running(t) =>
                HasAddress(t, op[t].addr) /\ op[t].pc # "allocate"

OwnUsed == \A t \in Submissions : UsesOwn(t)

OwnInv == Common /\ OwnStorages /\ OwnObject /\ OwnChunks /\ OwnUsed

\* What every step but a write keeps: what the devices hold, and the storages
\* of the other devices.
KeepsData ==
    /\ UNCHANGED latest
    /\ \A d \in Devices, x \in Cells : Holds(d, x) => Holds(d, x)'

KeepsStorages(t) ==
    \A d \in Devices : d # op[t].dev /\ ptr[0][d] # Null => ptr'[0][d] = ptr[0][d]

LEMMA OwnStores ==
    /\ \A d \in Devices : <<d, 1>> \in Stores /\ <<d, 1>> # Null /\ <<d, 2>> # Null
    /\ Submissions # {} => \A d \in Devices : <<d, 2>> \in Stores
<1>1. Cardinality(Submissions) \in Nat /\ (Submissions # {} => Cardinality(Submissions) # 0)
    BY CoherencyAssumption, FS_CardinalityType, FS_EmptySet
<1> DEFINE k == Cardinality(Submissions)
<1> HIDE DEF k
<1>2. 1 \in 1..(k + 1) /\ (Submissions # {} => 2 \in 1..(k + 1))
    BY <1>1 DEF k
<1>3. \A d \in Devices, i \in 1..(k + 1) : <<d, i>> \in Stores
    BY DEF Stores, k
<1> QED
    BY <1>2, <1>3, NullIsNoStore

\* Two devices have two storages.
LEMMA StoresApart ==
    ASSUME OwnStorages, NEW d \in Devices, NEW e \in Devices, d # e, ptr[0][d] # Null
    PROVE  ptr[0][d] # ptr[0][e]
<1>1. ptr[0][d] \in {<<d, 1>>, <<d, 2>>} /\ ptr[0][e] \in {Null, <<e, 1>>, <<e, 2>>}
    BY DEF OwnStorages
<1>2. Null # <<d, 1>> /\ Null # <<d, 2>>
    BY NullIsNoStore
<1> QED
    BY <1>1, <1>2

LEMMA AllocatingStays ==
    ASSUME NEW t \in Submissions, Others(t), op'[t].pc # "allocate"
    PROVE  \A d \in Devices : Allocating(d)' => Allocating(d)
BY DEF Allocating, Others

LEMMA HoldsStays ==
    ASSUME ptr'[0] = ptr[0], UNCHANGED <<mem, latest>>,
           \A d \in Devices : Allocating(d)' => Allocating(d)
    PROVE  KeepsData
BY DEF KeepsData, Holds

LEMMA ValidStays == ASSUME KeepsData PROVE \A c : ValidChunk(c) => ValidChunk(c)'
<1> SUFFICES ASSUME NEW c, ValidChunk(c) PROVE ValidChunk(c)'
    OBVIOUS
<1>1. ASSUME NEW x \in CellsOf(c), x \in Cells, latest'[x] # 0
      PROVE  c.valid # {} /\ \A d \in c.valid : Holds(d, x)'
    BY <1>1 DEF ValidChunk, KeepsData
<1> QED
    BY <1>1 DEF ValidChunk

LEMMA NoneOverwrites ==
    ASSUME Exclusive, NEW t \in Submissions, Busy(t),
           Running(t) => "write" \notin op[t].mode \/ "read" \in op[t].mode
    PROVE  ~Overwriting
<1> SUFFICES ASSUME NEW u \in Submissions, Running(u), "write" \in op[u].mode,
                    "read" \notin op[u].mode
             PROVE  FALSE
    BY DEF Overwriting
<1>1. u # t /\ Busy(u)
    BY DEF Running, Busy
<1> QED
    BY <1>1 DEF Exclusive

\* The other submissions know what they knew.
LEMMA OthersUseOwn ==
    ASSUME Shapes, Exclusive, OwnUsed, NEW t \in Submissions, Others(t), UsesOwn(t)',
           KeepsData, KeepsStorages(t), Busy(t) \/ UNCHANGED <<partition, ptr>>
    PROVE  OwnUsed'
<1>1. ASSUME NEW u \in Submissions, u # t PROVE UsesOwn(u)'
    <2>1. op'[u] = op[u] /\ UsesOwn(u) /\ op[u].dev \in Devices
        BY <1>1 DEF Others, OwnUsed, Shapes, Ops
    <2>2. (Transferring(u)' <=> Transferring(u)) /\ (Running(u)' <=> Running(u))
        BY <2>1 DEF Transferring, Copying, Mapping, Running
    <2>3. Busy(u) => \A a : HasAddress(u, a) => HasAddress(u, a)'
        BY <1>1, <2>1 DEF HasAddress, KeepsStorages, Exclusive
    <2>4. Running(u) /\ "write" \in op[u].mode =>
              ((\A c \in partition : c.valid = {op[u].dev})
                  => \A c \in partition' : c.valid = {op[u].dev})
        BY <1>1 DEF Exclusive, Running, Busy
    <2>5. \A x \in Cells : Holds(op[u].dev, x) => Holds(op[u].dev, x)'
        BY <2>1 DEF KeepsData, Holds, Allocating
    <2>6. (Transferring(u)' =>
              /\ \A c \in op'[u].todo : ValidChunk(c)'
              /\ "read" \in op'[u].mode => \A x \in Cells :
                    Holds(op[u].dev, x)' \/ \E c \in op'[u].todo : x \in CellsOf(c))
        BY <2>1, <2>2, <2>5, ValidStays DEF UsesOwn
    <2>7. (Running(u)' =>
              /\ "read" \in op'[u].mode => \A x \in Cells : Holds(op[u].dev, x)'
              /\ "write" \in op'[u].mode => \A c \in partition' : c.valid = {op'[u].dev})
        BY <2>1, <2>2, <2>4, <2>5 DEF UsesOwn
    <2>8. /\ op'[u].pc \in {"copy", "run"} =>
                HasAddress(u, op[u].dst)' /\ op'[u].next = op'[u].pc
          /\ op'[u].pc \in {"map", "allocate"} => op'[u].next \in {"compute", "copy", "run"}
          /\ "map" \in op'[u].mode =>
                /\ op'[u].pc = "compute" => HasAddress(u, op[u].dst)'
                /\ Transferring(u)' \/ Running(u)' =>
                      HasAddress(u, op[u].addr)' /\ op'[u].pc # "allocate"
        <3>1. Transferring(u) \/ Running(u) \/ op[u].pc \in {"copy", "run", "compute"} => Busy(u)
            BY DEF Transferring, Copying, Mapping, Running, Busy
        <3> QED
            BY <2>1, <2>2, <2>3, <3>1 DEF UsesOwn, HasAddress
    <2> QED
        BY <2>6, <2>7, <2>8 DEF UsesOwn
<1> QED
    BY <1>1 DEF OwnUsed

LEMMA OwnCreateImage ==
    ASSUME Size \notin ImageSizes, OwnInv, NEW k \in ImageSizes, CreateImage(k)
    PROVE  OwnInv'
<1> USE DEF OwnInv
<1>1. Common'
    BY CreateImageCommon
<1>2. UNCHANGED <<mem, latest, allocs, op>> /\ ptr'[0] = ptr[0]
    <2>1. k # 0 /\ 0 \in Objects /\ k \in Objects
        BY CoherencyAssumption, ObjectKinds
    <2>2. \/ ptr' = ptr
          \/ ptr' = [ptr EXCEPT ![k] = [d \in Devices |-> NewStore(k, d)]]
        BY DEF CreateImage
    <2>3. ptr'[0] = ptr[0]
        BY <2>1, <2>2 DEF Common, Shapes
    <2> QED
        BY <2>3 DEF CreateImage
<1>3. \A c \in partition' : \E e \in partition : PieceOf(c, e)
    <2>1. k \in Cells
        BY CoherencyAssumption DEF Cells
    <2>2. partition' = SplitChunk(partition, FindChunk(partition, k), k)
        BY DEF CreateImage, AddRegion
    <2>3. FindChunk(partition, k) \in partition /\ k \in CellsOf(FindChunk(partition, k))
        BY <2>1, FindChunkCovers DEF Common, Shapes
    <2> QED
        BY <2>2, <2>3, SplitChunkPieces DEF Common, Shapes
<1>4. KeepsData
    BY <1>2, HoldsStays DEF Allocating
<1>5. OwnStorages' /\ OwnObject'
    BY <1>2 DEF OwnStorages, OwnObject, Allocating
<1>6. OwnChunks'
    <2>1. \A c \in partition' : c.valid \subseteq Devices
        BY <1>3 DEF OwnChunks, PieceOf
    <2>2. Overwriting => Overwriting'
        BY <1>2 DEF Overwriting, Running
    <2>3. ASSUME ~Overwriting, NEW c \in partition' PROVE ValidChunk(c)'
        <3>1. PICK e \in partition : PieceOf(c, e)
            BY <1>3, <2>3
        <3>2. ValidChunk(c)
            BY <2>3, <3>1 DEF OwnChunks, ValidChunk, PieceOf
        <3> QED
            BY <1>4, <3>2, ValidStays
    <2> QED
        BY <2>1, <2>2, <2>3 DEF OwnChunks
<1>7. OwnUsed'
    <2> SUFFICES ASSUME NEW t \in Submissions PROVE UsesOwn(t)'
        BY DEF OwnUsed
    <2>1. UsesOwn(t) /\ op[t].dev \in Devices
        BY DEF OwnUsed, Common, Shapes, Ops
    <2>2. (Transferring(t)' <=> Transferring(t)) /\ (Running(t)' <=> Running(t))
        BY <1>2 DEF Transferring, Copying, Mapping, Running
    <2>3. \A x \in Cells : Holds(op[t].dev, x) => Holds(op[t].dev, x)'
        BY <1>2, <2>1, <1>4 DEF KeepsData, Holds, Allocating
    <2>4. (\A c \in partition : c.valid = {op[t].dev}) => \A c \in partition' : c.valid = {op[t].dev}
        BY <1>3 DEF PieceOf
    <2>5. \A c : ValidChunk(c) => ValidChunk(c)'
        BY <1>4, ValidStays
    <2>6. \A a : HasAddress(t, a) => HasAddress(t, a)'
        BY <1>2 DEF HasAddress
    <2>7. (Transferring(t)' =>
              /\ \A c \in op'[t].todo : ValidChunk(c)'
              /\ "read" \in op'[t].mode => \A x \in Cells :
                    Holds(op[t].dev, x)' \/ \E c \in op'[t].todo : x \in CellsOf(c))
        BY <1>2, <2>1, <2>2, <2>3, <2>5 DEF UsesOwn
    <2>8. (Running(t)' =>
              /\ "read" \in op'[t].mode => \A x \in Cells : Holds(op[t].dev, x)'
              /\ "write" \in op'[t].mode => \A c \in partition' : c.valid = {op'[t].dev})
        BY <1>2, <2>1, <2>2, <2>3, <2>4 DEF UsesOwn
    <2> QED
        BY <1>2, <2>1, <2>2, <2>6, <2>7, <2>8 DEF UsesOwn, HasAddress
<1> QED
    BY <1>1, <1>5, <1>6, <1>7

\* Steps that leave the chunks and the data alone.
LEMMA OwnChunksStay ==
    ASSUME OwnChunks, UNCHANGED partition, KeepsData, Overwriting => Overwriting'
    PROVE  OwnChunks'
BY ValidStays DEF OwnChunks

LEMMA OwnStoragesStay ==
    ASSUME OwnStorages, UNCHANGED <<ptr, allocs>>,
           \A d \in Devices : Allocating(d)' => Allocating(d)
    PROVE  OwnStorages'
BY DEF OwnStorages

\* Overwriting lasts until the command that overwrites has run.
LEMMA OverwritingStays ==
    ASSUME NEW t \in Submissions, Others(t), Running(t) => Running(t)' /\ SameCommand(t)
    PROVE  Overwriting => Overwriting'
BY DEF Overwriting, Others, Running, SameCommand

LEMMA OwnSubmit ==
    ASSUME ~ShareDevice, HostPtrMode # "use", ~ImageCommands, OwnInv, NEW t \in Submissions,
           NEW d \in Devices, NEW o \in Objects, NEW mode \in Modes, Submit(t, d, o, mode)
    PROVE  OwnInv'
<1> USE DEF OwnInv
<1>1. Common'
    BY SubmitCommon
<1>2. UNCHANGED <<partition, ptr, allocs, mem, latest>> /\ op[t].pc = "idle" /\ o = 0
    BY DEF Submit
<1>3. /\ Others(t) /\ op'[t].obj = o /\ op'[t].next = "compute" /\ op'[t].mode = mode
      /\ op'[t].pc = IF "map" \in mode THEN "map" ELSE "compute"
    BY SubmitEffect DEF Common
<1>4. \A e \in Devices : Allocating(e)' => Allocating(e)
    BY <1>3, AllocatingStays
<1>5. KeepsData
    BY <1>2, <1>4, HoldsStays
<1>6. OwnStorages' /\ OwnObject'
    BY <1>2, <1>3, <1>4, OwnStoragesStay DEF OwnObject, Others
<1>7. OwnChunks'
    <2>1. ~Running(t)
        BY <1>2 DEF Running
    <2> QED
        BY <1>2, <1>3, <1>5, <2>1, OwnChunksStay, OverwritingStays
<1>8. UsesOwn(t)'
    BY <1>3 DEF UsesOwn, Transferring, Copying, Mapping, Running
<1>9. KeepsStorages(t)
    BY <1>2 DEF KeepsStorages
<1> QED
    BY <1>1, <1>2, <1>3, <1>5, <1>6, <1>7, <1>8, <1>9, OthersUseOwn DEF Common

\* Commands use the buffer, of which they map the storage.
LEMMA MapsBuffer ==
    ASSUME OwnInv, NEW t \in Submissions
    PROVE  /\ op[t] \in Ops /\ op[t].obj = 0 /\ Mapped(t) = 0 /\ op[t].dev \in Devices
           /\ 0 \in Objects
BY ObjectKinds DEF OwnInv, OwnObject, Common, Shapes, Ops, Mapped

\* What a submission knows of the data, after a step that keeps it.
LEMMA KnowsStays ==
    ASSUME Shapes, NEW t \in Submissions, UsesOwn(t), SameCommand(t), KeepsData
    PROVE  /\ \A x \in Cells : Holds(op[t].dev, x) => Holds(op[t].dev, x)'
           /\ Transferring(t) /\ op'[t].todo = op[t].todo =>
                /\ \A c \in op'[t].todo : ValidChunk(c)'
                /\ "read" \in op'[t].mode => \A x \in Cells :
                      Holds(op[t].dev, x)' \/ \E c \in op'[t].todo : x \in CellsOf(c)
           /\ Running(t) =>
                /\ "read" \in op'[t].mode => \A x \in Cells : Holds(op[t].dev, x)'
                /\ "write" \in op'[t].mode => \A c \in partition : c.valid = {op'[t].dev}
<1>1. op'[t].dev = op[t].dev /\ op'[t].mode = op[t].mode /\ op[t].dev \in Devices
    BY DEF SameCommand, Shapes, Ops
<1>2. ASSUME NEW x \in Cells, Holds(op[t].dev, x) PROVE Holds(op[t].dev, x)'
    <2>1. \E d \in Devices : d = op[t].dev /\ Holds(d, x)
        BY <1>1, <1>2
    <2>2. PICK d \in Devices : d = op[t].dev /\ Holds(d, x)
        BY <2>1
    <2>3. Holds(d, x)'
        BY <2>2 DEF KeepsData
    <2> QED
        BY <1>1, <2>2, <2>3 DEF Holds, Allocating
<1>3. \A c : ValidChunk(c) => ValidChunk(c)'
    BY ValidStays
<1> QED
    BY <1>1, <1>2, <1>3 DEF UsesOwn

LEMMA OwnMapDevice ==
    ASSUME HostPtrMode # "use", OwnInv, NEW t \in Submissions, MapDevice(t)
    PROVE  OwnInv'
<1> USE DEF OwnInv
<1>1. Common'
    BY MapDeviceCommon
<1>2. UNCHANGED <<partition, ptr, allocs, mem, latest>> /\ op[t].pc = "map"
    BY DEF MapDevice
<1>3. op[t].dev \in Devices /\ Mapped(t) = 0 /\ op[t].obj = 0
    BY MapsBuffer
<1>4. /\ Others(t) /\ SameCommand(t)
      /\ op'[t].todo = op[t].todo /\ op'[t].addr = op[t].addr /\ op'[t].next = op[t].next
      /\ \/ /\ ptr[0][op[t].dev] = Null
            /\ op'[t].pc = "allocate" /\ op'[t].dst = op[t].dst
         \/ /\ ptr[0][op[t].dev] # Null
            /\ op'[t].pc = op[t].next
            /\ op'[t].dst = ptr[0][op[t].dev]
    BY <1>3, MapDeviceEffect DEF Common
<1>5. UsesOwn(t) /\ op[t].next \in {"compute", "copy", "run"}
    BY <1>2 DEF OwnUsed, UsesOwn
<1>6. \A d \in Devices : Allocating(d)' => Allocating(d) \/ (d = op[t].dev /\ ptr[0][d] = Null)
    BY <1>4, <1>5 DEF Allocating, Others, SameCommand
<1>7. KeepsData
    BY <1>2, <1>6 DEF KeepsData, Holds
<1>8. OwnStorages' /\ OwnObject'
    <2>1. OwnStorages'
        BY <1>2, <1>6 DEF OwnStorages
    <2> QED
        BY <1>4, <2>1 DEF OwnObject, Others, SameCommand
<1>9. OwnChunks'
    <2>1. Running(t) => Running(t)'
        BY <1>2, <1>4 DEF Running
    <2> QED
        BY <1>2, <1>4, <1>7, <2>1, OwnChunksStay, OverwritingStays
<1>10. UsesOwn(t)'
    <2>1. Transferring(t)' => Transferring(t)
        BY <1>2, <1>4, <1>5 DEF Transferring, Copying, Mapping
    <2>2. Running(t)' => Running(t)
        BY <1>2, <1>4, <1>5 DEF Running
    <2>3. op'[t].dev = op[t].dev /\ op'[t].mode = op[t].mode
        BY <1>4 DEF SameCommand
    <2>4. (Transferring(t)' =>
              /\ \A c \in op'[t].todo : ValidChunk(c)'
              /\ "read" \in op'[t].mode => \A x \in Cells :
                    Holds(op[t].dev, x)' \/ \E c \in op'[t].todo : x \in CellsOf(c))
        BY <1>4, <1>5, <1>7, <2>1, KnowsStays DEF Common
    <2>5. (Running(t)' =>
              /\ "read" \in op'[t].mode => \A x \in Cells : Holds(op[t].dev, x)'
              /\ "write" \in op'[t].mode => \A c \in partition' : c.valid = {op'[t].dev})
        BY <1>2, <1>4, <1>5, <1>7, <2>2, KnowsStays DEF Common
    <2>6. op'[t].pc # "allocate" => op'[t].dst = ptr'[0][op'[t].dev] /\ op'[t].dst # Null
        BY <1>2, <1>4, <2>3
    <2>7. "map" \in op'[t].mode /\ (Transferring(t)' \/ Running(t)') =>
              op'[t].addr = ptr'[0][op'[t].dev] /\ op'[t].addr # Null /\ op'[t].pc # "allocate"
        BY <1>2, <1>4, <1>5, <2>1, <2>2, <2>3 DEF UsesOwn, HasAddress
    <2> QED
        BY <1>4, <1>5, <2>4, <2>5, <2>6, <2>7 DEF UsesOwn, HasAddress
<1>11. KeepsStorages(t)
    BY <1>2 DEF KeepsStorages
<1> QED
    BY <1>1, <1>2, <1>4, <1>7, <1>8, <1>9, <1>10, <1>11, OthersUseOwn DEF Common, Busy

\* A device that allocates held nothing that was written.
LEMMA OwnAllocateDevice ==
    ASSUME HostPtrMode # "use", OwnInv, NEW t \in Submissions, AllocateDevice(t)
    PROVE  OwnInv'
<1> USE DEF OwnInv
<1>1. Common'
    BY AllocateDeviceCommon
<1>2. UNCHANGED <<partition, mem, latest>> /\ op[t].pc = "allocate"
    BY DEF AllocateDevice
<1>3. op[t].dev \in Devices /\ Mapped(t) = 0 /\ op[t].obj = 0 /\ 0 \in Objects
    BY MapsBuffer
<1>4. /\ Others(t) /\ SameCommand(t)
      /\ op'[t].todo = op[t].todo /\ op'[t].addr = op[t].addr /\ op'[t].next = op[t].next
      /\ op'[t].pc = op[t].next /\ op'[t].dst = NewStore(0, op[t].dev)
    BY <1>3, AllocateDeviceEffect DEF Common
<1> DEFINE d0 == op[t].dev
           s == NewStore(0, d0)
<1>5. s = <<d0, allocs[d0] + 1>>
    BY DEF NewStore
<1>6. ptr' = [ptr EXCEPT ![0][d0] = s] /\ allocs' = [allocs EXCEPT ![d0] = @ + 1]
    BY <1>3 DEF AllocateDevice, Allocate, Mapped
<1>7. UsesOwn(t) /\ op[t].next \in {"compute", "copy", "run"}
    BY <1>2 DEF OwnUsed, UsesOwn
<1>8. Allocating(d0) /\ allocs[d0] \in Nat /\ allocs[d0] <= 1
    BY <1>2, <1>3 DEF Allocating, OwnStorages, Common, Shapes
<1>9. s \in {<<d0, 1>>, <<d0, 2>>} /\ s # Null
    <2>1. allocs[d0] = 0 \/ allocs[d0] = 1
        BY <1>8
    <2> QED
        BY <1>5, <2>1, NullIsNoStore
<1> HIDE DEF s
<1>10. \A d \in Devices : /\ ptr'[0][d] = IF d = d0 THEN s ELSE ptr[0][d]
                          /\ allocs'[d] = IF d = d0 THEN allocs[d] + 1 ELSE allocs[d]
    BY <1>3, <1>6 DEF Common, Shapes
<1>11. \A d \in Devices : Allocating(d)' => Allocating(d) /\ d # d0
    <2>1. ASSUME NEW d \in Devices, NEW u \in Submissions, op'[u].pc = "allocate",
                 op'[u].dev = d
          PROVE  Allocating(d) /\ d # d0
        <3>1. u # t /\ op'[u] = op[u]
            BY <1>4, <1>7, <2>1 DEF Others
        <3>2. op[u].dev # d0
            BY <1>2, <2>1, <3>1 DEF Common, Exclusive, Busy
        <3> QED
            BY <2>1, <3>1, <3>2 DEF Allocating
    <2> QED
        BY <2>1 DEF Allocating
<1>12. KeepsData
    BY <1>2, <1>8, <1>10, <1>11 DEF KeepsData, Holds
<1>13. OwnStorages' /\ OwnObject'
    <2>1. ASSUME NEW d \in Devices
          PROVE  /\ ptr'[0][d] \in {Null, <<d, 1>>, <<d, 2>>}
                 /\ allocs'[d] <= 2
                 /\ ptr'[0][d] = Null => allocs'[d] = 0
                 /\ Allocating(d)' => allocs'[d] <= 1
        <3>1. CASE d = d0
            BY <1>8, <1>9, <1>10, <1>11, <3>1
        <3>2. CASE d # d0
            BY <1>10, <1>11, <3>2 DEF OwnStorages
        <3> QED
            BY <3>1, <3>2
    <2> QED
        BY <1>4, <2>1 DEF OwnStorages, OwnObject, Others, SameCommand
<1>14. OwnChunks'
    <2>1. Running(t) => Running(t)'
        BY <1>2, <1>4 DEF Running
    <2> QED
        BY <1>2, <1>4, <1>12, <2>1, OwnChunksStay, OverwritingStays
<1>15. UsesOwn(t)'
    <2>1. Transferring(t)' => Transferring(t)
        BY <1>2, <1>4, <1>7 DEF Transferring, Copying, Mapping
    <2>2. Running(t)' => Running(t)
        BY <1>2, <1>4, <1>7 DEF Running
    <2>3. op'[t].dev = op[t].dev /\ op'[t].mode = op[t].mode
        BY <1>4 DEF SameCommand
    <2>4. (Transferring(t)' =>
              /\ \A c \in op'[t].todo : ValidChunk(c)'
              /\ "read" \in op'[t].mode => \A x \in Cells :
                    Holds(op[t].dev, x)' \/ \E c \in op'[t].todo : x \in CellsOf(c))
        BY <1>4, <1>7, <1>12, <2>1, KnowsStays DEF Common
    <2>5. (Running(t)' =>
              /\ "read" \in op'[t].mode => \A x \in Cells : Holds(op[t].dev, x)'
              /\ "write" \in op'[t].mode => \A c \in partition' : c.valid = {op'[t].dev})
        BY <1>2, <1>4, <1>7, <1>12, <2>2, KnowsStays DEF Common
    <2>6. op'[t].dst = ptr'[0][op'[t].dev] /\ op'[t].dst # Null
        BY <1>3, <1>4, <1>9, <1>10, <2>3 DEF s
    <2>7. ~("map" \in op'[t].mode /\ (Transferring(t)' \/ Running(t)'))
        BY <1>2, <1>7, <2>1, <2>2, <2>3 DEF UsesOwn
    <2> QED
        BY <1>4, <1>7, <2>4, <2>5, <2>6, <2>7 DEF UsesOwn, HasAddress
<1>16. KeepsStorages(t)
    BY <1>10 DEF KeepsStorages
<1> QED
    BY <1>1, <1>2, <1>4, <1>12, <1>13, <1>14, <1>15, <1>16, OthersUseOwn DEF Common, Busy

\* Step 1: a reader gets all chunks, which tell the truth as nobody writes.
LEMMA OwnComputeChunks ==
    ASSUME HostPtrMode # "use", OwnInv, NEW t \in Submissions, ComputeChunks(t)
    PROVE  OwnInv'
<1> USE DEF OwnInv
<1>1. Common'
    BY ComputeChunksCommon
<1>2. UNCHANGED <<partition, ptr, allocs, mem, latest>> /\ op[t].pc = "compute"
    BY DEF ComputeChunks
<1>3. op[t].obj = 0 /\ op[t].dev \in Devices
    BY MapsBuffer
<1> DEFINE C == ComputeChunksToTransfer(partition, 0, Size, op[t].mode)
<1>4. /\ Others(t) /\ SameCommand(t) /\ op'[t].pc = "transfer"
      /\ op'[t].addr = op[t].dst /\ op'[t].todo = C
    BY <1>3, ComputeChunksEffect DEF Common, RegionSize
<1>5. ("read" \in op[t].mode => C = partition) /\ ("read" \notin op[t].mode => C = {})
    <2>1. Size \in 1..Size
        BY CoherencyAssumption
    <2> QED
        BY <2>1, ChunksToTransfer DEF Common, Shapes
<1> HIDE DEF C
<1>6. \A d \in Devices : Allocating(d)' => Allocating(d)
    BY <1>4, AllocatingStays
<1>7. KeepsData
    BY <1>2, <1>6, HoldsStays
<1>8. OwnStorages' /\ OwnObject'
    BY <1>2, <1>3, <1>4, <1>6, OwnStoragesStay DEF OwnObject, Others, SameCommand
<1>9. \A c \in partition : ValidChunk(c)'
    <2>1. ~Running(t)
        BY <1>2 DEF Running
    <2>2. ~Overwriting
        BY <1>2, <2>1, NoneOverwrites DEF Common, Busy
    <2> QED
        BY <1>7, <2>2, ValidStays DEF OwnChunks
<1>10. OwnChunks'
    BY <1>2, <1>9 DEF OwnChunks
<1>11. UsesOwn(t)'
    <2>1. op'[t].dev = op[t].dev /\ op'[t].mode = op[t].mode
        BY <1>4 DEF SameCommand
    <2>2. \A c \in op'[t].todo : ValidChunk(c)'
        BY <1>4, <1>5, <1>9
    <2>3. "read" \in op'[t].mode => \A x \in Cells : \E c \in op'[t].todo : x \in CellsOf(c)
        BY <1>4, <1>5, <2>1 DEF Common, Shapes, IsPartition
    <2>4. "map" \in op'[t].mode => HasAddress(t, op[t].addr)'
        BY <1>2, <1>4, <2>1 DEF OwnUsed, UsesOwn, HasAddress
    <2> QED
        BY <1>4, <2>2, <2>3, <2>4 DEF UsesOwn, HasAddress, Running
<1>12. KeepsStorages(t)
    BY <1>2 DEF KeepsStorages
<1> QED
    BY <1>1, <1>2, <1>4, <1>7, <1>8, <1>10, <1>11, <1>12, OthersUseOwn DEF Common, Busy

\* Step 2 leaves out a chunk nobody ever wrote, or that the device has.
LEMMA OwnNextChunk ==
    ASSUME HostPtrMode # "use", OwnInv, NEW t \in Submissions, NextChunk(t)
    PROVE  OwnInv'
<1> USE DEF OwnInv
<1>1. Common'
    BY NextChunkCommon
<1>2. UNCHANGED <<partition, ptr, allocs, mem, latest>> /\ op[t].pc = "transfer"
    BY DEF NextChunk
<1>3. op[t].obj = 0 /\ op[t].dev \in Devices
    BY MapsBuffer
<1>4. Others(t) /\ SameCommand(t) /\ op'[t].addr = op[t].addr
    BY NextChunkEffect DEF Common
<1>5. Target(t) = op[t].dev /\ Target(t) # Host
    BY TargetIs DEF Common
<1>6. op'[t].pc \in {"validity", "transfer", "map"} /\ (op'[t].pc = "map" => op'[t].next = "copy")
    BY <1>5, NextChunkEffect DEF Common
<1>7. \A d \in Devices : Allocating(d)' => Allocating(d)
    BY <1>4, <1>6, AllocatingStays
<1>8. KeepsData
    BY <1>2, <1>7, HoldsStays
<1>9. OwnStorages' /\ OwnObject'
    BY <1>2, <1>3, <1>4, <1>7, OwnStoragesStay DEF OwnObject, Others, SameCommand
<1>10. OwnChunks'
    <2>1. ~Running(t)
        BY <1>2 DEF Running
    <2> QED
        BY <1>2, <1>4, <1>8, <2>1, OwnChunksStay, OverwritingStays
<1>11. UsesOwn(t)'
    <2>1. op'[t].dev = op[t].dev /\ op'[t].mode = op[t].mode
        BY <1>4 DEF SameCommand
    <2>2. Transferring(t) /\ UsesOwn(t)
        BY <1>2 DEF Transferring, OwnUsed
    <2>3. \A x \in Cells : Holds(op[t].dev, x) => Holds(op[t].dev, x)'
        BY <1>4, <1>8, <2>2, KnowsStays DEF Common
    <2>4. \A c : ValidChunk(c) => ValidChunk(c)'
        BY <1>8, ValidStays
    <2>5. CASE op'[t].todo = op[t].todo
        <3>1. /\ \A c \in op'[t].todo : ValidChunk(c)'
              /\ "read" \in op'[t].mode => \A x \in Cells :
                    Holds(op[t].dev, x)' \/ \E c \in op'[t].todo : x \in CellsOf(c)
            BY <1>4, <1>8, <2>2, <2>5, KnowsStays DEF Common
        <3> QED
            BY <1>2, <1>4, <1>6, <2>1, <2>2, <3>1 DEF UsesOwn, HasAddress, Running
    <2>6. ASSUME NEW c \in op[t].todo, c.valid = {} \/ op[t].dev \in c.valid,
                 op'[t].todo = op[t].todo \ {c}
          PROVE  UsesOwn(t)'
        <3>1. \A x \in Cells : x \in CellsOf(c) => Holds(op[t].dev, x)
            BY <2>2, <2>6 DEF UsesOwn, ValidChunk, Holds
        <3>2. /\ \A e \in op'[t].todo : ValidChunk(e)'
              /\ "read" \in op'[t].mode => \A x \in Cells :
                    Holds(op[t].dev, x)' \/ \E e \in op'[t].todo : x \in CellsOf(e)
            BY <2>1, <2>2, <2>3, <2>4, <2>6, <3>1 DEF UsesOwn
        <3> QED
            BY <1>2, <1>4, <1>6, <2>1, <2>2, <3>2 DEF UsesOwn, HasAddress, Running
    <2> QED
        BY <1>5, <2>5, <2>6, NextChunkEffect DEF Common
<1>12. KeepsStorages(t)
    BY <1>2 DEF KeepsStorages
<1> QED
    BY <1>1, <1>2, <1>4, <1>8, <1>9, <1>10, <1>11, <1>12, OthersUseOwn DEF Common, Busy

\* The copy of a chunk: what was written to its cells, the source holds.
LEMMA OwnCopyChunk ==
    ASSUME HostPtrMode # "use", OwnInv, NEW t \in Submissions, CopyChunk(t)
    PROVE  OwnInv'
<1> USE DEF OwnInv
<1> DEFINE d0 == op[t].dev
           c0 == FirstOf(t)
           first == FirstValid(c0)
           s == Source(t)
<1>1. Common'
    BY CopyChunkCommon
<1>2. UNCHANGED <<partition, latest>> /\ op[t].pc = "copy"
    BY DEF CopyChunk
<1>3. op[t].obj = 0 /\ d0 \in Devices /\ 0 \in Objects
    BY MapsBuffer
<1>4. /\ Others(t) /\ SameCommand(t) /\ op'[t].addr = op[t].addr
      /\ op'[t].pc = "transfer" /\ op'[t].todo = op[t].todo \ {c0}
    BY CopyChunkEffect DEF Common
<1>5. UsesOwn(t) /\ Transferring(t) /\ op[t].dst = ptr[0][d0] /\ op[t].dst # Null
    BY <1>2 DEF OwnUsed, UsesOwn, HasAddress, Transferring, Copying
<1>6. c0 \in op[t].todo /\ ValidChunk(c0)
    BY <1>2, <1>5, FirstOfTodo DEF Common, IsFirst, UsesOwn
<1>7. /\ ~FromHost(t) /\ first \in c0.valid /\ first \in Devices /\ first # d0
    <2>1. Host \notin Devices
        BY CoherencyAssumption DEF Host, Devices
    <2>2. Target(t) = d0
        BY TargetIs DEF Common
    <2> QED
        BY <1>2, <1>6, <2>1, <2>2, FirstOfTodo DEF Common, FromHost, ValidChunk
<1>8. mem' = [mem EXCEPT ![op[t].dst] = [x \in Cells |->
                 IF x \in CellsOf(c0) THEN mem[s][x] ELSE @[x]]]
    BY CopyChunkEffect DEF Common
<1>9. \/ UNCHANGED <<ptr, allocs>>
      \/ /\ ptr[0][first] = Null
         /\ ptr' = [ptr EXCEPT ![0][first] = <<first, allocs[first] + 1>>]
         /\ allocs' = [allocs EXCEPT ![first] = @ + 1]
    <2>1. NewStore(0, first) = <<first, allocs[first] + 1>>
        BY DEF NewStore
    <2> QED
        BY <2>1, CopyChunkEffect DEF Common
<1>10. ptr[0][first] # Null => s = ptr[0][first]
    BY <1>7 DEF Source
<1> HIDE DEF s, first, c0
<1>11. \A d \in Devices : ptr[0][d] # Null => ptr'[0][d] = ptr[0][d]
    BY <1>3, <1>7, <1>9 DEF Common, Shapes
<1>12. \A d \in Devices : Allocating(d)' => Allocating(d)
    BY <1>4, AllocatingStays
<1>13. op[t].dst \in DOMAIN mem
    <2>1. op[t].dst \in {<<d0, 1>>, <<d0, 2>>}
        BY <1>3, <1>5 DEF OwnStorages
    <2> QED
        BY <1>3, <2>1, OwnStores DEF Common, Shapes
<1>14. \A a \in DOMAIN mem : a # op[t].dst => mem'[a] = mem[a]
    <2> DEFINE f == [x \in Cells |-> IF x \in CellsOf(c0) THEN mem[s][x] ELSE mem[op[t].dst][x]]
    <2>1. mem' = [mem EXCEPT ![op[t].dst] = f]
        BY <1>8
    <2> HIDE DEF f
    <2> QED
        BY <2>1
<1>15. \A x \in Cells : mem'[op[t].dst][x] =
          IF x \in CellsOf(c0) THEN mem[s][x] ELSE mem[op[t].dst][x]
    BY <1>8, <1>13
<1>16. ASSUME NEW x \in Cells, x \in CellsOf(c0), latest[x] # 0
       PROVE  mem[s][x] = latest[x]
    <2>1. Holds(first, x)
        BY <1>6, <1>7, <1>16 DEF ValidChunk
    <2> QED
        BY <1>10, <1>16, <2>1 DEF Holds
<1>17. ASSUME NEW d \in Devices, NEW x \in Cells, Holds(d, x), latest'[x] # 0
       PROVE  ptr'[0][d] # Null /\ mem'[ptr'[0][d]][x] = latest'[x] /\ ~Allocating(d)'
    <2>1. /\ ptr[0][d] # Null /\ mem[ptr[0][d]][x] = latest[x] /\ ~Allocating(d)
          /\ ptr'[0][d] = ptr[0][d] /\ latest[x] # 0
        BY <1>2, <1>11, <1>17 DEF Holds
    <2>2. CASE d = d0
        BY <1>2, <1>5, <1>12, <1>15, <1>16, <2>1, <2>2
    <2>3. CASE d # d0
        <3>1. ptr[0][d] # op[t].dst /\ ptr[0][d] \in DOMAIN mem
            <4>1. ptr[0][d] \in {<<d, 1>>, <<d, 2>>}
                BY <2>1 DEF OwnStorages
            <4> QED
                BY <1>3, <1>5, <2>1, <2>3, <4>1, StoresApart, OwnStores DEF Common, Shapes
        <3> QED
            BY <1>2, <1>12, <1>14, <2>1, <3>1
    <2> QED
        BY <2>2, <2>3
<1>18. KeepsData
    BY <1>2, <1>17 DEF KeepsData, Holds
<1>19. \A x \in Cells : x \in CellsOf(c0) => Holds(op[t].dev, x)'
    <2> SUFFICES ASSUME NEW x \in Cells, x \in CellsOf(c0), latest'[x] # 0
                 PROVE  /\ ptr'[0][op'[t].dev] # Null
                        /\ mem'[ptr'[0][op'[t].dev]][x] = latest'[x] /\ ~Allocating(op[t].dev)'
        BY DEF Holds
    <2>1. op'[t].dev = d0 /\ ptr'[0][d0] = op[t].dst
        BY <1>3, <1>4, <1>5, <1>11 DEF SameCommand
    <2>2. mem'[op[t].dst][x] = latest'[x]
        BY <1>2, <1>15, <1>16
    <2>3. \A u \in Submissions : op'[u].pc = "allocate" => op'[u].dev # d0
        BY <1>2, <1>4 DEF Others, Common, Exclusive, Busy
    <2> QED
        BY <1>5, <2>1, <2>2, <2>3 DEF Allocating
<1>20. OwnStorages' /\ OwnObject'
    <2>1. ASSUME UNCHANGED <<ptr, allocs>> PROVE OwnStorages'
        BY <1>12, <2>1, OwnStoragesStay
    <2>2. ASSUME ~UNCHANGED <<ptr, allocs>> PROVE OwnStorages'
        <3>1. allocs[first] = 0
            BY <1>7, <1>9, <2>2 DEF OwnStorages
        <3>2. \A d \in Devices : /\ ptr'[0][d] = IF d = first THEN <<first, 1>> ELSE ptr[0][d]
                                 /\ allocs'[d] = IF d = first THEN 1 ELSE allocs[d]
            BY <1>3, <1>7, <1>9, <2>2, <3>1 DEF Common, Shapes
        <3>3. <<first, 1>> # Null
            BY NullIsNoStore
        <3> QED
            BY <1>12, <3>2, <3>3 DEF OwnStorages
    <2>3. OwnObject'
        BY <1>4 DEF OwnObject, Others, SameCommand
    <2> QED
        BY <2>1, <2>2, <2>3
<1>21. OwnChunks'
    <2>1. ~Running(t)
        BY <1>2 DEF Running
    <2> QED
        BY <1>2, <1>4, <1>18, <2>1, OwnChunksStay, OverwritingStays
<1>22. UsesOwn(t)'
    <2>1. op'[t].dev = d0 /\ op'[t].mode = op[t].mode
        BY <1>4 DEF SameCommand
    <2>2. \A x \in Cells : Holds(op[t].dev, x) => Holds(op[t].dev, x)'
        BY <1>4, <1>5, <1>18, KnowsStays DEF Common
    <2>3. \A c : ValidChunk(c) => ValidChunk(c)'
        BY <1>18, ValidStays
    <2>4. /\ \A e \in op'[t].todo : ValidChunk(e)'
          /\ "read" \in op'[t].mode => \A x \in Cells :
                Holds(op[t].dev, x)' \/ \E e \in op'[t].todo : x \in CellsOf(e)
        BY <1>4, <1>5, <1>19, <2>1, <2>2, <2>3 DEF UsesOwn
    <2>5. "map" \in op'[t].mode => op'[t].addr = ptr'[0][op'[t].dev] /\ op'[t].addr # Null
        BY <1>3, <1>4, <1>5, <1>11, <2>1 DEF UsesOwn, HasAddress
    <2> QED
        BY <1>4, <2>4, <2>5 DEF UsesOwn, HasAddress, Running
<1>23. KeepsStorages(t)
    BY <1>11 DEF KeepsStorages
<1> QED
    BY <1>1, <1>2, <1>4, <1>18, <1>20, <1>21, <1>22, <1>23, OthersUseOwn DEF Common, Busy

\* Step 3: a reader has all that was written; a write-only command starts to
\* overwrite.
LEMMA OwnUpdateRegion ==
    ASSUME HostPtrMode # "use", OwnInv, NEW t \in Submissions, UpdateRegion(t)
    PROVE  OwnInv'
<1> USE DEF OwnInv
<1> DEFINE d0 == op[t].dev
           m == op[t].mode
<1>1. Common'
    BY UpdateRegionCommon
<1>2. UNCHANGED <<ptr, allocs, mem, latest>> /\ op[t].pc = "validity"
    BY DEF UpdateRegion
<1>3. op[t].obj = 0 /\ d0 \in Devices
    BY MapsBuffer
<1>4. /\ Others(t) /\ SameCommand(t) /\ op'[t].addr = op[t].addr
      /\ op'[t].pc = "map" /\ op'[t].next = "run"
    BY UpdateRegionEffect DEF Common
<1>5. UsesOwn(t) /\ Transferring(t) /\ op[t].todo = {}
    BY <1>2 DEF OwnUsed, Transferring, Common, Transfers, KnowsChunks
<1>6. \A d \in Devices : Allocating(d)' => Allocating(d)
    BY <1>4, AllocatingStays
<1>7. KeepsData
    BY <1>2, <1>6, HoldsStays
<1>8. OwnStorages' /\ OwnObject'
    BY <1>2, <1>3, <1>4, <1>6, OwnStoragesStay DEF OwnObject, Others, SameCommand
<1>9. \A c \in partition : ValidChunk(c)
    <2>1. ~Running(t)
        BY <1>2 DEF Running
    <2>2. ~Overwriting
        BY <1>2, <2>1, NoneOverwrites DEF Common, Busy
    <2> QED
        BY <2>2 DEF OwnChunks
<1>10. ASSUME NEW c \in partition
       PROVE  /\ UpdateValidity(c, m, d0, ptr).valid =
                    (IF "write" \in m THEN {} ELSE c.valid) \cup {d0}
              /\ CellsOf(UpdateValidity(c, m, d0, ptr)) = CellsOf(c)
    <2> DEFINE v == (IF "write" \in m THEN {} ELSE c.valid) \cup {d0}
    <2>1. c = [off |-> c.off, size |-> c.size, valid |-> c.valid]
        BY DEF Common, Shapes, IsPartition, IsChunk
    <2>2. UpdateValidity(c, m, d0, ptr) = [c EXCEPT !.valid = v]
        BY DEF UpdateValidity, Aliases
    <2> HIDE DEF v
    <2>3. UpdateValidity(c, m, d0, ptr) = [off |-> c.off, size |-> c.size, valid |-> v]
        BY <2>1, <2>2, ChunkExcept
    <2> QED
        BY <2>3 DEF CellsOf, v
<1>11. ASSUME NEW e \in partition'
       PROVE  \E c \in partition : /\ e.valid = (IF "write" \in m THEN {} ELSE c.valid) \cup {d0}
                                   /\ CellsOf(e) = CellsOf(c)
    <2>1. FindRangeFor(partition, 0, RegionSize(op[t].obj)) = partition
        BY <1>3, RangeOfAll DEF Common, Shapes, RegionSize
    <2>2. PICK c \in partition : e = UpdateValidity(c, m, d0, ptr)
        BY <2>1 DEF UpdateRegion
    <2> QED
        BY <1>10, <2>2
<1>12. "read" \in m => \A x \in Cells : Holds(op[t].dev, x)
    BY <1>5 DEF UsesOwn
<1>13. OwnChunks'
    <2>1. \A e \in partition' : e.valid \subseteq Devices
        BY <1>3, <1>11 DEF OwnChunks
    <2>2. CASE "read" \in m
        <3>1. ASSUME NEW e \in partition' PROVE ValidChunk(e)
            <4>1. PICK c \in partition : /\ e.valid = (IF "write" \in m THEN {} ELSE c.valid) \cup {d0}
                                         /\ CellsOf(e) = CellsOf(c)
                BY <1>11
            <4> HIDE DEF m, d0
            <4>2. e.valid # {} /\ \A d \in e.valid : d = d0 \/ d \in c.valid
                BY <4>1
            <4>3. \A x \in Cells : Holds(d0, x)
                BY <1>12, <2>2 DEF m, d0
            <4> QED
                BY <1>9, <2>1, <4>1, <4>2, <4>3 DEF ValidChunk
        <3>2. \A e \in partition' : ValidChunk(e)'
            BY <1>7, <3>1, ValidStays
        <3> QED
            BY <2>1, <3>2 DEF OwnChunks
    <2>3. CASE "read" \notin m
        <3>1. "write" \in m
            BY <1>2, <2>3 DEF Common, Exclusive, Busy
        <3>2. Overwriting'
            BY <1>4, <2>3, <3>1 DEF Overwriting, Running, SameCommand
        <3> QED
            BY <2>1, <3>2 DEF OwnChunks
    <2> QED
        BY <2>2, <2>3
<1>14. UsesOwn(t)'
    <2>1. op'[t].dev = d0 /\ op'[t].mode = m
        BY <1>4 DEF SameCommand
    <2>2. "read" \in op'[t].mode => \A x \in Cells : Holds(op[t].dev, x)'
        BY <1>4, <1>5, <1>7, <1>12, <2>1, KnowsStays DEF Common
    <2>3. "write" \in op'[t].mode => \A e \in partition' : e.valid = {op'[t].dev}
        BY <1>11, <2>1
    <2>4. "map" \in op'[t].mode => op'[t].addr = ptr'[0][op'[t].dev] /\ op'[t].addr # Null
        BY <1>2, <1>4, <1>5, <2>1 DEF UsesOwn, HasAddress
    <2> QED
        BY <1>4, <2>2, <2>3, <2>4 DEF UsesOwn, HasAddress, Transferring, Copying, Mapping
<1>15. KeepsStorages(t)
    BY <1>2 DEF KeepsStorages
<1> QED
    BY <1>1, <1>2, <1>4, <1>7, <1>8, <1>13, <1>14, <1>15, OthersUseOwn DEF Common, Busy

\* A command that writes runs alone, on the one device that is valid.
LEMMA OwnRun ==
    ASSUME HostPtrMode # "use", ~PartialWrites, OwnInv, NEW t \in Submissions, Run(t)
    PROVE  OwnInv'
<1> USE DEF OwnInv
<1> DEFINE d0 == op[t].dev
           m == op[t].mode
<1>1. Common'
    BY RunCommon
<1>2. UNCHANGED <<partition, ptr, allocs>> /\ op[t].pc = "run"
    BY DEF Run
<1>3. op[t].obj = 0 /\ d0 \in Devices
    BY MapsBuffer
<1>4. Others(t) /\ SameCommand(t) /\ op'[t].pc = "done"
    BY RunEffect DEF Common
<1>5. /\ UsesOwn(t) /\ Running(t) /\ Used(t) = ptr[0][d0] /\ ptr[0][d0] # Null
    <2>1. UsesOwn(t)
        BY DEF OwnUsed
    <2>2. Running(t) /\ op[t].dst = ptr[0][d0] /\ op[t].dst # Null
        BY <1>2, <2>1 DEF UsesOwn, HasAddress, Running
    <2> QED
        BY <1>2, <2>1, <2>2 DEF UsesOwn, HasAddress, Used
<1>6. \A d \in Devices : Allocating(d)' => Allocating(d)
    BY <1>4, AllocatingStays
<1>7. OwnStorages' /\ OwnObject'
    BY <1>2, <1>3, <1>4, <1>6, OwnStoragesStay DEF OwnObject, Others, SameCommand
<1>8. UsesOwn(t)'
    BY <1>4 DEF UsesOwn, Transferring, Copying, Mapping, Running
<1>9. CASE "write" \notin m
    <2>1. UNCHANGED <<mem, latest>>
        BY <1>9 DEF Run
    <2>2. KeepsData
        BY <1>2, <1>6, <2>1, HoldsStays
    <2>3. ~Overwriting
        BY <1>2, <1>9, NoneOverwrites DEF Common, Busy
    <2>4. OwnChunks'
        BY <1>2, <2>2, <2>3, OwnChunksStay
    <2>5. KeepsStorages(t)
        BY <1>2 DEF KeepsStorages
    <2> QED
        BY <1>1, <1>2, <1>4, <1>7, <1>8, <2>2, <2>4, <2>5, OthersUseOwn DEF Common, Busy
<1>10. CASE "write" \in m
    <2> DEFINE s == ptr[0][d0]
    <2>1. \A u \in Submissions : u # t => op'[u] = op[u] /\ op[u].pc = "idle"
        BY <1>2, <1>4, <1>10 DEF Others, Common, Exclusive, Busy
    <2>2. OwnUsed'
        <3>1. ASSUME NEW u \in Submissions, u # t PROVE UsesOwn(u)'
            BY <2>1, <3>1 DEF UsesOwn, Transferring, Copying, Mapping, Running
        <3> QED
            BY <1>8, <3>1 DEF OwnUsed
    <2>3. PICK W \in SUBSET (0..(RegionSize(op[t].obj) - 1)) :
              /\ W = 0..(RegionSize(op[t].obj) - 1) \/ "read" \in m
              /\ mem' = [mem EXCEPT ![Used(t)] = [x \in Cells |->
                             IF x \in W THEN writes + 2 ELSE @[x]]]
              /\ latest' = [x \in Cells |-> IF x \in W THEN writes + 2 ELSE latest[x]]
        BY <1>10, Zenon DEF Run
    <2>4. W = Cells \/ "read" \in m
        BY <1>3, <2>3 DEF RegionSize, Cells
    <2>5. s \in DOMAIN mem
        <3>1. s \in {<<d0, 1>>, <<d0, 2>>}
            BY <1>3, <1>5 DEF OwnStorages
        <3> QED
            BY <1>3, <3>1, OwnStores DEF Common, Shapes
    <2>6. \A x \in Cells : mem'[s][x] = IF x \in W THEN writes + 2 ELSE mem[s][x]
        <3>1. mem' = [mem EXCEPT ![s] = [x \in Cells |-> IF x \in W THEN writes + 2 ELSE mem[s][x]]]
            BY <1>5, <2>3
        <3> HIDE DEF s
        <3> QED
            BY <2>5, <3>1
    <2>7. "read" \in m => \A x \in Cells : latest[x] # 0 => mem[s][x] = latest[x]
        BY <1>5 DEF UsesOwn, Holds
    <2>8. \A x \in Cells : latest'[x] # 0 => mem'[s][x] = latest'[x]
        BY <2>3, <2>4, <2>6, <2>7
    <2>9. \A u \in Submissions : op'[u].pc # "allocate"
        BY <1>4, <2>1
    <2>10. \A x \in Cells, d \in Devices : d = d0 => Holds(d, x)'
        BY <1>2, <1>5, <2>8, <2>9 DEF Holds, Allocating
    <2>11. ASSUME NEW c \in partition PROVE c.valid = {d0} /\ ValidChunk(c)'
        <3>1. c.valid = {d0}
            BY <1>5, <1>10 DEF UsesOwn
        <3> QED
            BY <1>3, <2>10, <3>1 DEF ValidChunk
    <2>12. OwnChunks'
        BY <1>2, <1>3, <2>11 DEF OwnChunks
    <2> QED
        BY <1>1, <1>7, <2>2, <2>12
<1> QED
    BY <1>9, <1>10

LEMMA OwnComplete ==
    ASSUME OwnInv, NEW t \in Submissions, Complete(t)
    PROVE  OwnInv'
<1> USE DEF OwnInv
<1>1. Common'
    BY CompleteCommon
<1>2. UNCHANGED <<partition, ptr, allocs, mem, latest>> /\ op[t].pc = "done"
    BY DEF Complete
<1>3. Others(t) /\ op'[t].pc = "idle" /\ op'[t].mode = {} /\ op'[t].obj = 0
    BY CompleteEffect, IdleKind DEF Common
<1>4. \A d \in Devices : Allocating(d)' => Allocating(d)
    BY <1>3, AllocatingStays
<1>5. KeepsData
    BY <1>2, <1>4, HoldsStays
<1>6. OwnStorages' /\ OwnObject'
    BY <1>2, <1>3, <1>4, OwnStoragesStay DEF OwnObject, Others
<1>7. OwnChunks'
    <2>1. ~Running(t)
        BY <1>2 DEF Running
    <2> QED
        BY <1>2, <1>3, <1>5, <2>1, OwnChunksStay, OverwritingStays
<1>8. UsesOwn(t)'
    BY <1>3 DEF UsesOwn, Transferring, Copying, Mapping, Running
<1>9. KeepsStorages(t)
    BY <1>2 DEF KeepsStorages
<1> QED
    BY <1>1, <1>2, <1>3, <1>5, <1>6, <1>7, <1>8, <1>9, OthersUseOwn DEF Common

LEMMA OwnUnmap ==
    ASSUME ~ShareDevice, OwnInv, NEW t \in Submissions, NEW d \in Devices, Unmap(t, d)
    PROVE  OwnInv'
<1> USE DEF OwnInv
<1>1. Common'
    BY UnmapCommon
<1>2. UNCHANGED <<partition, ptr, allocs, mem, latest>> /\ op[t].pc = "done"
    BY DEF Unmap
<1>3. /\ Others(t) /\ op'[t].pc = "compute" /\ op'[t].mode = {"read"}
      /\ op'[t].obj = op[t].obj /\ op'[t].next = "idle"
    BY UnmapEffect DEF Common
<1>4. \A e \in Devices : Allocating(e)' => Allocating(e)
    BY <1>3, AllocatingStays
<1>5. KeepsData
    BY <1>2, <1>4, HoldsStays
<1>6. OwnStorages' /\ OwnObject'
    BY <1>2, <1>3, <1>4, OwnStoragesStay DEF OwnObject, Others
<1>7. OwnChunks'
    <2>1. ~Running(t)
        BY <1>2 DEF Running
    <2> QED
        BY <1>2, <1>3, <1>5, <2>1, OwnChunksStay, OverwritingStays
<1>8. UsesOwn(t)'
    BY <1>3 DEF UsesOwn, Transferring, Copying, Mapping, Running
<1>9. KeepsStorages(t)
    BY <1>2 DEF KeepsStorages
<1> QED
    BY <1>1, <1>2, <1>3, <1>5, <1>6, <1>7, <1>8, <1>9, OthersUseOwn DEF Common

LEMMA InitOwn == ASSUME HostPtrMode # "use", Init PROVE OwnInv
<1>1. Common
    BY InitCommon
<1>2. 1 \in Devices /\ 0 \in Objects
    BY CoherencyAssumption, ObjectKinds DEF Devices
<1>3. \A t \in Submissions : op[t] = Idle
    BY DEF Init
<1>4. \A d \in Devices : ~Allocating(d)
    BY <1>3, IdleKind DEF Allocating
<1>5. OwnObject /\ OwnUsed
    BY <1>3, IdleKind DEF OwnObject, OwnUsed, UsesOwn, Transferring, Copying, Mapping, Running
<1>6. CASE HostPtrMode = "none"
    <2>1. /\ \A d \in Devices : ptr[0][d] = Null /\ allocs[d] = 0
          /\ \A x \in Cells : latest[x] = 0
          /\ \A c \in partition : c.valid = {}
        BY <1>2, <1>6 DEF Init
    <2>2. OwnStorages
        BY <1>4, <2>1 DEF OwnStorages
    <2>3. OwnChunks
        BY <2>1 DEF OwnChunks, ValidChunk
    <2> QED
        BY <1>1, <1>5, <2>2, <2>3 DEF OwnInv
<1>7. CASE HostPtrMode = "copy"
    <2>1. \A d \in Devices : ptr[0][d] = <<d, 1>> /\ allocs[d] = 1
        BY <1>2, <1>7 DEF Init
    <2>2. /\ \A x \in Cells : latest[x] = 1
          /\ \A c \in partition : c.valid = {1}
        BY <1>7 DEF Init
    <2>3. \A x \in Cells : mem[<<1, 1>>][x] = 1
        BY <1>2, <1>7, OwnStores DEF Init
    <2>4. OwnStorages
        BY <1>4, <2>1, OwnStores DEF OwnStorages
    <2>5. \A x \in Cells : Holds(1, x)
        BY <1>2, <1>4, <2>1, <2>2, <2>3, OwnStores DEF Holds
    <2>6. OwnChunks
        BY <1>2, <2>2, <2>5 DEF OwnChunks, ValidChunk
    <2> QED
        BY <1>1, <1>5, <2>4, <2>6 DEF OwnInv
<1> QED
    BY <1>6, <1>7, CoherencyAssumption

LEMMA NextOwn ==
    ASSUME Size \notin ImageSizes, ~ShareDevice, HostPtrMode # "use", ~PartialWrites,
           ~ImageCommands, OwnInv, [Next]_vars
    PROVE  OwnInv'
<1>1. CASE UNCHANGED vars
    <2>1. Common'
        BY <1>1, NextCommon DEF OwnInv
    <2>2. UNCHANGED <<partition, ptr, allocs, mem, latest, op>>
        BY <1>1 DEF vars
    <2>3. OwnStorages' /\ OwnObject'
        BY <2>2 DEF OwnInv, OwnStorages, OwnObject, Allocating
    <2>4. OwnChunks'
        BY <2>2 DEF OwnInv, OwnChunks, ValidChunk, Holds, Allocating, Overwriting, Running
    <2>5. OwnUsed'
        BY <2>2 DEF OwnInv, OwnUsed, UsesOwn, Transferring, Copying, Mapping, Running,
                    HasAddress, ValidChunk, Holds, Allocating
    <2> QED
        BY <2>1, <2>3, <2>4, <2>5 DEF OwnInv
<1>2. ASSUME NEW k \in ImageSizes, CreateImage(k) PROVE OwnInv'
    BY <1>2, OwnCreateImage
<1>3. ASSUME NEW t \in Submissions,
             NEW d \in Devices, NEW o \in Objects, NEW mode \in Modes, Submit(t, d, o, mode)
      PROVE  OwnInv'
    BY <1>3, OwnSubmit
<1>4. ASSUME NEW t \in Submissions, NEW d \in Devices, Unmap(t, d) PROVE OwnInv'
    BY <1>4, OwnUnmap
<1>5. ASSUME NEW t \in Submissions,
             \/ MapDevice(t) \/ AllocateDevice(t) \/ ComputeChunks(t) \/ NextChunk(t)
             \/ CopyChunk(t) \/ UpdateRegion(t) \/ Run(t) \/ Complete(t)
      PROVE  OwnInv'
    BY <1>5, OwnMapDevice, OwnAllocateDevice, OwnComputeChunks, OwnNextChunk,
       OwnCopyChunk, OwnUpdateRegion, OwnRun, OwnComplete
<1> QED
    BY <1>1, <1>2, <1>3, <1>4, <1>5, Zenon DEF Next

\* No writer is busy, so that nobody overwrites.
LEMMA OwnCoherent == ASSUME OwnInv PROVE Coherent
<1> USE DEF OwnInv
<1> SUFFICES ASSUME \A t \in Submissions : op[t].pc # "idle" => ~op[t].excl,
                    NEW c \in partition, NEW x \in CellsOf(c), latest[x] # 0
             PROVE  /\ c.valid # {}
                    /\ \A l \in c.valid :
                          StoreOf(l) # Null /\ mem[StoreOf(l)][x] = latest[x]
    BY DEF Coherent
<1>1. ~Overwriting
    BY DEF Overwriting, Running, Common, Exclusive, Busy
<1>2. x \in Cells
    BY CellsInObject DEF Common, Shapes
<1>3. c.valid # {} /\ \A d \in c.valid : d \in Devices /\ Holds(d, x)
    BY <1>1, <1>2 DEF OwnChunks, ValidChunk
<1>4. \A d \in Devices : StoreOf(d) = ptr[0][d]
    BY CoherencyAssumption DEF StoreOf, Devices, Host
<1> QED
    BY <1>3, <1>4 DEF Holds

LEMMA OwnReadsLatest == ASSUME OwnInv PROVE ReadsLatest
<1> USE DEF OwnInv
<1> SUFFICES ASSUME NEW t \in Submissions, NEW x \in Cells, op[t].pc = "run",
                    "read" \in op[t].mode, latest[x] # 0
             PROVE  mem[Used(t)][x] = latest[x]
    BY DEF ReadsLatest
<1>1. UsesOwn(t) /\ Running(t)
    BY DEF OwnUsed, UsesOwn, Running
<1>2. Holds(op[t].dev, x) /\ HasAddress(t, op[t].dst)
    BY <1>1 DEF UsesOwn
<1>3. Used(t) = ptr[0][op[t].dev]
    BY <1>1, <1>2 DEF Used, UsesOwn, HasAddress
<1> QED
    BY <1>2, <1>3 DEF Holds

---------------------------------------------------------------------------
\* The invariant the two properties follow from, for each kind of object.
CohInv == IF HostPtrMode = "use" THEN HostInv ELSE OwnInv

LEMMA CohInvariant ==
    ASSUME Size \notin ImageSizes, ~ShareDevice,
           HostPtrMode = "use" \/ (~PartialWrites /\ ~ImageCommands)
    PROVE  Spec => []CohInv
<1>1. Init => CohInv
    BY InitHost, InitOwn DEF CohInv
<1>2. CohInv /\ [Next]_vars => CohInv'
    BY NextHost, NextOwn DEF CohInv
<1> QED
    BY <1>1, <1>2, PTL DEF Spec

\* The validity bits of the MemoryCoherencyTracker never lie: when no command
\* that writes the object is between its submission and its completion, every
\* location a chunk is marked valid for holds, in the storage of its
\* MemoryDescriptor, what was last written to each cell of the chunk, and no
\* chunk that was written is valid nowhere.  For every number of devices,
\* submissions, cells and images, all interleavings of updateRegion and of
\* MemoryDescriptor::map, and each way to create the object.  The hypotheses
\* are where the code is known to keep it: an image is smaller than the
\* buffer (splitChunk), two queues of one device do not submit at once
\* (MemoryDescriptor::allocate), and, unless the object lies in the host's
\* memory, a write-only command writes all of its region (updateRegion marks
\* the whole region valid) and commands use the buffer, not its images.
THEOREM Validity_Never_Lies ==
    ASSUME Size \notin ImageSizes, ~ShareDevice,
           HostPtrMode = "use" \/ (~PartialWrites /\ ~ImageCommands)
    PROVE  Spec => []Coherent
<1>1. CohInv => Coherent
    BY HostCoherent, OwnCoherent DEF CohInv
<1> QED
    BY <1>1, CohInvariant, PTL

\* Under the same hypotheses, a command that reads and a mapping find what was
\* last written to each cell, on whatever device, when
\* CommandQueue::ensureMemoryCoherency has brought their device up to date and
\* they run: no interleaving of the transfers of several readers
\* (MemoryCoherencyTracker::updateRegion), and no second allocation of a
\* storage, loses a version.
THEOREM Readers_See_Latest ==
    ASSUME Size \notin ImageSizes, ~ShareDevice,
           HostPtrMode = "use" \/ (~PartialWrites /\ ~ImageCommands)
    PROVE  Spec => []ReadsLatest
<1>1. CohInv => ReadsLatest
    BY HostReadsLatest, OwnReadsLatest DEF CohInv
<1> QED
    BY <1>1, CohInvariant, PTL
=============================================================================
