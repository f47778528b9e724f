--------------------------- MODULE HostCallProofs ---------------------------
(***************************************************************************)
(* Proofs about the components whose calls a host makes between commands:  *)
(* the kernels of a program, the mappings of memory objects, and devices;  *)
(* and about the calls that enqueue commands on buffers and on images.     *)
(***************************************************************************)
EXTENDS BufferCommands, ImageCommands, MemoryMapping, Programs, SubDevices, FiniteSetTheorems,
        FunctionTheorems, SequenceTheorems, NaturalsInduction, WellFoundedInduction, TLAPS

---------------------------------------------------------------------------
(* Sequences whose elements are of any kind.                               *)

IsSeq(s) == s \in Seq({s[i] : i \in DOMAIN s})

LEMMA SeqIs ==
    ASSUME NEW S, NEW s \in Seq(S)
    PROVE  IsSeq(s) /\ Len(s) \in Nat /\ DOMAIN s = 1..Len(s)
<1> DEFINE T == {s[i] : i \in DOMAIN s}
<1>1. Len(s) \in Nat /\ DOMAIN s = 1..Len(s) /\ s = [i \in 1..Len(s) |-> s[i]]
    OBVIOUS
<1>2. \A i \in 1..Len(s) : s[i] \in T
    BY <1>1
<1> QED
    BY <1>1, <1>2, SeqDef DEF IsSeq

LEMMA ConcatIs ==
    ASSUME NEW s, NEW t, IsSeq(s), IsSeq(t)
    PROVE  /\ IsSeq(s \o t) /\ Len(s \o t) = Len(s) + Len(t)
           /\ Len(s) \in Nat /\ Len(t) \in Nat
           /\ \A i \in 1..Len(s) : (s \o t)[i] = s[i]
           /\ \A i \in 1..Len(t) : (s \o t)[Len(s) + i] = t[i]
<1> DEFINE S == {s[i] : i \in DOMAIN s} \cup {t[i] : i \in DOMAIN t}
<1>1. s \in Seq(S) /\ t \in Seq(S)
    <2>1. s \in Seq({s[i] : i \in DOMAIN s}) /\ t \in Seq({t[i] : i \in DOMAIN t})
        BY DEF IsSeq
    <2> QED
        BY <2>1, SeqMonotonic
<1> HIDE DEF S
<1>2. s \o t \in Seq(S)
    BY <1>1
<1>3. IsSeq(s \o t)
    BY <1>2, SeqIs
<1> QED
    BY <1>1, <1>3

LEMMA UpdateIs ==
    ASSUME NEW s, IsSeq(s), NEW k \in DOMAIN s, NEW e
    PROVE  /\ IsSeq([s EXCEPT ![k] = e]) /\ Len([s EXCEPT ![k] = e]) = Len(s)
           /\ Len(s) \in Nat /\ DOMAIN s = 1..Len(s)
<1> DEFINE t == [s EXCEPT ![k] = e]
<1>1. s \in Seq({s[i] : i \in DOMAIN s})
    BY DEF IsSeq
<1>2. t \in Seq({s[i] : i \in DOMAIN s} \cup {e}) /\ Len(t) = Len(s)
    <2> DEFINE S == {s[i] : i \in DOMAIN s} \cup {e}
    <2>1. s \in Seq(S)
        BY <1>1, SeqMonotonic
    <2> HIDE DEF S
    <2>2. e \in S
        BY DEF S
    <2> QED
        BY <2>1, <2>2 DEF S
<1> QED
    BY <1>1, <1>2, SeqIs

---------------------------------------------------------------------------
(* Kernels: a descriptor is never detached, so that once there is one no   *)
(* build begins, and once there is a calm one none is under way; its code  *)
(* and signatures are those of the modules.                                *)

\* Kernel k, its descriptor, which is the k-th, and its functions.
KernelFits(k) ==
    LET infos == descs[k].infos
    IN  /\ kernels[k].desc = k /\ kernels[k].held \in {0, 1}
        /\ ~descs[k].deleted /\ (kernels[k].held = 1 => descs[k].refs = 1)
        /\ \A d \in DOMAIN infos :
               descs[k].calm => d \in DOMAIN BuildInfo /\ BuildInfo[d].code.id = infos[d].code
        /\ "create_all" \notin Ops => \A d, e \in DOMAIN infos : infos[d].sign = infos[e].sign

BuildsHold ==
    /\ building \in [Threads -> [active : BOOLEAN, devs : SUBSET (ProgramDevices \cup Foreign)]]
    /\ FromBinary = {} => \A k \in 1..Len(descs) :
           descs[k].calm => \A t \in Threads : ~building[t].active

ProgramInv ==
    /\ BuildsHold /\ DOMAIN BuildInfo \subseteq Nat
    /\ IsSeq(descs) /\ IsSeq(kernels) /\ Len(kernels) = Len(descs)
    /\ AttachedKernels = 1..Len(descs)
    /\ \A k \in 1..Len(descs) : KernelFits(k)

LEMMA NatOrder == IsWellFoundedOn({p \in Nat \X Nat : p[1] < p[2]}, Nat)
<1>1. OpToRel(<, Nat) = {p \in Nat \X Nat : p[1] < p[2]}
    BY DEF OpToRel
<1> QED
    BY <1>1, NatLessThanWellFounded

LEMMA LeastIs ==
    ASSUME NEW S \in SUBSET Nat, S # {}
    PROVE  Least(S) \in S /\ \A e \in S : Least(S) <= e
<1> DEFINE R == {p \in Nat \X Nat : p[1] < p[2]}
<1>2. PICK m \in S : \A e \in S : <<e, m>> \notin R
    <2> HIDE DEF R
    <2> QED
        BY NatOrder, WFMin DEF R
<1>3. ASSUME NEW e \in S PROVE m <= e
    <2>1. e \in Nat /\ m \in Nat /\ <<e, m>> \in Nat \X Nat
        OBVIOUS
    <2>2. ~(e < m)
        BY <1>2, <2>1
    <2> QED
        BY <2>1, <2>2
<1> QED
    BY <1>3 DEF Least

\* A step that adds no kernel and keeps the code of the devices, unless no
\* kernel is calm.
LEMMA KeepsKernels ==
    ASSUME ProgramInv, BuildsHold', UNCHANGED <<AttachedKernels, descs, kernels>>,
           DOMAIN BuildInfo' \subseteq Nat,
           \/ \A k \in 1..Len(descs) : ~descs[k].calm
           \/ \A d \in DOMAIN BuildInfo :
                  d \in DOMAIN BuildInfo' /\ BuildInfo'[d].code = BuildInfo[d].code
    PROVE  ProgramInv'
<1>1. ASSUME NEW k \in 1..Len(descs) PROVE KernelFits(k)'
    <2>1. KernelFits(k)
        BY <1>1 DEF ProgramInv
    <2>2. CASE ~descs[k].calm
        BY <2>1, <2>2 DEF KernelFits
    <2>3. CASE descs[k].calm
        <3>1. \A d \in DOMAIN BuildInfo :
                  d \in DOMAIN BuildInfo' /\ BuildInfo'[d].code = BuildInfo[d].code
            BY <1>1, <2>3
        <3> QED
            BY <2>1, <3>1 DEF KernelFits
    <2> QED
        BY <2>2, <2>3
<1> QED
    BY <1>1 DEF ProgramInv

\* ... or changes the build information of no device, or of one.
LEMMA AfterBuildIs ==
    ASSUME NEW d, NEW result, BuildInfo' = AfterBuild(d, result),
           d \in DOMAIN BuildInfo => result.code = BuildInfo[d].code
    PROVE  /\ DOMAIN BuildInfo' = DOMAIN BuildInfo \cup {d}
           /\ \A e \in DOMAIN BuildInfo :
                  e \in DOMAIN BuildInfo' /\ BuildInfo'[e].code = BuildInfo[e].code
    BY DEF AfterBuild

LEMMA StartBuildKeeps ==
    ASSUME ProgramInv, NEW t \in Threads, NEW devs \in SUBSET (ProgramDevices \cup Foreign),
           StartBuild(t, devs)
    PROVE  ProgramInv'
<1>1. 1..Len(descs) = {} /\ UNCHANGED descs
    BY DEF StartBuild, ProgramInv
<1>2. BuildsHold'
    <2>1. building' \in [Threads -> [active : BOOLEAN, devs : SUBSET (ProgramDevices \cup Foreign)]]
        BY DEF StartBuild, ProgramInv, BuildsHold
    <2> QED
        BY <1>1, <2>1 DEF StartBuild, BuildsHold
<1> QED
    BY <1>1, <1>2, KeepsKernels DEF StartBuild, ProgramInv

LEMMA EndBuildKeeps ==
    ASSUME ProgramInv, NEW t \in Threads, EndBuild(t)
    PROVE  ProgramInv'
<1>1. BuildsHold'
    BY DEF EndBuild, ProgramInv, BuildsHold, Idle
<1>2. BuildInfo' = BuildInfo
    BY DEF EndBuild
<1> QED
    BY <1>1, <1>2, KeepsKernels DEF EndBuild, ProgramInv

LEMMA BuildDeviceKeeps ==
    ASSUME ProgramKinds, ProgramInv, NEW t \in Threads,
           NEW d \in ProgramDevices \cup Foreign, BuildDevice(t, d)
    PROVE  ProgramInv'
<1> DEFINE All == [active : BOOLEAN, devs : SUBSET (ProgramDevices \cup Foreign)]
<1>1. /\ building[t].active /\ UNCHANGED <<AttachedKernels, descs, kernels>>
      /\ \E S \in {building[t].devs \ {d}, {}} :
             building' = [building EXCEPT ![t] = [active |-> TRUE, devs |-> S]]
    BY DEF BuildDevice
<1>2. BuildsHold'
    <2>1. PICK S \in {building[t].devs \ {d}, {}} :
              building' = [building EXCEPT ![t] = [active |-> TRUE, devs |-> S]]
        BY <1>1
    <2>2. building \in [Threads -> All]
        BY DEF ProgramInv, BuildsHold
    <2>3. building[t] \in All /\ [active |-> TRUE, devs |-> S] \in All
        BY <2>2
    <2> HIDE DEF All
    <2>4. building' \in [Threads -> All]
        BY <2>1, <2>2, <2>3
    <2>5. \A u \in Threads : building'[u].active = building[u].active
        BY <1>1, <2>1, <2>2
    <2> QED
        BY <1>1, <2>4, <2>5 DEF ProgramInv, BuildsHold, All
<1>3. CASE FromBinary = {}
    <2>1. \A k \in 1..Len(descs) : ~descs[k].calm
        BY <1>1, <1>3 DEF ProgramInv, BuildsHold
    <2>2. DOMAIN BuildInfo' = DOMAIN BuildInfo \cup {d}
        BY DEF BuildDevice, AfterBuild
    <2> QED
        BY <1>1, <1>2, <2>1, <2>2, KeepsKernels DEF ProgramInv, ProgramKinds
<1>4. CASE FromBinary # {}
    <2>1. BuildInfo' = AfterBuild(d, InfoOf(d))
        BY <1>4 DEF BuildDevice
    <2>2. d \in DOMAIN BuildInfo => InfoOf(d).code = BuildInfo[d].code
        BY DEF InfoOf
    <2> QED
        <3>1. /\ DOMAIN BuildInfo' = DOMAIN BuildInfo \cup {d}
              /\ \A e \in DOMAIN BuildInfo :
                     e \in DOMAIN BuildInfo' /\ BuildInfo'[e].code = BuildInfo[e].code
            BY <2>1, <2>2, AfterBuildIs
        <3>2. DOMAIN BuildInfo' \subseteq Nat
            BY <3>1 DEF ProgramInv, ProgramKinds
        <3> QED
            BY <1>1, <1>2, <3>1, <3>2, KeepsKernels
<1> QED
    BY <1>3, <1>4

LEMMA QueryKeeps ==
    ASSUME ProgramKinds, ProgramInv, NEW t \in Threads, QueryBinaries(t)
    PROVE  ProgramInv'
<1>1. BuildsHold'
    BY DEF QueryBinaries, ProgramInv, BuildsHold
<1> DEFINE d == Least(ProgramDevices \ DOMAIN BuildInfo)
<1>2. d \notin DOMAIN BuildInfo /\ d \in Nat
    BY LeastIs DEF ProgramKinds, QueryBinaries
<1>3. BuildInfo' = AfterBuild(d, NullInfo)
    BY DEF QueryBinaries
<1> HIDE DEF d
<1> QED
    <2>1. /\ DOMAIN BuildInfo' = DOMAIN BuildInfo \cup {d}
          /\ \A e \in DOMAIN BuildInfo :
                 e \in DOMAIN BuildInfo' /\ BuildInfo'[e].code = BuildInfo[e].code
        BY <1>2, <1>3, AfterBuildIs
    <2>2. DOMAIN BuildInfo' \subseteq Nat
        BY <1>2, <2>1 DEF ProgramInv
    <2>3. UNCHANGED <<AttachedKernels, descs, kernels>>
        BY DEF QueryBinaries
    <2> QED
        BY <1>1, <2>1, <2>2, <2>3, KeepsKernels

\* Make appends a descriptor and a kernel for each element of infos.
LEMMA MakeKeeps ==
    ASSUME ProgramInv, NEW infos, NEW n \in Nat, NEW refs, DOMAIN infos = 1..n, Make(infos, refs),
           UNCHANGED <<BuildInfo, building>>,
           \A i \in 1..n : \A d \in DOMAIN infos[i] :
               /\ d \in DOMAIN BuildInfo /\ BuildInfo[d].code.id = infos[i][d].code
               /\ "create_all" \notin Ops =>
                      \A e \in DOMAIN infos[i] : infos[i][d].sign = infos[i][e].sign
    PROVE  ProgramInv'
<1> DEFINE m == Len(descs)
           quiet == FromBinary # {} \/ \A t \in Threads : ~building[t].active
           newDescs == [i \in 1..n |-> [infos |-> infos[i], refs |-> 1, deleted |-> FALSE,
                                         calm |-> quiet]]
           newKernels == [i \in 1..n |-> [desc |-> m + i, refs |-> refs, held |-> 1]]
<1>1. /\ descs' = descs \o newDescs /\ kernels' = kernels \o newKernels
      /\ AttachedKernels' = AttachedKernels \cup {m + i : i \in 1..n}
    BY DEF Make
<1>2. IsSeq(newDescs) /\ IsSeq(newKernels) /\ Len(newDescs) = n /\ Len(newKernels) = n
    <2>1. newDescs \in Seq({newDescs[i] : i \in 1..n}) /\ Len(newDescs) = n
        <3> DEFINE S == {newDescs[i] : i \in 1..n}
        <3>1. newDescs \in [1..n -> S]
            OBVIOUS
        <3> HIDE DEF newDescs, S
        <3> QED
            BY <3>1, IsASeq, LenProperties DEF S
    <2>2. newKernels \in Seq({newKernels[i] : i \in 1..n}) /\ Len(newKernels) = n
        <3> DEFINE S == {newKernels[i] : i \in 1..n}
        <3>1. newKernels \in [1..n -> S]
            OBVIOUS
        <3> HIDE DEF newKernels, S
        <3> QED
            BY <3>1, IsASeq, LenProperties DEF S
    <2> HIDE DEF newDescs, newKernels
    <2> QED
        BY <2>1, <2>2, SeqIs
<1>3. IsSeq(descs) /\ IsSeq(kernels) /\ Len(kernels) = m /\ AttachedKernels = 1..m
    BY DEF ProgramInv
<1>4. \A i \in 1..n :
          /\ newDescs[i].infos = infos[i] /\ newDescs[i].refs = 1 /\ ~newDescs[i].deleted
          /\ newDescs[i].calm = quiet
          /\ newKernels[i].desc = m + i /\ newKernels[i].held = 1
    OBVIOUS
<1> HIDE DEF newDescs, newKernels, m, quiet
<1>a. /\ Len(descs \o newDescs) = Len(descs) + Len(newDescs) /\ Len(descs) \in Nat
      /\ IsSeq(descs \o newDescs)
      /\ \A i \in 1..Len(descs) : (descs \o newDescs)[i] = descs[i]
      /\ \A i \in 1..Len(newDescs) : (descs \o newDescs)[Len(descs) + i] = newDescs[i]
    BY <1>2, <1>3, ConcatIs
<1>b. /\ Len(kernels \o newKernels) = Len(kernels) + Len(newKernels)
      /\ IsSeq(kernels \o newKernels)
      /\ \A i \in 1..Len(kernels) : (kernels \o newKernels)[i] = kernels[i]
      /\ \A i \in 1..Len(newKernels) :
             (kernels \o newKernels)[Len(kernels) + i] = newKernels[i]
    BY <1>2, <1>3, ConcatIs
<1>5. /\ IsSeq(descs') /\ Len(descs') = m + n /\ m \in Nat
      /\ \A i \in 1..m : descs'[i] = descs[i]
      /\ \A i \in 1..n : descs'[m + i] = newDescs[i]
    BY <1>1, <1>2, <1>a DEF m
<1>6. /\ IsSeq(kernels') /\ Len(kernels') = m + n
      /\ \A i \in 1..m : kernels'[i] = kernels[i]
      /\ \A i \in 1..n : kernels'[m + i] = newKernels[i]
    BY <1>1, <1>2, <1>3, <1>b
<1>7. AttachedKernels' = 1..(m + n)
    <2>1. AttachedKernels' = 1..m \cup {m + i : i \in 1..n}
        BY <1>1, <1>3
    <2>2. ASSUME NEW k \in 1..(m + n), ~(k \in 1..m) PROVE \E i \in 1..n : k = m + i
        <3>1. k - m \in 1..n /\ k = m + (k - m)
            BY <1>5, <2>2
        <3> QED
            BY <3>1
    <2>3. \A i \in 1..n : m + i \in 1..(m + n)
        BY <1>5
    <2>4. 1..m \subseteq 1..(m + n)
        BY <1>5
    <2> QED
        BY <2>1, <2>2, <2>3, <2>4
<1>8. ASSUME NEW k \in 1..(m + n) PROVE KernelFits(k)'
    <2>1. CASE k <= m
        <3>1. k \in 1..m
            BY <1>5, <2>1
        <3>2. KernelFits(k)
            BY <3>1 DEF ProgramInv, m
        <3>3. descs'[k] = descs[k] /\ kernels'[k] = kernels[k]
            BY <1>5, <1>6, <3>1
        <3> QED
            BY <3>2, <3>3 DEF KernelFits
    <2>2. CASE k > m
        <3>1. PICK i \in 1..n : k = m + i
            <4>1. k - m \in 1..n /\ k = m + (k - m)
                BY <1>5, <2>2
            <4> QED
                BY <4>1
        <3>2. descs'[k] = newDescs[i] /\ kernels'[k] = newKernels[i]
            BY <1>5, <1>6, <3>1
        <3>3. /\ descs'[k].infos = infos[i] /\ descs'[k].refs = 1 /\ ~descs'[k].deleted
              /\ kernels'[k].desc = k /\ kernels'[k].held = 1
            BY <1>4, <3>1, <3>2
        <3> QED
            BY <3>3 DEF KernelFits
    <2> QED
        BY <1>5, <2>1, <2>2
<1>9. BuildsHold'
    <2>1. BuildsHold
        BY DEF ProgramInv
    <2>2. ASSUME FromBinary = {}, NEW k \in 1..(m + n), descs'[k].calm
          PROVE  \A t \in Threads : ~building[t].active
        <3>1. CASE k <= m
            <4>1. k \in 1..m /\ descs'[k] = descs[k]
                BY <1>5, <3>1
            <4> QED
                BY <2>1, <2>2, <4>1 DEF BuildsHold, m
        <3>2. CASE k > m
            <4>1. PICK i \in 1..n : k = m + i
                <5>1. k - m \in 1..n /\ k = m + (k - m)
                    BY <1>5, <3>2
                <5> QED
                    BY <5>1
            <4>2. descs'[k] = newDescs[i]
                BY <1>5, <4>1
            <4>3. descs'[k].calm = quiet
                BY <1>4, <4>2
            <4> QED
                BY <2>2, <4>3 DEF quiet
        <3> QED
            BY <1>5, <3>1, <3>2
    <2> QED
        BY <1>5, <2>1, <2>2 DEF BuildsHold
<1> QED
    BY <1>5, <1>6, <1>7, <1>8, <1>9 DEF ProgramInv

LEMMA CreateKernelKeeps ==
    ASSUME ProgramKinds, ProgramInv,
           NEW t \in Threads, NEW name, CreateKernel(t, name)
    PROVE  ProgramInv'
<1>1. UNCHANGED <<BuildInfo, building>>
    BY DEF CreateKernel
<1>3. CASE UNCHANGED <<descs, kernels, AttachedKernels>>
    <2>1. DOMAIN BuildInfo' \subseteq Nat /\ BuildInfo' = BuildInfo
        BY <1>1 DEF ProgramInv
    <2>2. \A d \in DOMAIN BuildInfo :
              d \in DOMAIN BuildInfo' /\ BuildInfo'[d].code = BuildInfo[d].code
        BY <2>1
    <2>3. BuildsHold'
        BY <1>1, <1>3 DEF ProgramInv, BuildsHold
    <2> QED
        BY <1>3, <2>1, <2>2, <2>3, KeepsKernels
<1>4. CASE ~UNCHANGED <<descs, kernels, AttachedKernels>>
    <2> DEFINE defining == {d \in DOMAIN BuildInfo : DefineKernel(d, name)}
               fst == Least(defining)
               rest == {d \in DOMAIN BuildInfo : d > fst /\ IsBuilt(d)}
               on == {fst} \cup rest
               infos == Infos(on, name)
    <2>1. /\ defining # {} /\ Make(<<infos>>, 1)
          /\ \A d \in rest : SameSignature(fst, d, name)
        BY <1>4 DEF CreateKernel
    <2>2. fst \in defining
        BY <2>1, LeastIs DEF ProgramInv
    <2>3. \A d \in on : d \in DOMAIN BuildInfo
        BY <2>2
    <2>4. \A d \in on : BuildInfo[d].code.kernels[name] = BuildInfo[fst].code.kernels[name]
        BY <2>1 DEF SameSignature
    <2>5. infos = [d \in on |-> [code |-> BuildInfo[d].code.id,
                                 sign |-> BuildInfo[d].code.kernels[name]]]
        BY DEF Infos
    <2> HIDE DEF defining, fst, rest, on, infos
    <2>6. \A d \in DOMAIN infos :
              /\ d \in DOMAIN BuildInfo /\ BuildInfo[d].code.id = infos[d].code
              /\ \A e \in DOMAIN infos : infos[d].sign = infos[e].sign
        BY <2>3, <2>4, <2>5
    <2>7. DOMAIN <<infos>> = 1..1 /\ \A i \in 1..1 : <<infos>>[i] = infos
        OBVIOUS
    <2> QED
        <3>1. DOMAIN <<infos>> = 1..1 /\ 1 \in Nat
            BY <2>7
        <3>2. \A i \in 1..1 : \A d \in DOMAIN <<infos>>[i] :
                  /\ d \in DOMAIN BuildInfo /\ BuildInfo[d].code.id = <<infos>>[i][d].code
                  /\ "create_all" \notin Ops =>
                         \A e \in DOMAIN <<infos>>[i] : <<infos>>[i][d].sign = <<infos>>[i][e].sign
            BY <2>6, <2>7
        <3> QED
            BY <1>1, <2>1, <3>1, <3>2, MakeKeeps
<1> QED
    BY <1>3, <1>4

LEMMA CreateAllKeeps ==
    ASSUME ProgramKinds, ProgramInv, NEW t \in Threads, CreateKernelsInProgram(t)
    PROVE  ProgramInv'
<1> DEFINE On(name) == {d \in DOMAIN BuildInfo : IsBuilt(d) /\ DefineKernel(d, name)}
           S == {name \in Names : On(name) # {}}
           found == SetToSeq(S)
           infos == [i \in DOMAIN found |-> Infos(On(found[i]), found[i])]
<1>1. /\ "create_all" \in Ops /\ UNCHANGED <<BuildInfo, building>>
      /\ Make(infos, 0)
    BY DEF CreateKernelsInProgram
<1>2. DOMAIN found = 1..Cardinality(S) /\ Cardinality(S) \in Nat
    <2>1. IsFiniteSet(S)
        BY FS_Subset DEF ProgramKinds
    <2> HIDE DEF S
    <2>2. Cardinality(S) \in Nat /\ ExistsBijection(1..Cardinality(S), S)
        BY <2>1, FS_CardinalityType
    <2>3. \E f \in [1..Cardinality(S) -> S] : IsInjective(f)
        <3>1. PICK f : f \in Bijection(1..Cardinality(S), S)
            BY <2>2 DEF ExistsBijection
        <3>2. f \in [1..Cardinality(S) -> S] /\ IsInjective(f)
            BY <3>1 DEF Bijection, Injection, IsInjective
        <3> QED
            BY <3>2
    <2>4. SetToSeq(S) \in [1..Cardinality(S) -> S]
        BY <2>3 DEF SetToSeq
    <2> QED
        BY <2>2, <2>4
<1>4. \A i \in DOMAIN found : infos[i] =
          [d \in On(found[i]) |-> [code |-> BuildInfo[d].code.id,
                                   sign |-> BuildInfo[d].code.kernels[found[i]]]]
    BY DEF Infos
<1>5. \A i \in DOMAIN found : \A d \in On(found[i]) : d \in DOMAIN BuildInfo
    OBVIOUS
<1>6. DOMAIN infos = DOMAIN found
    OBVIOUS
<1> HIDE DEF infos, found, On, S
<1>7. \A i \in DOMAIN found : \A d \in DOMAIN infos[i] :
          d \in DOMAIN BuildInfo /\ BuildInfo[d].code.id = infos[i][d].code
    <2> SUFFICES ASSUME NEW i \in DOMAIN found, NEW d \in DOMAIN infos[i]
                 PROVE  d \in DOMAIN BuildInfo /\ BuildInfo[d].code.id = infos[i][d].code
        OBVIOUS
    <2> DEFINE V(e) == [code |-> BuildInfo[e].code.id,
                        sign |-> BuildInfo[e].code.kernels[found[i]]]
    <2>1. infos[i] = [e \in On(found[i]) |-> V(e)]
        BY <1>4
    <2>2. V(d).code = BuildInfo[d].code.id
        OBVIOUS
    <2> HIDE DEF V
    <2>3. d \in On(found[i]) /\ infos[i][d] = V(d)
        BY <2>1
    <2> QED
        BY <1>5, <2>2, <2>3
<1> QED
    BY <1>1, <1>2, <1>6, <1>7, MakeKeeps

LEMMA ReleaseKeeps ==
    ASSUME ProgramInv, NEW k \in DOMAIN kernels, ReleaseKernel(k)
    PROVE  ProgramInv'
<1>1. /\ IsSeq(descs) /\ IsSeq(kernels) /\ Len(kernels) = Len(descs) /\ Len(descs) \in Nat
      /\ DOMAIN kernels = 1..Len(descs) /\ DOMAIN descs = 1..Len(descs)
    BY DEF ProgramInv, IsSeq
<1>2. KernelFits(k) /\ k \in 1..Len(descs)
    BY <1>1 DEF ProgramInv
<1>3. kernels[k].desc = k /\ kernels[k].held = 1 /\ descs[k].refs = 1 /\ ~descs[k].deleted
    BY <1>2 DEF KernelFits, ReleaseKernel
<1>4. /\ kernels' = [kernels EXCEPT ![k] = [desc |-> k, refs |-> kernels[k].refs - 1, held |-> 0]]
      /\ UNCHANGED <<BuildInfo, building>>
    <2>1. kernels' = [kernels EXCEPT ![k] = [desc |-> kernels[k].desc, refs |-> kernels[k].refs - 1,
                                             held |-> kernels[k].held - 1]]
        BY DEF ReleaseKernel
    <2>2. kernels[k].desc = k /\ kernels[k].held - 1 = 0
        BY <1>3
    <2> QED
        BY <2>1, <2>2 DEF ReleaseKernel
<1>5. \/ descs' = descs
      \/ descs' = [descs EXCEPT ![k] = [infos |-> descs[k].infos, refs |-> 0, deleted |-> FALSE,
                                        calm |-> descs[k].calm]]
    <2>1. \/ descs' = descs
          \/ descs' = [descs EXCEPT ![kernels[k].desc] =
                          [infos |-> descs[kernels[k].desc].infos,
                           refs |-> descs[kernels[k].desc].refs - 1,
                           deleted |-> descs[kernels[k].desc].refs = 0,
                           calm |-> descs[kernels[k].desc].calm]]
        BY DEF ReleaseKernel
    <2>2. kernels[k].desc = k /\ descs[k].refs - 1 = 0 /\ (descs[k].refs = 0) = FALSE
        BY <1>3
    <2> QED
        BY <2>1, <2>2
<1>6. /\ IsSeq(descs') /\ Len(descs') = Len(descs)
      /\ \A j \in 1..Len(descs) : /\ descs'[j].infos = descs[j].infos /\ ~descs'[j].deleted
                                  /\ descs'[j].calm = descs[j].calm
      /\ \A j \in 1..Len(descs) : j # k => descs'[j] = descs[j]
    <2>1. \A j \in 1..Len(descs) : ~descs[j].deleted
        BY DEF ProgramInv, KernelFits
    <2>2. CASE descs' = descs
        BY <1>1, <2>1, <2>2
    <2>3. CASE descs' = [descs EXCEPT ![k] = [infos |-> descs[k].infos, refs |-> 0,
                                              deleted |-> FALSE, calm |-> descs[k].calm]]
        <3>0. k \in DOMAIN descs
            BY <1>1, <1>2
        <3>1. IsSeq(descs') /\ Len(descs') = Len(descs)
            BY <1>1, <2>3, <3>0, UpdateIs
        <3> QED
            BY <1>1, <1>2, <2>1, <2>3, <3>1
    <2> QED
        BY <1>5, <2>2, <2>3
<1>7. /\ IsSeq(kernels') /\ Len(kernels') = Len(kernels)
      /\ kernels'[k].desc = k /\ kernels'[k].held = 0
      /\ \A j \in 1..Len(descs) : j # k => kernels'[j] = kernels[j]
    <2>1. IsSeq(kernels') /\ Len(kernels') = Len(kernels)
        BY <1>1, <1>4, UpdateIs
    <2> QED
        BY <1>1, <1>2, <1>4, <2>1
<1>8. AttachedKernels' = 1..Len(descs)
    <2>1. AttachedKernels' = {a \in AttachedKernels : ~descs'[a].deleted}
        BY DEF ReleaseKernel
    <2> QED
        BY <1>6, <2>1 DEF ProgramInv
<1>9. ASSUME NEW j \in 1..Len(descs) PROVE KernelFits(j)'
    <2>1. /\ KernelFits(j) /\ descs'[j].infos = descs[j].infos /\ ~descs'[j].deleted
          /\ descs'[j].calm = descs[j].calm
        BY <1>6 DEF ProgramInv
    <2>2. /\ kernels'[j].desc = j /\ kernels'[j].held \in {0, 1}
          /\ kernels'[j].held = 1 => descs'[j].refs = 1
        BY <1>6, <1>7, <2>1 DEF KernelFits
    <2> QED
        BY <1>4, <2>1, <2>2 DEF KernelFits
<1>10. BuildsHold'
    BY <1>4, <1>6 DEF ProgramInv, BuildsHold
<1> QED
    BY <1>1, <1>4, <1>6, <1>7, <1>8, <1>9, <1>10 DEF ProgramInv

LEMMA ProgramInvariant ==
    ASSUME ProgramKinds PROVE ProgramSpec => []ProgramInv
<1>1. ProgramInit => ProgramInv
    <2> SUFFICES ASSUME ProgramInit PROVE ProgramInv
        OBVIOUS
    <2>1. DOMAIN BuildInfo \subseteq Nat
        BY DEF ProgramInit, ProgramKinds
    <2>2. BuildsHold
        BY DEF ProgramInit, BuildsHold, Idle
    <2>3. IsSeq(<<>>) /\ Len(<<>>) = 0
        BY DEF IsSeq
    <2> QED
        BY <2>1, <2>2, <2>3 DEF ProgramInit, ProgramInv
<1>2. ProgramInv /\ [ProgramNext]_programVars => ProgramInv'
    <2> SUFFICES ASSUME ProgramInv, [ProgramNext]_programVars PROVE ProgramInv'
        OBVIOUS
    <2>1. ASSUME NEW t \in Threads, Step(t) PROVE ProgramInv'
        BY <2>1, StartBuildKeeps, BuildDeviceKeeps, EndBuildKeeps, CreateKernelKeeps,
           CreateAllKeeps, QueryKeeps DEF Step
    <2>2. ASSUME NEW k \in DOMAIN kernels, ReleaseKernel(k) PROVE ProgramInv'
        BY <2>2, ReleaseKeeps
    <2>3. ASSUME UNCHANGED programVars PROVE ProgramInv'
        BY <2>3 DEF programVars, ProgramInv, BuildsHold, KernelFits
    <2> QED
        BY <2>1, <2>2, <2>3 DEF ProgramNext
<1> QED
    BY <1>1, <1>2, PTL DEF ProgramSpec

\* KernelsMatchModules: no build replaces the module a kernel was made from,
\* while clReleaseKernel has not given the kernel back, if no thread was between
\* StartBuild and CompilerDone when the kernel was made; and a kernel made by
\* clCreateKernel has the same signature on all of its devices.  For any number
\* of devices, modules and threads.
THEOREM Kernels_Match_Modules ==
    ASSUME ProgramKinds PROVE ProgramSpec => []KernelsMatchModules
<1>1. ProgramInv => KernelsMatchModules
    <2> SUFFICES ASSUME ProgramInv, NEW k \in DOMAIN kernels
                 PROVE  /\ descs[kernels[k].desc].calm => Refers(k)
                        /\ "create_all" \notin Ops =>
                               \A d, e \in DOMAIN descs[kernels[k].desc].infos :
                                   descs[kernels[k].desc].infos[d].sign
                                       = descs[kernels[k].desc].infos[e].sign
        BY DEF KernelsMatchModules, NoDanglingKernels, SignaturesAgree
    <2>1. k \in 1..Len(descs)
        BY DEF ProgramInv, IsSeq
    <2>2. KernelFits(k) /\ kernels[k].desc = k
        BY <2>1 DEF ProgramInv, KernelFits
    <2> QED
        BY <2>2 DEF KernelFits, Refers
<1> QED
    BY <1>1, ProgramInvariant, PTL


---------------------------------------------------------------------------
(* Mappings: every mapping that is held, or on its way back, has a record  *)
(* of its pointer of its own.                                              *)

Kinds == {"buffer", "picture"}
MapInfos == {BufferInfo(c, d) : c \in MapCalls, d \in Devices}
         \cup {ImageInfo(c, d) : c \in MapCalls, d \in Devices}
Holders == [id : Nat, obj : Kinds, dev : Devices, map : MapInfos]
All == held \cup Unmapping
Pointers == {Address(o, d) : o \in Kinds, d \in Devices}

\* The positions of the records of a pointer, and its holders.
RecordsAt(records, p) == {i \in 1..Len(records) : records[i].ptr = p}
Of(o, p) == {h \in All : h.obj = o /\ h.map.ptr = p}

MappingTypeInv ==
    /\ MemMappings \in [Objects -> Seq(MapInfos)] /\ MemMappings["strip"] = <<>>
    /\ pending \in [Devices -> Seq(Holders)]
    /\ held \subseteq Holders /\ calls \in Nat

\* A mapping is in one place, at the pointer of its object and device.
PlaceInv ==
    /\ \A g, h \in All : g.id = h.id => g = h
    /\ \A h \in All : h.id < calls /\ h.map.ptr = Address(h.obj, h.dev)
    /\ \A d \in Devices : \A i \in 1..Len(pending[d]) :
          /\ pending[d][i].dev = d /\ pending[d][i] \notin held
          /\ \A j \in 1..Len(pending[d]) : pending[d][i] = pending[d][j] => i = j

CountInv ==
    \A o \in Kinds, p \in Pointers :
        /\ IsFiniteSet(Of(o, p))
        /\ Cardinality(RecordsAt(MemMappings[o], p)) = Cardinality(Of(o, p))

WriteInv ==
    /\ \A g, h \in All : g # h /\ g.map.ptr = h.map.ptr
                             => ~(Write(g.map.flags) /\ Write(h.map.flags))
    /\ WritersOnly =>
          /\ \A h \in All : /\ Write(h.map.flags) /\ Len(h.map.off) = 3
                            /\ \E i \in 1..Len(MemMappings[h.obj]) :
                                   MemMappings[h.obj][i] = h.map
          /\ \A g, h \in All :
                 g # h /\ g.obj = h.obj => ~isOverlappedWith(g.map, h.map, TRUE)

MappingInv == MappingTypeInv /\ PlaceInv /\ CountInv /\ WriteInv

LEMMA AtIsFinite ==
    ASSUME NEW S, NEW s \in Seq(S), NEW p
    PROVE  IsFiniteSet(RecordsAt(s, p)) /\ Cardinality(RecordsAt(s, p)) \in Nat
<1>1. IsFiniteSet(1..Len(s)) /\ RecordsAt(s, p) \in SUBSET (1..Len(s))
    BY FS_Interval DEF RecordsAt
<1>2. IsFiniteSet(RecordsAt(s, p))
    BY <1>1, FS_Subset
<1> QED
    BY <1>2, FS_CardinalityType

\* One more record.
LEMMA AtAppend ==
    ASSUME NEW S, NEW s \in Seq(S), NEW m \in S, NEW p
    PROVE  Cardinality(RecordsAt(Append(s, m), p))
               = Cardinality(RecordsAt(s, p)) + (IF m.ptr = p THEN 1 ELSE 0)
<1>1. /\ Len(s) \in Nat /\ Len(Append(s, m)) = Len(s) + 1
      /\ \A i \in 1..Len(s) : Append(s, m)[i] = s[i]
      /\ Append(s, m)[Len(s) + 1] = m
    OBVIOUS
<1>2. 1..(Len(s) + 1) = 1..Len(s) \cup {Len(s) + 1} /\ Len(s) + 1 \notin 1..Len(s)
    BY <1>1
<1>3. CASE m.ptr = p
    <2>1. RecordsAt(Append(s, m), p) = RecordsAt(s, p) \cup {Len(s) + 1} /\ Len(s) + 1 \notin RecordsAt(s, p)
        BY <1>1, <1>2, <1>3 DEF RecordsAt
    <2> QED
        BY <1>3, <2>1, AtIsFinite, FS_AddElement
<1>4. CASE m.ptr # p
    <2>1. RecordsAt(Append(s, m), p) = RecordsAt(s, p)
        BY <1>1, <1>2, <1>4 DEF RecordsAt
    <2> QED
        BY <1>4, <2>1, AtIsFinite
<1> QED
    BY <1>3, <1>4

\* One record less: those behind it move up.
LEMMA RemovalIs ==
    ASSUME NEW S, NEW s \in Seq(S), NEW k \in 1..Len(s)
    PROVE  /\ RemoveAt(s, k) \in Seq(S) /\ Len(RemoveAt(s, k)) = Len(s) - 1
           /\ \A i \in 1..(Len(s) - 1) :
                  RemoveAt(s, k)[i] = IF i < k THEN s[i] ELSE s[i + 1]
<1> DEFINE a == SubSeq(s, 1, k - 1)
           b == SubSeq(s, k + 1, Len(s))
<1>1. /\ a \in Seq(S) /\ Len(a) = k - 1
      /\ \A i \in 1..(k - 1) : a[i] = s[i]
    OBVIOUS
<1>2. /\ b \in Seq(S) /\ Len(b) = Len(s) - k
      /\ \A i \in 1..(Len(s) - k) : b[i] = s[k + i]
    OBVIOUS
<1>3. RemoveAt(s, k) = a \o b
    BY DEF RemoveAt
<1> HIDE DEF a, b
<1>4. a \o b \in Seq(S) /\ Len(a \o b) = Len(s) - 1
    <2>1. a \o b \in Seq(S) /\ Len(a \o b) = Len(a) + Len(b)
        BY <1>1, <1>2, ConcatProperties
    <2> QED
        BY <1>1, <1>2, <2>1
<1>5. ASSUME NEW i \in 1..(Len(s) - 1)
      PROVE  (a \o b)[i] = IF i < k THEN s[i] ELSE s[i + 1]
    <2>1. CASE i < k
        BY <1>1, <1>2, <2>1
    <2>2. CASE ~(i < k)
        <3>1. i - (k - 1) \in 1..(Len(s) - k) /\ k + (i - (k - 1)) = i + 1
            BY <2>2
        <3>2. (a \o b)[i] = b[i - (k - 1)]
            BY <1>1, <1>2, <2>2
        <3> QED
            BY <1>2, <2>2, <3>1, <3>2
    <2> QED
        BY <2>1, <2>2
<1> QED
    BY <1>3, <1>4, <1>5

LEMMA MinIs ==
    ASSUME NEW S \in SUBSET Nat, S # {}
    PROVE  Min(S) \in S /\ \A e \in S : Min(S) <= e
    BY LeastIs DEF Min

LEMMA AtRemove ==
    ASSUME NEW S, NEW s \in Seq(S), NEW q, RecordsAt(s, q) # {}, NEW p
    PROVE  /\ RemoveMapping(s, q) \in Seq(S)
           /\ Cardinality(RecordsAt(RemoveMapping(s, q), p))
                  = Cardinality(RecordsAt(s, p)) - (IF p = q THEN 1 ELSE 0)
           /\ \A i \in 1..Len(s) : s[i].ptr # q =>
                  \E j \in 1..Len(RemoveMapping(s, q)) : RemoveMapping(s, q)[j] = s[i]
<1> DEFINE k == Min(RecordsAt(s, q))
           t == RemoveAt(s, k)
<1>1. Len(s) \in Nat /\ k \in RecordsAt(s, q) /\ k \in 1..Len(s) /\ s[k].ptr = q
    <2>1. RecordsAt(s, q) \in SUBSET Nat
        BY DEF RecordsAt
    <2>2. k \in RecordsAt(s, q)
        BY <2>1, MinIs
    <2> QED
        BY <2>2 DEF RecordsAt
<1>2. RemoveMapping(s, q) = t
    BY DEF RemoveMapping, RecordsAt
<1>3. /\ t \in Seq(S) /\ Len(t) = Len(s) - 1
      /\ \A i \in 1..(Len(s) - 1) : t[i] = IF i < k THEN s[i] ELSE s[i + 1]
    BY <1>1, RemovalIs
<1> HIDE DEF k, t
<1> DEFINE f == [i \in RecordsAt(t, p) |-> IF i < k THEN i ELSE i + 1]
<1>4. ASSUME NEW i \in RecordsAt(t, p)
      PROVE  f[i] \in RecordsAt(s, p) \ {k}
    BY <1>1, <1>3 DEF RecordsAt
<1>5. ASSUME NEW i \in RecordsAt(t, p), NEW j \in RecordsAt(t, p), f[i] = f[j]
      PROVE  i = j
    BY <1>1, <1>3, <1>5 DEF RecordsAt
<1>6. ASSUME NEW j \in 1..Len(s), j # k
      PROVE  \E i \in 1..Len(t) : t[i] = s[j] /\ j = IF i < k THEN i ELSE i + 1
    <2>1. CASE j < k
        <3>1. j \in 1..(Len(s) - 1)
            BY <1>1, <2>1
        <3> QED
            BY <1>3, <2>1, <3>1
    <2>2. CASE j > k
        <3>1. j - 1 \in 1..(Len(s) - 1) /\ ~(j - 1 < k) /\ (j - 1) + 1 = j
            BY <1>1, <2>2
        <3>2. t[j - 1] = s[j]
            BY <1>3, <3>1
        <3> QED
            BY <1>3, <3>1, <3>2
    <2> QED
        BY <1>1, <1>6, <2>1, <2>2
<1>7. ASSUME NEW j \in RecordsAt(s, p) \ {k}
      PROVE  \E i \in RecordsAt(t, p) : f[i] = j
    <2>1. PICK i \in 1..Len(t) : t[i] = s[j] /\ j = IF i < k THEN i ELSE i + 1
        BY <1>6 DEF RecordsAt
    <2>2. i \in RecordsAt(t, p)
        BY <2>1 DEF RecordsAt
    <2> QED
        BY <2>1, <2>2
<1>8. /\ f \in Bijection(RecordsAt(t, p), RecordsAt(s, p) \ {k})
    <2>1. f \in [RecordsAt(t, p) -> RecordsAt(s, p) \ {k}]
        BY <1>4
    <2> QED
        BY <1>5, <1>7, <2>1, Fun_IsBij
<1>9. Cardinality(RecordsAt(t, p)) = Cardinality(RecordsAt(s, p) \ {k})
    BY <1>3, <1>8, AtIsFinite, FS_Bijection DEF ExistsBijection
<1>10. Cardinality(RecordsAt(s, p) \ {k}) = Cardinality(RecordsAt(s, p)) - (IF p = q THEN 1 ELSE 0)
    <2>1. k \in RecordsAt(s, p) <=> p = q
        BY <1>1 DEF RecordsAt
    <2>2. Cardinality(RecordsAt(s, p)) \in Nat /\ IsFiniteSet(RecordsAt(s, p))
        BY AtIsFinite
    <2>3. Cardinality(RecordsAt(s, p) \ {k})
              = IF k \in RecordsAt(s, p) THEN Cardinality(RecordsAt(s, p)) - 1 ELSE Cardinality(RecordsAt(s, p))
        BY <2>2, FS_RemoveElement
    <2> QED
        BY <2>1, <2>2, <2>3
<1> QED
    <2>1. ASSUME NEW i \in 1..Len(s), s[i].ptr # q
          PROVE  \E j \in 1..Len(t) : t[j] = s[i]
        BY <1>1, <1>6, <2>1
    <2> QED
        BY <1>2, <1>3, <1>9, <1>10, <2>1

---------------------------------------------------------------------------
(* What a call of a map function does: it records a mapping and succeeds,  *)
(* or neither.                                                             *)

LEMMA FirstOfIs ==
    ASSUME NEW checks
    PROVE  \/ FirstOf(checks) = <<>>
           \/ \E i \in 1..Len(checks) : FirstOf(checks) = <<checks[i][2]>>
<1> DEFINE wrong == {i \in 1..Len(checks) : checks[i][1]}
           first == CHOOSE i \in wrong : \A j \in wrong : i <= j
<1>1. FirstOf(checks) = IF wrong = {} THEN <<>> ELSE <<checks[first][2]>>
    BY DEF FirstOf
<1>2. wrong # {} => first \in 1..Len(checks)
    <2>1. wrong \in SUBSET Nat /\ first = Least(wrong)
        BY DEF Least
    <2>2. wrong # {} => first \in wrong
        BY <2>1, LeastIs
    <2> QED
        BY <2>2
<1> QED
    BY <1>1, <1>2

LEMMA CheckIs ==
    ASSUME NEW b, NEW e
    PROVE  Check(b, e) \in {<<>>, <<e>>}
<1> DEFINE pair == <<b, e>>
<1>1. pair[2] = e
    OBVIOUS
<1>2. Check(b, e) = FirstOf(<<pair>>)
    BY DEF Check
<1> HIDE DEF pair
<1>3. 1..Len(<<pair>>) = {1} /\ <<pair>>[1] = pair
    OBVIOUS
<1> QED
    BY <1>1, <1>2, <1>3, FirstOfIs

LEMMA ErrorsAreSeqs ==
    ASSUME NEW checks
    PROVE  IsSeq(FirstOf(checks))
<1>1. ASSUME NEW e PROVE IsSeq(<<e>>)
    <2>1. <<e>> \in Seq({e})
        OBVIOUS
    <2> QED
        BY <2>1, SeqIs
<1>2. IsSeq(<<>>)
    BY DEF IsSeq
<1> QED
    BY <1>1, <1>2, FirstOfIs

LEMMA EmptyTail ==
    ASSUME NEW s, IsSeq(s) PROVE s \o <<>> = s
<1>1. s \in Seq({s[i] : i \in DOMAIN s})
    BY DEF IsSeq
<1> QED
    BY <1>1, ConcatEmptySeq

LEMMA CreateIs ==
    ASSUME NEW s, IsSeq(s), NEW e
    PROVE  Create(s \o <<e>>) = e
<1>1. <<e>> \in Seq({e}) /\ Len(<<e>>) = 1 /\ <<e>>[1] = e
    OBVIOUS
<1>2. IsSeq(<<e>>)
    BY <1>1, SeqIs
<1>3. /\ Len(s \o <<e>>) = Len(s) + Len(<<e>>) /\ Len(s) \in Nat
      /\ \A i \in 1..Len(<<e>>) : (s \o <<e>>)[Len(s) + i] = <<e>>[i]
    BY <1>2, ConcatIs
<1>4. (s \o <<e>>)[Len(s \o <<e>>)] = e
    BY <1>1, <1>3
<1>5. s \o <<e>> # <<>>
    BY <1>1, <1>3
<1> QED
    BY <1>4, <1>5 DEF Create

Recorded(c, dev, m) ==
    /\ MemMappings' = [MemMappings EXCEPT ![c.obj] = Append(@, m)]
    /\ held' = held \cup {[id |-> calls, obj |-> c.obj, dev |-> dev, map |-> m]}

LEMMA MapIs ==
    ASSUME NEW c, NEW dev, NEW before, IsSeq(before), NEW records \in BOOLEAN, NEW m,
           Map(c, dev, before, records, m, "none"), c.obj \in Kinds,
           records => (m.flags # {} => before = <<>>),
           ~records => Create(before) # Success
    PROVE  /\ calls' = calls + 1 /\ UNCHANGED pending
           /\ \/ UNCHANGED <<MemMappings, held>>
              \/ /\ records /\ \E vague : Accepts(c.obj, m, vague)
                 /\ Recorded(c, dev, m)
<1>1. calls' = calls + 1 /\ UNCHANGED pending /\ Home(c.obj) = c.obj
    BY DEF Map, Home, Kinds
<1> DEFINE added(v) == records /\ Accepts(c.obj, m, v)
           middle(v) == IF records /\ ~added(v) THEN <<MapFailure>> ELSE <<>>
           errors(v) == before \o middle(v) \o <<>>
<1>2. PICK v \in SUBSET (1..Len(Records(c.obj))) :
          /\ MemMappings' = IF added(v) THEN [MemMappings EXCEPT ![Home(c.obj)] = Append(@, m)]
                            ELSE MemMappings
          /\ held' = IF Create(errors(v)) = Success
                     THEN held \cup {[id |-> calls, obj |-> c.obj, dev |-> dev, map |-> m]}
                     ELSE held
    BY DEF Map
<1>3. CASE added(v)
    <2>1. before = <<>> /\ middle(v) = <<>>
        BY <1>3 DEF Accepts
    <2>2. errors(v) = <<>>
        BY <2>1
    <2>3. Create(errors(v)) = Success
        BY <2>2 DEF Create
    <2> QED
        BY <1>1, <1>2, <1>3, <2>3 DEF Recorded
<1>4. CASE ~added(v)
    <2>1. Create(errors(v)) # Success
        <3>1. CASE records
            <4>1. middle(v) = <<MapFailure>>
                BY <1>4, <3>1
            <4>2. IsSeq(<<MapFailure>>)
                <5>1. <<MapFailure>> \in Seq({MapFailure})
                    OBVIOUS
                <5> QED
                    BY <5>1, SeqIs
            <4>3. IsSeq(before \o <<MapFailure>>)
                BY <4>2, ConcatIs
            <4>4. errors(v) = before \o <<MapFailure>>
                BY <4>1, <4>3, EmptyTail
            <4>5. Create(before \o <<MapFailure>>) = MapFailure
                BY CreateIs
            <4> QED
                BY <4>4, <4>5 DEF MapFailure, Success
        <3>2. CASE ~records
            <4>1. errors(v) = before
                BY <3>2, EmptyTail
            <4> QED
                BY <3>2, <4>1
        <3> QED
            BY <3>1, <3>2
    <2>2. MemMappings' = MemMappings
        BY <1>2, <1>4
    <2>3. held' = held
        <3> HIDE DEF errors
        <3> QED
            BY <1>2, <2>1
    <2> QED
        BY <1>1, <2>2, <2>3
<1> QED
    BY <1>1, <1>3, <1>4

\* The mapping a call of a map function may record.
LEMMA MapCallIs ==
    ASSUME CallsInOrder, NEW c \in MapCalls, NEW dev \in Devices, NEW fault \in Faults,
           clEnqueueMapBuffer(c, dev, fault) \/ clEnqueueMapImage(c, dev, fault)
    PROVE  /\ calls' = calls + 1 /\ UNCHANGED pending
           /\ \/ UNCHANGED <<MemMappings, held>>
              \/ \E m \in MapInfos :
                     /\ m.ptr = Address(c.obj, dev) /\ m.flags = c.flags
                     /\ c.obj = "picture" => m.off = c.off
                     /\ \E vague : Accepts(c.obj, m, vague)
                     /\ Recorded(c, dev, m)
<1> DEFINE flagErrors == MapFlagErrors(c.flags, c.access)
<1>1. fault = "none" /\ c.obj \in Kinds
    BY DEF CallsInOrder, Kinds
<1>2. IsSeq(flagErrors)
    BY ErrorsAreSeqs DEF MapFlagErrors
<1>3. SetFlags(c) # {} => flagErrors = <<>> /\ SetFlags(c) = c.flags
    BY DEF SetFlags
<1>4. /\ IsSeq(<<InvalidValue>>) /\ IsSeq(<<>>) /\ Create(<<InvalidValue>>) # Success
      /\ <<InvalidValue>> # <<>>
    <2>1. <<InvalidValue>> \in Seq({InvalidValue}) /\ Len(<<InvalidValue>>) = 1
          /\ <<InvalidValue>>[1] = InvalidValue
        OBVIOUS
    <2> QED
        BY <2>1, SeqIs DEF Create, InvalidValue, Success, IsSeq
<1>5. CASE c.obj = "buffer"
    <2> DEFINE m == BufferInfo(c, dev)
    <2>1. /\ m \in MapInfos /\ m.ptr = Address(c.obj, dev) /\ m.flags = SetFlags(c)
        BY <1>5 DEF BufferInfo, MapInfos
    <2>2. \/ Map(c, dev, flagErrors \o <<>>, TRUE, m, "none")
          \/ Map(c, dev, <<InvalidValue>>, FALSE, m, "none")
        BY <1>1, <1>5 DEF CallsInOrder, clEnqueueMapBuffer, clEnqueueMapImage
    <2>3. flagErrors \o <<>> = flagErrors
        BY <1>2, EmptyTail
    <2> HIDE DEF m, flagErrors
    <2> USE <1>5
    <2>4. CASE Map(c, dev, flagErrors \o <<>>, TRUE, m, "none")
        <3>1. /\ calls' = calls + 1 /\ UNCHANGED pending
              /\ \/ UNCHANGED <<MemMappings, held>>
                 \/ (\E vague : Accepts(c.obj, m, vague)) /\ Recorded(c, dev, m)
            BY <1>1, <1>2, <1>3, <2>1, <2>3, <2>4, MapIs
        <3>2. (\E vague : Accepts(c.obj, m, vague)) => m.flags = c.flags
            BY <1>3, <2>1 DEF Accepts
        <3> QED
            BY <2>1, <3>1, <3>2
    <2>5. CASE Map(c, dev, <<InvalidValue>>, FALSE, m, "none")
        BY <1>1, <1>4, <2>5, MapIs
    <2> QED
        BY <2>2, <2>4, <2>5
<1>6. CASE c.obj = "picture"
    <2> DEFINE m == ImageInfo(c, dev)
    <2>1. /\ m \in MapInfos /\ m.ptr = Address(c.obj, dev) /\ m.flags = SetFlags(c)
          /\ m.off = c.off
        BY <1>6 DEF ImageInfo, MapInfos
    <2>2. CheckDevImgSupport(Limits1, Layout(c.obj)) = <<>>
        BY <1>6 DEF CallsInOrder, Layout
    <2>3. ImageAreaErrors(c) \in {<<>>, <<InvalidValue>>}
        BY CheckIs DEF ImageAreaErrors
    <2>4. \/ Map(c, dev, <<>> \o flagErrors \o ImageAreaErrors(c), ImageAreaErrors(c) = <<>>,
                 m, "none")
          \/ Map(c, dev, <<InvalidValue>>, FALSE, m, "none")
        BY <1>1, <1>6, <2>2 DEF clEnqueueMapBuffer, clEnqueueMapImage
    <2>5. <<>> \o flagErrors = flagErrors /\ flagErrors \o <<>> = flagErrors
        <3>1. flagErrors \in Seq({flagErrors[i] : i \in DOMAIN flagErrors})
            BY <1>2 DEF IsSeq
        <3> HIDE DEF flagErrors
        <3> QED
            BY <3>1, ConcatEmptySeq
    <2> HIDE DEF m, flagErrors
    <2> USE <1>6
    <2>6. CASE Map(c, dev, flagErrors, TRUE, m, "none")
        <3>1. /\ calls' = calls + 1 /\ UNCHANGED pending
              /\ \/ UNCHANGED <<MemMappings, held>>
                 \/ (\E vague : Accepts(c.obj, m, vague)) /\ Recorded(c, dev, m)
            BY <1>1, <1>2, <1>3, <2>1, <2>6, MapIs
        <3>2. (\E vague : Accepts(c.obj, m, vague)) => m.flags = c.flags
            BY <1>3, <2>1 DEF Accepts
        <3> QED
            BY <2>1, <3>1, <3>2
    <2>7. CASE Map(c, dev, flagErrors \o <<InvalidValue>>, FALSE, m, "none")
        <3>1. IsSeq(flagErrors \o <<InvalidValue>>)
            BY <1>2, <1>4, ConcatIs
        <3>2. Create(flagErrors \o <<InvalidValue>>) # Success
            BY <1>2, CreateIs DEF InvalidValue, Success
        <3> QED
            BY <1>1, <2>7, <3>1, <3>2, MapIs
    <2>8. CASE Map(c, dev, <<InvalidValue>>, FALSE, m, "none")
        BY <1>1, <1>4, <2>8, MapIs
    <2> QED
        <3>1. CASE ImageAreaErrors(c) = <<>>
            BY <2>4, <2>5, <2>6, <2>8, <3>1
        <3>2. CASE ImageAreaErrors(c) = <<InvalidValue>>
            BY <1>4, <2>4, <2>5, <2>7, <2>8, <3>2
        <3> QED
            BY <2>3, <3>1, <3>2
<1> QED
    BY <1>1, <1>5, <1>6 DEF Kinds

---------------------------------------------------------------------------
(* The steps.                                                              *)

LEMMA UnmappingIs ==
    \A h : h \in Unmapping <=> \E d \in Devices : \E i \in 1..Len(pending[d]) : h = pending[d][i]
BY DEF Unmapping

LEMMA AddressIs ==
    ASSUME NEW o \in Kinds, NEW q \in Kinds, NEW d, NEW e, Address(o, d) = Address(q, e)
    PROVE  o = q
BY DEF Address, Home, Kinds

\* A call that fails.
LEMMA FailedCallKeeps ==
    ASSUME MappingInv, calls' = calls + 1, UNCHANGED <<MemMappings, held, pending>>
    PROVE  MappingInv'
<1>1. All' = All
    BY DEF All, Unmapping
<1>2. \A o, p : Of(o, p)' = Of(o, p)
    BY <1>1 DEF Of
<1>3. MappingTypeInv'
    BY DEF MappingInv, MappingTypeInv
<1>4. PlaceInv'
    <2>1. \A h \in All : h.id < calls'
        <3>1. \A h \in All : h \in Holders
            BY UnmappingIs DEF All, MappingInv, MappingTypeInv
        <3>2. \A h \in All : h.id \in Nat
            BY <3>1 DEF Holders
        <3> QED
            BY <3>2 DEF MappingInv, MappingTypeInv, PlaceInv
    <2> QED
        BY <1>1, <2>1 DEF MappingInv, PlaceInv
<1>5. CountInv'
    BY <1>2 DEF MappingInv, CountInv
<1>6. WriteInv'
    BY <1>1 DEF MappingInv, WriteInv
<1> QED
    BY <1>3, <1>4, <1>5, <1>6 DEF MappingInv

LEMMA HoldersAre ==
    ASSUME MappingInv
    PROVE  \A h \in All : /\ h \in Holders /\ h.id \in Nat /\ h.id < calls /\ h.obj \in Kinds
                          /\ h.dev \in Devices /\ h.map.ptr = Address(h.obj, h.dev)
                          /\ h.map.ptr \in Pointers
<1>1. \A h \in All : h \in Holders
    BY UnmappingIs DEF All, MappingInv, MappingTypeInv
<1>2. \A h \in All : h.id \in Nat /\ h.obj \in Kinds /\ h.dev \in Devices
    BY <1>1 DEF Holders
<1> QED
    BY <1>1, <1>2 DEF MappingInv, PlaceInv, Pointers

\* Every holder has a record of its pointer.
LEMMA HolderHasRecord ==
    ASSUME MappingInv, NEW h \in All
    PROVE  RecordsAt(MemMappings[h.obj], h.map.ptr) # {}
<1>1. h.obj \in Kinds /\ h.map.ptr \in Pointers
    BY HoldersAre
<1>2. h \in Of(h.obj, h.map.ptr)
    BY DEF Of
<1>3. IsFiniteSet(Of(h.obj, h.map.ptr))
      /\ Cardinality(RecordsAt(MemMappings[h.obj], h.map.ptr)) = Cardinality(Of(h.obj, h.map.ptr))
    BY <1>1 DEF MappingInv, CountInv
<1>4. Cardinality(Of(h.obj, h.map.ptr)) # 0
    BY <1>2, <1>3, FS_EmptySet
<1> QED
    BY <1>3, <1>4, FS_EmptySet

LEMMA RecordKeeps ==
    ASSUME MappingInv, NEW c \in MapCalls, NEW dev \in Devices, c.obj \in Kinds,
           calls' = calls + 1, UNCHANGED pending,
           NEW m \in MapInfos, m.ptr = Address(c.obj, dev), m.flags = c.flags,
           c.obj = "picture" => m.off = c.off,
           \E vague : Accepts(c.obj, m, vague),
           Recorded(c, dev, m)
    PROVE  MappingInv'
<1> DEFINE n == [id |-> calls, obj |-> c.obj, dev |-> dev, map |-> m]
           s == MemMappings[c.obj]
<1>1. /\ n \in Holders /\ n.id = calls /\ n.obj = c.obj /\ n.dev = dev /\ n.map = m
    BY DEF MappingInv, MappingTypeInv, Holders
<1>2. held' = held \cup {n} /\ MemMappings' = [MemMappings EXCEPT ![c.obj] = Append(@, m)]
    BY DEF Recorded
<1> HIDE DEF n
<1>3. /\ s \in Seq(MapInfos) /\ MemMappings'[c.obj] = Append(s, m)
      /\ \A o \in Objects : o # c.obj => MemMappings'[o] = MemMappings[o]
      /\ DOMAIN MemMappings' = Objects
    BY <1>2 DEF MappingInv, MappingTypeInv, Kinds, Objects
<1> HIDE DEF s
<1>4. n \notin All /\ All' = All \cup {n}
    <2>1. Unmapping' = Unmapping
        BY DEF Unmapping
    <2>2. calls \in Nat
        BY DEF MappingInv, MappingTypeInv
    <2> QED
        BY <1>1, <1>2, <2>1, <2>2, HoldersAre DEF All
<1>5. MappingTypeInv'
    <2>1. Append(s, m) \in Seq(MapInfos)
        BY <1>3
    <2>2. MemMappings' \in [Objects -> Seq(MapInfos)] /\ MemMappings'["strip"] = <<>>
        BY <1>2, <1>3, <2>1 DEF MappingInv, MappingTypeInv, Kinds, Objects
    <2> QED
        BY <1>1, <1>2, <2>2 DEF MappingInv, MappingTypeInv
<1>6. PlaceInv'
    <2>1. \A g, h \in All' : g.id = h.id => g = h
        <3>1. \A h \in All : h.id # n.id
            BY <1>1, HoldersAre DEF MappingInv, MappingTypeInv
        <3> QED
            BY <1>4, <3>1 DEF MappingInv, PlaceInv
    <2>2. \A h \in All' : h.id < calls' /\ h.map.ptr = Address(h.obj, h.dev)
        BY <1>1, <1>4, HoldersAre DEF MappingInv, MappingTypeInv
    <2>3. ASSUME NEW d \in Devices, NEW i \in 1..Len(pending[d]) PROVE pending[d][i] \notin held'
        <3>1. pending[d][i] \in All
            BY UnmappingIs DEF All
        <3> QED
            BY <1>2, <1>4, <3>1 DEF MappingInv, PlaceInv
    <2> QED
        BY <2>1, <2>2, <2>3 DEF MappingInv, PlaceInv
<1>7. CountInv'
    <2> SUFFICES ASSUME NEW o \in Kinds, NEW p \in Pointers
                 PROVE  /\ IsFiniteSet(Of(o, p)')
                        /\ Cardinality(RecordsAt(MemMappings'[o], p)) = Cardinality(Of(o, p)')
        BY DEF CountInv
    <2>1. /\ IsFiniteSet(Of(o, p))
          /\ Cardinality(RecordsAt(MemMappings[o], p)) = Cardinality(Of(o, p))
        BY DEF MappingInv, CountInv
    <2>2. o \in Objects
        BY DEF Kinds, Objects
    <2>3. CASE o = c.obj /\ p = m.ptr
        <3>1. Of(o, p)' = Of(o, p) \cup {n} /\ n \notin Of(o, p)
            BY <1>1, <1>4, <2>3 DEF Of
        <3>2. Cardinality(RecordsAt(Append(s, m), p)) = Cardinality(RecordsAt(s, p)) + 1
            BY <1>3, <2>3, AtAppend
        <3>3. MemMappings[o] = s /\ MemMappings'[o] = Append(s, m)
            BY <1>3, <2>3 DEF s
        <3>4. Cardinality(Of(o, p) \cup {n}) = Cardinality(Of(o, p)) + 1
              /\ IsFiniteSet(Of(o, p) \cup {n})
            BY <2>1, <3>1, FS_AddElement
        <3> QED
            BY <2>1, <3>1, <3>2, <3>3, <3>4
    <2>4. CASE ~(o = c.obj /\ p = m.ptr)
        <3>1. Of(o, p)' = Of(o, p)
            BY <1>1, <1>4, <2>4 DEF Of
        <3>2. Cardinality(RecordsAt(MemMappings'[o], p)) = Cardinality(RecordsAt(MemMappings[o], p))
            <4>1. CASE o # c.obj
                BY <1>3, <2>2, <4>1
            <4>2. CASE o = c.obj
                <5>1. m.ptr # p
                    BY <2>4, <4>2
                <5>2. Cardinality(RecordsAt(Append(s, m), p)) = Cardinality(RecordsAt(s, p)) + 0
                    BY <1>3, <5>1, AtAppend
                <5>3. Cardinality(RecordsAt(s, p)) \in Nat
                    BY <1>3, AtIsFinite
                <5>4. MemMappings[o] = s /\ MemMappings'[o] = Append(s, m)
                    BY <1>3, <4>2 DEF s
                <5> QED
                    BY <5>2, <5>3, <5>4
            <4> QED
                BY <4>1, <4>2
        <3> QED
            BY <2>1, <3>1, <3>2
    <2> QED
        BY <2>3, <2>4
<1>8. WriteInv'
    <2>1. PICK vague : Accepts(c.obj, m, vague)
        OBVIOUS
    <2>2. Records(c.obj) = s
        BY DEF Records, Home, Kinds, s
    <2>3. ASSUME NEW h \in All, h.map.ptr = m.ptr PROVE ~Write(m.flags)
        <3>1. h.obj = c.obj
            BY <2>3, HoldersAre, AddressIs
        <3>2. RecordsAt(s, m.ptr) # {}
            BY <2>3, <3>1, HolderHasRecord DEF s
        <3> QED
            BY <2>1, <2>2, <3>2 DEF Accepts, RecordsAt
    <2>4. \A g, h \in All' : g # h /\ g.map.ptr = h.map.ptr
                                 => ~(Write(g.map.flags) /\ Write(h.map.flags))
        BY <1>1, <1>4, <2>3 DEF MappingInv, WriteInv
    <2>5. ASSUME WritersOnly
          PROVE  /\ \A h \in All' : /\ Write(h.map.flags) /\ Len(h.map.off) = 3
                                    /\ \E i \in 1..Len(MemMappings'[h.obj]) :
                                           MemMappings'[h.obj][i] = h.map
                 /\ \A g, h \in All' :
                        g # h /\ g.obj = h.obj => ~isOverlappedWith(g.map, h.map, TRUE)
        <3>1. Write(m.flags) /\ Len(m.off) = 3
            BY <2>5 DEF WritersOnly
        <3>2. /\ Len(Append(s, m)) = Len(s) + 1 /\ Len(s) \in Nat
              /\ \A i \in 1..Len(s) : Append(s, m)[i] = s[i]
              /\ Append(s, m)[Len(s) + 1] = m
            BY <1>3
        <3>3. ASSUME NEW h \in All
              PROVE  \E i \in 1..Len(MemMappings'[h.obj]) : MemMappings'[h.obj][i] = h.map
            <4>1. PICK i \in 1..Len(MemMappings[h.obj]) : MemMappings[h.obj][i] = h.map
                BY <2>5 DEF MappingInv, WriteInv
            <4>2. h.obj \in Objects
                BY HoldersAre DEF Kinds, Objects
            <4>3. CASE h.obj = c.obj
                BY <1>3, <3>2, <4>1, <4>3 DEF s
            <4>4. CASE h.obj # c.obj
                BY <1>3, <4>1, <4>2, <4>4
            <4> QED
                BY <4>3, <4>4
        <3>4. \E i \in 1..Len(MemMappings'[c.obj]) : MemMappings'[c.obj][i] = m
            BY <1>3, <3>2
        <3>5. ASSUME NEW h \in All, h.obj = c.obj
              PROVE  /\ ~isOverlappedWith(h.map, m, TRUE)
                     /\ ~isOverlappedWith(m, h.map, TRUE)
            <4>1. PICK i \in 1..Len(s) : s[i] = h.map
                BY <2>5, <3>5 DEF MappingInv, WriteInv, s
            <4>2. ~isOverlappedWith(h.map, m, i \in vague)
                BY <2>1, <2>2, <3>1, <4>1 DEF Accepts
            <4>3. Len(h.map.off) = 3
                BY <2>5 DEF MappingInv, WriteInv
            <4> QED
                BY <3>1, <4>2, <4>3 DEF isOverlappedWith, checkIntersection
        <3>6. \A h \in All : Write(h.map.flags) /\ Len(h.map.off) = 3
            BY <2>5 DEF MappingInv, WriteInv
        <3>7. \A g, h \in All : g # h /\ g.obj = h.obj => ~isOverlappedWith(g.map, h.map, TRUE)
            BY <2>5 DEF MappingInv, WriteInv
        <3>8. \A h \in All' : h \in All \/ h = n
            BY <1>4
        <3>9. ASSUME NEW h \in All'
              PROVE  /\ Write(h.map.flags) /\ Len(h.map.off) = 3
                     /\ \E i \in 1..Len(MemMappings'[h.obj]) : MemMappings'[h.obj][i] = h.map
            BY <1>1, <3>1, <3>3, <3>4, <3>6, <3>8
        <3>10. ASSUME NEW g \in All', NEW h \in All', g # h, g.obj = h.obj
               PROVE  ~isOverlappedWith(g.map, h.map, TRUE)
            BY <1>1, <3>5, <3>7, <3>8, <3>10
        <3> QED
            BY <3>9, <3>10
    <2> QED
        BY <2>4, <2>5 DEF WriteInv
<1> QED
    BY <1>5, <1>6, <1>7, <1>8 DEF MappingInv

LEMMA UnmapKeeps ==
    ASSUME MappingInv, NEW h \in held, clEnqueueUnmapMemObject(h)
    PROVE  MappingInv'
<1>1. h \in All /\ h \in Holders /\ h.dev \in Devices /\ h.obj \in Kinds
    BY HoldersAre DEF All
<1>2. /\ held' = held \ {h} /\ UNCHANGED <<MemMappings, calls>>
      /\ pending' = [pending EXCEPT ![h.dev] = Append(@, h)]
    <2>1. RecordsAt(MemMappings[h.obj], h.map.ptr) # {}
        BY <1>1, HolderHasRecord
    <2>2. isValidMapping(h.obj, h.map.ptr)
        BY <2>1 DEF RecordsAt, isValidMapping
    <2> QED
        BY <2>2 DEF clEnqueueUnmapMemObject
<1> DEFINE s == pending[h.dev]
<1>3. /\ s \in Seq(Holders) /\ Len(s) \in Nat /\ pending'[h.dev] = Append(s, h)
      /\ \A d \in Devices : d # h.dev => pending'[d] = pending[d]
      /\ pending' \in [Devices -> Seq(Holders)]
    BY <1>1, <1>2 DEF MappingInv, MappingTypeInv
<1>4. /\ Len(Append(s, h)) = Len(s) + 1 /\ Append(s, h)[Len(s) + 1] = h
      /\ \A i \in 1..Len(s) : Append(s, h)[i] = s[i]
    BY <1>3
<1>5. All' = All
    <2>1. ASSUME NEW g \in Unmapping PROVE g \in Unmapping'
        <3>1. PICK d \in Devices : \E i \in 1..Len(pending[d]) : g = pending[d][i]
            BY UnmappingIs
        <3>2. PICK i \in 1..Len(pending[d]) : g = pending[d][i]
            BY <3>1
        <3>3. i \in 1..Len(pending'[d]) /\ g = pending'[d][i]
            <4>1. CASE d = h.dev
                <5>1. i \in 1..Len(s) /\ g = s[i]
                    BY <3>2, <4>1
                <5> HIDE DEF s
                <5>2. i \in 1..Len(Append(s, h)) /\ g = Append(s, h)[i]
                    BY <1>3, <1>4, <5>1
                <5> QED
                    BY <1>3, <4>1, <5>2
            <4>2. CASE d # h.dev
                BY <1>3, <3>2, <4>2
            <4> QED
                BY <4>1, <4>2
        <3> QED
            BY <3>3 DEF Unmapping
    <2>2. ASSUME NEW g \in Unmapping' PROVE g \in Unmapping \/ g = h
        <3>1. PICK d \in Devices : \E i \in 1..Len(pending'[d]) : g = pending'[d][i]
            BY DEF Unmapping
        <3>2. PICK i \in 1..Len(pending'[d]) : g = pending'[d][i]
            BY <3>1
        <3>3. g = h \/ (i \in 1..Len(pending[d]) /\ g = pending[d][i])
            <4>1. CASE d = h.dev
                <5>1. i \in 1..Len(Append(s, h)) /\ g = Append(s, h)[i]
                    BY <1>3, <3>2, <4>1
                <5>2. s = pending[d]
                    BY <4>1
                <5> HIDE DEF s
                <5>3. g = h \/ (i \in 1..Len(s) /\ g = s[i])
                    BY <1>3, <1>4, <5>1
                <5> QED
                    BY <5>2, <5>3
            <4>2. CASE d # h.dev
                BY <1>3, <3>2, <4>2
            <4> QED
                BY <4>1, <4>2
        <3> QED
            BY <3>3, UnmappingIs
    <2>3. h \in Unmapping'
        <3>1. Len(s) + 1 \in 1..Len(pending'[h.dev]) /\ pending'[h.dev][Len(s) + 1] = h
            BY <1>3, <1>4
        <3> QED
            BY <1>1, <3>1 DEF Unmapping
    <2> QED
        BY <1>2, <2>1, <2>2, <2>3 DEF All
<1>6. MappingTypeInv'
    BY <1>2, <1>3 DEF MappingInv, MappingTypeInv
<1>7. PlaceInv'
    <2>1. ASSUME NEW d \in Devices, NEW i \in 1..Len(pending'[d])
          PROVE  /\ pending'[d][i].dev = d /\ pending'[d][i] \notin held'
                 /\ \A j \in 1..Len(pending'[d]) : pending'[d][i] = pending'[d][j] => i = j
        <3>1. \A k \in 1..Len(pending[d]) :
                  /\ pending[d][k].dev = d /\ pending[d][k] \notin held
                  /\ \A j \in 1..Len(pending[d]) : pending[d][k] = pending[d][j] => k = j
            BY DEF MappingInv, PlaceInv
        <3>2. CASE d # h.dev
            BY <1>2, <1>3, <3>1, <3>2
        <3>3. CASE d = h.dev
            <4>1. \A k \in 1..Len(s) :
                      /\ s[k].dev = d /\ s[k] \notin held'
                      /\ s[k] # h /\ \A j \in 1..Len(s) : s[k] = s[j] => k = j
                BY <1>2, <3>1, <3>3
            <4>2. h.dev = d /\ h \notin held' /\ pending'[d] = Append(s, h)
                BY <1>2, <1>3, <3>3
            <4> HIDE DEF s
            <4> QED
                BY <1>3, <1>4, <4>1, <4>2
        <3> QED
            BY <3>2, <3>3
    <2> QED
        BY <1>2, <1>5, <2>1 DEF MappingInv, PlaceInv
<1>8. CountInv'
    <2>1. \A o, p : Of(o, p)' = Of(o, p)
        BY <1>5 DEF Of
    <2> QED
        BY <1>2, <2>1 DEF MappingInv, CountInv
<1>9. WriteInv'
    BY <1>2, <1>5 DEF MappingInv, WriteInv
<1> QED
    BY <1>6, <1>7, <1>8, <1>9 DEF MappingInv

LEMMA ExecuteKeeps ==
    ASSUME MappingInv, NEW dev \in Devices, ExecuteUnmap(dev)
    PROVE  MappingInv'
<1> DEFINE s == pending[dev]
           h == Head(s)
           q == h.map.ptr
<1>1. /\ s \in Seq(Holders) /\ s # <<>> /\ Len(s) \in Nat /\ 1 \in 1..Len(s) /\ h = s[1]
      /\ Len(Tail(s)) = Len(s) - 1 /\ Tail(s) \in Seq(Holders)
      /\ \A i \in 1..Len(Tail(s)) : i + 1 \in 1..Len(s) /\ Tail(s)[i] = s[i + 1]
    BY DEF ExecuteUnmap, MappingInv, MappingTypeInv
<1>2. h \in All /\ h \in Unmapping
    BY <1>1, UnmappingIs DEF All
<1>3. h \in Holders /\ h.obj \in Kinds /\ q \in Pointers /\ Home(h.obj) = h.obj
    BY <1>2, HoldersAre DEF Home, Kinds
<1>4. /\ MemMappings' = [MemMappings EXCEPT ![h.obj] = RemoveMapping(@, q)]
      /\ pending' = [pending EXCEPT ![dev] = Tail(s)]
      /\ UNCHANGED <<held, calls>>
    BY <1>3 DEF ExecuteUnmap
<1> HIDE DEF h
<1> DEFINE r == MemMappings[h.obj]
<1>5. /\ r \in Seq(MapInfos) /\ MemMappings'[h.obj] = RemoveMapping(r, q)
      /\ \A o \in Objects : o # h.obj => MemMappings'[o] = MemMappings[o]
      /\ h.obj \in Objects /\ h.obj # "strip"
    BY <1>3, <1>4 DEF MappingInv, MappingTypeInv, Kinds, Objects
<1>6. RecordsAt(r, q) # {}
    BY <1>2, HolderHasRecord
<1> HIDE DEF r, s
<1>7. /\ pending'[dev] = Tail(s) /\ \A d \in Devices : d # dev => pending'[d] = pending[d]
      /\ pending' \in [Devices -> Seq(Holders)]
    BY <1>1, <1>4 DEF MappingInv, MappingTypeInv, s
<1>8. ASSUME NEW d \in Devices, NEW i \in 1..Len(pending'[d])
      PROVE  \E k \in 1..Len(pending[d]) : pending'[d][i] = pending[d][k]
                                          /\ k = IF d = dev THEN i + 1 ELSE i
    BY <1>1, <1>7 DEF s
<1>9. \A d \in Devices : \A i \in 1..Len(pending[d]) :
          /\ pending[d][i].dev = d /\ pending[d][i] \notin held
          /\ \A j \in 1..Len(pending[d]) : pending[d][i] = pending[d][j] => i = j
    BY DEF MappingInv, PlaceInv
<1>10. All' = All \ {h}
    <2>1. ASSUME NEW g \in Unmapping' PROVE g \in Unmapping /\ g # h
        <3>1. PICK d \in Devices : \E i \in 1..Len(pending'[d]) : g = pending'[d][i]
            BY DEF Unmapping
        <3>2. PICK i \in 1..Len(pending'[d]) : g = pending'[d][i]
            BY <3>1
        <3>3. PICK k \in 1..Len(pending[d]) : /\ g = pending[d][k]
                                              /\ k = IF d = dev THEN i + 1 ELSE i
            BY <1>8, <3>2
        <3>4. g # h
            <4>1. CASE d = dev
                <5>1. k # 1
                    BY <3>2, <3>3, <4>1
                <5> QED
                    BY <1>1, <1>9, <3>3, <4>1, <5>1 DEF s
            <4>2. CASE d # dev
                BY <1>1, <1>9, <3>3, <4>2 DEF s
            <4> QED
                BY <4>1, <4>2
        <3> QED
            BY <3>3, <3>4, UnmappingIs
    <2>2. ASSUME NEW g \in Unmapping, g # h PROVE g \in Unmapping'
        <3>1. PICK d \in Devices : \E i \in 1..Len(pending[d]) : g = pending[d][i]
            BY UnmappingIs
        <3>2. PICK i \in 1..Len(pending[d]) : g = pending[d][i]
            BY <3>1
        <3>3. CASE d # dev
            BY <1>7, <3>2, <3>3 DEF Unmapping
        <3>4. CASE d = dev
            <4>1. i # 1
                BY <1>1, <2>2, <3>2, <3>4 DEF s
            <4>2. i - 1 \in 1..Len(Tail(s)) /\ (i - 1) + 1 = i
                BY <1>1, <3>4, <4>1 DEF s
            <4>3. Tail(s)[i - 1] = g
                BY <1>1, <3>2, <3>4, <4>2 DEF s
            <4>4. \E j \in 1..Len(pending'[d]) : g = pending'[d][j]
                BY <1>7, <3>4, <4>2, <4>3
            <4> QED
                BY <4>4 DEF Unmapping
        <3> QED
            BY <3>3, <3>4
    <2>3. h \notin held
        BY <1>1, <1>9 DEF s
    <2> QED
        BY <1>4, <2>1, <2>2, <2>3 DEF All
<1>11. MappingTypeInv'
    <2>1. RemoveMapping(r, q) \in Seq(MapInfos)
        BY <1>5, <1>6, AtRemove
    <2>2. MemMappings' \in [Objects -> Seq(MapInfos)] /\ MemMappings'["strip"] = <<>>
        <3>1. "strip" \in Objects
            BY DEF Objects
        <3> QED
            BY <1>4, <1>5, <2>1, <3>1 DEF MappingInv, MappingTypeInv, r
    <2> QED
        BY <1>4, <1>7, <2>2 DEF MappingInv, MappingTypeInv
<1>12. PlaceInv'
    <2>1. ASSUME NEW d \in Devices, NEW i \in 1..Len(pending'[d])
          PROVE  /\ pending'[d][i].dev = d /\ pending'[d][i] \notin held'
                 /\ \A j \in 1..Len(pending'[d]) : pending'[d][i] = pending'[d][j] => i = j
        <3>1. PICK k \in 1..Len(pending[d]) : pending'[d][i] = pending[d][k]
                                             /\ k = IF d = dev THEN i + 1 ELSE i
            BY <1>8
        <3>2. ASSUME NEW j \in 1..Len(pending'[d]), pending'[d][i] = pending'[d][j]
              PROVE  i = j
            <4>1. PICK l \in 1..Len(pending[d]) : pending'[d][j] = pending[d][l]
                                                 /\ l = IF d = dev THEN j + 1 ELSE j
                BY <1>8
            <4>2. k = l
                BY <1>9, <3>1, <3>2, <4>1
            <4> QED
                BY <3>1, <4>1, <4>2
        <3>3. pending[d][k].dev = d /\ pending[d][k] \notin held /\ held' = held
            BY <1>4, <1>9
        <3> QED
            BY <3>1, <3>2, <3>3
    <2> QED
        BY <1>4, <1>10, <2>1 DEF MappingInv, PlaceInv
<1>13. CountInv'
    <2> SUFFICES ASSUME NEW o \in Kinds, NEW p \in Pointers
                 PROVE  /\ IsFiniteSet(Of(o, p)')
                        /\ Cardinality(RecordsAt(MemMappings'[o], p)) = Cardinality(Of(o, p)')
        BY DEF CountInv
    <2>1. /\ IsFiniteSet(Of(o, p))
          /\ Cardinality(RecordsAt(MemMappings[o], p)) = Cardinality(Of(o, p))
        BY DEF MappingInv, CountInv
    <2>2. o \in Objects
        BY DEF Kinds, Objects
    <2>3. Of(o, p)' = Of(o, p) \ {h} /\ (h \in Of(o, p) <=> o = h.obj /\ p = q)
        BY <1>2, <1>10 DEF Of
    <2>4. /\ IsFiniteSet(Of(o, p) \ {h})
          /\ Cardinality(Of(o, p) \ {h}) = IF h \in Of(o, p) THEN Cardinality(Of(o, p)) - 1
                                          ELSE Cardinality(Of(o, p))
        BY <2>1, FS_RemoveElement
    <2>5. CASE o = h.obj
        <3>1. Cardinality(RecordsAt(RemoveMapping(r, q), p))
                  = Cardinality(RecordsAt(r, p)) - (IF p = q THEN 1 ELSE 0)
              /\ Cardinality(RecordsAt(r, p)) \in Nat
            BY <1>5, <1>6, AtRemove, AtIsFinite
        <3>2. MemMappings[o] = r /\ MemMappings'[o] = RemoveMapping(r, q)
            BY <1>5, <2>5 DEF r
        <3> QED
            BY <2>1, <2>3, <2>4, <2>5, <3>1, <3>2
    <2>6. CASE o # h.obj
        BY <1>5, <2>1, <2>2, <2>3, <2>4, <2>6
    <2> QED
        BY <2>5, <2>6
<1>14. WriteInv'
    <2>1. ASSUME WritersOnly, NEW g \in All, g # h
          PROVE  \E i \in 1..Len(MemMappings'[g.obj]) : MemMappings'[g.obj][i] = g.map
        <3>1. Write(g.map.flags) /\ Write(h.map.flags)
            BY <1>2, <2>1 DEF MappingInv, WriteInv
        <3>2. g.map.ptr # q
            BY <1>2, <2>1, <3>1 DEF MappingInv, WriteInv
        <3>3. PICK i \in 1..Len(MemMappings[g.obj]) : MemMappings[g.obj][i] = g.map
            BY <2>1 DEF MappingInv, WriteInv
        <3>4. g.obj \in Objects
            BY HoldersAre DEF Kinds, Objects
        <3>5. CASE g.obj = h.obj
            <4>1. i \in 1..Len(r) /\ r[i] = g.map
                BY <3>3, <3>5 DEF r
            <4>2. \E j \in 1..Len(RemoveMapping(r, q)) : RemoveMapping(r, q)[j] = r[i]
                BY <1>5, <1>6, <3>2, <4>1, AtRemove
            <4> QED
                BY <1>5, <3>5, <4>1, <4>2
        <3>6. CASE g.obj # h.obj
            BY <1>5, <3>3, <3>4, <3>6
        <3> QED
            BY <3>5, <3>6
    <2> QED
        BY <1>10, <2>1 DEF MappingInv, WriteInv
<1> QED
    BY <1>11, <1>12, <1>13, <1>14 DEF MappingInv

LEMMA MappingInvariant ==
    ASSUME CallsInOrder PROVE Spec => []MappingInv
<1>1. Init => MappingInv
    <2> SUFFICES ASSUME Init PROVE MappingInv
        OBVIOUS
    <2>1. All = {}
        BY DEF Init, All, Unmapping
    <2>2. MappingTypeInv
        <3>1. "strip" \in Objects
            BY DEF Objects
        <3> QED
            BY <3>1 DEF Init, MappingTypeInv
    <2>3. PlaceInv
        BY <2>1 DEF Init, PlaceInv
    <2>4. CountInv
        <3>1. ASSUME NEW o \in Kinds, NEW p \in Pointers
              PROVE  Of(o, p) = {} /\ RecordsAt(MemMappings[o], p) = {}
            BY <2>1 DEF Init, Of, RecordsAt, Kinds, Objects
        <3> QED
            BY <3>1, FS_EmptySet DEF CountInv
    <2>5. WriteInv
        BY <2>1 DEF WriteInv
    <2> QED
        BY <2>2, <2>3, <2>4, <2>5 DEF MappingInv
<1>2. MappingInv /\ [Next]_vars => MappingInv'
    <2> SUFFICES ASSUME MappingInv, [Next]_vars PROVE MappingInv'
        OBVIOUS
    <2>1. ASSUME NEW c \in MapCalls, NEW dev \in Devices, NEW fault \in Faults,
                 clEnqueueMapBuffer(c, dev, fault) \/ clEnqueueMapImage(c, dev, fault)
          PROVE  MappingInv'
        <3>1. c.obj \in Kinds
            BY DEF CallsInOrder, Kinds
        <3>2. calls' = calls + 1 /\ UNCHANGED pending
            BY <2>1, MapCallIs
        <3>3. CASE UNCHANGED <<MemMappings, held>>
            BY <3>2, <3>3, FailedCallKeeps
        <3>4. CASE \E m \in MapInfos :
                       /\ m.ptr = Address(c.obj, dev) /\ m.flags = c.flags
                       /\ c.obj = "picture" => m.off = c.off
                       /\ \E vague : Accepts(c.obj, m, vague)
                       /\ Recorded(c, dev, m)
            BY <3>1, <3>2, <3>4, RecordKeeps
        <3>5. \/ UNCHANGED <<MemMappings, held>>
              \/ \E m \in MapInfos :
                     /\ m.ptr = Address(c.obj, dev) /\ m.flags = c.flags
                     /\ c.obj = "picture" => m.off = c.off
                     /\ \E vague : Accepts(c.obj, m, vague)
                     /\ Recorded(c, dev, m)
            BY <2>1, MapCallIs
        <3> QED
            BY <3>3, <3>4, <3>5
    <2>2. ASSUME NEW h \in held, clEnqueueUnmapMemObject(h) PROVE MappingInv'
        BY <2>2, UnmapKeeps
    <2>3. ASSUME NEW dev \in Devices, ExecuteUnmap(dev) PROVE MappingInv'
        BY <2>3, ExecuteKeeps
    <2>4. ASSUME UNCHANGED vars PROVE MappingInv'
        <3>1. All' = All /\ UNCHANGED <<MemMappings, pending, held, calls>>
            BY <2>4 DEF vars, All, Unmapping
        <3>2. \A o, p : Of(o, p)' = Of(o, p)
            BY <3>1 DEF Of
        <3>3. MappingTypeInv' /\ PlaceInv' /\ WriteInv'
            <4>1. MappingTypeInv'
                BY <3>1 DEF MappingInv, MappingTypeInv
            <4>2. PlaceInv'
                BY <3>1 DEF MappingInv, PlaceInv
            <4>3. WriteInv'
                BY <3>1 DEF MappingInv, WriteInv
            <4> QED
                BY <4>1, <4>2, <4>3
        <3>4. CountInv'
            BY <3>1, <3>2 DEF MappingInv, CountInv
        <3> QED
            BY <3>3, <3>4 DEF MappingInv
    <2> QED
        BY <2>1, <2>2, <2>3, <2>4 DEF Next
<1> QED
    BY <1>1, <1>2, PTL DEF Spec

\* MappingsMatchRecords: an object has as many records of a pointer as there
\* are mappings through it that the program holds or a worker has yet to
\* remove, two mappings for writing never share a pointer, and writers of an
\* image never overlap; for any number of devices, calls and unmaps in any
\* order, and whatever uninitialised values are compared, when no call is
\* wrong in a way that is noticed after its mapping was recorded.
THEOREM Mappings_Match_Records ==
    ASSUME CallsInOrder PROVE Spec => []MappingsMatchRecords
<1>1. MappingInv => MappingsMatchRecords
    <2> SUFFICES ASSUME MappingInv PROVE MappingsMatchRecords
        OBVIOUS
    <2>1. RecordsMatchHolders
        <3> SUFFICES ASSUME NEW o \in Objects, NEW d \in Devices
                     PROVE  LET p == Address(o, d)
                            IN  Cardinality({i \in 1..Len(Records(o)) : Records(o)[i].ptr = p})
                                = Cardinality({h \in held \cup Unmapping :
                                                  Home(h.obj) = Home(o) /\ h.map.ptr = p})
            BY DEF RecordsMatchHolders
        <3> DEFINE p == Address(o, d)
                   k == Home(o)
        <3>1. k \in Kinds /\ Address(k, d) = p
            BY DEF Home, Kinds, Objects, Address
        <3>2. p \in Pointers
            BY <3>1 DEF Pointers
        <3>3. {i \in 1..Len(Records(o)) : Records(o)[i].ptr = p} = RecordsAt(MemMappings[k], p)
            BY DEF Records, RecordsAt
        <3>4. {h \in held \cup Unmapping : Home(h.obj) = k /\ h.map.ptr = p} = Of(k, p)
            <4>1. \A h \in All : Home(h.obj) = h.obj
                BY HoldersAre DEF Home, Kinds
            <4> QED
                BY <4>1 DEF Of, All
        <3> QED
            BY <3>1, <3>2, <3>3, <3>4 DEF MappingInv, CountInv
    <2>2. OneWriterPerPointer
        BY DEF MappingInv, WriteInv, OneWriterPerPointer, All
    <2>3. WritersOnly => WritersExclude
        <3>1. \A h \in held : h \in All
            BY DEF All
        <3>2. \A h \in held : Home(h.obj) = h.obj
            BY <3>1, HoldersAre DEF Home, Kinds
        <3>3. WritersOnly => \A g, h \in All :
                  g # h /\ g.obj = h.obj => ~isOverlappedWith(g.map, h.map, TRUE)
            BY DEF MappingInv, WriteInv
        <3> QED
            BY <3>1, <3>2, <3>3 DEF WritersExclude
    <2> QED
        BY <2>1, <2>2, <2>3 DEF MappingsMatchRecords
<1> QED
    BY <1>1, MappingInvariant, PTL

---------------------------------------------------------------------------
(* Devices: the parts of one cut share no CPU, and the references of a     *)
(* sub-device are those of its users.                                      *)

LEMMA TableIs ==
    ASSUME NEW S, NEW n \in Nat, NEW f, f = [j \in 1..n |-> f[j]],
           \A j \in 1..n : f[j] \in S
    PROVE  f \in Seq(S) /\ Len(f) = n /\ DOMAIN f = 1..n
<1>1. f \in [1..n -> S]
    OBVIOUS
<1>2. f \in Seq(S)
    BY <1>1, SeqDef
<1> QED
    BY <1>1, <1>2

\* before[i] is indeed the sum of the first i elements.
LEMMA BeforeIs ==
    ASSUME NEW s \in Seq(Int)
    PROVE  /\ Before(s)[0] = 0
           /\ \A i \in 1..Len(s) : Before(s)[i] = Before(s)[i - 1] + s[i]
           /\ \A i \in 0..Len(s) : Before(s)[i] \in Int
<1> DEFINE Sums(g, n) == /\ g \in [0..n -> Int] /\ g[0] = 0
                         /\ \A i \in 1..n : g[i] = g[i - 1] + s[i]
           bad == {n \in Nat : n <= Len(s) /\ ~\E g : Sums(g, n)}
           F(g) == [i \in 0..Len(s) |-> IF i = 0 THEN 0 ELSE g[i - 1] + s[i]]
<1>1. Len(s) \in Nat /\ \A i \in 1..Len(s) : s[i] \in Int
    OBVIOUS
<1> HIDE DEF Sums
<1>2. bad = {}
    <2>1. SUFFICES ASSUME bad # {} PROVE FALSE
        OBVIOUS
    <2> DEFINE m == Least(bad)
    <2>2. m \in bad /\ \A e \in bad : m <= e
        BY <2>1, LeastIs
    <2> HIDE DEF m
    <2>3. m \in Nat /\ m <= Len(s) /\ ~\E g : Sums(g, m)
        BY <2>2
    <2>4. CASE m = 0
        <3>1. Sums([i \in {0} |-> 0], 0)
            BY DEF Sums
        <3> QED
            BY <2>3, <2>4, <3>1
    <2>5. CASE m # 0
        <3>1. m - 1 \in Nat /\ m - 1 <= Len(s) /\ m - 1 \notin bad
            BY <1>1, <2>2, <2>3, <2>5
        <3>2. PICK g : Sums(g, m - 1)
            BY <3>1
        <3>3. m \in 1..Len(s) /\ s[m] \in Int
            BY <1>1, <2>3, <2>5
        <3> DEFINE e == g[m - 1] + s[m]
                   h == [i \in 0..m |-> IF i = m THEN e ELSE g[i]]
        <3>4. /\ \A i \in 0..(m - 1) : g[i] \in Int
              /\ g[0] = 0 /\ \A i \in 1..(m - 1) : g[i] = g[i - 1] + s[i]
            BY <3>1, <3>2 DEF Sums
        <3>5. e \in Int /\ 0 \in 0..(m - 1)
            BY <3>1, <3>3, <3>4
        <3>6. \A i \in 0..m : i = m \/ i \in 0..(m - 1)
            BY <2>3
        <3> HIDE DEF e
        <3>7. h \in [0..m -> Int]
            BY <3>4, <3>5, <3>6
        <3>8. h[m] = e /\ \A i \in 0..(m - 1) : h[i] = g[i]
            BY <2>3, <3>1
        <3> HIDE DEF h
        <3>9. ASSUME NEW i \in 1..m PROVE h[i] = h[i - 1] + s[i]
            <4>1. h[i - 1] = g[i - 1]
                BY <2>3, <3>8, <3>9
            <4>2. CASE i = m
                BY <3>8, <4>1, <4>2 DEF e
            <4>3. CASE i # m
                <5>1. i \in 1..(m - 1) /\ i \in 0..(m - 1)
                    BY <2>3, <3>1, <3>9, <4>3
                <5> QED
                    BY <3>4, <3>8, <4>1, <5>1
            <4> QED
                BY <4>2, <4>3
        <3>10. Sums(h, m)
            BY <3>4, <3>5, <3>7, <3>8, <3>9 DEF Sums
        <3> QED
            BY <2>3, <3>10
    <2> QED
        BY <2>4, <2>5
<1>3. PICK g : Sums(g, Len(s))
    BY <1>1, <1>2
<1>4. g = F(g)
    BY <1>1, <1>3 DEF Sums
<1>5. Before(s) = CHOOSE f : f = F(f)
    BY DEF Before
<1> DEFINE b == Before(s)
<1>6. b = F(b)
    <2> HIDE DEF F
    <2> QED
        BY <1>4, <1>5
<1> HIDE DEF b
<1>7. \A i \in 0..Len(s) : b[i] = IF i = 0 THEN 0 ELSE b[i - 1] + s[i]
    BY <1>1, <1>6
<1>8. b[0] = 0 /\ \A i \in 1..Len(s) : b[i] = b[i - 1] + s[i]
    BY <1>1, <1>7
<1> DEFINE odd == {n \in Nat : n <= Len(s) /\ b[n] \notin Int}
<1>9. odd = {}
    <2>1. SUFFICES ASSUME odd # {} PROVE FALSE
        OBVIOUS
    <2> DEFINE m == Least(odd)
    <2>2. m \in odd /\ \A e \in odd : m <= e
        BY <2>1, LeastIs
    <2> HIDE DEF m
    <2>3. m \in Nat /\ m <= Len(s) /\ b[m] \notin Int /\ m # 0
        BY <1>8, <2>2
    <2>4. m - 1 \in Nat /\ b[m - 1] \in Int /\ m \in 1..Len(s)
        BY <1>1, <2>2, <2>3
    <2> QED
        BY <1>1, <1>8, <2>3, <2>4
<1> QED
    BY <1>1, <1>8, <1>9 DEF b

\* Sums of positive numbers grow.
LEMMA BeforeGrows ==
    ASSUME NEW s \in Seq(Int), \A i \in 1..Len(s) : s[i] > 0,
           NEW i \in 0..Len(s), NEW k \in 0..Len(s), i <= k
    PROVE  Before(s)[i] <= Before(s)[k]
<1> DEFINE b == Before(s)
           bad == {n \in Nat : n <= Len(s) /\ i <= n /\ b[n] < b[i]}
<1>1. /\ Len(s) \in Nat /\ \A n \in 1..Len(s) : s[n] \in Int
      /\ \A n \in 1..Len(s) : b[n] = b[n - 1] + s[n]
      /\ \A n \in 0..Len(s) : b[n] \in Int
    BY BeforeIs
<1> HIDE DEF b
<1>2. bad = {}
    <2>1. SUFFICES ASSUME bad # {} PROVE FALSE
        OBVIOUS
    <2> DEFINE m == Least(bad)
    <2>2. m \in bad /\ \A e \in bad : m <= e
        BY <2>1, LeastIs
    <2> HIDE DEF m
    <2>3. m \in Nat /\ m <= Len(s) /\ i <= m /\ b[m] < b[i] /\ i # m
        BY <1>1, <2>2
    <2>4. m - 1 \in Nat /\ m - 1 \notin bad /\ i <= m - 1 /\ m \in 1..Len(s)
        BY <1>1, <2>2, <2>3
    <2>5. ~(b[m - 1] < b[i]) /\ b[m] = b[m - 1] + s[m] /\ s[m] > 0
        BY <1>1, <2>4
    <2> QED
        <3>1. b[m - 1] \in Int /\ b[m] \in Int /\ b[i] \in Int /\ s[m] \in Int
            BY <1>1, <2>3, <2>4
        <3> QED
            BY <2>3, <2>5, <3>1
<1>3. k \in Nat /\ k <= Len(s) /\ i \in 0..Len(s) /\ k \in 0..Len(s)
    BY <1>1
<1>4. b[k] \in Int /\ b[i] \in Int
    BY <1>1, <1>3
<1>5. k \notin bad
    <2> HIDE DEF bad
    <2> QED
        BY <1>2
<1>6. ~(b[k] < b[i])
    BY <1>3, <1>5
<1> QED
    BY <1>4, <1>6 DEF b

\* What a cut must be: parts of the CPUs, each without repetition and not
\* empty, that share none.
CutsAreApart(cpus, cuts) ==
    /\ cuts = [i \in 1..Len(cuts) |-> cuts[i]] /\ Len(cuts) \in Nat
    /\ \A i \in 1..Len(cuts) :
          /\ cuts[i] \in Seq(Range(cpus)) /\ cuts[i] # <<>> /\ IsInjective(cuts[i])
          /\ \A k \in 1..Len(cuts) : k # i => Range(cuts[i]) \cap Range(cuts[k]) = {}

\* Windows that follow one another share no place.
LEMMA PlacesDiffer ==
    ASSUME NEW x \in Nat, NEW v \in Nat, NEW y \in Nat, NEW w \in Nat,
           x + v <= y \/ y + w <= x, NEW a \in 1..v, NEW b \in 1..w
    PROVE  x + a # y + b
OBVIOUS

\* Windows on the CPUs, one after the other.
LEMMA WindowsAreApart ==
    ASSUME NEW S, NEW cpus \in Seq(S), IsInjective(cpus), NEW n \in Nat,
           NEW off \in [1..n -> Nat], NEW size \in [1..n -> Nat],
           \A i \in 1..n : size[i] > 0 /\ off[i] + size[i] <= Len(cpus),
           \A i, k \in 1..n : i < k => off[i] + size[i] <= off[k]
    PROVE  CutsAreApart(cpus, [i \in 1..n |-> [j \in 1..size[i] |-> cpus[off[i] + j]]])
<1> DEFINE cut(i) == [j \in 1..size[i] |-> cpus[off[i] + j]]
           cuts == [i \in 1..n |-> cut(i)]
<1>1. Len(cpus) \in Nat /\ DOMAIN cpus = 1..Len(cpus)
    OBVIOUS
<1>2. \A i \in 1..n : \A j \in 1..size[i] : off[i] + j \in DOMAIN cpus
    BY <1>1
<1>3. ASSUME NEW i \in 1..n
      PROVE  cut(i) \in Seq(Range(cpus)) /\ cut(i) # <<>> /\ IsInjective(cut(i))
    <2>1. size[i] \in Nat /\ off[i] \in Nat /\ size[i] > 0
        OBVIOUS
    <2>2. \A j \in 1..size[i] : cpus[off[i] + j] \in Range(cpus)
        BY <1>2, <1>3 DEF Range
    <2>3. cut(i) \in Seq(Range(cpus)) /\ Len(cut(i)) = size[i]
        <3> DEFINE f == cut(i)
        <3>1. f = [j \in 1..size[i] |-> f[j]] /\ \A j \in 1..size[i] : f[j] = cpus[off[i] + j]
            OBVIOUS
        <3> HIDE DEF f
        <3> DEFINE w == size[i]
        <3> HIDE DEF w
        <3>2. f \in Seq(Range(cpus)) /\ Len(f) = size[i]
            <4>1. w \in Nat /\ f = [j \in 1..w |-> f[j]] /\ \A j \in 1..w : f[j] \in Range(cpus)
                BY <2>1, <2>2, <3>1 DEF w
            <4>2. f \in Seq(Range(cpus)) /\ Len(f) = w
                BY <4>1, TableIs
            <4> QED
                BY <4>2 DEF w
        <3> QED
            BY <3>2 DEF f
    <2>4. cut(i) # <<>>
        <3> HIDE DEF cut
        <3>1. Len(<<>>) = 0
            OBVIOUS
        <3> QED
            BY <2>1, <2>3, <3>1
    <2>5. IsInjective(cut(i))
        <3>1. ASSUME NEW j \in 1..size[i], NEW k \in 1..size[i],
                     cpus[off[i] + j] = cpus[off[i] + k]
              PROVE  j = k
            <4>1. off[i] + j = off[i] + k
                BY <1>2, <1>3, <3>1 DEF IsInjective
            <4> QED
                BY <2>1, <4>1
        <3> QED
            BY <3>1 DEF IsInjective
    <2> HIDE DEF cut
    <2> QED
        BY <2>3, <2>4, <2>5
<1>4. ASSUME NEW i \in 1..n, NEW k \in 1..n, k # i
      PROVE  Range(cut(i)) \cap Range(cut(k)) = {}
    <2>1. /\ size[i] \in Nat /\ off[i] \in Nat /\ size[k] \in Nat /\ off[k] \in Nat
          /\ i < k \/ k < i
        BY <1>4
    <2>2. SUFFICES ASSUME NEW a \in 1..size[i], NEW b \in 1..size[k],
                          cpus[off[i] + a] = cpus[off[k] + b]
                   PROVE  FALSE
        BY DEF Range
    <2>3. off[i] + a = off[k] + b
        BY <1>2, <2>2 DEF IsInjective
    <2>4. off[i] + size[i] <= off[k] \/ off[k] + size[k] <= off[i]
        BY <2>1
    <2> QED
        BY <2>1, <2>2, <2>3, <2>4, PlacesDiffer
<1> HIDE DEF cut
<1>5. Len(cuts) = n /\ DOMAIN cuts = 1..n /\ \A i \in 1..n : cuts[i] = cut(i)
    <2>1. cuts = [i \in 1..n |-> cuts[i]] /\ \A i \in 1..n : cuts[i] \in {cut(i_1) : i_1 \in 1..n}
        OBVIOUS
    <2> QED
        BY <2>1, TableIs
<1>6. cuts = [i \in 1..Len(cuts) |-> cuts[i]] /\ Len(cuts) \in Nat
    BY <1>5
<1> HIDE DEF cuts
<1>7. CutsAreApart(cpus, cuts)
    BY <1>3, <1>4, <1>5, <1>6 DEF CutsAreApart
<1> QED
    BY <1>7 DEF cuts, cut

\* Quotients and multiples.
LEMMA GroupsFit ==
    ASSUME NEW a \in Nat, NEW n \in Nat, n > 0
    PROVE  a \div n \in Nat /\ (a \div n) * n <= a
OBVIOUS

LEMMA MultiplesGrow ==
    ASSUME NEW i \in Nat, NEW k \in Nat, NEW n \in Nat, 1 <= i, i <= k
    PROVE  i * n <= k * n /\ (i - 1) * n \in Nat /\ (i - 1) * n + n = i * n
<1>1. k * n = i * n + (k - i) * n /\ k - i \in Nat /\ (k - i) * n \in Nat
    OBVIOUS
<1>2. i - 1 \in Nat /\ (i - 1) * n \in Nat /\ (i - 1) * n + n = i * n
    OBVIOUS
<1>3. i * n \in Nat
    OBVIOUS
<1> QED
    BY <1>1, <1>2, <1>3

LEMMA EquallyIsApart ==
    ASSUME NEW S, NEW dev, dev.HWCPUs \in Seq(S), IsInjective(dev.HWCPUs),
           NEW n \in Nat, n > 0
    PROVE  CutsAreApart(dev.HWCPUs, Equally(dev, n))
<1> DEFINE cpus == dev.HWCPUs
           groups == Len(cpus) \div n
           off == [i \in 1..groups |-> (i - 1) * n]
           size == [i \in 1..groups |-> n]
<1>1. Len(cpus) \in Nat
    OBVIOUS
<1>2. groups \in Nat /\ groups * n <= Len(cpus)
    BY <1>1, GroupsFit
<1> HIDE DEF groups
<1>3. ASSUME NEW i \in 1..groups, NEW k \in Nat, i <= k
      PROVE  i * n <= k * n /\ (i - 1) * n \in Nat /\ (i - 1) * n + n = i * n
    <2>1. i \in Nat /\ 1 <= i
        BY <1>2
    <2> QED
        BY <1>3, <2>1, MultiplesGrow
<1>4. off \in [1..groups -> Nat] /\ size \in [1..groups -> Nat]
    BY <1>2, <1>3
<1>5. \A i \in 1..groups : size[i] > 0 /\ off[i] + size[i] <= Len(cpus)
    BY <1>1, <1>2, <1>3
<1>6. \A i, k \in 1..groups : i < k => off[i] + size[i] <= off[k]
    <2>1. SUFFICES ASSUME NEW i \in 1..groups, NEW k \in 1..groups, i < k
                   PROVE  off[i] + size[i] <= off[k]
        OBVIOUS
    <2>2. k - 1 \in Nat /\ i <= k - 1
        BY <1>2, <2>1
    <2>3. i * n <= (k - 1) * n /\ (i - 1) * n + n = i * n
        BY <1>3, <2>2
    <2> QED
        BY <2>3
<1>7. CutsAreApart(cpus, [i \in 1..groups |-> [j \in 1..size[i] |-> cpus[off[i] + j]]])
    <2> HIDE DEF cpus, off, size
    <2>1. cpus \in Seq(S) /\ IsInjective(cpus)
        BY DEF cpus
    <2> QED
        BY <1>2, <1>4, <1>5, <1>6, <2>1, WindowsAreApart
<1>8. Equally(dev, n) = [i \in 1..groups |-> [j \in 1..size[i] |-> cpus[off[i] + j]]]
    BY DEF Equally, groups
<1> QED
    BY <1>7, <1>8

LEMMA ByCountsIsApart ==
    ASSUME NEW S, NEW dev, dev.HWCPUs \in Seq(S), IsInjective(dev.HWCPUs),
           NEW counts \in Seq(Int), \A i \in 1..Len(counts) : counts[i] > 0,
           Before(counts)[Len(counts)] <= Len(dev.HWCPUs)
    PROVE  CutsAreApart(dev.HWCPUs, ByCounts(dev, counts))
<1> DEFINE cpus == dev.HWCPUs
           b == Before(counts)
           n == Len(counts)
           off == [i \in 1..n |-> b[i - 1]]
           size == [i \in 1..n |-> counts[i]]
<1>1. n \in Nat /\ Len(cpus) \in Nat /\ \A i \in 1..n : counts[i] \in Nat /\ counts[i] > 0
    OBVIOUS
<1>2. /\ b[0] = 0 /\ \A i \in 1..n : b[i] = b[i - 1] + counts[i]
      /\ \A i \in 0..n : b[i] \in Int
    BY BeforeIs
<1>3. \A i, k \in 0..n : i <= k => b[i] <= b[k]
    BY BeforeGrows
<1> HIDE DEF b, n
<1>4. \A i \in 0..n : b[i] \in Nat /\ b[i] <= Len(cpus)
    <2>1. SUFFICES ASSUME NEW i \in 0..n PROVE b[i] \in Nat /\ b[i] <= Len(cpus)
        OBVIOUS
    <2>2. 0 \in 0..n /\ n \in 0..n /\ 0 <= i /\ i <= n
        BY <1>1
    <2>3. b[0] <= b[i] /\ b[i] <= b[n] /\ b[i] \in Int /\ b[n] \in Int
        BY <1>2, <1>3, <2>2
    <2>4. b[n] <= Len(cpus)
        BY DEF b, n
    <2> QED
        BY <1>1, <1>2, <2>3, <2>4
<1>5. \A i \in 1..n : /\ i \in 0..n /\ i - 1 \in 0..n /\ off[i] = b[i - 1]
                      /\ size[i] = counts[i] /\ off[i] + size[i] = b[i]
    BY <1>1, <1>2
<1>6. off \in [1..n -> Nat] /\ size \in [1..n -> Nat]
    BY <1>1, <1>4, <1>5
<1>7. \A i \in 1..n : size[i] > 0 /\ off[i] + size[i] <= Len(cpus)
    BY <1>1, <1>4, <1>5
<1>8. \A i, k \in 1..n : i < k => off[i] + size[i] <= off[k]
    <2>1. SUFFICES ASSUME NEW i \in 1..n, NEW k \in 1..n, i < k
                   PROVE  off[i] + size[i] <= off[k]
        OBVIOUS
    <2>2. i \in 0..n /\ k - 1 \in 0..n /\ i <= k - 1
        BY <1>1, <2>1
    <2>3. b[i] <= b[k - 1]
        BY <1>3, <2>2
    <2> QED
        BY <1>5, <2>3
<1>9. CutsAreApart(cpus, [i \in 1..n |-> [j \in 1..size[i] |-> cpus[off[i] + j]]])
    <2> HIDE DEF cpus, off, size
    <2>1. cpus \in Seq(S) /\ IsInjective(cpus)
        BY DEF cpus
    <2> QED
        BY <1>1, <1>6, <1>7, <1>8, <2>1, WindowsAreApart
<1>10. ByCounts(dev, counts) = [i \in 1..n |-> [j \in 1..size[i] |-> cpus[off[i] + j]]]
    BY DEF ByCounts, n, b
<1> QED
    BY <1>9, <1>10

\* The CPUs of a component, each once.
LEMMA CPUsOfIs ==
    ASSUME NEW S, NEW cpus \in Seq(S), IsInjective(cpus), NEW comp, NEW dom
    PROVE  LET s == CPUsOf(comp, cpus, dom)
           IN  /\ s \in Seq(Range(cpus)) /\ IsInjective(s)
               /\ Range(s) = {c \in Range(cpus) : Component(c, dom) = comp}
<1> DEFINE n == Len(cpus)
           own(i) == Component(cpus[i], dom) = comp
           R == Range(cpus)
           Runs(g, m) ==
               /\ g = [i \in 0..m |-> g[i]] /\ g[0] = <<>>
               /\ \A i \in 1..m :
                     g[i] = IF own(i) THEN Append(g[i - 1], cpus[i]) ELSE g[i - 1]
           F(g) == [i \in 0..n |-> IF i = 0 THEN <<>>
                                   ELSE IF own(i) THEN Append(g[i - 1], cpus[i])
                                   ELSE g[i - 1]]
           bad == {m \in Nat : m <= n /\ ~\E g : Runs(g, m)}
<1>1. n \in Nat /\ DOMAIN cpus = 1..n /\ \A i \in 1..n : cpus[i] \in R
    BY DEF Range
<1> HIDE DEF n, own, R, Runs
<1>2. bad = {}
    <2>1. SUFFICES ASSUME bad # {} PROVE FALSE
        OBVIOUS
    <2> DEFINE m == Least(bad)
    <2>2. m \in bad /\ \A e \in bad : m <= e
        BY <2>1, LeastIs
    <2> HIDE DEF m
    <2>3. m \in Nat /\ m <= n /\ ~\E g : Runs(g, m)
        BY <2>2
    <2>4. CASE m = 0
        <3>1. Runs([i \in {0} |-> <<>>], 0)
            BY DEF Runs
        <3> QED
            BY <2>3, <2>4, <3>1
    <2>5. CASE m # 0
        <3>1. m - 1 \in Nat /\ m - 1 <= n /\ m - 1 \notin bad
            BY <1>1, <2>2, <2>3, <2>5
        <3>2. PICK g : Runs(g, m - 1)
            BY <3>1
        <3> DEFINE e == IF own(m) THEN Append(g[m - 1], cpus[m]) ELSE g[m - 1]
                   h == [i \in 0..m |-> IF i = m THEN e ELSE g[i]]
        <3> HIDE DEF e
        <3>3. h[0] = <<>> /\ h[m] = e /\ \A i \in 0..(m - 1) : h[i] = g[i]
            BY <2>3, <2>5, <3>1, <3>2 DEF Runs
        <3>4. h = [i \in 0..m |-> h[i]]
            OBVIOUS
        <3> HIDE DEF h
        <3>5. ASSUME NEW i \in 1..m
              PROVE  h[i] = IF own(i) THEN Append(h[i - 1], cpus[i]) ELSE h[i - 1]
            <4>1. h[i - 1] = g[i - 1] /\ i \in Nat
                BY <2>3, <3>3, <3>5
            <4>2. CASE i = m
                BY <3>3, <4>1, <4>2 DEF e
            <4>3. CASE i # m
                <5>1. i \in 1..(m - 1) /\ i \in 0..(m - 1)
                    BY <2>3, <3>1, <3>5, <4>3
                <5>2. g[i] = IF own(i) THEN Append(g[i - 1], cpus[i]) ELSE g[i - 1]
                    BY <3>2, <5>1 DEF Runs
                <5> QED
                    BY <3>3, <4>1, <5>1, <5>2
            <4> QED
                BY <4>2, <4>3
        <3>6. Runs(h, m)
            BY <3>3, <3>4, <3>5 DEF Runs
        <3> QED
            BY <2>3, <3>6
    <2> QED
        BY <2>4, <2>5
<1>3. PICK g : Runs(g, n)
    <2>1. n \in Nat /\ n <= n
        BY <1>1
    <2>2. n \notin bad
        <3> HIDE DEF bad
        <3> QED
            BY <1>2
    <2> QED
        BY <2>1, <2>2
<1>4. g = F(g)
    <2>1. g = [i \in 0..n |-> g[i]] /\ g[0] = <<>>
        BY <1>3 DEF Runs
    <2>2. \A i \in 1..n : g[i] = IF own(i) THEN Append(g[i - 1], cpus[i]) ELSE g[i - 1]
        BY <1>3 DEF Runs
    <2>3. ASSUME NEW i \in 0..n PROVE g[i] = F(g)[i]
        <3>1. CASE i = 0
            BY <1>1, <2>1, <3>1
        <3>2. CASE i # 0
            <4>1. i \in 1..n
                BY <1>1, <3>2
            <4> QED
                BY <2>2, <3>2, <4>1
        <3> QED
            BY <3>1, <3>2
    <2>4. F(g) = [i \in 0..n |-> F(g)[i]]
        OBVIOUS
    <2> HIDE DEF F
    <2>5. [i \in 0..n |-> g[i]] = [i \in 0..n |-> F(g)[i]]
        BY <2>3
    <2> QED
        BY <2>1, <2>4, <2>5
<1> DEFINE f == CHOOSE h : h = F(h)
<1>5. f = F(f)
    <2> HIDE DEF F
    <2> QED
        BY <1>4
<1>6. CPUsOf(comp, cpus, dom) = f[n]
    BY DEF CPUsOf, n, own
<1> HIDE DEF f
<1>7. /\ f[0] = <<>>
      /\ \A i \in 1..n : f[i] = IF own(i) THEN Append(f[i - 1], cpus[i]) ELSE f[i - 1]
    <2>1. \A i \in 0..n : f[i] = F(f)[i]
        BY <1>5
    <2>2. 0 \in 0..n /\ \A i \in 1..n : i \in 0..n /\ i # 0
        BY <1>1
    <2> QED
        BY <2>1, <2>2
<1> DEFINE Good(i) == /\ f[i] \in Seq(R) /\ IsInjective(f[i])
                      /\ Range(f[i]) = {cpus[k] : k \in {j \in 1..i : own(j)}}
           odd == {m \in Nat : m <= n /\ ~Good(m)}
<1>8. Good(0)
    BY <1>7 DEF IsInjective, Range
<1>9. ASSUME NEW m \in 1..n, Good(m - 1) PROVE Good(m)
    <2>1. m \in Nat /\ m - 1 \in Nat /\ 1..m = (1..(m - 1)) \cup {m} /\ m \notin 1..(m - 1)
        BY <1>1
    <2>2. CASE ~own(m)
        <3>1. {j \in 1..m : own(j)} = {j \in 1..(m - 1) : own(j)}
            BY <2>1, <2>2
        <3> QED
            BY <1>7, <1>9, <2>2, <3>1
    <2>3. CASE own(m)
        <3> DEFINE s == f[m - 1]
                   t == Append(s, cpus[m])
        <3>1. /\ s \in Seq(R) /\ IsInjective(s) /\ cpus[m] \in R
              /\ Range(s) = {cpus[k] : k \in {j \in 1..(m - 1) : own(j)}}
            BY <1>1, <1>9
        <3>2. f[m] = t
            BY <1>7, <2>3
        <3>3. {j \in 1..m : own(j)} = {j \in 1..(m - 1) : own(j)} \cup {m}
            BY <2>1, <2>3
        <3>4. cpus[m] \notin Range(s)
            <4>1. ASSUME NEW k \in 1..(m - 1), cpus[k] = cpus[m] PROVE FALSE
                <5>1. k \in DOMAIN cpus /\ m \in DOMAIN cpus /\ k # m
                    BY <1>1, <2>1
                <5> QED
                    BY <4>1, <5>1 DEF IsInjective
            <4> QED
                BY <3>1, <4>1
        <3> HIDE DEF s
        <3>5. /\ t \in Seq(R) /\ Len(s) \in Nat /\ DOMAIN s = 1..Len(s)
              /\ DOMAIN t = 1..(Len(s) + 1) /\ t[Len(s) + 1] = cpus[m]
              /\ \A i \in 1..Len(s) : t[i] = s[i]
            BY <3>1
        <3> HIDE DEF t
        <3>6. 1..(Len(s) + 1) = (1..Len(s)) \cup {Len(s) + 1}
            BY <3>5
        <3>7. Range(t) = Range(s) \cup {cpus[m]}
            BY <3>5, <3>6 DEF Range
        <3>8. \A i \in 1..Len(s) : s[i] # cpus[m]
            BY <3>4, <3>5 DEF Range
        <3>9. IsInjective(t)
            BY <3>1, <3>5, <3>6, <3>8 DEF IsInjective
        <3>10. Range(t) = {cpus[k] : k \in {j \in 1..m : own(j)}}
            BY <3>1, <3>3, <3>7
        <3> QED
            BY <3>2, <3>5, <3>9, <3>10
    <2> QED
        BY <2>2, <2>3
<1>10. odd = {}
    <2>1. SUFFICES ASSUME odd # {} PROVE FALSE
        OBVIOUS
    <2> DEFINE m == Least(odd)
    <2>2. m \in odd /\ \A e \in odd : m <= e
        BY <2>1, LeastIs
    <2> HIDE DEF m, Good
    <2>3. m \in Nat /\ m <= n /\ ~Good(m) /\ m # 0
        BY <1>8, <2>2
    <2>4. m - 1 \in Nat /\ m - 1 \notin odd /\ m - 1 <= n /\ m \in 1..n
        BY <1>1, <2>2, <2>3
    <2> QED
        BY <1>9, <2>3, <2>4
<1>11. Good(n)
    <2> HIDE DEF Good
    <2> QED
        BY <1>1, <1>10
<1>12. {cpus[k] : k \in {j \in 1..n : own(j)}} = {c \in Range(cpus) : Component(c, dom) = comp}
    BY <1>1 DEF own, Range
<1> QED
    BY <1>6, <1>11, <1>12 DEF R

LEMMA SetToSeqIs ==
    ASSUME NEW C, IsFiniteSet(C)
    PROVE  /\ SetToSeq(C) \in [1..Cardinality(C) -> C] /\ IsInjective(SetToSeq(C))
           /\ Cardinality(C) \in Nat
<1>1. Cardinality(C) \in Nat /\ Bijection(1..Cardinality(C), C) # {}
    BY FS_CardinalityType DEF ExistsBijection
<1>2. PICK f : f \in [1..Cardinality(C) -> C] /\ IsInjective(f)
    BY <1>1 DEF Bijection, Injection
<1> QED
    BY <1>1, <1>2 DEF SetToSeq

LEMMA ByAffinityIsApart ==
    ASSUME NEW S, NEW dev, dev.HWCPUs \in Seq(S), IsInjective(dev.HWCPUs), NEW dom
    PROVE  CutsAreApart(dev.HWCPUs, ByAffinity(dev, dom))
<1> DEFINE cpus == dev.HWCPUs
           C == Components(cpus, dom)
           comps == SetToSeq(C)
           n == Cardinality(C)
           cut(i) == CPUsOf(comps[i], cpus, dom)
           cuts == [i \in 1..n |-> cut(i)]
<1>1. IsFiniteSet(C)
    <2> DEFINE D == {Component(c, dom) : c \in Range(cpus)}
               f == [k \in 1..Len(cpus) |-> Component(cpus[k], dom)]
    <2>1. Len(cpus) \in Nat /\ DOMAIN cpus = 1..Len(cpus)
        OBVIOUS
    <2>2. f \in Surjection(1..Len(cpus), D)
        <3>1. \A k \in 1..Len(cpus) : cpus[k] \in Range(cpus)
            BY <2>1 DEF Range
        <3>2. f \in [1..Len(cpus) -> D]
            BY <3>1
        <3>3. \A t \in D : \E k \in 1..Len(cpus) : f[k] = t
            BY <2>1 DEF Range
        <3> HIDE DEF f, D
        <3> QED
            BY <3>2, <3>3 DEF Surjection
    <2>3. IsFiniteSet(1..Len(cpus))
        BY <2>1, FS_Interval
    <2> HIDE DEF f
    <2>4. IsFiniteSet(D) /\ C \in SUBSET D
        <3>1. IsFiniteSet(D)
            <4> HIDE DEF D
            <4> QED
                BY <2>2, <2>3, FS_Surjection
        <3> QED
            BY <3>1 DEF Components
    <2> HIDE DEF D, C
    <2> QED
        BY <2>4, FS_Subset
<1>2. cpus \in Seq(S) /\ IsInjective(cpus)
    OBVIOUS
<1>3. \A k \in C : \E c \in Range(cpus) : Component(c, dom) = k
    BY DEF Components
<1> HIDE DEF cpus, C
<1>4. n \in Nat /\ comps \in [1..n -> C] /\ IsInjective(comps)
    BY <1>1, SetToSeqIs
<1> HIDE DEF n, comps
<1>5. \A i \in 1..n :
          /\ cut(i) \in Seq(Range(cpus)) /\ IsInjective(cut(i))
          /\ Range(cut(i)) = {c \in Range(cpus) : Component(c, dom) = comps[i]}
    BY <1>2, CPUsOfIs
<1> HIDE DEF cut
<1>6. \A i \in 1..n : cut(i) # <<>>
    <2>1. SUFFICES ASSUME NEW i \in 1..n, cut(i) = <<>> PROVE FALSE
        OBVIOUS
    <2>2. PICK c \in Range(cpus) : Component(c, dom) = comps[i]
        BY <1>3, <1>4
    <2>3. c \in Range(cut(i))
        BY <1>5, <2>2
    <2> QED
        BY <2>1, <2>3 DEF Range
<1>7. \A i, k \in 1..n : k # i => Range(cut(i)) \cap Range(cut(k)) = {}
    <2>1. SUFFICES ASSUME NEW i \in 1..n, NEW k \in 1..n, k # i
                   PROVE  Range(cut(i)) \cap Range(cut(k)) = {}
        OBVIOUS
    <2>2. comps[i] # comps[k]
        BY <1>4, <2>1 DEF IsInjective
    <2> QED
        BY <1>5, <2>2
<1>8. Len(cuts) = n /\ DOMAIN cuts = 1..n /\ \A i \in 1..n : cuts[i] = cut(i)
    <2>1. cuts = [i \in 1..n |-> cuts[i]] /\ \A i \in 1..n : cuts[i] \in {cut(k) : k \in 1..n}
        OBVIOUS
    <2> QED
        BY <1>4, <2>1, TableIs
<1>9. cuts = [i \in 1..Len(cuts) |-> cuts[i]]
    BY <1>8
<1>10. ByAffinity(dev, dom) = cuts
    <2>1. Len(comps) = n
        <3>1. comps = [i \in 1..n |-> comps[i]] /\ \A i \in 1..n : comps[i] \in C
            BY <1>4
        <3> QED
            BY <1>4, <3>1, TableIs
    <2>2. ByAffinity(dev, dom) = [i \in 1..Len(comps) |-> cut(i)]
        BY DEF ByAffinity, comps, cut, C, cpus
    <2> QED
        BY <2>1, <2>2
<1> HIDE DEF cuts
<1>11. CutsAreApart(cpus, cuts)
    BY <1>4, <1>5, <1>6, <1>7, <1>8, <1>9 DEF CutsAreApart
<1> QED
    BY <1>10, <1>11 DEF cpus

\* What a device is cut into.
LEMMA CreatedAreApart ==
    ASSUME DeviceKinds, NEW S, NEW dev, dev.HWCPUs \in Seq(S), IsInjective(dev.HWCPUs),
           NEW part \in Parts, ValidPart(part), isPartitionSupported(dev, part)
    PROVE  CutsAreApart(dev.HWCPUs, createSubDevices(dev, part))
<1>1. part.type \in {"EQUALLY", "BY_COUNTS", "BY_AFFINITY"}
    BY DEF isPartitionSupported, SupportedPartitionTypes
<1>2. CASE part.type = "EQUALLY"
    <2>1. part.n \in Nat /\ part.n > 0
        BY <1>2 DEF DeviceKinds, ValidPart
    <2> QED
        BY <1>2, <2>1, EquallyIsApart DEF createSubDevices
<1>3. CASE part.type = "BY_COUNTS"
    <2>1. part.counts \in Seq(Int)
        BY <1>3 DEF DeviceKinds
    <2>2. \A i \in 1..Len(part.counts) : part.counts[i] > 0
        BY <1>3 DEF ValidPart
    <2>3. Before(part.counts)[Len(part.counts)] <= Len(dev.HWCPUs)
        BY <1>3 DEF isPartitionSupported, getTotalComputeUnits
    <2> QED
        BY <1>3, <2>1, <2>2, <2>3, ByCountsIsApart DEF createSubDevices
<1>4. CASE part.type = "BY_AFFINITY"
    BY <1>4, ByAffinityIsApart DEF createSubDevices
<1> QED
    BY <1>1, <1>2, <1>3, <1>4

---------------------------------------------------------------------------
(* What devices, contexts and queues are in every state: a device names    *)
(* its parent, and the call that made it came when it did not exist.       *)

DeviceType == [parent : Nat, HWCPUs : Seq(Range(CPUs)), refs : Int, call : Nat,
               domains : SUBSET (Domains \cup {"NEXT"})]
ContextType == [devs : SUBSET Nat, refs : Int]
QueueType == [dev : Nat, ctx : Nat, refs : Int]

\* Those who refer to device d.
ContextsOn(d) == {c \in DOMAIN contexts : d \in contexts[c].devs}
QueuesOn(d) == {q \in DOMAIN queues : queues[q].dev = d}
CutsOf(d) == {e \in DOMAIN devices : devices[e].parent = d}

UsersTypeInv ==
    /\ dheld \in Seq(Int) /\ Len(dheld) = Len(devices)
    /\ contexts \in Seq(ContextType) /\ queues \in Seq(QueueType)
    /\ \A c \in 1..Len(contexts) : contexts[c].devs \subseteq 1..Len(devices)
    /\ \A q \in 1..Len(queues) : queues[q].dev \in 1..Len(devices)

DevicesInv ==
    /\ devices \in Seq(DeviceType)
    /\ \A d \in 1..Len(devices) :
          /\ devices[d].parent \in 0..Len(devices) /\ devices[d].call < d
          /\ IsInjective(devices[d].HWCPUs)

DeviceInv == DevicesInv /\ UsersTypeInv /\ SiblingsAreApart /\ RefsMatchUsers

LEMMA DomainsAre ==
    ASSUME NEW inherited \in SUBSET (Domains \cup {"NEXT"}), NEW cpus
    PROVE  SupportedAffinityDomains(inherited, cpus) \in SUBSET (Domains \cup {"NEXT"})
<1> HIDE DEF Domains
<1> QED
    BY DEF SupportedAffinityDomains

\* A step that changes references only.
SameTree(old, new) ==
    /\ new \in Seq(DeviceType) /\ Len(new) = Len(old)
    /\ \A d \in 1..Len(old) :
          /\ new[d].parent = old[d].parent /\ new[d].call = old[d].call
          /\ new[d].HWCPUs = old[d].HWCPUs

LEMMA WithRefsIs ==
    ASSUME NEW x \in DeviceType, NEW n \in Int
    PROVE  LET r == [x EXCEPT !.refs = x.refs + n]
           IN  /\ r \in DeviceType /\ r.refs = x.refs + n /\ r.parent = x.parent
               /\ r.call = x.call /\ r.HWCPUs = x.HWCPUs /\ x.refs \in Int
<1>1. SUFFICES ASSUME NEW A, NEW B, NEW C, NEW D,
               x \in [parent : A, HWCPUs : B, refs : Int, call : C, domains : D]
      PROVE  LET r == [x EXCEPT !.refs = x.refs + n]
             IN  /\ r \in [parent : A, HWCPUs : B, refs : Int, call : C, domains : D]
                 /\ r.refs = x.refs + n /\ r.parent = x.parent /\ x.refs \in Int
                 /\ r.call = x.call /\ r.HWCPUs = x.HWCPUs
    BY DEF DeviceType
<1> QED
    BY <1>1

LEMMA RefsAreInt ==
    ASSUME NEW s \in Seq(DeviceType), NEW d \in 1..Len(s)
    PROVE  s[d].refs \in Int
<1>1. s[d] \in DeviceType
    OBVIOUS
<1> QED
    BY <1>1 DEF DeviceType

LEMMA AddRefsIs ==
    ASSUME NEW s \in Seq(DeviceType), NEW d \in 1..Len(s), NEW n \in Int
    PROVE  /\ SameTree(s, AddRefs(s, d, n))
           /\ \A e \in 1..Len(s) :
                 AddRefs(s, d, n)[e].refs = s[e].refs + (IF e = d THEN n ELSE 0)
<1> DEFINE r == [s[d] EXCEPT !.refs = s[d].refs + n]
           t == AddRefs(s, d, n)
<1>1. s[d] \in DeviceType /\ Len(s) \in Nat /\ DOMAIN s = 1..Len(s)
    OBVIOUS
<1>2. /\ r \in DeviceType /\ r.refs = s[d].refs + n /\ r.parent = s[d].parent
      /\ r.call = s[d].call /\ r.HWCPUs = s[d].HWCPUs
    BY <1>1, WithRefsIs
<1>3. t = [s EXCEPT ![d] = r]
    BY DEF AddRefs
<1> HIDE DEF r, t
<1>4. t \in Seq(DeviceType) /\ Len(t) = Len(s)
    <2> HIDE DEF DeviceType
    <2> QED
        BY <1>2, <1>3
<1>5. t[d] = r /\ \A e \in 1..Len(s) : e # d => t[e] = s[e]
    BY <1>1, <1>3
<1>6. \A e \in 1..Len(s) : s[e].refs \in Int
    BY RefsAreInt
<1>7. SameTree(s, t)
    BY <1>2, <1>4, <1>5 DEF SameTree
<1>8. \A e \in 1..Len(s) : t[e].refs = s[e].refs + (IF e = d THEN n ELSE 0)
    BY <1>2, <1>5, <1>6
<1> QED
    BY <1>7, <1>8 DEF t

LEMMA RetainAllIs ==
    ASSUME DevicesInv, NEW ds
    PROVE  /\ SameTree(devices, RetainAll(ds))
           /\ \A d \in 1..Len(devices) : RetainAll(ds)[d].refs =
                  devices[d].refs + (IF d \in ds /\ IsSubDevice(d) THEN 1 ELSE 0)
<1> DEFINE t == RetainAll(ds)
           r(d) == [devices[d] EXCEPT !.refs = devices[d].refs + 1]
<1>1. /\ Len(devices) \in Nat /\ DOMAIN devices = 1..Len(devices)
      /\ \A d \in 1..Len(devices) : devices[d] \in DeviceType
    BY DEF DevicesInv
<1>2. \A d \in 1..Len(devices) :
          /\ r(d) \in DeviceType /\ r(d).refs = devices[d].refs + 1
          /\ r(d).parent = devices[d].parent /\ r(d).call = devices[d].call
          /\ r(d).HWCPUs = devices[d].HWCPUs /\ devices[d].refs \in Int
    <2>1. SUFFICES ASSUME NEW d \in 1..Len(devices)
                   PROVE  /\ r(d) \in DeviceType /\ r(d).refs = devices[d].refs + 1
                          /\ r(d).parent = devices[d].parent /\ r(d).call = devices[d].call
                          /\ r(d).HWCPUs = devices[d].HWCPUs /\ devices[d].refs \in Int
        OBVIOUS
    <2>2. devices[d] \in DeviceType
        BY <1>1
    <2> QED
        BY <2>2, WithRefsIs
<1>3. t = [d \in 1..Len(devices) |->
               IF d \in ds /\ IsSubDevice(d) THEN r(d) ELSE devices[d]]
    BY <1>1 DEF RetainAll
<1> HIDE DEF t, r
<1>4. t = [d \in 1..Len(devices) |-> t[d]]
      /\ \A d \in 1..Len(devices) :
             t[d] = IF d \in ds /\ IsSubDevice(d) THEN r(d) ELSE devices[d]
    BY <1>3
<1>5. t \in Seq(DeviceType) /\ Len(t) = Len(devices)
    <2>1. \A d \in 1..Len(devices) : t[d] \in DeviceType
        BY <1>1, <1>2, <1>4
    <2> QED
        BY <1>1, <1>4, <2>1, TableIs
<1>6. SameTree(devices, t)
    BY <1>2, <1>4, <1>5 DEF SameTree
<1>7. \A d \in 1..Len(devices) :
          t[d].refs = devices[d].refs + (IF d \in ds /\ IsSubDevice(d) THEN 1 ELSE 0)
    BY <1>2, <1>4
<1> QED
    BY <1>6, <1>7 DEF t

LEMMA PlacesAreFinite ==
    ASSUME NEW S, NEW s \in Seq(S), NEW T \in SUBSET DOMAIN s
    PROVE  IsFiniteSet(T) /\ Cardinality(T) \in Nat
<1>1. IsFiniteSet(DOMAIN s)
    <2>1. Len(s) \in Nat /\ DOMAIN s = 1..Len(s)
        OBVIOUS
    <2> QED
        BY <2>1, FS_Interval
<1>2. IsFiniteSet(T)
    BY <1>1, FS_Subset
<1> QED
    BY <1>2, FS_CardinalityType

LEMMA UsersAreFinite ==
    ASSUME devices \in Seq(DeviceType), contexts \in Seq(ContextType),
           queues \in Seq(QueueType), NEW d
    PROVE  /\ IsFiniteSet(ContextsOn(d)) /\ Cardinality(ContextsOn(d)) \in Nat
           /\ IsFiniteSet(QueuesOn(d)) /\ Cardinality(QueuesOn(d)) \in Nat
           /\ IsFiniteSet(CutsOf(d)) /\ Cardinality(CutsOf(d)) \in Nat
<1>1. /\ ContextsOn(d) \in SUBSET DOMAIN contexts /\ QueuesOn(d) \in SUBSET DOMAIN queues
      /\ CutsOf(d) \in SUBSET DOMAIN devices
    BY DEF ContextsOn, QueuesOn, CutsOf
<1> QED
    BY <1>1, PlacesAreFinite

\* The references that device d must have.
Due(d) == dheld[d] + Cardinality(ContextsOn(d)) + Cardinality(QueuesOn(d))
                   + Cardinality(CutsOf(d))

LEMMA RefsMatchDue ==
    RefsMatchUsers <=> \A d \in DOMAIN devices : IsSubDevice(d) => devices[d].refs = Due(d)
BY DEF RefsMatchUsers, Due, ContextsOn, QueuesOn, CutsOf

LEMMA Balance ==
    ASSUME NEW r \in Int, NEW h \in Int, NEW c \in Int, NEW q \in Int, NEW k \in Int,
           NEW r1 \in Int, NEW h1 \in Int, NEW c1 \in Int, NEW q1 \in Int,
           r1 - r = (h1 - h) + (c1 - c) + (q1 - q), r = h + c + q + k
    PROVE  r1 = h1 + c1 + q1 + k
OBVIOUS

LEMMA SameTreeKeeps ==
    ASSUME DeviceInv, SameTree(devices, devices'), UsersTypeInv',
           \A d \in 1..Len(devices) : IsSubDevice(d) =>
               devices'[d].refs - devices[d].refs
                   = (dheld'[d] - dheld[d])
                     + (Cardinality(ContextsOn(d)') - Cardinality(ContextsOn(d)))
                     + (Cardinality(QueuesOn(d)') - Cardinality(QueuesOn(d)))
    PROVE  DeviceInv'
<1>1. /\ Len(devices') = Len(devices) /\ Len(devices) \in Nat
      /\ DOMAIN devices = 1..Len(devices) /\ DOMAIN devices' = 1..Len(devices)
      /\ devices' \in Seq(DeviceType)
    BY DEF SameTree, DeviceInv, DevicesInv
<1>2. \A d \in 1..Len(devices) :
          /\ devices'[d].parent = devices[d].parent /\ devices'[d].call = devices[d].call
          /\ devices'[d].HWCPUs = devices[d].HWCPUs
    BY DEF SameTree
<1>3. DevicesInv'
    BY <1>1, <1>2 DEF DeviceInv, DevicesInv
<1>4. \A d \in 1..Len(devices) : IsSubDevice(d)' <=> IsSubDevice(d)
    BY <1>2 DEF IsSubDevice
<1>5. SiblingsAreApart'
    <2>1. \A d \in 1..Len(devices) : IsSubDevice(d) => devices[d].parent \in 1..Len(devices)
        BY <1>1 DEF DeviceInv, DevicesInv, IsSubDevice
    <2> DEFINE Apart(all, d) ==
                   /\ all[d].HWCPUs # <<>> /\ IsInjective(all[d].HWCPUs)
                   /\ Range(all[d].HWCPUs) \subseteq Range(all[all[d].parent].HWCPUs)
                   /\ \A e \in 1..Len(devices) :
                         e # d /\ all[e].parent = all[d].parent /\ all[e].call = all[d].call
                             => Range(all[d].HWCPUs) \cap Range(all[e].HWCPUs) = {}
    <2>2. ASSUME NEW d \in 1..Len(devices), IsSubDevice(d) PROVE Apart(devices', d)
        <3>1. Apart(devices, d)
            BY <1>1, <2>2 DEF DeviceInv, SiblingsAreApart
        <3>2. devices[d].parent \in 1..Len(devices)
            BY <2>1, <2>2
        <3> QED
            BY <1>2, <3>1, <3>2
    <2> QED
        BY <1>1, <1>4, <2>2 DEF SiblingsAreApart
<1>6. ASSUME NEW d \in 1..Len(devices), IsSubDevice(d) PROVE devices'[d].refs = Due(d)'
    <2>1. CutsOf(d)' = CutsOf(d)
        BY <1>1, <1>2 DEF CutsOf
    <2>2. devices[d].refs = Due(d)
        BY <1>1, <1>6, RefsMatchDue DEF DeviceInv
    <2>3. /\ Cardinality(ContextsOn(d)) \in Nat /\ Cardinality(QueuesOn(d)) \in Nat
          /\ Cardinality(CutsOf(d)) \in Nat
        BY UsersAreFinite DEF DeviceInv, DevicesInv, UsersTypeInv
    <2>4. Cardinality(ContextsOn(d)') \in Nat /\ Cardinality(QueuesOn(d)') \in Nat
        <3>1. contexts' \in Seq(ContextType) /\ ContextsOn(d)' \in SUBSET DOMAIN contexts'
            BY DEF UsersTypeInv, ContextsOn
        <3>2. queues' \in Seq(QueueType) /\ QueuesOn(d)' \in SUBSET DOMAIN queues'
            BY DEF UsersTypeInv, QueuesOn
        <3> QED
            BY <3>1, <3>2, PlacesAreFinite
    <2>5. dheld[d] \in Int /\ dheld'[d] \in Int
        BY <1>1, <1>6 DEF DeviceInv, UsersTypeInv
    <2>6. devices[d].refs \in Int /\ devices'[d].refs \in Int
        BY <1>1, <1>6, RefsAreInt DEF DeviceInv, DevicesInv
    <2>7. Due(d)' = dheld'[d] + Cardinality(ContextsOn(d)') + Cardinality(QueuesOn(d)')
                    + Cardinality(CutsOf(d)')
        BY DEF Due
    <2>8. devices'[d].refs - devices[d].refs
              = (dheld'[d] - dheld[d])
                + (Cardinality(ContextsOn(d)') - Cardinality(ContextsOn(d)))
                + (Cardinality(QueuesOn(d)') - Cardinality(QueuesOn(d)))
        BY <1>6
    <2>9. devices[d].refs = dheld[d] + Cardinality(ContextsOn(d)) + Cardinality(QueuesOn(d))
                            + Cardinality(CutsOf(d))
        BY <2>2 DEF Due
    <2> DEFINE c == Cardinality(ContextsOn(d))
               q == Cardinality(QueuesOn(d))
               k == Cardinality(CutsOf(d))
               c1 == Cardinality(ContextsOn(d)')
               q1 == Cardinality(QueuesOn(d)')
    <2>10. Due(d)' = dheld'[d] + c1 + q1 + k
        BY <2>1, <2>7
    <2>11. c \in Nat /\ q \in Nat /\ k \in Nat /\ c1 \in Nat /\ q1 \in Nat
        BY <2>3, <2>4
    <2> HIDE DEF c, q, k, c1, q1
    <2>12. /\ devices'[d].refs - devices[d].refs = (dheld'[d] - dheld[d]) + (c1 - c) + (q1 - q)
           /\ devices[d].refs = dheld[d] + c + q + k
        BY <2>8, <2>9 DEF c, q, k, c1, q1
    <2> DEFINE old == devices[d].refs
               new == devices'[d].refs
               h == dheld[d]
               h1 == dheld'[d]
    <2>13. /\ old \in Int /\ new \in Int /\ h \in Int /\ h1 \in Int /\ c \in Int
           /\ q \in Int /\ k \in Int /\ c1 \in Int /\ q1 \in Int
           /\ new - old = (h1 - h) + (c1 - c) + (q1 - q) /\ old = h + c + q + k
        BY <2>5, <2>6, <2>11, <2>12
    <2>14. new = Due(d)' <=> new = h1 + c1 + q1 + k
        BY <2>10
    <2> HIDE DEF old, new, h, h1
    <2>15. new = h1 + c1 + q1 + k
        BY <2>13, Balance
    <2> QED
        BY <2>14, <2>15 DEF new
<1>7. RefsMatchUsers'
    <2>1. RefsMatchUsers' <=> \A d \in DOMAIN devices' : IsSubDevice(d)' => devices'[d].refs = Due(d)'
        BY DEF RefsMatchUsers, Due, ContextsOn, QueuesOn, CutsOf
    <2> QED
        BY <1>1, <1>4, <1>6, <2>1
<1> QED
    BY <1>3, <1>5, <1>7 DEF DeviceInv

LEMMA DevicesAre ==
    ASSUME DeviceInv
    PROVE  /\ Len(devices) \in Nat /\ DOMAIN devices = 1..Len(devices)
           /\ DOMAIN dheld = 1..Len(devices) /\ \A d \in 1..Len(devices) : dheld[d] \in Int
BY DEF DeviceInv, DevicesInv, UsersTypeInv

\* The program retains or releases a device.
LEMMA HeldMoves ==
    ASSUME DeviceInv, NEW d \in 1..Len(devices), NEW n \in Int,
           devices' = AddRefs(devices, d, n), dheld' = [dheld EXCEPT ![d] = dheld[d] + n],
           UNCHANGED <<contexts, queues>>
    PROVE  DeviceInv'
<1>1. /\ devices \in Seq(DeviceType) /\ UsersTypeInv /\ SameTree(devices, devices')
      /\ \A e \in 1..Len(devices) :
             devices'[e].refs = devices[e].refs + (IF e = d THEN n ELSE 0)
    BY AddRefsIs DEF DeviceInv, DevicesInv
<1>2. Len(devices') = Len(devices)
    BY <1>1 DEF SameTree
<1>3. /\ dheld' \in Seq(Int) /\ Len(dheld') = Len(dheld)
      /\ \A e \in 1..Len(devices) : dheld'[e] = dheld[e] + (IF e = d THEN n ELSE 0)
    BY <1>1, DevicesAre DEF UsersTypeInv
<1>4. UsersTypeInv'
    BY <1>1, <1>2, <1>3 DEF UsersTypeInv
<1>5. ASSUME NEW e \in 1..Len(devices)
      PROVE  devices'[e].refs - devices[e].refs
                 = (dheld'[e] - dheld[e])
                   + (Cardinality(ContextsOn(e)') - Cardinality(ContextsOn(e)))
                   + (Cardinality(QueuesOn(e)') - Cardinality(QueuesOn(e)))
    <2>1. ContextsOn(e)' = ContextsOn(e) /\ QueuesOn(e)' = QueuesOn(e)
        BY DEF ContextsOn, QueuesOn
    <2>2. Cardinality(ContextsOn(e)) \in Nat /\ Cardinality(QueuesOn(e)) \in Nat
        BY <1>1, UsersAreFinite DEF UsersTypeInv
    <2>3. dheld[e] \in Int /\ devices[e].refs \in Int
        BY <1>1, DevicesAre, RefsAreInt
    <2> DEFINE more == IF e = d THEN n ELSE 0
    <2>4. devices'[e].refs = devices[e].refs + more /\ dheld'[e] = dheld[e] + more
        BY <1>1, <1>3
    <2>5. more \in Int
        OBVIOUS
    <2> HIDE DEF more
    <2>6. devices'[e].refs - devices[e].refs = more /\ dheld'[e] - dheld[e] = more
        <3>1. \A x \in Int : (x + more) - x = more
            BY <2>5
        <3> QED
            BY <2>3, <2>4, <3>1
    <2>7. /\ Cardinality(ContextsOn(e)') - Cardinality(ContextsOn(e)) = 0
          /\ Cardinality(QueuesOn(e)') - Cardinality(QueuesOn(e)) = 0
        BY <2>1, <2>2
    <2> QED
        BY <2>5, <2>6, <2>7
<1> QED
    BY <1>1, <1>4, <1>5, SameTreeKeeps

\* A context or a queue is made: it retains the devices in ds.
LEMMA UserMade ==
    ASSUME DeviceInv, NEW ds \in SUBSET (1..Len(devices)), devices' = RetainAll(ds),
           UsersTypeInv', UNCHANGED dheld,
           \A e \in 1..Len(devices) :
               (Cardinality(ContextsOn(e)') - Cardinality(ContextsOn(e)))
               + (Cardinality(QueuesOn(e)') - Cardinality(QueuesOn(e)))
                   = IF e \in ds THEN 1 ELSE 0
    PROVE  DeviceInv'
<1>1. /\ SameTree(devices, devices')
      /\ \A e \in 1..Len(devices) : devices'[e].refs =
             devices[e].refs + (IF e \in ds /\ IsSubDevice(e) THEN 1 ELSE 0)
    BY RetainAllIs DEF DeviceInv
<1>2. ASSUME NEW e \in 1..Len(devices), IsSubDevice(e)
      PROVE  devices'[e].refs - devices[e].refs
                 = (dheld'[e] - dheld[e])
                   + (Cardinality(ContextsOn(e)') - Cardinality(ContextsOn(e)))
                   + (Cardinality(QueuesOn(e)') - Cardinality(QueuesOn(e)))
    <2>1. dheld'[e] - dheld[e] = 0
        BY DevicesAre
    <2>2. devices[e].refs \in Int
        BY RefsAreInt DEF DeviceInv, DevicesInv
    <2>3. devices'[e].refs - devices[e].refs = IF e \in ds THEN 1 ELSE 0
        BY <1>1, <1>2, <2>2
    <2>4. (Cardinality(ContextsOn(e)') - Cardinality(ContextsOn(e)))
          + (Cardinality(QueuesOn(e)') - Cardinality(QueuesOn(e))) = IF e \in ds THEN 1 ELSE 0
        OBVIOUS
    <2>5. contexts' \in Seq(ContextType) /\ queues' \in Seq(QueueType)
        BY DEF UsersTypeInv
    <2>6. /\ Cardinality(ContextsOn(e)) \in Nat /\ Cardinality(QueuesOn(e)) \in Nat
          /\ Cardinality(ContextsOn(e)') \in Nat /\ Cardinality(QueuesOn(e)') \in Nat
        <3>1. ContextsOn(e)' \in SUBSET DOMAIN contexts' /\ QueuesOn(e)' \in SUBSET DOMAIN queues'
            BY DEF ContextsOn, QueuesOn
        <3>2. Cardinality(ContextsOn(e)') \in Nat /\ Cardinality(QueuesOn(e)') \in Nat
            BY <2>5, <3>1, PlacesAreFinite
        <3> QED
            BY <3>2, UsersAreFinite DEF DeviceInv, DevicesInv, UsersTypeInv
    <2> DEFINE c == Cardinality(ContextsOn(e)') - Cardinality(ContextsOn(e))
               q == Cardinality(QueuesOn(e)') - Cardinality(QueuesOn(e))
    <2>7. c \in Int /\ q \in Int /\ c + q = IF e \in ds THEN 1 ELSE 0
        BY <2>4, <2>6
    <2> HIDE DEF c, q
    <2>8. devices'[e].refs - devices[e].refs = (dheld'[e] - dheld[e]) + c + q
        BY <2>1, <2>3, <2>7
    <2> QED
        BY <2>8 DEF c, q
<1> QED
    BY <1>1, <1>2, SameTreeKeeps

LEMMA AppendIs ==
    ASSUME NEW S, NEW s \in Seq(S), NEW e \in S
    PROVE  /\ Append(s, e) \in Seq(S) /\ Len(s) \in Nat /\ DOMAIN s = 1..Len(s)
           /\ Len(Append(s, e)) = Len(s) + 1
           /\ DOMAIN Append(s, e) = (DOMAIN s) \cup {Len(s) + 1} /\ Len(s) + 1 \notin DOMAIN s
           /\ Append(s, e)[Len(s) + 1] = e /\ \A i \in 1..Len(s) : Append(s, e)[i] = s[i]
OBVIOUS

LEMMA OneMore ==
    ASSUME NEW S, NEW s \in Seq(S), NEW T \in SUBSET DOMAIN s, NEW x, x \notin DOMAIN s
    PROVE  Cardinality(T \cup {x}) - Cardinality(T) = 1 /\ Cardinality(T) \in Nat
<1>1. IsFiniteSet(T) /\ Cardinality(T) \in Nat
    BY PlacesAreFinite
<1>2. Cardinality(T \cup {x}) = IF x \in T THEN Cardinality(T) ELSE Cardinality(T) + 1
    BY <1>1, FS_AddElement
<1>3. x \notin T
    OBVIOUS
<1> QED
    BY <1>1, <1>2, <1>3

LEMMA CreateContextKeeps ==
    ASSUME DeviceInv, NEW ds \in SUBSET (1..Len(devices)), clCreateContext(ds)
    PROVE  DeviceInv'
<1> DEFINE c == [devs |-> ds, refs |-> 1]
<1>1. /\ devices' = RetainAll(ds) /\ contexts' = Append(contexts, c)
      /\ UNCHANGED <<dheld, queues>>
    BY DEF clCreateContext
<1>2. UsersTypeInv /\ Len(devices') = Len(devices) /\ Len(devices) \in Nat
    BY <1>1, RetainAllIs, DevicesAre DEF DeviceInv, SameTree
<1>3. c \in ContextType /\ c.devs = ds /\ contexts \in Seq(ContextType)
    BY <1>2 DEF ContextType, UsersTypeInv
<1> HIDE DEF c
<1>4. /\ contexts' \in Seq(ContextType) /\ Len(contexts) \in Nat
      /\ DOMAIN contexts = 1..Len(contexts) /\ Len(contexts') = Len(contexts) + 1
      /\ DOMAIN contexts' = (DOMAIN contexts) \cup {Len(contexts) + 1}
      /\ Len(contexts) + 1 \notin DOMAIN contexts /\ contexts'[Len(contexts) + 1] = c
      /\ \A i \in 1..Len(contexts) : contexts'[i] = contexts[i]
    BY <1>1, <1>3, AppendIs
<1>5. UsersTypeInv'
    <2>1. \A i \in 1..Len(contexts') : contexts'[i].devs \subseteq 1..Len(devices)
        <3>1. SUFFICES ASSUME NEW i \in 1..Len(contexts')
                       PROVE  contexts'[i].devs \subseteq 1..Len(devices)
            OBVIOUS
        <3>2. CASE i = Len(contexts) + 1
            BY <1>3, <1>4, <3>2
        <3>3. CASE i # Len(contexts) + 1
            <4>1. i \in 1..Len(contexts)
                BY <1>4, <3>1, <3>3
            <4>2. contexts[i].devs \subseteq 1..Len(devices)
                BY <1>2, <4>1 DEF UsersTypeInv
            <4> QED
                BY <1>4, <4>1, <4>2
        <3> QED
            BY <3>2, <3>3
    <2> QED
        BY <1>1, <1>2, <1>4, <2>1 DEF UsersTypeInv
<1>6. ASSUME NEW e \in 1..Len(devices)
      PROVE  (Cardinality(ContextsOn(e)') - Cardinality(ContextsOn(e)))
             + (Cardinality(QueuesOn(e)') - Cardinality(QueuesOn(e)))
                 = IF e \in ds THEN 1 ELSE 0
    <2>1. QueuesOn(e)' = QueuesOn(e) /\ ContextsOn(e) \in SUBSET DOMAIN contexts
        BY <1>1 DEF QueuesOn, ContextsOn
    <2>2. ContextsOn(e)' = IF e \in ds THEN ContextsOn(e) \cup {Len(contexts) + 1}
                           ELSE ContextsOn(e)
        BY <1>3, <1>4 DEF ContextsOn
    <2>3. /\ Cardinality(ContextsOn(e) \cup {Len(contexts) + 1}) - Cardinality(ContextsOn(e)) = 1
          /\ Cardinality(ContextsOn(e)) \in Nat
        BY <1>3, <1>4, <2>1, OneMore
    <2>4. Cardinality(ContextsOn(e)') - Cardinality(ContextsOn(e)) = IF e \in ds THEN 1 ELSE 0
        BY <2>2, <2>3
    <2>5. Cardinality(QueuesOn(e)) \in Nat
        BY <1>2, UsersAreFinite DEF DeviceInv, DevicesInv, UsersTypeInv
    <2> QED
        BY <2>1, <2>4, <2>5
<1> QED
    BY <1>1, <1>5, <1>6, UserMade

\* References of a context or of a queue.
LEMMA ContextRefs ==
    ASSUME UsersTypeInv, NEW c \in DOMAIN contexts, NEW n \in Int
    PROVE  LET new == AddRefs(contexts, c, n)
           IN  /\ new \in Seq(ContextType) /\ Len(new) = Len(contexts)
               /\ DOMAIN new = DOMAIN contexts /\ DOMAIN contexts = 1..Len(contexts)
               /\ \A i \in DOMAIN contexts : new[i].devs = contexts[i].devs
<1> DEFINE r == [contexts[c] EXCEPT !.refs = contexts[c].refs + n]
           new == AddRefs(contexts, c, n)
<1>1. contexts \in Seq(ContextType) /\ contexts[c] \in ContextType
    BY DEF UsersTypeInv
<1>2. r \in ContextType /\ r.devs = contexts[c].devs
    BY <1>1 DEF ContextType
<1>3. new = [contexts EXCEPT ![c] = r]
    BY DEF AddRefs
<1> HIDE DEF r, new
<1>4. /\ new \in Seq(ContextType) /\ Len(new) = Len(contexts)
      /\ DOMAIN new = DOMAIN contexts /\ DOMAIN contexts = 1..Len(contexts)
    BY <1>1, <1>2, <1>3
<1>5. \A i \in DOMAIN contexts : new[i].devs = contexts[i].devs
    BY <1>2, <1>3
<1> QED
    BY <1>4, <1>5 DEF new

LEMMA QueueRefs ==
    ASSUME UsersTypeInv, NEW q \in DOMAIN queues, NEW n \in Int
    PROVE  LET new == AddRefs(queues, q, n)
           IN  /\ new \in Seq(QueueType) /\ Len(new) = Len(queues)
               /\ DOMAIN new = DOMAIN queues /\ DOMAIN queues = 1..Len(queues)
               /\ \A i \in DOMAIN queues : new[i].dev = queues[i].dev
<1> DEFINE r == [queues[q] EXCEPT !.refs = queues[q].refs + n]
           new == AddRefs(queues, q, n)
<1>1. queues \in Seq(QueueType) /\ queues[q] \in QueueType
    BY DEF UsersTypeInv
<1>2. r \in QueueType /\ r.dev = queues[q].dev
    <2>1. SUFFICES ASSUME NEW A, NEW B, NEW x \in [dev : A, ctx : B, refs : Int]
          PROVE  /\ [x EXCEPT !.refs = x.refs + n] \in [dev : A, ctx : B, refs : Int]
                 /\ [x EXCEPT !.refs = x.refs + n].dev = x.dev
        BY <1>1 DEF QueueType
    <2> QED
        OBVIOUS
<1>3. new = [queues EXCEPT ![q] = r]
    BY DEF AddRefs
<1> HIDE DEF r, new
<1>4. /\ new \in Seq(QueueType) /\ Len(new) = Len(queues)
      /\ DOMAIN new = DOMAIN queues /\ DOMAIN queues = 1..Len(queues)
    BY <1>1, <1>2, <1>3
<1>5. \A i \in DOMAIN queues : new[i].dev = queues[i].dev
    BY <1>2, <1>3
<1> QED
    BY <1>4, <1>5 DEF new

LEMMA CreateQueueKeeps ==
    ASSUME DeviceInv, NEW c \in DOMAIN contexts, NEW d \in 1..Len(devices),
           clCreateCommandQueue(c, d)
    PROVE  DeviceInv'
<1> DEFINE q == [dev |-> d, ctx |-> c, refs |-> 1]
           n == Len(queues) + 1
<1>1. /\ devices' = RetainAll({d}) /\ contexts' = AddRefs(contexts, c, 1)
      /\ queues' = Append(queues, q) /\ UNCHANGED dheld
    BY DEF clCreateCommandQueue
<1>2. UsersTypeInv /\ Len(devices') = Len(devices) /\ Len(devices) \in Nat
    BY <1>1, RetainAllIs, DevicesAre DEF DeviceInv, SameTree
<1>3. q \in QueueType /\ q.dev = d /\ queues \in Seq(QueueType)
    <2>1. c \in Nat /\ d \in Nat
        BY <1>2 DEF UsersTypeInv
    <2> QED
        BY <1>2, <2>1 DEF QueueType, UsersTypeInv
<1> HIDE DEF q
<1>4. /\ queues' \in Seq(QueueType) /\ DOMAIN queues = 1..Len(queues) /\ Len(queues) \in Nat
      /\ DOMAIN queues' = (DOMAIN queues) \cup {n} /\ n \notin DOMAIN queues
      /\ Len(queues') = n /\ queues'[n] = q /\ \A i \in 1..Len(queues) : queues'[i] = queues[i]
    BY <1>1, <1>3, AppendIs
<1>5. /\ contexts' \in Seq(ContextType) /\ DOMAIN contexts' = DOMAIN contexts
      /\ DOMAIN contexts = 1..Len(contexts) /\ Len(contexts') = Len(contexts)
      /\ \A i \in DOMAIN contexts : contexts'[i].devs = contexts[i].devs
    BY <1>1, <1>2, ContextRefs
<1>6. UsersTypeInv'
    <2>1. \A i \in 1..Len(queues') : queues'[i].dev \in 1..Len(devices)
        <3>1. SUFFICES ASSUME NEW i \in 1..Len(queues') PROVE queues'[i].dev \in 1..Len(devices)
            OBVIOUS
        <3>2. CASE i = n
            BY <1>3, <1>4, <3>2
        <3>3. CASE i # n
            <4>1. i \in 1..Len(queues)
                BY <1>4, <3>1, <3>3
            <4>2. queues[i].dev \in 1..Len(devices)
                BY <1>2, <4>1 DEF UsersTypeInv
            <4> QED
                BY <1>4, <4>1, <4>2
        <3> QED
            BY <3>2, <3>3
    <2>2. \A i \in 1..Len(contexts') : contexts'[i].devs \subseteq 1..Len(devices)
        BY <1>2, <1>5 DEF UsersTypeInv
    <2> QED
        BY <1>1, <1>2, <1>4, <1>5, <2>1, <2>2 DEF UsersTypeInv
<1>7. ASSUME NEW e \in 1..Len(devices)
      PROVE  (Cardinality(ContextsOn(e)') - Cardinality(ContextsOn(e)))
             + (Cardinality(QueuesOn(e)') - Cardinality(QueuesOn(e)))
                 = IF e \in {d} THEN 1 ELSE 0
    <2>1. ContextsOn(e)' = ContextsOn(e) /\ QueuesOn(e) \in SUBSET DOMAIN queues
        BY <1>5 DEF QueuesOn, ContextsOn
    <2>2. QueuesOn(e)' = IF e \in {d} THEN QueuesOn(e) \cup {n} ELSE QueuesOn(e)
        BY <1>3, <1>4 DEF QueuesOn
    <2>3. /\ Cardinality(QueuesOn(e) \cup {n}) - Cardinality(QueuesOn(e)) = 1
          /\ Cardinality(QueuesOn(e)) \in Nat
        BY <1>3, <1>4, <2>1, OneMore
    <2>4. Cardinality(QueuesOn(e)') - Cardinality(QueuesOn(e)) = IF e \in {d} THEN 1 ELSE 0
        BY <2>2, <2>3
    <2>5. Cardinality(ContextsOn(e)) \in Nat
        BY <1>2, UsersAreFinite DEF DeviceInv, DevicesInv, UsersTypeInv
    <2> QED
        BY <2>1, <2>4, <2>5
<1>8. {d} \in SUBSET (1..Len(devices))
    OBVIOUS
<1> QED
    BY <1>1, <1>6, <1>7, <1>8, UserMade

\* A step that changes no device and no user's devices.
LEMMA SameUsersKeep ==
    ASSUME DeviceInv, UNCHANGED <<devices, dheld>>,
           contexts' \in Seq(ContextType), DOMAIN contexts' = DOMAIN contexts,
           \A i \in DOMAIN contexts : contexts'[i].devs = contexts[i].devs,
           queues' \in Seq(QueueType), DOMAIN queues' = DOMAIN queues,
           \A i \in DOMAIN queues : queues'[i].dev = queues[i].dev
    PROVE  DeviceInv'
<1>1. /\ DOMAIN contexts' = 1..Len(contexts') /\ DOMAIN contexts = 1..Len(contexts)
      /\ DOMAIN queues' = 1..Len(queues') /\ DOMAIN queues = 1..Len(queues)
    BY DEF DeviceInv, UsersTypeInv
<1>2. UsersTypeInv'
    <2>1. \A i \in 1..Len(contexts') : contexts'[i].devs \subseteq 1..Len(devices)
        BY <1>1 DEF DeviceInv, UsersTypeInv
    <2>2. \A i \in 1..Len(queues') : queues'[i].dev \in 1..Len(devices)
        BY <1>1 DEF DeviceInv, UsersTypeInv
    <2> QED
        BY <2>1, <2>2 DEF DeviceInv, UsersTypeInv
<1>3. ASSUME NEW e \in 1..Len(devices)
      PROVE  devices'[e].refs - devices[e].refs
                 = (dheld'[e] - dheld[e])
                   + (Cardinality(ContextsOn(e)') - Cardinality(ContextsOn(e)))
                   + (Cardinality(QueuesOn(e)') - Cardinality(QueuesOn(e)))
    <2>1. ContextsOn(e)' = ContextsOn(e) /\ QueuesOn(e)' = QueuesOn(e)
        BY DEF ContextsOn, QueuesOn
    <2>2. Cardinality(ContextsOn(e)) \in Nat /\ Cardinality(QueuesOn(e)) \in Nat
        BY UsersAreFinite DEF DeviceInv, DevicesInv, UsersTypeInv
    <2>3. dheld[e] \in Int /\ devices[e].refs \in Int
        BY DevicesAre, RefsAreInt DEF DeviceInv, DevicesInv
    <2> QED
        BY <2>1, <2>2, <2>3
<1>4. SameTree(devices, devices')
    BY DEF SameTree, DeviceInv, DevicesInv
<1> QED
    BY <1>2, <1>3, <1>4, SameTreeKeeps

\* The devices that a call makes of d.
Made(d, cuts) ==
    [i \in 1..Len(cuts) |->
        [parent |-> d, HWCPUs |-> cuts[i], refs |-> 1,
         domains |-> SupportedAffinityDomains(devices[d].domains, cuts[i]),
         call |-> Len(devices)]]

LEMMA MadeIs ==
    ASSUME DeviceInv, NEW d \in 1..Len(devices), NEW cuts,
           CutsAreApart(devices[d].HWCPUs, cuts)
    PROVE  /\ Made(d, cuts) \in Seq(DeviceType) /\ Len(Made(d, cuts)) = Len(cuts)
           /\ Len(cuts) \in Nat
           /\ \A i \in 1..Len(cuts) :
                 /\ Made(d, cuts)[i].parent = d /\ Made(d, cuts)[i].HWCPUs = cuts[i]
                 /\ Made(d, cuts)[i].refs = 1 /\ Made(d, cuts)[i].call = Len(devices)
<1> DEFINE n == Len(cuts)
           made == Made(d, cuts)
           dom(i) == SupportedAffinityDomains(devices[d].domains, cuts[i])
           dev(i) == [parent |-> d, HWCPUs |-> cuts[i], refs |-> 1, domains |-> dom(i),
                      call |-> Len(devices)]
<1>1. n \in Nat /\ Len(devices) \in Nat /\ d \in Nat
    BY DevicesAre DEF CutsAreApart
<1>2. devices[d] \in DeviceType
    BY DEF DeviceInv, DevicesInv
<1>3. \A i \in 1..n : cuts[i] \in Seq(Range(CPUs))
    <2>1. devices[d].HWCPUs \in Seq(Range(CPUs))
        BY <1>2 DEF DeviceType
    <2>2. Range(devices[d].HWCPUs) \subseteq Range(CPUs)
        BY <2>1 DEF Range
    <2>3. \A i \in 1..n : cuts[i] \in Seq(Range(devices[d].HWCPUs))
        BY DEF CutsAreApart
    <2> QED
        BY <2>2, <2>3, SeqMonotonic
<1>4. \A i \in 1..n : dom(i) \in SUBSET (Domains \cup {"NEXT"})
    <2>1. devices[d].domains \in SUBSET (Domains \cup {"NEXT"})
        BY <1>2 DEF DeviceType
    <2> QED
        BY <2>1, DomainsAre
<1>5. made = [i \in 1..n |-> dev(i)]
    BY DEF Made
<1> HIDE DEF n, made, dom
<1>6. \A i \in 1..n : /\ dev(i) \in DeviceType /\ dev(i).parent = d
                      /\ dev(i).HWCPUs = cuts[i] /\ dev(i).refs = 1
                      /\ dev(i).call = Len(devices)
    BY <1>1, <1>3, <1>4 DEF DeviceType
<1> HIDE DEF dev
<1>7. made = [i \in 1..n |-> made[i]] /\ \A i \in 1..n : made[i] = dev(i)
    BY <1>5
<1>8. made \in Seq(DeviceType) /\ Len(made) = n
    BY <1>1, <1>6, <1>7, TableIs
<1> QED
    BY <1>1, <1>6, <1>7, <1>8 DEF n, made

LEMMA SameTreeTwice ==
    ASSUME NEW s, NEW t, NEW u, SameTree(s, t), SameTree(t, u)
    PROVE  SameTree(s, u)
BY DEF SameTree

LEMMA RetainedIs ==
    ASSUME DevicesInv, NEW d \in 1..Len(devices), NEW n \in Nat
    PROVE  /\ SameTree(devices, Retained(devices, d, n))
           /\ \A e \in 1..Len(devices) : Retained(devices, d, n)[e].refs =
                  devices[e].refs + (IF e = d /\ IsSubDevice(d) THEN n ELSE 0)
<1>1. devices \in Seq(DeviceType) /\ \A e \in 1..Len(devices) : devices[e].refs \in Int
    BY RefsAreInt DEF DevicesInv
<1>2. CASE IsSubDevice(d)
    <2>1. Retained(devices, d, n) = AddRefs(devices, d, n)
        BY <1>2 DEF Retained, IsSubDevice
    <2>2. n \in Int
        OBVIOUS
    <2>3. /\ SameTree(devices, AddRefs(devices, d, n))
          /\ \A e \in 1..Len(devices) :
                AddRefs(devices, d, n)[e].refs = devices[e].refs + (IF e = d THEN n ELSE 0)
        BY <1>1, <2>2, AddRefsIs
    <2> QED
        BY <1>2, <2>1, <2>3
<1>3. CASE ~IsSubDevice(d)
    <2>1. Retained(devices, d, n) = devices
        BY <1>3 DEF Retained, IsSubDevice
    <2> QED
        BY <1>1, <1>3, <2>1 DEF SameTree
<1> QED
    BY <1>2, <1>3

\* The call gives the references back that its devices took.
LEMMA ReleasedIs ==
    ASSUME DevicesInv, NEW d \in 1..Len(devices), NEW n \in Nat
    PROVE  LET all == Released(Retained(devices, d, n), d, n)
           IN  /\ SameTree(devices, all)
               /\ \A e \in 1..Len(devices) : all[e].refs = devices[e].refs
<1> DEFINE t == Retained(devices, d, n)
           all == Released(t, d, n)
<1>1. /\ SameTree(devices, t)
      /\ \A e \in 1..Len(devices) : t[e].refs =
             devices[e].refs + (IF e = d /\ IsSubDevice(d) THEN n ELSE 0)
    BY RetainedIs
<1>2. \A e \in 1..Len(devices) : devices[e].refs \in Int
    BY RefsAreInt DEF DevicesInv
<1> HIDE DEF t
<1>3. t \in Seq(DeviceType) /\ Len(t) = Len(devices) /\ t[d].parent = devices[d].parent
    BY <1>1 DEF SameTree
<1> DEFINE Same ==
    /\ SameTree(devices, all)
    /\ \A e \in 1..Len(devices) : all[e].refs = devices[e].refs
<1>4. ASSUME IsSubDevice(d) PROVE Same
    <2>1. all = AddRefs(t, d, -n)
        BY <1>3, <1>4 DEF Released, IsSubDevice
    <2>2. /\ SameTree(t, all)
          /\ \A e \in 1..Len(devices) : all[e].refs = t[e].refs + (IF e = d THEN -n ELSE 0)
        <3>1. d \in 1..Len(t) /\ -n \in Int
            BY <1>3
        <3> QED
            BY <1>3, <2>1, <3>1, AddRefsIs
    <2> HIDE DEF all
    <2>3. \A e \in 1..Len(devices) : all[e].refs = devices[e].refs
        BY <1>1, <1>2, <1>4, <2>2
    <2> QED
        BY <1>1, <2>2, <2>3, SameTreeTwice
<1>5. ASSUME ~IsSubDevice(d) PROVE Same
    <2>1. all = t
        BY <1>3, <1>5 DEF Released, IsSubDevice
    <2>2. \A e \in 1..Len(devices) : t[e].refs = devices[e].refs
        BY <1>1, <1>2, <1>5
    <2> QED
        BY <1>1, <2>1, <2>2
<1> HIDE DEF Same
<1>6. Same
    BY <1>4, <1>5
<1> QED
    BY <1>6 DEF Same, all, t

LEMMA CallsAreNat ==
    ASSUME NEW s \in Seq(DeviceType), NEW d \in 1..Len(s)
    PROVE  s[d].call \in Nat
<1>1. s[d] \in DeviceType
    OBVIOUS
<1> QED
    BY <1>1 DEF DeviceType

\* The program keeps the devices that a call makes.
LEMMA CutsKept ==
    ASSUME DeviceInv, NEW d \in 1..Len(devices), NEW cuts,
           CutsAreApart(devices[d].HWCPUs, cuts),
           devices' = Retained(devices, d, Len(cuts)) \o Made(d, cuts),
           dheld' = dheld \o [i \in 1..Len(cuts) |-> 1], UNCHANGED <<contexts, queues>>
    PROVE  DeviceInv'
<1> DEFINE m == Len(devices)
           n == Len(cuts)
           all == Retained(devices, d, n)
           made == Made(d, cuts)
<1>1. /\ m \in Nat /\ DOMAIN devices = 1..m /\ DevicesInv /\ UsersTypeInv
      /\ \A e \in 1..m : /\ dheld[e] \in Int /\ devices[e].refs \in Int
                         /\ devices[e].parent \in 0..m /\ devices[e].call < e
                         /\ IsInjective(devices[e].HWCPUs) /\ devices[e].call \in Nat
    <2>1. devices \in Seq(DeviceType) /\ DevicesInv /\ UsersTypeInv
        BY DEF DeviceInv, DevicesInv
    <2>2. \A e \in 1..m : devices[e].call \in Nat
        BY <2>1, CallsAreNat
    <2> QED
        BY <2>1, <2>2, DevicesAre, RefsAreInt DEF DevicesInv
<1>2. /\ made \in Seq(DeviceType) /\ Len(made) = n /\ n \in Nat
      /\ \A i \in 1..n : /\ made[i].parent = d /\ made[i].HWCPUs = cuts[i]
                         /\ made[i].refs = 1 /\ made[i].call = m
    BY MadeIs
<1>3. /\ all \in Seq(DeviceType) /\ Len(all) = m
      /\ \A e \in 1..m : /\ all[e].parent = devices[e].parent /\ all[e].call = devices[e].call
                         /\ all[e].HWCPUs = devices[e].HWCPUs
                         /\ all[e].refs = devices[e].refs
                                          + (IF e = d /\ IsSubDevice(d) THEN n ELSE 0)
    BY <1>1, <1>2, RetainedIs DEF SameTree
<1>4. devices' = all \o made
    OBVIOUS
<1> HIDE DEF all, made, n
<1>5. /\ devices' \in Seq(DeviceType) /\ Len(devices') = m + n /\ DOMAIN devices' = 1..(m + n)
      /\ \A e \in 1..m : devices'[e] = all[e]
      /\ \A i \in 1..n : devices'[m + i] = made[i]
    <2>1. /\ all \o made \in Seq(DeviceType) /\ Len(all \o made) = Len(all) + Len(made)
          /\ \A e \in 1..Len(all) : (all \o made)[e] = all[e]
          /\ \A i \in 1..Len(made) : (all \o made)[Len(all) + i] = made[i]
        <3>1. all \in Seq(DeviceType) /\ made \in Seq(DeviceType)
            BY <1>2, <1>3
        <3> QED
            BY <3>1
    <2>2. Len(all) = m /\ Len(made) = n
        BY <1>2, <1>3
    <2> HIDE DEF m
    <2>3. devices' \in Seq(DeviceType) /\ Len(devices') = m + n
        BY <1>4, <2>1, <2>2
    <2>4. DOMAIN devices' = 1..(m + n)
        BY <2>3
    <2> QED
        BY <1>4, <2>1, <2>2, <2>3, <2>4
<1> HIDE DEF m
<1>6. \A e \in 1..m :
          /\ devices'[e].parent = devices[e].parent /\ devices'[e].call = devices[e].call
          /\ devices'[e].HWCPUs = devices[e].HWCPUs
          /\ devices'[e].refs = devices[e].refs + (IF e = d /\ IsSubDevice(d) THEN n ELSE 0)
    BY <1>3, <1>5
<1>7. \A i \in 1..n :
          /\ devices'[m + i].parent = d /\ devices'[m + i].HWCPUs = cuts[i]
          /\ devices'[m + i].refs = 1 /\ devices'[m + i].call = m
    BY <1>2, <1>5
<1>8. \A f \in 1..(m + n) : f \in 1..m \/ \E i \in 1..n : f = m + i
    <2>1. SUFFICES ASSUME NEW f \in 1..(m + n), f \notin 1..m PROVE \E i \in 1..n : f = m + i
        OBVIOUS
    <2>2. f - m \in 1..n /\ f = m + (f - m)
        BY <1>1, <1>2, <2>1
    <2> QED
        BY <2>2
<1>9. /\ d \in 1..m /\ \A e \in 1..m : e \in 1..(m + n)
      /\ \A i \in 1..n : m + i \in 1..(m + n) /\ m + i \notin 1..m /\ m < m + i
    BY <1>1, <1>2 DEF m
<1>10. \A i \in 1..n :
           /\ cuts[i] # <<>> /\ IsInjective(cuts[i])
           /\ Range(cuts[i]) \subseteq Range(devices[d].HWCPUs)
           /\ \A k \in 1..n : k # i => Range(cuts[i]) \cap Range(cuts[k]) = {}
    <2>1. \A i \in 1..n :
              /\ cuts[i] \in Seq(Range(devices[d].HWCPUs)) /\ cuts[i] # <<>>
              /\ IsInjective(cuts[i])
              /\ \A k \in 1..n : k # i => Range(cuts[i]) \cap Range(cuts[k]) = {}
        BY DEF CutsAreApart, n
    <2>2. \A i \in 1..n : Range(cuts[i]) \subseteq Range(devices[d].HWCPUs)
        <3>1. ASSUME NEW S, NEW s \in Seq(S) PROVE Range(s) \subseteq S
            BY DEF Range
        <3> QED
            BY <2>1, <3>1
    <2> QED
        BY <2>1, <2>2
<1>11. DevicesInv'
    <2>1. ASSUME NEW f \in 1..(m + n)
          PROVE  /\ devices'[f].parent \in 0..(m + n) /\ devices'[f].call < f
                 /\ IsInjective(devices'[f].HWCPUs)
        <3>1. CASE f \in 1..m
            <4>1. devices'[f].parent \in 0..m /\ devices'[f].call < f
                BY <1>1, <1>6, <3>1
            <4>2. IsInjective(devices'[f].HWCPUs)
                BY <1>1, <1>6, <3>1
            <4>3. 0..m \subseteq 0..(m + n)
                BY <1>1, <1>2
            <4> QED
                BY <4>1, <4>2, <4>3
        <3>2. CASE f \notin 1..m
            <4>1. PICK i \in 1..n : f = m + i
                BY <1>8, <3>2
            <4>2. devices'[f].parent = d /\ devices'[f].call = m
                BY <1>7, <4>1
            <4>3. d \in 0..(m + n) /\ m < f
                BY <1>1, <1>2, <1>9, <4>1
            <4>4. IsInjective(devices'[f].HWCPUs)
                BY <1>7, <1>10, <4>1
            <4> QED
                BY <4>2, <4>3, <4>4
        <3> QED
            BY <3>1, <3>2
    <2> QED
        BY <1>5, <2>1 DEF DevicesInv
<1>12. /\ UsersTypeInv' /\ \A e \in 1..m : dheld'[e] = dheld[e]
       /\ \A i \in 1..n : dheld'[m + i] = 1
    <2> DEFINE ones == [i \in 1..n |-> 1]
    <2>1. ones \in Seq(Int) /\ Len(ones) = n /\ \A i \in 1..n : ones[i] = 1
        BY <1>2
    <2>2. dheld \in Seq(Int) /\ Len(dheld) = m
        BY <1>1 DEF UsersTypeInv, m
    <2>3. dheld' = dheld \o ones
        BY DEF n
    <2> HIDE DEF ones
    <2>4. /\ dheld' \in Seq(Int) /\ Len(dheld') = m + n
          /\ \A e \in 1..m : dheld'[e] = dheld[e]
          /\ \A i \in 1..n : dheld'[m + i] = 1
        <3>1. /\ dheld \o ones \in Seq(Int) /\ Len(dheld \o ones) = Len(dheld) + Len(ones)
              /\ \A e \in 1..Len(dheld) : (dheld \o ones)[e] = dheld[e]
              /\ \A i \in 1..Len(ones) : (dheld \o ones)[Len(dheld) + i] = ones[i]
            <4>1. dheld \in Seq(Int) /\ ones \in Seq(Int)
                BY <2>1, <2>2
            <4> QED
                BY <4>1
        <3> QED
            BY <2>1, <2>2, <2>3, <3>1
    <2>5. /\ \A c \in 1..Len(contexts) : contexts[c].devs \subseteq 1..(m + n)
          /\ \A q \in 1..Len(queues) : queues[q].dev \in 1..(m + n)
        <3>1. /\ \A c \in 1..Len(contexts) : contexts[c].devs \subseteq 1..m
              /\ \A q \in 1..Len(queues) : queues[q].dev \in 1..m
            BY <1>1 DEF UsersTypeInv, m
        <3> QED
            BY <1>9, <3>1
    <2> QED
        BY <1>1, <1>5, <2>4, <2>5 DEF UsersTypeInv
<1>13. ASSUME NEW e \in 1..m, IsSubDevice(e)
       PROVE  /\ devices[e].parent \in 1..m
              /\ devices[e].HWCPUs # <<>>
              /\ Range(devices[e].HWCPUs) \subseteq Range(devices[devices[e].parent].HWCPUs)
              /\ \A f \in 1..m :
                    f # e /\ devices[f].parent = devices[e].parent
                          /\ devices[f].call = devices[e].call
                        => Range(devices[e].HWCPUs) \cap Range(devices[f].HWCPUs) = {}
    <2>1. devices[e].parent \in 0..m /\ devices[e].parent # 0
        BY <1>1, <1>13 DEF IsSubDevice
    <2>2. devices[e].parent \in 1..m
        BY <1>1, <2>1
    <2> QED
        BY <1>1, <1>13, <2>2 DEF DeviceInv, SiblingsAreApart
<1> DEFINE Apart(f) ==
        /\ devices'[f].HWCPUs # <<>> /\ IsInjective(devices'[f].HWCPUs)
        /\ Range(devices'[f].HWCPUs) \subseteq Range(devices'[devices'[f].parent].HWCPUs)
        /\ \A g \in 1..(m + n) :
              g # f /\ devices'[g].parent = devices'[f].parent
                    /\ devices'[g].call = devices'[f].call
                  => Range(devices'[f].HWCPUs) \cap Range(devices'[g].HWCPUs) = {}
<1>14. ASSUME NEW e \in 1..m PROVE devices'[e].call # m
    <2>1. devices'[e].call = devices[e].call
        BY <1>6
    <2>2. devices[e].call \in Nat /\ devices[e].call < e
        BY <1>1
    <2>3. e \in Nat /\ e <= m
        BY <1>1
    <2> QED
        BY <1>1, <2>1, <2>2, <2>3
<1>15. ASSUME NEW e \in 1..m, devices[e].parent # 0 PROVE Apart(e)
    <2>1. IsSubDevice(e)
        BY <1>15 DEF IsSubDevice
    <2>2. ASSUME NEW i \in 1..n PROVE devices'[m + i].call # devices'[e].call
        BY <1>7, <1>14
    <2>3. ASSUME NEW g \in 1..(m + n), g # e, devices'[g].parent = devices'[e].parent,
                 devices'[g].call = devices'[e].call
          PROVE  Range(devices'[e].HWCPUs) \cap Range(devices'[g].HWCPUs) = {}
        <3>1. g \in 1..m
            BY <1>8, <2>2, <2>3
        <3> QED
            <4>1. /\ devices[g].parent = devices[e].parent /\ devices[g].call = devices[e].call
                  /\ devices'[g].HWCPUs = devices[g].HWCPUs
                  /\ devices'[e].HWCPUs = devices[e].HWCPUs
                BY <1>6, <1>15, <2>3, <3>1
            <4>2. Range(devices[e].HWCPUs) \cap Range(devices[g].HWCPUs) = {}
                BY <1>13, <1>15, <2>1, <2>3, <3>1, <4>1
            <4> QED
                BY <4>1, <4>2
    <2>4. Range(devices'[e].HWCPUs) \subseteq Range(devices'[devices'[e].parent].HWCPUs)
        <3>1. /\ devices[e].parent \in 1..m
              /\ Range(devices[e].HWCPUs) \subseteq Range(devices[devices[e].parent].HWCPUs)
            BY <1>13, <1>15, <2>1
        <3>2. devices'[devices[e].parent].HWCPUs = devices[devices[e].parent].HWCPUs
            BY <1>6, <3>1
        <3>3. devices'[e].parent = devices[e].parent /\ devices'[e].HWCPUs = devices[e].HWCPUs
            BY <1>6, <1>15
        <3> QED
            BY <3>1, <3>2, <3>3
    <2>5. devices'[e].HWCPUs # <<>> /\ IsInjective(devices'[e].HWCPUs)
        BY <1>1, <1>6, <1>13, <2>1
    <2> QED
        BY <2>3, <2>4, <2>5
<1>16. ASSUME NEW i \in 1..n PROVE Apart(m + i)
    <2>1. ASSUME NEW g \in 1..(m + n), g # m + i, devices'[g].call = devices'[m + i].call
          PROVE  Range(devices'[m + i].HWCPUs) \cap Range(devices'[g].HWCPUs) = {}
        <3>1. g \notin 1..m
            <4>1. SUFFICES ASSUME g \in 1..m PROVE FALSE
                OBVIOUS
            <4>2. devices'[g].call = m
                BY <1>7, <2>1
            <4> QED
                BY <1>14, <4>1, <4>2
        <3>2. PICK k \in 1..n : g = m + k
            BY <1>8, <3>1
        <3> QED
            BY <1>7, <1>10, <2>1, <3>2
    <2>2. Range(devices'[m + i].HWCPUs)
              \subseteq Range(devices'[devices'[m + i].parent].HWCPUs)
        <3>1. devices'[m + i].parent = d /\ devices'[m + i].HWCPUs = cuts[i]
            BY <1>7
        <3>2. devices'[d].HWCPUs = devices[d].HWCPUs
            BY <1>6, <1>9
        <3>3. Range(cuts[i]) \subseteq Range(devices[d].HWCPUs)
            BY <1>10
        <3> QED
            BY <3>1, <3>2, <3>3
    <2>3. devices'[m + i].HWCPUs # <<>> /\ IsInjective(devices'[m + i].HWCPUs)
        <3>1. devices'[m + i].HWCPUs = cuts[i]
            BY <1>7
        <3>2. cuts[i] # <<>> /\ IsInjective(cuts[i])
            BY <1>10
        <3> QED
            BY <3>1, <3>2
    <2> QED
        BY <2>1, <2>2, <2>3
<1>17. SiblingsAreApart'
    <2>1. ASSUME NEW f \in 1..(m + n), devices'[f].parent # 0 PROVE Apart(f)
        <3>1. CASE f \in 1..m
            <4>1. devices[f].parent # 0
                BY <1>6, <2>1, <3>1
            <4> HIDE DEF Apart
            <4> QED
                BY <1>15, <3>1, <4>1
        <3>2. CASE f \notin 1..m
            <4> HIDE DEF Apart
            <4> QED
                BY <1>8, <1>16, <3>2
        <3> QED
            BY <3>1, <3>2
    <2> QED
        BY <1>5, <2>1 DEF SiblingsAreApart, IsSubDevice
<1>18. \A f \in 1..(m + n) :
           /\ IsFiniteSet(ContextsOn(f)) /\ Cardinality(ContextsOn(f)) \in Nat
           /\ IsFiniteSet(QueuesOn(f)) /\ Cardinality(QueuesOn(f)) \in Nat
           /\ IsFiniteSet(CutsOf(f)) /\ Cardinality(CutsOf(f)) \in Nat
           /\ ContextsOn(f)' = ContextsOn(f) /\ QueuesOn(f)' = QueuesOn(f)
    <2>1. /\ devices \in Seq(DeviceType) /\ contexts \in Seq(ContextType)
          /\ queues \in Seq(QueueType)
        BY <1>1 DEF DevicesInv, UsersTypeInv
    <2>2. \A f : ContextsOn(f)' = ContextsOn(f) /\ QueuesOn(f)' = QueuesOn(f)
        BY DEF ContextsOn, QueuesOn
    <2> QED
        BY <2>1, <2>2, UsersAreFinite
<1>19. ASSUME NEW e \in 1..m, devices[e].parent # 0
       PROVE  devices'[e].refs = Due(e)'
    <2> DEFINE c == Cardinality(ContextsOn(e))
               q == Cardinality(QueuesOn(e))
               k == Cardinality(CutsOf(e))
               more == IF e = d THEN n ELSE 0
    <2>1. c \in Nat /\ q \in Nat /\ k \in Nat /\ more \in Nat /\ dheld[e] \in Int
        BY <1>1, <1>2, <1>9, <1>18
    <2>2. devices[e].refs = dheld[e] + c + q + k
        <3>1. e \in DOMAIN devices /\ IsSubDevice(e)
            BY <1>1, <1>19 DEF IsSubDevice
        <3> QED
            BY <3>1, RefsMatchDue DEF DeviceInv, Due
    <2>3. devices'[e].refs = devices[e].refs + more
        BY <1>6, <1>19 DEF IsSubDevice
    <2>4. Cardinality(CutsOf(e)') = k + more
        <3>1. CASE e # d
            <4>1. CutsOf(e)' = CutsOf(e)
                <5>1. ASSUME NEW f \in CutsOf(e)' PROVE f \in CutsOf(e)
                    <6>1. f \in 1..(m + n) /\ devices'[f].parent = e
                        BY <1>5, <5>1 DEF CutsOf
                    <6>2. f \in 1..m
                        <7>1. SUFFICES ASSUME f \notin 1..m PROVE FALSE
                            OBVIOUS
                        <7>2. PICK i \in 1..n : f = m + i
                            BY <1>8, <6>1, <7>1
                        <7> QED
                            BY <1>7, <3>1, <6>1, <7>2
                    <6> QED
                        BY <1>1, <1>6, <6>1, <6>2 DEF CutsOf
                <5>2. ASSUME NEW f \in CutsOf(e) PROVE f \in CutsOf(e)'
                    BY <1>1, <1>5, <1>6, <1>9, <5>2 DEF CutsOf
                <5> QED
                    BY <5>1, <5>2
            <4> QED
                BY <2>1, <3>1, <4>1
        <3>2. CASE e = d
            <4> DEFINE new == (m + 1)..(m + n)
            <4>1. \A f : f \in new <=> \E i \in 1..n : f = m + i
                <5>1. ASSUME NEW f \in new PROVE \E i \in 1..n : f = m + i
                    <6>1. f - m \in 1..n /\ f = m + (f - m)
                        BY <1>1, <1>2
                    <6> QED
                        BY <6>1
                <5>2. ASSUME NEW i \in 1..n PROVE m + i \in new
                    BY <1>1, <1>2
                <5> QED
                    BY <5>1, <5>2
            <4>2. IsFiniteSet(new) /\ Cardinality(new) = n
                <5>1. m + 1 \in Int /\ m + n \in Int
                    BY <1>1, <1>2
                <5>2. /\ IsFiniteSet(new)
                      /\ Cardinality(new) = IF m + 1 > m + n THEN 0 ELSE (m + n) - (m + 1) + 1
                    BY <5>1, FS_Interval
                <5> QED
                    BY <1>1, <1>2, <5>2
            <4> HIDE DEF new
            <4>3. CutsOf(e)' = CutsOf(e) \cup new
                <5>1. ASSUME NEW f \in CutsOf(e)' PROVE f \in CutsOf(e) \cup new
                    <6>1. f \in 1..(m + n) /\ devices'[f].parent = e
                        BY <1>5, <5>1 DEF CutsOf
                    <6>2. CASE f \in 1..m
                        BY <1>1, <1>6, <6>1, <6>2 DEF CutsOf
                    <6>3. CASE f \notin 1..m
                        BY <1>8, <4>1, <6>1, <6>3
                    <6> QED
                        BY <6>2, <6>3
                <5>2. ASSUME NEW f \in CutsOf(e) PROVE f \in CutsOf(e)'
                    BY <1>1, <1>5, <1>6, <1>9, <5>2 DEF CutsOf
                <5>3. ASSUME NEW f \in new PROVE f \in CutsOf(e)'
                    <6>1. PICK i \in 1..n : f = m + i
                        BY <4>1, <5>3
                    <6>2. f \in 1..(m + n) /\ devices'[f].parent = e
                        BY <1>7, <1>9, <3>2, <6>1
                    <6> QED
                        BY <1>5, <6>2 DEF CutsOf
                <5> QED
                    BY <5>1, <5>2, <5>3
            <4>4. CutsOf(e) \cap new = {}
                <5>1. \A f \in CutsOf(e) : f \in 1..m
                    BY <1>1 DEF CutsOf
                <5> QED
                    BY <1>9, <4>1, <5>1
            <4>5. IsFiniteSet(CutsOf(e))
                BY <1>9, <1>18
            <4>6. Cardinality(CutsOf(e) \cup new) =
                      Cardinality(CutsOf(e)) + Cardinality(new) - Cardinality(CutsOf(e) \cap new)
                BY <4>2, <4>5, FS_Union
            <4>7. Cardinality(CutsOf(e) \cap new) = 0
                BY <4>4, FS_EmptySet
            <4>8. more = n
                BY <3>2
            <4> HIDE DEF more
            <4> QED
                BY <1>2, <2>1, <4>2, <4>3, <4>6, <4>7, <4>8
        <3> QED
            BY <3>1, <3>2
    <2>5. Due(e)' = dheld[e] + c + q + (k + more)
        <3>1. Due(e)' = dheld'[e] + Cardinality(ContextsOn(e)') + Cardinality(QueuesOn(e)')
                        + Cardinality(CutsOf(e)')
            BY DEF Due
        <3>2. ContextsOn(e)' = ContextsOn(e) /\ QueuesOn(e)' = QueuesOn(e)
            BY <1>9, <1>18
        <3>3. dheld'[e] = dheld[e]
            BY <1>12
        <3>4. Cardinality(ContextsOn(e)') = c /\ Cardinality(QueuesOn(e)') = q
            BY <3>2
        <3>5. Cardinality(CutsOf(e)') = k + more
            BY <2>4
        <3> HIDE DEF c, q, k, more
        <3> QED
            BY <3>1, <3>3, <3>4, <3>5
    <2> DEFINE h == dheld[e]
    <2>6. c \in Nat /\ q \in Nat /\ k \in Nat /\ more \in Nat /\ h \in Int
        BY <2>1
    <2> HIDE DEF c, q, k, more, h
    <2>7. (h + c + q + k) + more = h + c + q + (k + more)
        BY <2>6
    <2> QED
        BY <2>2, <2>3, <2>5, <2>7 DEF h
<1>20. ASSUME NEW f \in 1..(m + n), f \notin 1..m PROVE devices'[f].refs = Due(f)'
    <2>1. PICK i \in 1..n : f = m + i
        BY <1>8, <1>20
    <2>2. f \notin 0..m /\ f # d
        BY <1>1, <1>9, <1>20, <2>1
    <2>3. ContextsOn(f) = {} /\ QueuesOn(f) = {}
        <3>1. DOMAIN contexts = 1..Len(contexts) /\ DOMAIN queues = 1..Len(queues)
            BY <1>1 DEF UsersTypeInv
        <3>2. /\ \A c \in DOMAIN contexts : contexts[c].devs \subseteq 1..m
              /\ \A q \in DOMAIN queues : queues[q].dev \in 1..m
            BY <1>1, <3>1 DEF UsersTypeInv, m
        <3> QED
            BY <1>20, <3>2 DEF ContextsOn, QueuesOn
    <2>4. CutsOf(f)' = {}
        <3>1. ASSUME NEW g \in 1..(m + n) PROVE devices'[g].parent # f
            <4>1. CASE g \in 1..m
                <5>1. devices[g].parent \in 0..m /\ devices'[g].parent = devices[g].parent
                    BY <1>1, <1>6, <4>1
                <5> QED
                    BY <2>2, <5>1
            <4>2. CASE g \notin 1..m
                <5>1. devices'[g].parent = d
                    BY <1>7, <1>8, <4>2
                <5> QED
                    BY <2>2, <5>1
            <4> QED
                BY <4>1, <4>2
        <3> QED
            BY <1>5, <3>1 DEF CutsOf
    <2>5. devices'[f].refs = 1 /\ dheld'[f] = 1
        BY <1>7, <1>12, <2>1
    <2>6. Due(f)' = dheld'[f] + Cardinality(ContextsOn(f)') + Cardinality(QueuesOn(f)')
                    + Cardinality(CutsOf(f)')
        BY DEF Due
    <2>7. ContextsOn(f)' = {} /\ QueuesOn(f)' = {}
        BY <1>18, <2>3
    <2>8. Cardinality({}) = 0
        BY FS_EmptySet
    <2> QED
        BY <2>4, <2>5, <2>6, <2>7, <2>8
<1>21. RefsMatchUsers'
    <2>1. RefsMatchUsers' <=> \A f \in DOMAIN devices' : IsSubDevice(f)' => devices'[f].refs = Due(f)'
        BY DEF RefsMatchUsers, Due, ContextsOn, QueuesOn, CutsOf
    <2>2. ASSUME NEW f \in 1..(m + n), devices'[f].parent # 0 PROVE devices'[f].refs = Due(f)'
        <3>1. CASE f \in 1..m
            <4>1. devices[f].parent # 0
                BY <1>6, <2>2, <3>1
            <4> QED
                BY <1>19, <3>1, <4>1
        <3>2. CASE f \notin 1..m
            BY <1>20, <3>2
        <3> QED
            BY <3>1, <3>2
    <2> QED
        BY <1>5, <2>1, <2>2 DEF IsSubDevice
<1> QED
    BY <1>11, <1>12, <1>17, <1>21 DEF DeviceInv

LEMMA CreateSubDevicesKeeps ==
    ASSUME DeviceKinds, DeviceInv, NEW d \in 1..Len(devices), NEW part \in Parts,
           NEW wanted \in BOOLEAN, NEW num, clCreateSubDevices(d, part, wanted, num)
    PROVE  DeviceInv'
<1> DEFINE cuts == createSubDevices(devices[d], part)
           n == Len(cuts)
           kept == wanted /\ num >= n
           all == Retained(devices, d, n)
<1>1. CASE AssertionFails(devices[d], part)
    <2>1. UNCHANGED <<devices, dheld, contexts, queues>>
        BY <1>1 DEF clCreateSubDevices
    <2> QED
        BY <2>1, SameUsersKeep DEF DeviceInv, UsersTypeInv
<1>2. CASE ~AssertionFails(devices[d], part)
    <2>1. /\ ValidPart(part) /\ isPartitionSupported(devices[d], part)
          /\ devices' = IF kept THEN all \o Made(d, cuts) ELSE Released(all, d, n)
          /\ dheld' = IF kept THEN dheld \o [i \in 1..n |-> 1] ELSE dheld
          /\ UNCHANGED <<contexts, queues>>
        BY <1>2 DEF clCreateSubDevices, Made
    <2>2. devices[d].HWCPUs \in Seq(Range(CPUs)) /\ IsInjective(devices[d].HWCPUs)
        <3>1. devices[d] \in DeviceType
            BY DEF DeviceInv, DevicesInv
        <3> QED
            BY <3>1 DEF DeviceType, DeviceInv, DevicesInv
    <2>3. CutsAreApart(devices[d].HWCPUs, cuts)
        BY <2>1, <2>2, CreatedAreApart
    <2> HIDE DEF cuts
    <2>4. n \in Nat
        BY <2>3 DEF CutsAreApart
    <2>5. CASE kept
        BY <2>1, <2>3, <2>5, CutsKept
    <2>6. CASE ~kept
        <3>1. /\ devices' = Released(all, d, n) /\ UNCHANGED <<dheld, contexts, queues>>
              /\ SameTree(devices, devices')
              /\ \A e \in 1..Len(devices) : devices'[e].refs = devices[e].refs
            BY <2>1, <2>4, <2>6, ReleasedIs DEF DeviceInv
        <3>2. UsersTypeInv'
            BY <3>1 DEF DeviceInv, UsersTypeInv, SameTree
        <3>3. ASSUME NEW e \in 1..Len(devices)
              PROVE  devices'[e].refs - devices[e].refs
                         = (dheld'[e] - dheld[e])
                           + (Cardinality(ContextsOn(e)') - Cardinality(ContextsOn(e)))
                           + (Cardinality(QueuesOn(e)') - Cardinality(QueuesOn(e)))
            <4>1. ContextsOn(e)' = ContextsOn(e) /\ QueuesOn(e)' = QueuesOn(e)
                BY <3>1 DEF ContextsOn, QueuesOn
            <4>2. Cardinality(ContextsOn(e)) \in Nat /\ Cardinality(QueuesOn(e)) \in Nat
                BY UsersAreFinite DEF DeviceInv, DevicesInv, UsersTypeInv
            <4>3. dheld[e] \in Int /\ devices[e].refs \in Int
                BY DevicesAre, RefsAreInt DEF DeviceInv, DevicesInv
            <4> QED
                BY <3>1, <4>1, <4>2, <4>3
        <3> QED
            BY <3>1, <3>2, <3>3, SameTreeKeeps
    <2> QED
        BY <2>5, <2>6
<1> QED
    BY <1>1, <1>2

LEMMA DeviceInvariant ==
    ASSUME DeviceKinds
    PROVE  DeviceSpec => []DeviceInv
<1>1. DeviceInit => DeviceInv
    <2>1. SUFFICES ASSUME DeviceInit PROVE DeviceInv
        OBVIOUS
    <2> DEFINE dom == SupportedAffinityDomains({}, CPUs)
               dev == [parent |-> 0, HWCPUs |-> CPUs, refs |-> 1, call |-> 0, domains |-> dom]
    <2>2. dom \in SUBSET (Domains \cup {"NEXT"})
        BY DomainsAre
    <2>3. CPUs \in Seq(Range(CPUs)) /\ IsInjective(CPUs)
        BY DEF DeviceKinds
    <2>4. devices = <<dev>> /\ dheld = <<1>> /\ contexts = <<>> /\ queues = <<>>
        BY <2>1 DEF DeviceInit
    <2> HIDE DEF dom
    <2>5. dev \in DeviceType /\ dev.parent = 0 /\ dev.call = 0 /\ dev.HWCPUs = CPUs
        BY <2>2, <2>3 DEF DeviceType
    <2> HIDE DEF dev
    <2>6. devices \in Seq(DeviceType) /\ Len(devices) = 1 /\ DOMAIN devices = {1} /\ devices[1] = dev
        BY <2>4, <2>5
    <2>7. DevicesInv
        BY <2>3, <2>5, <2>6 DEF DevicesInv
    <2>8. UsersTypeInv
        BY <2>4, <2>6 DEF UsersTypeInv
    <2>9. SiblingsAreApart /\ RefsMatchUsers
        BY <2>5, <2>6 DEF SiblingsAreApart, RefsMatchUsers, IsSubDevice
    <2> QED
        BY <2>7, <2>8, <2>9 DEF DeviceInv
<1>2. DeviceInv /\ [DeviceNext]_deviceVars => DeviceInv'
    <2>1. SUFFICES ASSUME DeviceInv, [DeviceNext]_deviceVars PROVE DeviceInv'
        OBVIOUS
    <2>2. \A d \in Usable : d \in 1..Len(devices)
        BY <2>1, DevicesAre DEF Usable
    <2>3. ASSUME NEW d \in Usable, NEW part \in Parts, NEW wanted \in BOOLEAN,
                 NEW num \in {0, 1, MaxDevices}, clCreateSubDevices(d, part, wanted, num)
          PROVE  DeviceInv'
        BY <2>1, <2>2, <2>3, CreateSubDevicesKeeps
    <2>4. ASSUME NEW d \in Usable, clRetainDevice(d) PROVE DeviceInv'
        <3>1. /\ devices' = AddRefs(devices, d, 1) /\ dheld' = [dheld EXCEPT ![d] = dheld[d] + 1]
              /\ UNCHANGED <<contexts, queues>>
            BY <2>4 DEF clRetainDevice
        <3>2. d \in 1..Len(devices) /\ 1 \in Int
            BY <2>2
        <3> QED
            BY <2>1, <3>1, <3>2, HeldMoves
    <2>5. ASSUME NEW d \in Usable, clReleaseDevice(d) PROVE DeviceInv'
        <3>1. /\ devices' = AddRefs(devices, d, -1) /\ dheld' = [dheld EXCEPT ![d] = dheld[d] - 1]
              /\ UNCHANGED <<contexts, queues>>
            BY <2>5 DEF clReleaseDevice
        <3>2. d \in 1..Len(devices) /\ dheld[d] \in Int
            BY <2>1, <2>2, DevicesAre
        <3>3. dheld[d] - 1 = dheld[d] + (-1) /\ -1 \in Int
            BY <3>2
        <3>4. dheld' = [dheld EXCEPT ![d] = dheld[d] + (-1)]
            BY <3>1, <3>3
        <3> QED
            BY <2>1, <3>1, <3>2, <3>3, <3>4, HeldMoves
    <2>6. ASSUME NEW d \in Usable, NEW e \in Usable, clCreateContext({d, e}) PROVE DeviceInv'
        BY <2>1, <2>2, <2>6, CreateContextKeeps
    <2>7. ASSUME NEW c \in DOMAIN contexts, clReleaseContext(c) PROVE DeviceInv'
        <3>1. contexts' = AddRefs(contexts, c, -1) /\ UNCHANGED <<devices, dheld, queues>>
            BY <2>7 DEF clReleaseContext
        <3>2. UsersTypeInv /\ -1 \in Int
            BY <2>1 DEF DeviceInv
        <3>3. /\ contexts' \in Seq(ContextType) /\ DOMAIN contexts' = DOMAIN contexts
              /\ \A i \in DOMAIN contexts : contexts'[i].devs = contexts[i].devs
            BY <3>1, <3>2, ContextRefs
        <3> QED
            BY <2>1, <3>1, <3>2, <3>3, SameUsersKeep DEF UsersTypeInv
    <2>8. ASSUME NEW c \in DOMAIN contexts, NEW d \in Usable, clCreateCommandQueue(c, d)
          PROVE  DeviceInv'
        BY <2>1, <2>2, <2>8, CreateQueueKeeps
    <2>9. ASSUME NEW q \in DOMAIN queues, clReleaseCommandQueue(q) PROVE DeviceInv'
        <3>1. queues' = AddRefs(queues, q, -1) /\ UNCHANGED <<devices, dheld, contexts>>
            BY <2>9 DEF clReleaseCommandQueue
        <3>2. UsersTypeInv /\ -1 \in Int
            BY <2>1 DEF DeviceInv
        <3>3. /\ queues' \in Seq(QueueType) /\ DOMAIN queues' = DOMAIN queues
              /\ \A i \in DOMAIN queues : queues'[i].dev = queues[i].dev
            BY <3>1, <3>2, QueueRefs
        <3> QED
            BY <2>1, <3>1, <3>2, <3>3, SameUsersKeep DEF UsersTypeInv
    <2>10. ASSUME UNCHANGED deviceVars PROVE DeviceInv'
        BY <2>1, <2>10, SameUsersKeep DEF deviceVars, DeviceInv, UsersTypeInv
    <2> QED
        BY <2>1, <2>3, <2>4, <2>5, <2>6, <2>7, <2>8, <2>9, <2>10 DEF DeviceNext
<1> QED
    BY <1>1, <1>2, PTL DEF DeviceSpec

\* Whatever the machine and the partitions asked for, the sub-devices of one
\* call have CPUs of their parent, each once, and share none; and a sub-device
\* has the references of its users, also after calls that failed when they had
\* made sub-devices (clCreateSubDevices, CPUDevice::createSubDevices).
THEOREM Sub_Devices_Are_Apart ==
    ASSUME DeviceKinds
    PROVE  DeviceSpec => []SubDevicesAreApart
<1>1. DeviceInv => SubDevicesAreApart
    BY DEF DeviceInv, SubDevicesAreApart
<1> QED
    BY <1>1, DeviceInvariant, PTL

---------------------------------------------------------------------------
(* What a chain of checks notifies.                                        *)

Errors == {InvalidValue, InvalidMemObject, InvalidOperation, InvalidContext, InvalidQueue,
           InvalidWaitList, ErrorInWaitList, CopyOverlap, FormatMismatch, InvalidImageSize,
           FormatNotSupported}

LEMMA NothingWrong ==
    ASSUME NEW b, NEW e
    PROVE  Check(b, e) = <<>> <=> ~b
<1>1. Check(b, e) = <<>> <=> {i \in 1..Len(<< <<b, e>> >>) : (<< <<b, e>> >>)[i][1]} = {}
    BY DEF Check, FirstOf
<1> QED
    BY <1>1

LEMMA NothingWrongInTwo ==
    ASSUME NEW b1, NEW e1, NEW b2, NEW e2
    PROVE  FirstOf(<< <<b1, e1>>, <<b2, e2>> >>) = <<>> <=> ~b1 /\ ~b2
<1> DEFINE checks == << <<b1, e1>>, <<b2, e2>> >>
<1>1. FirstOf(checks) = <<>> <=> {i \in 1..Len(checks) : checks[i][1]} = {}
    BY DEF FirstOf
<1> QED
    BY <1>1

LEMMA NothingWrongInThree ==
    ASSUME NEW b1, NEW e1, NEW b2, NEW e2, NEW b3, NEW e3
    PROVE  FirstOf(<< <<b1, e1>>, <<b2, e2>>, <<b3, e3>> >>) = <<>> <=> ~b1 /\ ~b2 /\ ~b3
<1> DEFINE checks == << <<b1, e1>>, <<b2, e2>>, <<b3, e3>> >>
<1>1. FirstOf(checks) = <<>> <=> {i \in 1..Len(checks) : checks[i][1]} = {}
    BY DEF FirstOf
<1> QED
    BY <1>1

\* Sequences of errors.
IsErrors(s) == s \in Seq(Errors)

LEMMA ErrorsOfOne ==
    ASSUME NEW b, NEW e \in Errors
    PROVE  IsErrors(Check(b, e))
<1>1. <<>> \in Seq(Errors) /\ <<e>> \in Seq(Errors)
    OBVIOUS
<1>2. Check(b, e) \in {<<>>, <<e>>}
    BY CheckIs
<1> QED
    BY <1>1, <1>2 DEF IsErrors

LEMMA ErrorsOfTwo ==
    ASSUME NEW b1, NEW e1 \in Errors, NEW b2, NEW e2 \in Errors
    PROVE  IsErrors(FirstOf(<< <<b1, e1>>, <<b2, e2>> >>))
<1> DEFINE checks == << <<b1, e1>>, <<b2, e2>> >>
<1>1. \A i \in 1..Len(checks) : checks[i][2] \in Errors
    OBVIOUS
<1> HIDE DEF checks
<1>2. <<>> \in Seq(Errors) /\ \A e \in Errors : <<e>> \in Seq(Errors)
    OBVIOUS
<1>3. FirstOf(checks) = <<>> \/ \E i \in 1..Len(checks) : FirstOf(checks) = <<checks[i][2]>>
    BY FirstOfIs
<1>4. FirstOf(checks) \in Seq(Errors)
    BY <1>1, <1>2, <1>3
<1> QED
    BY <1>4 DEF IsErrors, checks

LEMMA ErrorsOfThree ==
    ASSUME NEW b1, NEW e1 \in Errors, NEW b2, NEW e2 \in Errors, NEW b3, NEW e3 \in Errors
    PROVE  IsErrors(FirstOf(<< <<b1, e1>>, <<b2, e2>>, <<b3, e3>> >>))
<1> DEFINE checks == << <<b1, e1>>, <<b2, e2>>, <<b3, e3>> >>
<1>1. \A i \in 1..Len(checks) : checks[i][2] \in Errors
    OBVIOUS
<1> HIDE DEF checks
<1>2. <<>> \in Seq(Errors) /\ \A e \in Errors : <<e>> \in Seq(Errors)
    OBVIOUS
<1>3. FirstOf(checks) = <<>> \/ \E i \in 1..Len(checks) : FirstOf(checks) = <<checks[i][2]>>
    BY FirstOfIs
<1>4. FirstOf(checks) \in Seq(Errors)
    BY <1>1, <1>2, <1>3
<1> QED
    BY <1>4 DEF IsErrors, checks

LEMMA ErrorsOfBoth ==
    ASSUME NEW s, IsErrors(s), NEW t, IsErrors(t)
    PROVE  IsErrors(s \o t) /\ (s \o t = <<>> <=> s = <<>> /\ t = <<>>)
BY DEF IsErrors

\* A command is made when nothing was notified.
LEMMA NothingNotified ==
    ASSUME NEW nulls, NEW early, IsErrors(early), NEW errors, IsErrors(errors)
    PROVE  Result(nulls, early, errors) = Success <=>
               "queue" \notin nulls /\ early = <<>> /\ errors = <<>>
<1>1. Success \notin Errors /\ InvalidQueue \in Errors
    BY DEF Errors, Success, InvalidValue, InvalidMemObject, InvalidOperation, InvalidContext,
           InvalidQueue, InvalidWaitList, ErrorInWaitList, CopyOverlap, FormatMismatch,
           InvalidImageSize, FormatNotSupported
<1>2. early # <<>> => early[1] \in Errors
    BY DEF IsErrors
<1>3. errors # <<>> => errors[Len(errors)] \in Errors
    BY DEF IsErrors
<1> QED
    BY <1>1, <1>2, <1>3 DEF Result, Create

LEMMA MadeIsChecked ==
    ASSUME NEW nulls, NEW early, IsErrors(early), NEW errors, IsErrors(errors),
           Result(nulls, early, errors) = Success
    PROVE  errors = <<>>
<1>1. Success \notin Errors
    BY DEF Errors, Success, InvalidValue, InvalidMemObject, InvalidOperation, InvalidContext,
           InvalidQueue, InvalidWaitList, ErrorInWaitList, CopyOverlap, FormatMismatch,
           InvalidImageSize, FormatNotSupported
<1>2. errors # <<>> => errors[Len(errors)] \in Errors
    BY DEF IsErrors
<1>3. InvalidQueue # Success /\ (early # <<>> => early[1] \in Errors)
    BY DEF IsErrors, InvalidQueue, Success
<1> QED
    BY <1>1, <1>2, <1>3 DEF Result, Create

LEMMA WaitListErrors ==
    ASSUME NEW wl, NEW blocking
    PROVE  /\ IsErrors(CheckedWaitList(wl, blocking))
           /\ wl = NoWaitList => CheckedWaitList(wl, blocking) = <<>>
<1> DEFINE s == SetWaitList(wl)
           failed1 == blocking /\ IsWaitListInconsistent(wl)
           failed2 == "foreign" \in Stored(wl)
           t == FirstOf(<< <<failed1, ErrorInWaitList>>, <<failed2, InvalidContext>> >>)
           wrong == \/ (wl.n > 0) # wl.given
                    \/ wl.given /\ "null" \in {wl.evs[i] : i \in 1..Len(wl.evs)}
<1>1. InvalidWaitList \in Errors /\ ErrorInWaitList \in Errors /\ InvalidContext \in Errors
    BY DEF Errors
<1>2. IsErrors(s)
    BY <1>1, ErrorsOfOne DEF SetWaitList
<1>3. IsErrors(t)
    BY <1>1, ErrorsOfTwo
<1>4. CheckedWaitList(wl, blocking) = s \o t
    BY DEF CheckedWaitList
<1>5. ASSUME wl = NoWaitList PROVE s = <<>> /\ t = <<>>
    <2>1. wl.n = 0 /\ ~wl.given
        BY <1>5 DEF NoWaitList
    <2>2. Stored(wl) = {}
        BY <2>1 DEF Stored
    <2>3. s = <<>>
        <3>1. s = Check(wrong, InvalidWaitList)
            BY DEF SetWaitList
        <3>2. wl.given = FALSE /\ (wl.n > 0) = FALSE
            BY <1>5 DEF NoWaitList
        <3>3. ~wrong
            BY <3>2
        <3> HIDE DEF wrong, s
        <3> QED
            BY <3>1, <3>3, NothingWrong
    <2>4. t = <<>>
        <3>1. ~failed1 /\ ~failed2
            BY <2>2 DEF IsWaitListInconsistent
        <3> HIDE DEF failed1, failed2
        <3> QED
            BY <3>1, NothingWrongInTwo
    <2> QED
        BY <2>3, <2>4
<1> QED
    BY <1>2, <1>3, <1>4, <1>5, ErrorsOfBoth

LEMMA BufferErrorsAre ==
    ASSUME NEW b, NEW denied
    PROVE  /\ IsErrors(BufferErrors(b, denied))
           /\ BufferErrors(b, denied) = <<>> <=>
                  b.kind = "buffer" /\ b.flags \cap denied = {} /\ b.ctx = Ctx
<1>1. InvalidMemObject \in Errors /\ InvalidOperation \in Errors /\ InvalidContext \in Errors
    BY DEF Errors
<1>2. IsErrors(BufferErrors(b, denied))
    BY <1>1, ErrorsOfThree DEF BufferErrors
<1> DEFINE other == b.kind # "buffer"
           forbidden == b.flags \cap denied # {}
           foreign == b.ctx # Ctx
<1>3. BufferErrors(b, denied) =
          FirstOf(<< <<other, InvalidMemObject>>, <<forbidden, InvalidOperation>>,
                     <<foreign, InvalidContext>> >>)
    BY DEF BufferErrors
<1> HIDE DEF other, forbidden, foreign
<1>4. BufferErrors(b, denied) = <<>> <=> ~other /\ ~forbidden /\ ~foreign
    BY <1>3, NothingWrongInThree
<1> QED
    BY <1>2, <1>4 DEF other, forbidden, foreign

---------------------------------------------------------------------------
(* What a transfer leaves in memory.                                       *)

\* The cells that a cell gets its content from: one, if any.
FromCells(moves, i) == {mv[2] : mv \in {p \in moves : p[1] = i}}
OneSource(moves) == \A p, q \in moves : p[1] = q[1] => p[2] = q[2]

MemTypeInv ==
    /\ mem = [id \in DOMAIN mem |-> mem[id]]
    /\ \A id \in DOMAIN mem : DOMAIN mem[id] \in SUBSET Nat

LEMMA MovedIs ==
    ASSUME NEW m, m = [id \in DOMAIN m |-> m[id]], NEW target, NEW source,
           NEW moves, OneSource(moves), NEW id \in DOMAIN m
    PROVE  LET new == Moved(m, target, source, moves)
           IN  /\ new = [k \in DOMAIN m |-> new[k]]
               /\ DOMAIN new[id] = DOMAIN m[id]
               /\ \A i \in DOMAIN m[id] :
                      LET from == IF target = id THEN FromCells(moves, i) ELSE {}
                      IN  IF from = {} THEN new[id][i] = m[id][i]
                          ELSE \A j \in from \cap DOMAIN m[source] : new[id][i] = m[source][j]
<1> DEFINE Known(i) == FromCells(moves, i) \cap DOMAIN m[source]
           cells == [i \in DOMAIN m[target] |->
                        IF Known(i) = {} THEN m[target][i]
                        ELSE m[source][CHOOSE f \in Known(i) : TRUE]]
           new == Moved(m, target, source, moves)
<1>1. new = [m EXCEPT ![target] = cells]
    BY DEF Moved, FromCells
<1>2. \A i : \A j, k \in FromCells(moves, i) : j = k
    BY DEF FromCells, OneSource
<1>3. \A i \in DOMAIN m[target] : \A j \in Known(i) : cells[i] = m[source][j]
    <2>1. ASSUME NEW i \in DOMAIN m[target], NEW j \in Known(i) PROVE cells[i] = m[source][j]
        <3>1. (CHOOSE f \in Known(i) : TRUE) \in Known(i)
            BY <2>1
        <3>2. (CHOOSE f \in Known(i) : TRUE) = j
            BY <1>2, <2>1, <3>1
        <3> QED
            BY <2>1, <3>2
    <2> QED
        BY <2>1
<1>4. \A i \in DOMAIN m[target] : Known(i) = {} => cells[i] = m[target][i]
    OBVIOUS
<1>5. DOMAIN cells = DOMAIN m[target]
    OBVIOUS
<1>6. new = [k \in DOMAIN m |-> IF k = target THEN cells ELSE m[k]]
    <2> HIDE DEF cells, new
    <2> QED
        BY <1>1
<1> HIDE DEF cells, new
<1>7. CASE target # id
    <2>1. new[id] = m[id]
        BY <1>6, <1>7
    <2> QED
        BY <1>6, <1>7, <2>1 DEF new
<1>8. CASE target = id
    <2>1. new[id] = cells
        BY <1>6, <1>8
    <2>2. ASSUME NEW i \in DOMAIN m[id], FromCells(moves, i) = {}
          PROVE  new[id][i] = m[id][i]
        BY <1>4, <1>8, <2>1, <2>2
    <2>3. ASSUME NEW i \in DOMAIN m[id], NEW j \in FromCells(moves, i) \cap DOMAIN m[source]
          PROVE  new[id][i] = m[source][j]
        BY <1>3, <1>8, <2>1, <2>3
    <2> QED
        BY <1>5, <1>6, <1>8, <2>1, <2>2, <2>3 DEF new
<1> QED
    BY <1>7, <1>8

\* A call that moves from a cell to another what it should is exact.
LEMMA MovedExactly ==
    ASSUME MemTypeInv, NEW api, NEW a, NEW err, NEW target, NEW source, NEW moves,
           Enqueue(api, a, err, target, source, moves),
           err = Success =>
               /\ OneSource(moves)
               /\ \A i \in Nat : Sources(lastCommand', i) = FromCells(moves, i)
    PROVE  MovesExactly /\ MemTypeInv'
<1> DEFINE done == IF err = Success THEN moves ELSE NoMoves
<1>1. /\ lastCommand' = [api |-> api, args |-> a, err |-> err,
                         target |-> target, source |-> source, moves |-> done]
      /\ mem' = IF done = NoMoves THEN mem ELSE Moved(mem, target, source, done)
    BY DEF Enqueue
<1>2. lastCommand'.err = err /\ lastCommand'.target = target /\ lastCommand'.source = source
    BY <1>1
<1>3. CASE done = NoMoves
    <2>1. mem' = mem
        BY <1>1, <1>3
    <2>2. \A i \in Nat : err = Success => Sources(lastCommand', i) = {}
        BY <1>3 DEF FromCells, NoMoves
    <2> QED
        BY <1>2, <2>1, <2>2 DEF MovesExactly, MemTypeInv
<1>4. CASE done # NoMoves
    <2>1. err = Success /\ done = moves /\ mem' = Moved(mem, target, source, moves)
        BY <1>1, <1>4
    <2> HIDE DEF done
    <2>2. OneSource(moves) /\ \A i \in Nat : Sources(lastCommand', i) = FromCells(moves, i)
        BY <2>1
    <2>3. ASSUME NEW id \in DOMAIN mem
          PROVE  /\ mem' = [k \in DOMAIN mem |-> mem'[k]]
                 /\ DOMAIN mem'[id] = DOMAIN mem[id]
                 /\ \A i \in DOMAIN mem[id] :
                      LET from == IF target = id THEN FromCells(moves, i) ELSE {}
                      IN  IF from = {} THEN mem'[id][i] = mem[id][i]
                          ELSE \A j \in from \cap DOMAIN mem[source] : mem'[id][i] = mem[source][j]
        BY <2>1, <2>2, <2>3, MovedIs DEF MemTypeInv
    <2>4. MemTypeInv'
        <3>1. CASE DOMAIN mem = {}
            BY <2>1, <3>1 DEF MemTypeInv, Moved
        <3>2. CASE DOMAIN mem # {}
            BY <2>3, <3>2 DEF MemTypeInv
        <3> QED
            BY <3>1, <3>2
    <2>5. MovesExactly
        <3>1. SUFFICES ASSUME NEW id \in DOMAIN mem, NEW i \in DOMAIN mem[id]
              PROVE  LET from == IF target = id THEN Sources(lastCommand', i) ELSE {}
                     IN  IF from = {} THEN mem'[id][i] = mem[id][i]
                         ELSE \A j \in from \cap DOMAIN mem[source] :
                                  mem'[id][i] = mem[source][j]
            BY <1>2, <2>1 DEF MovesExactly
        <3>2. Sources(lastCommand', i) = FromCells(moves, i)
            BY <2>2, <3>1 DEF MemTypeInv
        <3> QED
            BY <2>3, <3>1, <3>2
    <2> QED
        BY <2>4, <2>5
<1> QED
    BY <1>3, <1>4

LEMMA MemcpyIs ==
    ASSUME NEW to \in Nat, NEW fr \in Nat, NEW n \in Nat
    PROVE  LET moves == Memcpy(to, fr, n)
           IN  /\ OneSource(moves)
               /\ \A i \in Nat : FromCells(moves, i) =
                      IF to <= i /\ i < to + n THEN {fr + (i - to)} ELSE {}
               /\ \A mv \in moves : \E k \in 0..(n - 1) : mv = <<to + k, fr + k>>
<1> DEFINE moves == Memcpy(to, fr, n)
<1>1. \A mv \in moves : \E k \in 0..(n - 1) : mv = <<to + k, fr + k>>
    BY DEF Memcpy
<1>2. \A k \in 0..(n - 1) : <<to + k, fr + k>> \in moves
    BY DEF Memcpy
<1> HIDE DEF moves
<1>3. \A mv \in moves : mv[1] \in to..(to + n - 1) /\ mv[2] = fr + (mv[1] - to)
    BY <1>1
<1>4. \A i \in to..(to + n - 1) : <<i, fr + (i - to)>> \in moves
    <2>1. ASSUME NEW i \in to..(to + n - 1) PROVE <<i, fr + (i - to)>> \in moves
        <3>1. i - to \in 0..(n - 1) /\ to + (i - to) = i
            BY <2>1
        <3> QED
            BY <1>2, <3>1
    <2> QED
        BY <2>1
<1>5. OneSource(moves)
    BY <1>3 DEF OneSource
<1>6. ASSUME NEW i \in Nat
      PROVE  FromCells(moves, i) = IF to <= i /\ i < to + n THEN {fr + (i - to)} ELSE {}
    <2>1. CASE to <= i /\ i < to + n
        <3>1. <<i, fr + (i - to)>> \in moves
            BY <1>4, <2>1
        <3>2. fr + (i - to) \in FromCells(moves, i)
            BY <3>1 DEF FromCells
        <3>3. \A j \in FromCells(moves, i) : j = fr + (i - to)
            BY <1>3 DEF FromCells
        <3> QED
            BY <2>1, <3>2, <3>3
    <2>2. CASE ~(to <= i /\ i < to + n)
        BY <1>3, <2>2 DEF FromCells
    <2> QED
        BY <2>1, <2>2
<1> QED
    BY <1>1, <1>5, <1>6 DEF moves

LEMMA Quotient ==
    ASSUME NEW n \in Nat, NEW size \in Nat \ {0}
    PROVE  n = size * (n \div size) + (n % size) /\ n \div size \in Nat /\ n % size \in 0..n
<1>1. n = size * (n \div size) + (n % size) /\ n \div size \in Nat
    OBVIOUS
<1>2. n % size \in 0..n
    BY Z3
<1> QED
    BY <1>1, <1>2

LEMMA WholePatterns ==
    ASSUME NEW n \in Nat, NEW size \in Nat \ {0}, n % size = 0
    PROVE  (n \div size) * size = n /\ \A k \in Nat : k % size \in 0..k
<1> DEFINE q == n \div size
<1>1. n = size * q + 0 /\ q \in Nat
    BY Quotient
<1> HIDE DEF q
<1>2. q * size = n
    BY <1>1
<1> QED
    BY <1>2, Quotient DEF q

Fills(moves, to, n, size) ==
    /\ OneSource(moves)
    /\ \A i \in Nat : FromCells(moves, i) =
           IF to <= i /\ i < to + n THEN {(i - to) % size} ELSE {}
    /\ \A mv \in moves : \E k \in 0..(n - 1) : mv = <<to + k, k % size>>

LEMMA MemFillIs ==
    ASSUME NEW to \in Nat, NEW n \in Nat, NEW size \in Nat \ {0}, n % size = 0
    PROVE  Fills(MemFill(to, n, size), to, n, size)
<1> DEFINE moves == MemFill(to, n, size)
           rest == [k \in Nat |-> k % size]
<1>1. moves = {<<to + k, rest[k]>> : k \in 0..(n - 1)}
    <2>1. moves = {<<to + k, k % size>> : k \in 0..(n - 1)}
        BY WholePatterns DEF MemFill
    <2>2. \A k \in 0..(n - 1) : rest[k] = k % size
        OBVIOUS
    <2> QED
        BY <2>1, <2>2
<1>2. \A k \in Nat : rest[k] = k % size
    OBVIOUS
<1> HIDE DEF moves, rest
<1>3. \A mv \in moves : mv[1] \in to..(to + n - 1) /\ mv[2] = rest[mv[1] - to]
    BY <1>1
<1>4. \A i \in to..(to + n - 1) : <<i, rest[i - to]>> \in moves
    <2>1. ASSUME NEW i \in to..(to + n - 1) PROVE <<i, rest[i - to]>> \in moves
        <3>1. i - to \in 0..(n - 1) /\ to + (i - to) = i
            BY <2>1
        <3>2. <<to + (i - to), rest[i - to]>> \in moves
            BY <1>1, <3>1
        <3> QED
            BY <3>1, <3>2
    <2> QED
        BY <2>1
<1>5. OneSource(moves)
    BY <1>3 DEF OneSource
<1>6. ASSUME NEW i \in Nat
      PROVE  FromCells(moves, i) = IF to <= i /\ i < to + n THEN {(i - to) % size} ELSE {}
    <2>1. CASE to <= i /\ i < to + n
        <3>1. <<i, rest[i - to]>> \in moves
            BY <1>4, <2>1
        <3>2. rest[i - to] \in FromCells(moves, i)
            BY <3>1 DEF FromCells
        <3>3. \A j \in FromCells(moves, i) : j = rest[i - to]
            BY <1>3 DEF FromCells
        <3>4. rest[i - to] = (i - to) % size
            BY <1>2, <2>1
        <3> QED
            BY <2>1, <3>2, <3>3, <3>4
    <2>2. CASE ~(to <= i /\ i < to + n)
        BY <1>3, <2>2 DEF FromCells
    <2> QED
        BY <2>1, <2>2
<1>7. \A mv \in moves : \E k \in 0..(n - 1) : mv = <<to + k, k % size>>
    BY <1>1, <1>2
<1> QED
    BY <1>5, <1>6, <1>7 DEF moves, Fills

---------------------------------------------------------------------------
(* Rectangles: the cells of a region have places of their own in an object *)
(* when the pitches leave room for the rows and slices.                    *)

IsSide(side) ==
    /\ \A i \in 1..3 : side.origin[i] \in Nat
    /\ side.row \in Nat /\ side.slice \in Nat

IsRegion(r) == \A i \in 1..3 : r[i] \in Nat

Roomy(side, r) ==
    /\ side.row # 0 => side.row >= r[1]
    /\ side.slice # 0 => side.slice >= r[2] * RowPitch(side, r)

LEMMA ProductIsNat ==
    ASSUME NEW x \in Nat, NEW y \in Nat
    PROVE  x * y \in Nat
OBVIOUS

LEMMA ProductGrows ==
    ASSUME NEW x \in Nat, NEW y \in Nat, NEW n \in Nat, x <= y
    PROVE  x * n <= y * n
<1>1. PICK d \in Nat : y = x + d
    <2>1. y - x \in Nat /\ y = x + (y - x)
        OBVIOUS
    <2> QED
        BY <2>1
<1>2. d * n \in Nat /\ x * n \in Nat
    BY ProductIsNat
<1>3. y * n = x * n + d * n
    BY <1>1
<1> QED
    BY <1>2, <1>3

LEMMA TwoDigits ==
    ASSUME NEW pitch \in Nat, NEW x \in 0..(pitch - 1), NEW u \in 0..(pitch - 1),
           NEW y \in Nat, NEW v \in Nat, x + y * pitch = u + v * pitch
    PROVE  x = u /\ y = v
<1>1. y * pitch \in Nat /\ v * pitch \in Nat
    BY ProductIsNat
<1>2. ASSUME y < v PROVE FALSE
    <2>1. (y + 1) * pitch <= v * pitch /\ (y + 1) * pitch = y * pitch + pitch
        BY <1>2, ProductGrows
    <2> QED
        BY <1>1, <2>1
<1>3. ASSUME v < y PROVE FALSE
    <2>1. (v + 1) * pitch <= y * pitch /\ (v + 1) * pitch = v * pitch + pitch
        BY <1>3, ProductGrows
    <2> QED
        BY <1>1, <2>1
<1>4. y = v
    BY <1>2, <1>3
<1> QED
    BY <1>1, <1>4

LEMMA PitchesAre ==
    ASSUME NEW side, NEW r, IsSide(side), IsRegion(r)
    PROVE  /\ RowPitch(side, r) \in Nat /\ SlicePitch(side, r) \in Nat
           /\ Roomy(side, r) => /\ r[1] <= RowPitch(side, r)
                                /\ r[2] * RowPitch(side, r) <= SlicePitch(side, r)
<1>1. r[1] \in Nat /\ r[2] \in Nat /\ side.row \in Nat /\ side.slice \in Nat
    BY DEF IsSide, IsRegion
<1>2. RowPitch(side, r) \in Nat
    BY <1>1 DEF RowPitch
<1>3. r[2] * RowPitch(side, r) \in Nat
    BY <1>1, <1>2, ProductIsNat
<1>4. /\ side.row = 0 => RowPitch(side, r) = r[1]
      /\ side.row # 0 => RowPitch(side, r) = side.row
    BY DEF RowPitch
<1>5. /\ side.slice = 0 => SlicePitch(side, r) = r[2] * RowPitch(side, r)
      /\ side.slice # 0 => SlicePitch(side, r) = side.slice
    BY DEF SlicePitch
<1> QED
    BY <1>1, <1>2, <1>3, <1>4, <1>5 DEF Roomy

LEMMA CellIs ==
    ASSUME NEW side, NEW r, IsSide(side), IsRegion(r), NEW c \in Area(r)
    PROVE  LET row == RowPitch(side, r)
               slice == SlicePitch(side, r)
           IN  /\ c = <<c[1], c[2], c[3]>>
               /\ c[1] \in 0..(r[1] - 1) /\ c[2] \in 0..(r[2] - 1) /\ c[3] \in 0..(r[3] - 1)
               /\ RectOffset(side, r) \in Nat
               /\ CellAt(side, r, c) = RectOffset(side, r) + (c[1] + c[2] * row + c[3] * slice)
               /\ CellAt(side, r, c) \in Nat
<1> DEFINE row == RowPitch(side, r)
           slice == SlicePitch(side, r)
<1>1. /\ c = <<c[1], c[2], c[3]>>
      /\ c[1] \in 0..(r[1] - 1) /\ c[2] \in 0..(r[2] - 1) /\ c[3] \in 0..(r[3] - 1)
    BY DEF Area
<1>2. /\ side.origin[1] \in Nat /\ side.origin[2] \in Nat /\ side.origin[3] \in Nat
      /\ r[1] \in Nat /\ r[2] \in Nat /\ r[3] \in Nat
    BY DEF IsSide, IsRegion
<1>3. row \in Nat /\ slice \in Nat
    BY PitchesAre
<1>4. r[2] * row = row * r[2]
    BY <1>2, <1>3
<1>5. CellAt(side, r, c) = (side.origin[1] + c[1]) + (side.origin[2] + c[2]) * row
                           + (side.origin[3] + c[3]) * slice
    BY <1>4 DEF CellAt, RowPitch, SlicePitch
<1>6. RectOffset(side, r) = side.origin[1] + side.origin[2] * row + side.origin[3] * slice
    BY DEF RectOffset
<1> HIDE DEF row, slice
<1> DEFINE o2 == side.origin[2] * row
           o3 == side.origin[3] * slice
           c2 == c[2] * row
           c3 == c[3] * slice
<1>7. o2 \in Nat /\ o3 \in Nat /\ c2 \in Nat /\ c3 \in Nat
    BY <1>1, <1>2, <1>3, ProductIsNat
<1>8. (side.origin[2] + c[2]) * row = o2 + c2 /\ (side.origin[3] + c[3]) * slice = o3 + c3
    BY <1>1, <1>2, <1>3
<1>9. /\ CellAt(side, r, c) = (side.origin[1] + c[1]) + (o2 + c2) + (o3 + c3)
      /\ RectOffset(side, r) = side.origin[1] + o2 + o3
    BY <1>5, <1>6, <1>8
<1>10. /\ RectOffset(side, r) \in Nat /\ CellAt(side, r, c) \in Nat
       /\ CellAt(side, r, c) = RectOffset(side, r) + (c[1] + c2 + c3)
    <2> HIDE DEF o2, o3, c2, c3
    <2>1. c[1] \in Nat /\ side.origin[1] \in Nat
        BY <1>1, <1>2
    <2> QED
        BY <1>7, <1>9, <2>1
<1> QED
    BY <1>1, <1>10 DEF row, slice

LEMMA CellsDiffer ==
    ASSUME NEW side, NEW r, IsSide(side), IsRegion(r), Roomy(side, r),
           NEW c \in Area(r), NEW d \in Area(r), CellAt(side, r, c) = CellAt(side, r, d)
    PROVE  c = d
<1> DEFINE row == RowPitch(side, r)
           slice == SlicePitch(side, r)
           Within(e) == e[1] + e[2] * row
<1>1. row \in Nat /\ slice \in Nat /\ r[1] <= row /\ r[2] * row <= slice
    BY PitchesAre
<1>2. r[1] \in Nat /\ r[2] \in Nat /\ r[3] \in Nat
    BY DEF IsRegion
<1>3. ASSUME NEW e \in Area(r)
      PROVE  /\ e = <<e[1], e[2], e[3]>> /\ e[1] \in 0..(row - 1) /\ e[2] \in Nat /\ e[3] \in Nat
             /\ Within(e) \in 0..(slice - 1)
             /\ CellAt(side, r, e) = RectOffset(side, r) + (Within(e) + e[3] * slice)
    <2>1. /\ e = <<e[1], e[2], e[3]>>
          /\ e[1] \in 0..(r[1] - 1) /\ e[2] \in 0..(r[2] - 1) /\ e[3] \in 0..(r[3] - 1)
          /\ CellAt(side, r, e) = RectOffset(side, r) + (e[1] + e[2] * row + e[3] * slice)
        BY <1>3, CellIs
    <2> HIDE DEF row, slice
    <2>2. e[1] \in 0..(row - 1) /\ e[2] \in Nat /\ e[3] \in Nat
        BY <1>1, <1>2, <2>1
    <2>3. (e[2] + 1) * row <= r[2] * row /\ (e[2] + 1) * row = e[2] * row + row
        BY <1>1, <1>2, <2>1, ProductGrows
    <2>4. e[2] * row \in Nat /\ r[2] * row \in Nat
        BY <1>1, <1>2, <2>2, ProductIsNat
    <2>5. Within(e) \in 0..(slice - 1)
        BY <1>1, <2>2, <2>3, <2>4
    <2> QED
        BY <2>1, <2>2, <2>5
<1>4. RectOffset(side, r) \in Nat
    BY CellIs
<1>5. c[3] * slice \in Nat /\ d[3] * slice \in Nat /\ Within(c) \in Nat /\ Within(d) \in Nat
    <2> HIDE DEF row, slice, Within
    <2> QED
        BY <1>1, <1>3, ProductIsNat
<1>6. Within(c) + c[3] * slice = Within(d) + d[3] * slice
    <2> HIDE DEF row, slice, Within
    <2> QED
        BY <1>3, <1>4, <1>5
<1>7. Within(c) = Within(d) /\ c[3] = d[3]
    <2> HIDE DEF row, slice, Within
    <2> QED
        BY <1>1, <1>3, <1>6, TwoDigits
<1>8. c[1] = d[1] /\ c[2] = d[2]
    <2> HIDE DEF row, slice
    <2> QED
        BY <1>1, <1>3, <1>7, TwoDigits
<1> QED
    BY <1>3, <1>7, <1>8

\* MemRectCpy moves the region cell by cell.
LEMMA CopyRectIs ==
    ASSUME NEW a, IsSide(a.to), IsSide(a.fr), IsRegion(a.region)
    PROVE  CopyRect(a) = {<<CellAt(a.to, a.region, c), CellAt(a.fr, a.region, c)>> :
                              c \in Area(a.region)}
<1> DEFINE r == a.region
           to == AreaOf(a.to, r)
           fr == AreaOf(a.fr, r)
           Cell(side, c) == CellAt(side, r, c)
           moves == CopyRect(a)
<1>1. /\ to.offset = RectOffset(a.to, r) /\ to.row = RowPitch(a.to, r)
      /\ to.slice = SlicePitch(a.to, r)
      /\ fr.offset = RectOffset(a.fr, r) /\ fr.row = RowPitch(a.fr, r)
      /\ fr.slice = SlicePitch(a.fr, r)
    BY DEF AreaOf
<1>2. ASSUME NEW c \in Area(r)
      PROVE  /\ c = <<c[1], c[2], c[3]>> /\ <<c[2], c[3]>> \in Rows(r) /\ c[1] \in 0..(r[1] - 1)
             /\ Cell(a.to, c) = At(to, c[2], c[3]) + c[1]
             /\ Cell(a.fr, c) = At(fr, c[2], c[3]) + c[1]
    <2>1. ASSUME NEW side \in {a.to, a.fr}, NEW area, area.offset = RectOffset(side, r),
                 area.row = RowPitch(side, r), area.slice = SlicePitch(side, r)
          PROVE  /\ c = <<c[1], c[2], c[3]>>
                 /\ c[1] \in 0..(r[1] - 1) /\ c[2] \in 0..(r[2] - 1) /\ c[3] \in 0..(r[3] - 1)
                 /\ Cell(side, c) = At(area, c[2], c[3]) + c[1]
        <3>1. IsSide(side)
            BY <2>1
        <3>2. RowPitch(side, r) \in Nat /\ SlicePitch(side, r) \in Nat
            BY <3>1, PitchesAre
        <3>3. /\ c = <<c[1], c[2], c[3]>>
              /\ c[1] \in 0..(r[1] - 1) /\ c[2] \in 0..(r[2] - 1) /\ c[3] \in 0..(r[3] - 1)
              /\ RectOffset(side, r) \in Nat
              /\ Cell(side, c) = RectOffset(side, r)
                     + (c[1] + c[2] * RowPitch(side, r) + c[3] * SlicePitch(side, r))
            BY <1>2, <3>1, CellIs
        <3>4. c[1] \in Nat /\ c[2] \in Nat /\ c[3] \in Nat
            BY <3>3
        <3>5. c[2] * RowPitch(side, r) \in Nat /\ c[3] * SlicePitch(side, r) \in Nat
            BY <3>2, <3>4, ProductIsNat
        <3>6. At(area, c[2], c[3]) = RectOffset(side, r) + c[2] * RowPitch(side, r)
                                     + c[3] * SlicePitch(side, r)
            BY <2>1 DEF At
        <3> HIDE DEF Cell
        <3> DEFINE c2 == c[2] * RowPitch(side, r)
                   c3 == c[3] * SlicePitch(side, r)
        <3>7. Cell(side, c) = RectOffset(side, r) + (c[1] + c2 + c3) /\ c2 \in Nat /\ c3 \in Nat
              /\ At(area, c[2], c[3]) = RectOffset(side, r) + c2 + c3
            BY <3>3, <3>5, <3>6
        <3>8. Cell(side, c) = At(area, c[2], c[3]) + c[1]
            <4> HIDE DEF c2, c3
            <4> QED
                BY <3>3, <3>4, <3>7
        <3> QED
            BY <3>3, <3>8
    <2>2. /\ c = <<c[1], c[2], c[3]>>
          /\ c[1] \in 0..(r[1] - 1) /\ c[2] \in 0..(r[2] - 1) /\ c[3] \in 0..(r[3] - 1)
          /\ Cell(a.to, c) = At(to, c[2], c[3]) + c[1]
        <3> HIDE DEF to, fr, Cell
        <3> QED
            BY <1>1, <2>1
    <2>3. Cell(a.fr, c) = At(fr, c[2], c[3]) + c[1]
        <3> HIDE DEF to, fr, Cell
        <3> QED
            BY <1>1, <2>1
    <2> QED
        BY <2>2, <2>3 DEF Rows
<1>3. moves = UNION {Memcpy(At(to, p[1], p[2]), At(fr, p[1], p[2]), r[1]) : p \in Rows(r)}
    BY DEF CopyRect, MemRectCpy
<1> HIDE DEF to, fr, Cell, moves
<1>4. ASSUME NEW c \in Area(r) PROVE <<Cell(a.to, c), Cell(a.fr, c)>> \in moves
    <2>1. /\ <<c[2], c[3]>> \in Rows(r)
          /\ <<Cell(a.to, c), Cell(a.fr, c)>> \in
                 Memcpy(At(to, c[2], c[3]), At(fr, c[2], c[3]), r[1])
        BY <1>2, <1>4 DEF Memcpy
    <2> QED
        BY <1>3, <2>1
<1>5. ASSUME NEW mv \in moves
      PROVE  \E c \in Area(r) : mv = <<Cell(a.to, c), Cell(a.fr, c)>>
    <2>1. PICK p \in Rows(r) : mv \in Memcpy(At(to, p[1], p[2]), At(fr, p[1], p[2]), r[1])
        BY <1>3, <1>5
    <2>2. PICK k \in 0..(r[1] - 1) : mv = <<At(to, p[1], p[2]) + k, At(fr, p[1], p[2]) + k>>
        BY <2>1 DEF Memcpy
    <2>3. <<k, p[1], p[2]>> \in Area(r)
        BY <2>1, <2>2 DEF Area, Rows
    <2>4. /\ <<k, p[1], p[2]>>[1] = k /\ <<k, p[1], p[2]>>[2] = p[1]
          /\ <<k, p[1], p[2]>>[3] = p[2]
        OBVIOUS
    <2>5. mv = <<Cell(a.to, <<k, p[1], p[2]>>), Cell(a.fr, <<k, p[1], p[2]>>)>>
        BY <1>2, <2>2, <2>3, <2>4
    <2> QED
        BY <2>3, <2>5
<1>6. moves = {<<Cell(a.to, c), Cell(a.fr, c)>> : c \in Area(r)}
    BY <1>4, <1>5
<1> QED
    BY <1>6 DEF Cell, moves

\* The cells that a cell of a rectangle corresponds to.
RectSources(a, i) ==
    {CellAt(a.fr, a.region, c) : c \in {c \in Area(a.region) : CellAt(a.to, a.region, c) = i}}

\* A rectangular copy with room on the side it writes is exact.
LEMMA CopyRectExact ==
    ASSUME NEW a, IsSide(a.to), IsSide(a.fr), IsRegion(a.region), Roomy(a.to, a.region)
    PROVE  /\ OneSource(CopyRect(a))
           /\ \A i \in Nat : FromCells(CopyRect(a), i) = RectSources(a, i)
<1> DEFINE To(c) == CellAt(a.to, a.region, c)
           Fr(c) == CellAt(a.fr, a.region, c)
           moves == CopyRect(a)
<1>1. moves = {<<To(c), Fr(c)>> : c \in Area(a.region)}
    BY CopyRectIs
<1>2. \A c, d \in Area(a.region) : To(c) = To(d) => c = d
    BY CellsDiffer
<1> HIDE DEF To, Fr, moves
<1>3. OneSource(moves)
    <2>1. ASSUME NEW p \in moves, NEW q \in moves, p[1] = q[1] PROVE p[2] = q[2]
        <3>1. PICK c \in Area(a.region) : p = <<To(c), Fr(c)>>
            BY <1>1
        <3>2. PICK d \in Area(a.region) : q = <<To(d), Fr(d)>>
            BY <1>1
        <3>3. c = d
            BY <1>2, <2>1, <3>1, <3>2
        <3> QED
            BY <3>1, <3>2, <3>3
    <2> QED
        BY <2>1 DEF OneSource
<1>4. ASSUME NEW i \in Nat
      PROVE  FromCells(moves, i) = {Fr(c) : c \in {c \in Area(a.region) : To(c) = i}}
    <2>1. ASSUME NEW j \in FromCells(moves, i)
          PROVE  \E c \in Area(a.region) : To(c) = i /\ j = Fr(c)
        BY <1>1 DEF FromCells
    <2>2. ASSUME NEW c \in Area(a.region), To(c) = i PROVE Fr(c) \in FromCells(moves, i)
        <3>1. <<To(c), Fr(c)>> \in moves
            BY <1>1
        <3> QED
            BY <2>2, <3>1 DEF FromCells
    <2> QED
        BY <2>1, <2>2
<1> QED
    BY <1>3, <1>4 DEF To, Fr, moves, RectSources

---------------------------------------------------------------------------
(* What it means that the builder of a command notified nothing.           *)

LEMMA ErrorsOfMany ==
    ASSUME NEW s, IsErrors(s), NEW t, IsErrors(t), NEW u, IsErrors(u), NEW v, IsErrors(v)
    PROVE  /\ IsErrors(s \o t \o u) /\ (s \o t \o u = <<>> <=> s = <<>> /\ t = <<>> /\ u = <<>>)
           /\ IsErrors(s \o t \o u \o v)
           /\ s \o t \o u \o v = <<>> <=> s = <<>> /\ t = <<>> /\ u = <<>> /\ v = <<>>
<1>1. IsErrors(s \o t) /\ (s \o t = <<>> <=> s = <<>> /\ t = <<>>)
    BY ErrorsOfBoth
<1>2. /\ IsErrors((s \o t) \o u)
      /\ (s \o t) \o u = <<>> <=> s \o t = <<>> /\ u = <<>>
    BY <1>1, ErrorsOfBoth
<1>3. /\ IsErrors(((s \o t) \o u) \o v)
      /\ ((s \o t) \o u) \o v = <<>> <=> (s \o t) \o u = <<>> /\ v = <<>>
    BY <1>2, ErrorsOfBoth
<1> QED
    BY <1>1, <1>2, <1>3

LEMMA PointerErrorsAre ==
    ASSUME NEW nulls
    PROVE  IsErrors(PointerErrors(nulls)) /\ (PointerErrors(nulls) = <<>> <=> "ptr" \notin nulls)
<1> DEFINE missing == "ptr" \in nulls
<1>1. PointerErrors(nulls) = Check(missing, InvalidValue)
    BY DEF PointerErrors
<1> HIDE DEF missing
<1> QED
    BY <1>1, ErrorsOfOne, NothingWrong DEF missing, Errors

LEMMA NoBytesAre ==
    ASSUME NEW a
    PROVE  IsErrors(NoBytes(a))
<1> DEFINE empty == a.cb = 0
<1>1. NoBytes(a) = Check(empty, InvalidValue) /\ InvalidValue \in Errors
    BY DEF NoBytes, Errors
<1> HIDE DEF empty
<1> QED
    BY <1>1, ErrorsOfOne

LEMMA ReadOrWriteBufferIs ==
    ASSUME NEW a, NEW denied, NEW errors,
           errors = BufferErrors(a.buf, denied) \o PointerErrors(a.nulls)
                    \o Check(Outside(a.buf, a.offset, a.cb), InvalidValue)
                    \o CheckedWaitList(a.wl, a.blocking)
    PROVE  IsErrors(errors) /\ (errors = <<>> => a.buf.kind = "buffer"
                                                 /\ ~(a.offset + a.cb > a.buf.size))
<1> DEFINE out == Outside(a.buf, a.offset, a.cb)
           s == BufferErrors(a.buf, denied)
           t == PointerErrors(a.nulls)
           u == Check(out, InvalidValue)
           v == CheckedWaitList(a.wl, a.blocking)
<1>1. IsErrors(s) /\ (s = <<>> => a.buf.kind = "buffer")
    BY BufferErrorsAre
<1>2. IsErrors(t) /\ IsErrors(v)
    BY PointerErrorsAre, WaitListErrors
<1>3. IsErrors(u) /\ (u = <<>> => ~out)
    <2> HIDE DEF out
    <2> QED
        BY ErrorsOfOne, NothingWrong DEF Errors
<1>4. errors = s \o t \o u \o v
    OBVIOUS
<1>5. out <=> a.buf.kind = "buffer" /\ a.offset + a.cb > a.buf.size
    BY DEF Outside
<1> HIDE DEF s, t, u, v, out
<1>6. IsErrors(errors) /\ (errors = <<>> => s = <<>> /\ u = <<>>)
    BY <1>1, <1>2, <1>3, <1>4, ErrorsOfMany
<1> QED
    BY <1>1, <1>3, <1>5, <1>6

LEMMA CopyAreaIs ==
    ASSUME NEW a
    PROVE  /\ IsErrors(CopyAreaErrors(a))
           /\ CopyAreaErrors(a) = <<>> /\ a.buf.kind = "buffer" /\ a.src.kind = "buffer" =>
                  /\ ~(a.offset + a.cb > a.buf.size) /\ ~(a.from + a.cb > a.src.size)
                  /\ ~(a.buf = a.src /\ Distance(a.from, a.offset) < a.cb)
<1> DEFINE out1 == Outside(a.buf, a.offset, a.cb)
           out2 == Outside(a.src, a.from, a.cb)
           same == a.buf = a.src /\ Distance(a.from, a.offset) < a.cb
           both == a.buf.kind = "buffer" /\ a.src.kind = "buffer"
           checks == << <<out1, InvalidValue>>, <<out2, InvalidValue>>, <<same, CopyOverlap>> >>
<1>1. CopyAreaErrors(a) = IF ~both THEN <<>> ELSE FirstOf(checks)
    BY DEF CopyAreaErrors
<1>2. /\ IsErrors(FirstOf(checks))
      /\ FirstOf(checks) = <<>> => ~out1 /\ ~out2 /\ ~same
    <2>1. InvalidValue \in Errors /\ CopyOverlap \in Errors
        BY DEF Errors
    <2> HIDE DEF out1, out2, same
    <2>2. IsErrors(FirstOf(checks))
        BY <2>1, ErrorsOfThree
    <2>3. FirstOf(checks) = <<>> <=> ~out1 /\ ~out2 /\ ~same
        BY NothingWrongInThree
    <2> QED
        BY <2>2, <2>3
<1>3. IsErrors(<<>>)
    BY DEF IsErrors
<1>4. /\ out1 <=> a.buf.kind = "buffer" /\ a.offset + a.cb > a.buf.size
      /\ out2 <=> a.src.kind = "buffer" /\ a.from + a.cb > a.src.size
    BY DEF Outside
<1> HIDE DEF checks, out1, out2
<1> QED
    BY <1>1, <1>2, <1>3, <1>4

LEMMA CopyBufferIs ==
    ASSUME NEW a
    PROVE  /\ IsErrors(CopyBufferBuilder(a))
           /\ CopyBufferBuilder(a) = <<>> =>
                  /\ ~(a.offset + a.cb > a.buf.size) /\ ~(a.from + a.cb > a.src.size)
                  /\ ~(a.buf = a.src /\ Distance(a.from, a.offset) < a.cb)
<1> DEFINE s == BufferErrors(a.buf, {})
           t == BufferErrors(a.src, {})
           u == CopyAreaErrors(a)
           v == CheckedWaitList(a.wl, FALSE)
<1>1. /\ IsErrors(s) /\ (s = <<>> => a.buf.kind = "buffer")
      /\ IsErrors(t) /\ (t = <<>> => a.src.kind = "buffer")
    BY BufferErrorsAre
<1>2. IsErrors(u) /\ IsErrors(v)
    BY CopyAreaIs, WaitListErrors
<1>3. CopyBufferBuilder(a) = s \o t \o u \o v
    BY DEF CopyBufferBuilder
<1> HIDE DEF s, t, v
<1>4. /\ IsErrors(CopyBufferBuilder(a))
      /\ CopyBufferBuilder(a) = <<>> => s = <<>> /\ t = <<>> /\ u = <<>>
    <2> HIDE DEF u
    <2> QED
        BY <1>1, <1>2, <1>3, ErrorsOfMany
<1> QED
    BY <1>1, <1>4, CopyAreaIs

LEMMA FillBufferIs ==
    ASSUME NEW a
    PROVE  /\ IsErrors(FillBufferBuilder(a))
           /\ FillBufferBuilder(a) = <<>> =>
                  /\ a.from \in PatternSizes /\ a.cb % a.from = 0
                  /\ ~(a.offset + a.cb > a.buf.size)
<1> DEFINE s == BufferErrors(a.buf, {})
           t == PointerErrors(a.nulls)
           u == FillAreaErrors(a)
           v == CheckedWaitList(a.wl, FALSE)
           wrong == \/ a.offset % a.from # 0
                    \/ a.cb % a.from # 0
                    \/ Outside(a.buf, a.offset, a.cb)
<1>1. IsErrors(s) /\ (s = <<>> => a.buf.kind = "buffer")
    BY BufferErrorsAre
<1>2. IsErrors(t) /\ IsErrors(v)
    BY PointerErrorsAre, WaitListErrors
<1>3. u = IF a.from \notin PatternSizes THEN <<InvalidValue>>
          ELSE IF a.buf.kind # "buffer" THEN <<>> ELSE Check(wrong, InvalidValue)
    BY DEF FillAreaErrors
<1>4. /\ IsErrors(Check(wrong, InvalidValue))
      /\ Check(wrong, InvalidValue) = <<>> => ~wrong
    <2> HIDE DEF wrong
    <2> QED
        BY ErrorsOfOne, NothingWrong DEF Errors
<1>5. IsErrors(<<>>) /\ IsErrors(<<InvalidValue>>) /\ <<InvalidValue>> # <<>>
    BY DEF IsErrors, Errors
<1>6. FillBufferBuilder(a) = s \o t \o u \o v
    BY DEF FillBufferBuilder
<1>7. ~wrong => a.cb % a.from = 0 /\ ~Outside(a.buf, a.offset, a.cb)
    OBVIOUS
<1> HIDE DEF s, t, u, v, wrong
<1>8. IsErrors(u)
    BY <1>3, <1>4, <1>5
<1>9. /\ IsErrors(FillBufferBuilder(a))
      /\ FillBufferBuilder(a) = <<>> => s = <<>> /\ u = <<>>
    BY <1>1, <1>2, <1>6, <1>8, ErrorsOfMany
<1>10. s = <<>> /\ u = <<>> => a.from \in PatternSizes /\ ~wrong
    BY <1>1, <1>3, <1>4, <1>5
<1> QED
    BY <1>1, <1>7, <1>9, <1>10 DEF Outside

\* The pitches of a side that passes leave room, and a side that leaves room
\* and keeps to whole rows passes.
LEMMA PitchErrorsAre ==
    ASSUME NEW side, NEW null, NEW r
    PROVE  /\ IsErrors(PitchErrors(side, null, r))
           /\ PitchErrors(side, null, r) = <<>> =>
                  /\ ~(side.row # 0 /\ side.row < r[1])
                  /\ ~(side.slice # 0 /\ side.slice < r[2] * RowPitch(side, r))
           /\ /\ ~null
              /\ ~(side.row # 0 /\ side.row < r[1])
              /\ ~(side.slice # 0 /\ \/ side.slice < r[2] * RowPitch(side, r)
                                     \/ side.slice % RowPitch(side, r) # 0)
              => PitchErrors(side, null, r) = <<>>
<1> DEFINE narrow == side.row # 0 /\ side.row < r[1]
           low == side.slice # 0 /\ \/ side.slice < r[2] * RowPitch(side, r)
                                    \/ side.slice % RowPitch(side, r) # 0
           checks == << <<null, InvalidValue>>, <<narrow, InvalidValue>>, <<low, InvalidValue>> >>
<1>1. PitchErrors(side, null, r) = FirstOf(checks) /\ InvalidValue \in Errors
    BY DEF PitchErrors, Errors
<1>2. IsErrors(FirstOf(checks))
    <2> HIDE DEF narrow, low
    <2> QED
        BY <1>1, ErrorsOfThree
<1>3. FirstOf(checks) = <<>> <=> ~null /\ ~narrow /\ ~low
    <2> HIDE DEF narrow, low
    <2> QED
        BY NothingWrongInThree
<1>4. ~low => ~(side.slice # 0 /\ side.slice < r[2] * RowPitch(side, r))
    OBVIOUS
<1> HIDE DEF checks
<1> QED
    BY <1>1, <1>2, <1>3, <1>4

LEMMA RoomyIs ==
    ASSUME NEW side, NEW r, IsSide(side), IsRegion(r),
           ~(side.row # 0 /\ side.row < r[1]),
           ~(side.slice # 0 /\ side.slice < r[2] * RowPitch(side, r))
    PROVE  Roomy(side, r)
<1>1. /\ r[1] \in Nat /\ r[2] \in Nat /\ side.row \in Nat /\ side.slice \in Nat
      /\ RowPitch(side, r) \in Nat
    BY PitchesAre DEF IsSide, IsRegion
<1>2. r[2] * RowPitch(side, r) \in Nat
    BY <1>1, ProductIsNat
<1> QED
    BY <1>1, <1>2 DEF Roomy

LEMMA SideErrorsAre ==
    ASSUME NEW b, NEW side, NEW null, NEW r
    PROVE  /\ IsErrors(SideErrors(b, side, null, r))
           /\ SideErrors(b, side, null, r) = <<>> /\ b.kind = "buffer" =>
                  PitchErrors(side, null, r) = <<>>
           /\ PitchErrors(side, null, r) = <<>> /\ ~(b.size < RectEnd(side, r)) =>
                  SideErrors(b, side, null, r) = <<>>
<1> DEFINE wrong == PitchErrors(side, null, r) # <<>>
           behind == b.size < RectEnd(side, r)
           checks == << <<wrong, InvalidValue>>, <<behind, InvalidValue>> >>
<1>1. SideErrors(b, side, null, r) = IF b.kind # "buffer" THEN <<>> ELSE FirstOf(checks)
    BY DEF SideErrors
<1>2. InvalidValue \in Errors /\ IsErrors(<<>>)
    BY DEF Errors, IsErrors
<1>3. IsErrors(FirstOf(checks))
    <2> HIDE DEF wrong, behind
    <2> QED
        BY <1>2, ErrorsOfTwo
<1>4. FirstOf(checks) = <<>> <=> ~wrong /\ ~behind
    <2> HIDE DEF wrong, behind
    <2> QED
        BY NothingWrongInTwo
<1> HIDE DEF checks
<1> QED
    BY <1>1, <1>2, <1>3, <1>4

LEMMA RegionErrorsAre ==
    ASSUME NEW a
    PROVE  /\ IsErrors(RegionErrors(a))
           /\ RegionErrors(a) = <<>> <=>
                  "region" \notin a.nulls /\ \A i \in 1..3 : a.region[i] # 0
<1> DEFINE empty == "region" \in a.nulls \/ 0 \in {a.region[i] : i \in 1..3}
<1>1. RegionErrors(a) = Check(empty, InvalidValue) /\ InvalidValue \in Errors
    BY DEF RegionErrors, Errors
<1>2. ~empty <=> "region" \notin a.nulls /\ \A i \in 1..3 : a.region[i] # 0
    OBVIOUS
<1> HIDE DEF empty
<1>3. IsErrors(Check(empty, InvalidValue)) /\ (Check(empty, InvalidValue) = <<>> <=> ~empty)
    BY <1>1, ErrorsOfOne, NothingWrong
<1> QED
    BY <1>1, <1>2, <1>3

LEMMA RectBuilderIs ==
    ASSUME NEW s, IsErrors(s), NEW t, IsErrors(t), NEW u, IsErrors(u), NEW v, IsErrors(v),
           NEW w, IsErrors(w)
    PROVE  LET errors == s \o t \o u \o (IF u # <<>> THEN <<>> ELSE v) \o w
           IN  /\ IsErrors(errors)
               /\ errors = <<>> <=> s = <<>> /\ t = <<>> /\ u = <<>> /\ v = <<>> /\ w = <<>>
<1> DEFINE x == IF u # <<>> THEN <<>> ELSE v
           y == s \o t \o u \o x
<1>1. IsErrors(x) /\ (u = <<>> => x = v)
    <2>1. IsErrors(<<>>)
        BY DEF IsErrors
    <2> QED
        BY <2>1
<1>3. IsErrors(y) /\ (y = <<>> <=> s = <<>> /\ t = <<>> /\ u = <<>> /\ x = <<>>)
    <2> HIDE DEF x
    <2> QED
        BY <1>1, ErrorsOfMany
<1> HIDE DEF x, y
<1>4. IsErrors(y \o w) /\ (y \o w = <<>> <=> y = <<>> /\ w = <<>>)
    BY <1>3, ErrorsOfBoth
<1>5. IsErrors(y \o w) /\ (y \o w = <<>> <=> s = <<>> /\ t = <<>> /\ u = <<>> /\ v = <<>> /\ w = <<>>)
    BY <1>1, <1>3, <1>4
<1> QED
    BY <1>5 DEF y, x

IsRect(a) == /\ a.buf \in Buffers /\ a.src \in Buffers
             /\ IsRegion(a.region) /\ IsSide(a.to) /\ IsSide(a.fr)

\* Everything that is asked of the arguments of a rectangular command.
Proper(a) ==
    /\ a.nulls = {} /\ a.wl = NoWaitList /\ \A i \in 1..3 : a.region[i] # 0

LEMMA ReadBufferRectIs ==
    ASSUME NEW a, IsRect(a)
    PROVE  /\ IsErrors(ReadBufferRectBuilder(a))
           /\ ReadBufferRectBuilder(a) = <<>> => Roomy(a.to, a.region)
           /\ /\ Proper(a) /\ a.src.kind = "buffer" /\ a.src.ctx = Ctx
              /\ a.src.flags \cap {"HostWriteOnly", "HostNoAccess"} = {}
              /\ PitchErrors(a.to, FALSE, a.region) = <<>>
              /\ SideErrors(a.src, a.fr, FALSE, a.region) = <<>>
              => "queue" \notin a.nulls /\ ReadBufferRectBuilder(a) = <<>>
<1> DEFINE s == BufferErrors(a.src, {"HostWriteOnly", "HostNoAccess"})
           t == PointerErrors(a.nulls)
           u == RegionErrors(a)
           v1 == PitchErrors(a.to, "target" \in a.nulls, a.region)
           v2 == SideErrors(a.src, a.fr, "source" \in a.nulls, a.region)
           w == CheckedWaitList(a.wl, a.blocking)
           errors == ReadBufferRectBuilder(a)
<1>1. errors = s \o t \o u \o (IF u # <<>> THEN <<>> ELSE v1 \o v2) \o w
    BY DEF ReadBufferRectBuilder
<1>2. IsErrors(s) /\ IsErrors(t) /\ IsErrors(u) /\ IsErrors(v1) /\ IsErrors(v2) /\ IsErrors(w)
    BY BufferErrorsAre, PointerErrorsAre, RegionErrorsAre, PitchErrorsAre, SideErrorsAre,
       WaitListErrors
<1>3. IsErrors(v1 \o v2) /\ (v1 \o v2 = <<>> <=> v1 = <<>> /\ v2 = <<>>)
    <2> HIDE DEF v1, v2
    <2> QED
        BY <1>2, ErrorsOfBoth
<1>4. /\ IsErrors(errors)
      /\ errors = <<>> <=> s = <<>> /\ t = <<>> /\ u = <<>> /\ v1 = <<>> /\ v2 = <<>> /\ w = <<>>
    <2> DEFINE v == v1 \o v2
    <2> HIDE DEF s, t, u, v1, v2, w, errors
    <2>1. IsErrors(v) /\ (v = <<>> <=> v1 = <<>> /\ v2 = <<>>)
        BY <1>3
    <2>2. errors = s \o t \o u \o (IF u # <<>> THEN <<>> ELSE v) \o w
        BY <1>1
    <2> HIDE DEF v
    <2> DEFINE all == s \o t \o u \o (IF u # <<>> THEN <<>> ELSE v) \o w
    <2>3. /\ IsErrors(all)
          /\ all = <<>> <=> s = <<>> /\ t = <<>> /\ u = <<>> /\ v = <<>> /\ w = <<>>
        BY <1>2, <2>1, RectBuilderIs
    <2> HIDE DEF all
    <2>4. errors = all
        BY <2>2 DEF all
    <2> QED
        BY <2>1, <2>3, <2>4
<1>5. ASSUME errors = <<>> PROVE Roomy(a.to, a.region)
    <2>1. v1 = <<>>
        BY <1>4, <1>5
    <2> HIDE DEF errors
    <2>2. /\ ~(a.to.row # 0 /\ a.to.row < a.region[1])
          /\ ~(a.to.slice # 0 /\ a.to.slice < a.region[2] * RowPitch(a.to, a.region))
        BY <2>1, PitchErrorsAre
    <2> QED
        BY <2>2, RoomyIs DEF IsRect
<1>6. ASSUME Proper(a), a.src.kind = "buffer", a.src.ctx = Ctx,
             a.src.flags \cap {"HostWriteOnly", "HostNoAccess"} = {},
             PitchErrors(a.to, FALSE, a.region) = <<>>,
             SideErrors(a.src, a.fr, FALSE, a.region) = <<>>
      PROVE  "queue" \notin a.nulls /\ errors = <<>>
    <2>1. a.nulls = {} /\ a.wl = NoWaitList
        BY <1>6 DEF Proper
    <2>2. ("target" \in a.nulls) = FALSE /\ ("source" \in a.nulls) = FALSE
        BY <2>1
    <2>3. v1 = <<>> /\ v2 = <<>>
        BY <1>6, <2>2
    <2>4. s = <<>> /\ t = <<>> /\ w = <<>>
        BY <1>6, <2>1, BufferErrorsAre, PointerErrorsAre, WaitListErrors
    <2>5. u = <<>>
        BY <1>6, <2>1, RegionErrorsAre DEF Proper
    <2> QED
        BY <1>4, <2>1, <2>3, <2>4, <2>5
<1> QED
    BY <1>4, <1>5, <1>6

LEMMA WriteBufferRectIs ==
    ASSUME NEW a, IsRect(a)
    PROVE  /\ IsErrors(WriteBufferRectBuilder(a))
           /\ WriteBufferRectBuilder(a) = <<>> => Roomy(a.to, a.region)
           /\ /\ Proper(a) /\ a.buf.kind = "buffer" /\ a.buf.ctx = Ctx
              /\ a.buf.flags \cap {"HostWriteOnly", "HostNoAccess"} = {}
              /\ SideErrors(a.buf, a.to, FALSE, a.region) = <<>>
              /\ PitchErrors(a.fr, FALSE, a.region) = <<>>
              => "queue" \notin a.nulls /\ WriteBufferRectBuilder(a) = <<>>
<1> DEFINE s == BufferErrors(a.buf, {"HostWriteOnly", "HostNoAccess"})
           t == PointerErrors(a.nulls)
           u == RegionErrors(a)
           v1 == SideErrors(a.buf, a.to, "target" \in a.nulls, a.region)
           v2 == PitchErrors(a.fr, "source" \in a.nulls, a.region)
           w == CheckedWaitList(a.wl, a.blocking)
           errors == WriteBufferRectBuilder(a)
<1>1. errors = s \o t \o u \o (IF u # <<>> THEN <<>> ELSE v1 \o v2) \o w
    BY DEF WriteBufferRectBuilder
<1>2. IsErrors(s) /\ IsErrors(t) /\ IsErrors(u) /\ IsErrors(v1) /\ IsErrors(v2) /\ IsErrors(w)
    BY BufferErrorsAre, PointerErrorsAre, RegionErrorsAre, PitchErrorsAre, SideErrorsAre,
       WaitListErrors
<1>3. IsErrors(v1 \o v2) /\ (v1 \o v2 = <<>> <=> v1 = <<>> /\ v2 = <<>>)
    <2> HIDE DEF v1, v2
    <2> QED
        BY <1>2, ErrorsOfBoth
<1>4. /\ IsErrors(errors)
      /\ errors = <<>> <=> s = <<>> /\ t = <<>> /\ u = <<>> /\ v1 = <<>> /\ v2 = <<>> /\ w = <<>>
    <2> DEFINE v == v1 \o v2
    <2> HIDE DEF s, t, u, v1, v2, w, errors
    <2>1. IsErrors(v) /\ (v = <<>> <=> v1 = <<>> /\ v2 = <<>>)
        BY <1>3
    <2>2. errors = s \o t \o u \o (IF u # <<>> THEN <<>> ELSE v) \o w
        BY <1>1
    <2> HIDE DEF v
    <2> DEFINE all == s \o t \o u \o (IF u # <<>> THEN <<>> ELSE v) \o w
    <2>3. /\ IsErrors(all)
          /\ all = <<>> <=> s = <<>> /\ t = <<>> /\ u = <<>> /\ v = <<>> /\ w = <<>>
        BY <1>2, <2>1, RectBuilderIs
    <2> HIDE DEF all
    <2>4. errors = all
        BY <2>2 DEF all
    <2> QED
        BY <2>1, <2>3, <2>4
<1>5. ASSUME errors = <<>> PROVE Roomy(a.to, a.region)
    <2>1. v1 = <<>> /\ s = <<>>
        BY <1>4, <1>5
    <2> HIDE DEF errors
    <2>2. PitchErrors(a.to, "target" \in a.nulls, a.region) = <<>>
        BY <2>1, BufferErrorsAre, SideErrorsAre
    <2>3. /\ ~(a.to.row # 0 /\ a.to.row < a.region[1])
          /\ ~(a.to.slice # 0 /\ a.to.slice < a.region[2] * RowPitch(a.to, a.region))
        BY <2>2, PitchErrorsAre
    <2> QED
        BY <2>3, RoomyIs DEF IsRect
<1>6. ASSUME Proper(a), a.buf.kind = "buffer", a.buf.ctx = Ctx,
             a.buf.flags \cap {"HostWriteOnly", "HostNoAccess"} = {},
             SideErrors(a.buf, a.to, FALSE, a.region) = <<>>,
             PitchErrors(a.fr, FALSE, a.region) = <<>>
      PROVE  "queue" \notin a.nulls /\ errors = <<>>
    <2>1. a.nulls = {} /\ a.wl = NoWaitList
        BY <1>6 DEF Proper
    <2>2. ("target" \in a.nulls) = FALSE /\ ("source" \in a.nulls) = FALSE
        BY <2>1
    <2>3. v1 = <<>> /\ v2 = <<>>
        BY <1>6, <2>2
    <2>4. s = <<>> /\ t = <<>> /\ w = <<>>
        BY <1>6, <2>1, BufferErrorsAre, PointerErrorsAre, WaitListErrors
    <2>5. u = <<>>
        BY <1>6, <2>1, RegionErrorsAre DEF Proper
    <2> QED
        BY <1>4, <2>1, <2>3, <2>4, <2>5
<1> QED
    BY <1>4, <1>5, <1>6

LEMMA OverlapErrorsAre ==
    ASSUME NEW a
    PROVE  IsErrors(OverlapErrors(a)) /\ (OverlapErrors(a) = <<>> <=> a.buf # a.src)
<1>1. IsErrors(<<>>) /\ IsErrors(<<InvalidValue>>) /\ IsErrors(<<CopyOverlap>>)
    BY DEF IsErrors, Errors
<1>2. <<InvalidValue>> # <<>> /\ <<CopyOverlap>> # <<>>
    OBVIOUS
<1> QED
    BY <1>1, <1>2 DEF OverlapErrors

LEMMA CopyBufferRectIs ==
    ASSUME NEW a, IsRect(a)
    PROVE  /\ IsErrors(CopyBufferRectBuilder(a))
           /\ CopyBufferRectBuilder(a) = <<>> => Roomy(a.to, a.region) /\ a.buf # a.src
           /\ /\ Proper(a) /\ a.buf # a.src
              /\ a.buf.kind = "buffer" /\ a.buf.ctx = Ctx
              /\ a.src.kind = "buffer" /\ a.src.ctx = Ctx
              /\ SideErrors(a.buf, a.to, FALSE, a.region) = <<>>
              /\ SideErrors(a.src, a.fr, FALSE, a.region) = <<>>
              => "queue" \notin a.nulls /\ CopyBufferRectBuilder(a) = <<>>
<1> DEFINE s == BufferErrors(a.buf, {})
           t == BufferErrors(a.src, {})
           u == RegionErrors(a)
           v1 == SideErrors(a.buf, a.to, "target" \in a.nulls, a.region)
           v2 == SideErrors(a.src, a.fr, "source" \in a.nulls, a.region)
           both == "buffer" = a.buf.kind /\ "buffer" = a.src.kind
           v3 == IF both /\ v1 \o v2 = <<>> THEN OverlapErrors(a) ELSE <<>>
           w == CheckedWaitList(a.wl, FALSE)
           errors == CopyBufferRectBuilder(a)
<1>1. errors = s \o t \o u \o (IF u # <<>> THEN <<>> ELSE v1 \o v2 \o v3) \o w
    BY DEF CopyBufferRectBuilder
<1>2. IsErrors(s) /\ IsErrors(t) /\ IsErrors(u) /\ IsErrors(v1) /\ IsErrors(v2) /\ IsErrors(w)
    BY BufferErrorsAre, PointerErrorsAre, RegionErrorsAre, PitchErrorsAre, SideErrorsAre,
       WaitListErrors
<1>3. IsErrors(v3)
    <2>1. IsErrors(<<>>)
        BY DEF IsErrors
    <2> HIDE DEF v1, v2
    <2> QED
        BY <2>1, OverlapErrorsAre
<1>4. /\ v1 \o v2 = <<>> <=> v1 = <<>> /\ v2 = <<>>
      /\ IsErrors(v1 \o v2 \o v3)
      /\ v1 \o v2 \o v3 = <<>> <=> v1 = <<>> /\ v2 = <<>> /\ v3 = <<>>
    <2> HIDE DEF v1, v2, v3
    <2> QED
        BY <1>2, <1>3, ErrorsOfBoth, ErrorsOfMany
<1>5. /\ IsErrors(errors)
      /\ errors = <<>> <=> /\ s = <<>> /\ t = <<>> /\ u = <<>> /\ w = <<>>
                           /\ v1 = <<>> /\ v2 = <<>> /\ v3 = <<>>
    <2> DEFINE v == v1 \o v2 \o v3
    <2> HIDE DEF s, t, u, v1, v2, v3, w, errors
    <2>1. IsErrors(v) /\ (v = <<>> <=> v1 = <<>> /\ v2 = <<>> /\ v3 = <<>>)
        BY <1>4
    <2>2. errors = s \o t \o u \o (IF u # <<>> THEN <<>> ELSE v) \o w
        BY <1>1
    <2> HIDE DEF v
    <2> DEFINE all == s \o t \o u \o (IF u # <<>> THEN <<>> ELSE v) \o w
    <2>3. /\ IsErrors(all)
          /\ all = <<>> <=> s = <<>> /\ t = <<>> /\ u = <<>> /\ v = <<>> /\ w = <<>>
        BY <1>2, <2>1, RectBuilderIs
    <2> HIDE DEF all
    <2>4. errors = all
        BY <2>2 DEF all
    <2> QED
        BY <2>1, <2>3, <2>4
<1>6. ASSUME errors = <<>> PROVE Roomy(a.to, a.region) /\ a.buf # a.src
    <2>1. v1 = <<>> /\ s = <<>> /\ t = <<>> /\ v2 = <<>> /\ v3 = <<>>
        BY <1>5, <1>6
    <2> HIDE DEF errors
    <2>2. a.buf.kind = "buffer" /\ a.src.kind = "buffer"
        BY <2>1, BufferErrorsAre
    <2>3. PitchErrors(a.to, "target" \in a.nulls, a.region) = <<>>
        BY <2>1, <2>2, SideErrorsAre
    <2>4. /\ ~(a.to.row # 0 /\ a.to.row < a.region[1])
          /\ ~(a.to.slice # 0 /\ a.to.slice < a.region[2] * RowPitch(a.to, a.region))
        BY <2>3, PitchErrorsAre
    <2>5. Roomy(a.to, a.region)
        BY <2>4, RoomyIs DEF IsRect
    <2>6. v3 = OverlapErrors(a)
        <3> HIDE DEF v1, v2
        <3> QED
            BY <1>4, <2>1, <2>2
    <2> QED
        BY <2>1, <2>5, <2>6, OverlapErrorsAre
<1>7. ASSUME Proper(a), a.buf # a.src, a.buf.kind = "buffer", a.buf.ctx = Ctx,
             a.src.kind = "buffer", a.src.ctx = Ctx,
             SideErrors(a.buf, a.to, FALSE, a.region) = <<>>,
             SideErrors(a.src, a.fr, FALSE, a.region) = <<>>
      PROVE  "queue" \notin a.nulls /\ errors = <<>>
    <2>1. a.nulls = {} /\ a.wl = NoWaitList
        BY <1>7 DEF Proper
    <2>2. ("target" \in a.nulls) = FALSE /\ ("source" \in a.nulls) = FALSE
        BY <2>1
    <2>3. v1 = <<>> /\ v2 = <<>>
        BY <1>7, <2>2
    <2>4. s = <<>> /\ t = <<>> /\ w = <<>>
        <3>1. a.buf.flags \cap {} = {} /\ a.src.flags \cap {} = {}
            OBVIOUS
        <3>2. s = <<>> /\ t = <<>>
            BY <1>7, <3>1, BufferErrorsAre
        <3> QED
            BY <2>1, <3>2, WaitListErrors
    <2>5. u = <<>>
        BY <1>7, <2>1, RegionErrorsAre DEF Proper
    <2>6. v3 = <<>>
        <3> HIDE DEF v1, v2
        <3> QED
            BY <1>7, OverlapErrorsAre
    <2> QED
        BY <1>5, <2>1, <2>3, <2>4, <2>5, <2>6
<1> QED
    BY <1>5, <1>6, <1>7

---------------------------------------------------------------------------
(* Every call is exact, and what it makes a worker do is safe.             *)

LEMMA SourcesAre ==
    ASSUME NEW l, NEW i
    PROVE  LET a == l.args
           IN  /\ l.api = "ReadBuffer" => Sources(l, i) = {j \in {a.offset + i} : i < a.cb}
               /\ l.api = "WriteBuffer" =>
                      Sources(l, i) = {j \in {i - a.offset} : i >= a.offset /\ j < a.cb}
               /\ l.api = "CopyBuffer" =>
                      Sources(l, i) = {j \in {a.from + i - a.offset} :
                                           i >= a.offset /\ i < a.offset + a.cb}
               /\ l.api = "FillBuffer" =>
                      Sources(l, i) = {j \in {(i - a.offset) % a.from} :
                                           i >= a.offset /\ i < a.offset + a.cb}
               /\ l.api \in RectApis => Sources(l, i) = RectSources(a, i)
               /\ l.api \in {"Marker", "Barrier", "WaitForEvents"} => Sources(l, i) = {}
BY DEF Sources, RectSources, RectApis

Safe == LinearInBounds /\ NoOverlap /\ LegalIsAccepted
Exact == MovesExactly /\ MemTypeInv' /\ Safe'

LEMMA EnqueueIs ==
    ASSUME NEW api, NEW a, NEW err, NEW target, NEW source, NEW moves,
           Enqueue(api, a, err, target, source, moves)
    PROVE  /\ lastCommand'.api = api /\ lastCommand'.args = a /\ lastCommand'.err = err
           /\ lastCommand'.target = target /\ lastCommand'.source = source
           /\ lastCommand'.moves = IF err = Success THEN moves ELSE {}
BY DEF Enqueue, NoMoves

LEMMA LinearIsSafe ==
    ASSUME NEW api, api \notin RectApis, NEW a, NEW err, NEW target, NEW source, NEW moves,
           Enqueue(api, a, err, target, source, moves),
           err = Success => \A mv \in moves :
               /\ mv[1] < SizeOf(target) /\ mv[2] < SizeOf(source)
               /\ target = source => \A p \in moves : mv[1] # p[2]
    PROVE  Safe'
<1>1. /\ lastCommand'.api = api
      /\ lastCommand'.target = target /\ lastCommand'.source = source
      /\ lastCommand'.moves = IF err = Success THEN moves ELSE {}
    BY EnqueueIs
<1>2. LinearInBounds'
    BY <1>1 DEF LinearInBounds, InBounds
<1>3. NoOverlap'
    BY <1>1 DEF NoOverlap
<1>4. LegalIsAccepted'
    BY <1>1 DEF LegalIsAccepted
<1> QED
    BY <1>2, <1>3, <1>4 DEF Safe

LEMMA SizesAre ==
    ASSUME BufferKinds, NEW b \in Buffers
    PROVE  SizeOf(b.id) = b.size /\ SizeOf(Host) = HostSize /\ b.size \in Nat /\ b.id # Host
<1>1. (CHOOSE c \in Buffers : c.id = b.id) = b
    BY DEF BufferKinds
<1> QED
    BY <1>1 DEF SizeOf, BufferKinds

LEMMA MemcpyExact ==
    ASSUME MemTypeInv, NEW to \in Nat, NEW fr \in Nat, NEW n \in Nat,
           NEW api, NEW a, NEW err, NEW target, NEW source,
           Enqueue(api, a, err, target, source, Memcpy(to, fr, n)),
           \A i \in Nat : Sources(lastCommand', i) = IF to <= i /\ i < to + n
                                                     THEN {fr + (i - to)} ELSE {}
    PROVE  MovesExactly /\ MemTypeInv'
<1> DEFINE moves == Memcpy(to, fr, n)
<1>1. /\ OneSource(moves)
      /\ \A i \in Nat : FromCells(moves, i) = IF to <= i /\ i < to + n
                                              THEN {fr + (i - to)} ELSE {}
    BY MemcpyIs
<1>2. Enqueue(api, a, err, target, source, moves)
    OBVIOUS
<1> HIDE DEF moves
<1>3. \A i \in Nat : Sources(lastCommand', i) = FromCells(moves, i)
    BY <1>1
<1> QED
    BY <1>1, <1>2, <1>3, MovedExactly

LEMMA MemcpySafe ==
    ASSUME NEW to \in Nat, NEW fr \in Nat, NEW n \in Nat,
           NEW api, api \notin RectApis, NEW a, NEW err, NEW target, NEW source,
           Enqueue(api, a, err, target, source, Memcpy(to, fr, n)),
           SizeOf(target) \in Nat, SizeOf(source) \in Nat,
           err = Success => /\ to + n <= SizeOf(target) /\ fr + n <= SizeOf(source)
                            /\ target # source \/ to + n <= fr \/ fr + n <= to
    PROVE  Safe'
<1> DEFINE moves == Memcpy(to, fr, n)
<1>1. \A mv \in moves : \E k \in 0..(n - 1) : mv = <<to + k, fr + k>>
    BY DEF Memcpy
<1>2. Enqueue(api, a, err, target, source, moves)
    OBVIOUS
<1> HIDE DEF moves
<1>3. \A mv \in moves : /\ mv[1] \in Int /\ to <= mv[1] /\ mv[1] < to + n
                        /\ mv[2] \in Int /\ fr <= mv[2] /\ mv[2] < fr + n
    BY <1>1
<1>4. err = Success => \A mv \in moves :
               /\ mv[1] < SizeOf(target) /\ mv[2] < SizeOf(source)
               /\ target = source => \A p \in moves : mv[1] # p[2]
    <2>1. ASSUME err = Success, NEW mv \in moves
          PROVE  mv[1] < SizeOf(target) /\ mv[2] < SizeOf(source)
        BY <1>3, <2>1
    <2>2. ASSUME err = Success, target = source, NEW mv \in moves, NEW p \in moves
          PROVE  mv[1] # p[2]
        BY <1>3, <2>2
    <2> QED
        BY <2>1, <2>2
<1> QED
    BY <1>2, <1>4, LinearIsSafe

LEMMA ReadBufferExact ==
    ASSUME BufferKinds, MemTypeInv, NEW a \in LinearCalls, clEnqueueReadBuffer(a)
    PROVE  Exact
<1> DEFINE err == Result(a.nulls, NoBytes(a), ReadBufferBuilder(a))
           fr == a.offset
           n == a.cb
           id == a.buf.id
<1>1. Enqueue("ReadBuffer", a, err, Host, id, Memcpy(0, fr, n))
    BY DEF clEnqueueReadBuffer
<1>2. a.buf \in Buffers /\ fr \in Nat /\ n \in Nat /\ n <= HostSize /\ HostSize \in Nat
    BY DEF BufferKinds
<1>3. err = Success => ~(fr + n > a.buf.size)
    <2>1. /\ IsErrors(ReadBufferBuilder(a))
          /\ ReadBufferBuilder(a) = <<>> => ~(a.offset + a.cb > a.buf.size)
        BY ReadOrWriteBufferIs DEF ReadBufferBuilder
    <2> QED
        BY <2>1, NoBytesAre, MadeIsChecked
<1>4. SizeOf(id) = a.buf.size /\ SizeOf(Host) = HostSize /\ id # Host /\ a.buf.size \in Nat
    BY <1>2, SizesAre
<1>5. \A i \in Nat : Sources(lastCommand', i) = {j \in {fr + i} : i < n}
    <2>1. lastCommand'.api = "ReadBuffer" /\ lastCommand'.args = a
        BY <1>1, EnqueueIs
    <2> QED
        BY <2>1, SourcesAre
<1> HIDE DEF err, fr, n, id
<1>6. \A i \in Nat : Sources(lastCommand', i) = IF 0 <= i /\ i < 0 + n
                                                THEN {fr + (i - 0)} ELSE {}
    <2>1. ASSUME NEW i \in Nat, i < n PROVE Sources(lastCommand', i) = {fr + (i - 0)}
        BY <1>2, <1>5, <2>1
    <2>2. ASSUME NEW i \in Nat, ~(i < n) PROVE Sources(lastCommand', i) = {}
        BY <1>2, <1>5, <2>2
    <2> QED
        BY <1>2, <2>1, <2>2
<1>7. MovesExactly /\ MemTypeInv'
    <2> DEFINE to == 0
    <2>1. /\ to \in Nat /\ Enqueue("ReadBuffer", a, err, Host, id, Memcpy(to, fr, n))
          /\ \A i \in Nat : Sources(lastCommand', i) = IF to <= i /\ i < to + n
                                                       THEN {fr + (i - to)} ELSE {}
        BY <1>1, <1>6
    <2> HIDE DEF to
    <2> QED
        BY <1>2, <2>1, MemcpyExact
<1>8. Safe'
    <2> DEFINE to == 0
    <2>1. /\ to \in Nat /\ Enqueue("ReadBuffer", a, err, Host, id, Memcpy(to, fr, n))
          /\ err = Success => to + n <= SizeOf(Host) /\ fr + n <= SizeOf(id)
        BY <1>1, <1>2, <1>3, <1>4
    <2>2. "ReadBuffer" \notin RectApis
        BY DEF RectApis
    <2> HIDE DEF to
    <2> QED
        BY <1>2, <1>4, <2>1, <2>2, MemcpySafe
<1> QED
    BY <1>7, <1>8 DEF Exact

LEMMA WriteBufferExact ==
    ASSUME BufferKinds, MemTypeInv, NEW a \in LinearCalls, clEnqueueWriteBuffer(a)
    PROVE  Exact
<1> DEFINE err == Result(a.nulls, NoBytes(a), WriteBufferBuilder(a))
           to == a.offset
           n == a.cb
           id == a.buf.id
<1>1. Enqueue("WriteBuffer", a, err, id, Host, Memcpy(to, 0, n))
    BY DEF clEnqueueWriteBuffer
<1>2. a.buf \in Buffers /\ to \in Nat /\ n \in Nat /\ n <= HostSize /\ HostSize \in Nat
    BY DEF BufferKinds
<1>3. err = Success => ~(to + n > a.buf.size)
    <2>1. /\ IsErrors(WriteBufferBuilder(a))
          /\ WriteBufferBuilder(a) = <<>> => ~(a.offset + a.cb > a.buf.size)
        BY ReadOrWriteBufferIs DEF WriteBufferBuilder
    <2> QED
        BY <2>1, NoBytesAre, MadeIsChecked
<1>4. SizeOf(id) = a.buf.size /\ SizeOf(Host) = HostSize /\ id # Host /\ a.buf.size \in Nat
    BY <1>2, SizesAre
<1>5. \A i \in Nat : Sources(lastCommand', i) = {j \in {i - to} : i >= to /\ j < n}
    <2>1. lastCommand'.api = "WriteBuffer" /\ lastCommand'.args = a
        BY <1>1, EnqueueIs
    <2> QED
        BY <2>1, SourcesAre
<1> HIDE DEF err, to, n, id
<1>6. \A i \in Nat : Sources(lastCommand', i) = IF to <= i /\ i < to + n
                                                THEN {0 + (i - to)} ELSE {}
    <2>1. ASSUME NEW i \in Nat, to <= i, i < to + n
          PROVE  Sources(lastCommand', i) = {0 + (i - to)}
        BY <1>2, <1>5, <2>1
    <2>2. ASSUME NEW i \in Nat, ~(to <= i /\ i < to + n) PROVE Sources(lastCommand', i) = {}
        BY <1>2, <1>5, <2>2
    <2> QED
        BY <1>2, <2>1, <2>2
<1>7. MovesExactly /\ MemTypeInv'
    <2> DEFINE fr == 0
    <2>1. /\ fr \in Nat /\ Enqueue("WriteBuffer", a, err, id, Host, Memcpy(to, fr, n))
          /\ \A i \in Nat : Sources(lastCommand', i) = IF to <= i /\ i < to + n
                                                       THEN {fr + (i - to)} ELSE {}
        BY <1>1, <1>6
    <2> HIDE DEF fr
    <2> QED
        BY <1>2, <2>1, MemcpyExact
<1>8. Safe'
    <2> DEFINE fr == 0
    <2>1. /\ fr \in Nat /\ Enqueue("WriteBuffer", a, err, id, Host, Memcpy(to, fr, n))
          /\ err = Success => to + n <= SizeOf(id) /\ fr + n <= SizeOf(Host)
        BY <1>1, <1>2, <1>3, <1>4
    <2>2. "WriteBuffer" \notin RectApis
        BY DEF RectApis
    <2> HIDE DEF fr
    <2> QED
        BY <1>2, <1>4, <2>1, <2>2, MemcpySafe
<1> QED
    BY <1>7, <1>8 DEF Exact

LEMMA CopyBufferExact ==
    ASSUME BufferKinds, MemTypeInv, NEW a \in LinearCalls, clEnqueueCopyBuffer(a)
    PROVE  Exact
<1> DEFINE err == Result(a.nulls, NoBytes(a), CopyBufferBuilder(a))
           to == a.offset
           fr == a.from
           n == a.cb
           id == a.buf.id
           other == a.src.id
<1>1. Enqueue("CopyBuffer", a, err, id, other, Memcpy(to, fr, n))
    BY DEF clEnqueueCopyBuffer
<1>2. a.buf \in Buffers /\ a.src \in Buffers /\ to \in Nat /\ fr \in Nat /\ n \in Nat
    BY DEF BufferKinds
<1>3. err = Success => /\ ~(to + n > a.buf.size) /\ ~(fr + n > a.src.size)
                       /\ ~(a.buf = a.src /\ Distance(fr, to) < n)
    <2>1. /\ IsErrors(CopyBufferBuilder(a))
          /\ CopyBufferBuilder(a) = <<>> => /\ ~(to + n > a.buf.size) /\ ~(fr + n > a.src.size)
                                            /\ ~(a.buf = a.src /\ Distance(fr, to) < n)
        BY CopyBufferIs
    <2>2. err = Success => CopyBufferBuilder(a) = <<>>
        BY <2>1, NoBytesAre, MadeIsChecked
    <2> HIDE DEF err
    <2> QED
        BY <2>1, <2>2
<1>4. /\ SizeOf(id) = a.buf.size /\ a.buf.size \in Nat
      /\ SizeOf(other) = a.src.size /\ a.src.size \in Nat
      /\ id = other => a.buf = a.src
    <2>1. /\ SizeOf(id) = a.buf.size /\ a.buf.size \in Nat
          /\ SizeOf(other) = a.src.size /\ a.src.size \in Nat
        BY <1>2, SizesAre
    <2> QED
        BY <1>2, <2>1 DEF BufferKinds
<1>5. \A i \in Nat : Sources(lastCommand', i) = {j \in {fr + i - to} : i >= to /\ i < to + n}
    <2>1. lastCommand'.api = "CopyBuffer" /\ lastCommand'.args = a
        BY <1>1, EnqueueIs
    <2> QED
        BY <2>1, SourcesAre
<1> HIDE DEF err, to, fr, n, id, other
<1>6. \A i \in Nat : Sources(lastCommand', i) = IF to <= i /\ i < to + n
                                                THEN {fr + (i - to)} ELSE {}
    <2>1. ASSUME NEW i \in Nat, to <= i, i < to + n
          PROVE  Sources(lastCommand', i) = {fr + (i - to)}
        <3>1. fr + i - to = fr + (i - to)
            BY <1>2, <2>1
        <3>2. Sources(lastCommand', i) = {fr + i - to}
            BY <1>2, <1>5, <2>1
        <3> QED
            BY <3>1, <3>2
    <2>2. ASSUME NEW i \in Nat, ~(to <= i /\ i < to + n) PROVE Sources(lastCommand', i) = {}
        BY <1>2, <1>5, <2>2
    <2> QED
        BY <1>2, <2>1, <2>2
<1>7. MovesExactly /\ MemTypeInv'
    BY <1>1, <1>2, <1>6, MemcpyExact
<1>8. Safe'
    <2>1. err = Success => /\ to + n <= SizeOf(id) /\ fr + n <= SizeOf(other)
                           /\ id # other \/ to + n <= fr \/ fr + n <= to
        <3>1. ASSUME err = Success, id = other PROVE to + n <= fr \/ fr + n <= to
            <4>1. ~(Distance(fr, to) < n)
                BY <1>3, <1>4, <3>1
            <4> QED
                BY <1>2, <4>1 DEF Distance
        <3> QED
            BY <1>2, <1>3, <1>4, <3>1
    <2>2. "CopyBuffer" \notin RectApis
        BY DEF RectApis
    <2> QED
        BY <1>1, <1>2, <1>4, <2>1, <2>2, MemcpySafe
<1> QED
    BY <1>7, <1>8 DEF Exact

LEMMA FillBufferExact ==
    ASSUME BufferKinds, MemTypeInv, NEW a \in LinearCalls, clEnqueueFillBuffer(a)
    PROVE  Exact
<1> DEFINE err == Result(a.nulls, <<>>, FillBufferBuilder(a))
           to == a.offset
           n == a.cb
           size == a.from
           id == a.buf.id
           moves == IF err = Success THEN MemFill(to, n, size) ELSE NoMoves
<1>1. Enqueue("FillBuffer", a, err, id, Host, moves)
    BY DEF clEnqueueFillBuffer
<1>2. a.buf \in Buffers /\ to \in Nat /\ n \in Nat /\ n <= HostSize /\ HostSize \in Nat
    BY DEF BufferKinds
<1>3. err = Success => /\ size \in Nat \ {0} /\ n % size = 0
                       /\ ~(to + n > a.buf.size)
    <2>1. /\ IsErrors(FillBufferBuilder(a))
          /\ FillBufferBuilder(a) = <<>> => /\ size \in PatternSizes /\ n % size = 0
                                            /\ ~(to + n > a.buf.size)
        BY FillBufferIs
    <2>2. IsErrors(<<>>)
        BY DEF IsErrors
    <2>3. err = Success => FillBufferBuilder(a) = <<>>
        BY <2>1, <2>2, MadeIsChecked
    <2> HIDE DEF err, size, to, n
    <2> QED
        BY <2>1, <2>3 DEF PatternSizes
<1>4. SizeOf(id) = a.buf.size /\ SizeOf(Host) = HostSize /\ id # Host /\ a.buf.size \in Nat
    BY <1>2, SizesAre
<1>5. \A i \in Nat : Sources(lastCommand', i) = {j \in {(i - to) % size} : i >= to /\ i < to + n}
    <2>1. lastCommand'.api = "FillBuffer" /\ lastCommand'.args = a
        BY <1>1, EnqueueIs
    <2> QED
        BY <2>1, SourcesAre
<1>6. err = Success =>
          /\ OneSource(moves)
          /\ \A i \in Nat : FromCells(moves, i) =
                 IF to <= i /\ i < to + n THEN {(i - to) % size} ELSE {}
          /\ \A mv \in moves : \E k \in 0..(n - 1) : mv = <<to + k, k % size>>
    <2> HIDE DEF err, to, n, size
    <2>1. err = Success => Fills(MemFill(to, n, size), to, n, size)
        BY <1>2, <1>3, MemFillIs
    <2>2. err = Success => moves = MemFill(to, n, size)
        OBVIOUS
    <2> HIDE DEF moves
    <2> QED
        BY <2>1, <2>2 DEF Fills
<1> HIDE DEF err, to, n, size, id, moves
<1>7. err = Success => \A i \in Nat : Sources(lastCommand', i) = FromCells(moves, i)
    <2>1. ASSUME err = Success, NEW i \in Nat, to <= i, i < to + n
          PROVE  Sources(lastCommand', i) = FromCells(moves, i)
        <3> DEFINE rest == (i - to) % size
        <3>1. FromCells(moves, i) = {rest}
            BY <1>6, <2>1
        <3>2. Sources(lastCommand', i) = {j \in {rest} : i >= to /\ i < to + n}
            BY <1>5
        <3> HIDE DEF rest
        <3> QED
            BY <1>2, <2>1, <3>1, <3>2
    <2>2. ASSUME err = Success, NEW i \in Nat, ~(to <= i /\ i < to + n)
          PROVE  Sources(lastCommand', i) = FromCells(moves, i)
        <3>1. FromCells(moves, i) = {}
            BY <1>6, <2>2
        <3>2. Sources(lastCommand', i) = {}
            BY <1>2, <1>5, <2>2
        <3> QED
            BY <3>1, <3>2
    <2> QED
        BY <1>2, <2>1, <2>2
<1>8. MovesExactly /\ MemTypeInv'
    BY <1>1, <1>6, <1>7, MovedExactly
<1>9. Safe'
    <2>1. ASSUME err = Success, NEW mv \in moves
          PROVE  mv[1] < SizeOf(id) /\ mv[2] < SizeOf(Host)
        <3>1. PICK k \in 0..(n - 1) : mv = <<to + k, k % size>>
            BY <1>6, <2>1
        <3>2. k % size \in 0..k
            BY <1>2, <1>3, <2>1, Quotient
        <3>3. mv[1] = to + k /\ mv[2] = k % size
            BY <3>1
        <3> DEFINE rest == k % size
        <3>4. rest \in 0..k /\ mv[2] = rest
            BY <3>2, <3>3
        <3> HIDE DEF rest
        <3> QED
            BY <1>2, <1>3, <1>4, <2>1, <3>1, <3>3, <3>4
    <2>2. "FillBuffer" \notin RectApis
        BY DEF RectApis
    <2> QED
        BY <1>1, <1>4, <2>1, <2>2, LinearIsSafe
<1> QED
    BY <1>8, <1>9 DEF Exact

LEMMA NothingMoves ==
    ASSUME MemTypeInv, NEW api \in {"Marker", "Barrier", "WaitForEvents"}, NEW a, NEW err,
           Enqueue(api, a, err, Host, Host, NoMoves)
    PROVE  Exact
<1>1. lastCommand'.api = api
    BY EnqueueIs
<1>2. OneSource(NoMoves) /\ \A i \in Nat : FromCells(NoMoves, i) = {}
    BY DEF OneSource, FromCells, NoMoves
<1>3. \A i \in Nat : Sources(lastCommand', i) = {}
    BY <1>1, SourcesAre
<1>4. MovesExactly /\ MemTypeInv'
    BY <1>2, <1>3, MovedExactly
<1>5. api \notin RectApis
    BY DEF RectApis
<1>6. \A mv \in NoMoves : FALSE
    BY DEF NoMoves
<1>7. Safe'
    BY <1>5, <1>6, LinearIsSafe
<1> QED
    BY <1>4, <1>7 DEF Exact

\* A side that is allowed passes the checks of its pitches and of its end.
LEMMA PitchesPass ==
    ASSUME NEW side, NEW r, IsSide(side), IsRegion(r), PitchesAllowed(side, r)
    PROVE  PitchErrors(side, FALSE, r) = <<>>
<1>1. /\ r[1] \in Nat /\ r[2] \in Nat /\ side.row \in Nat /\ side.slice \in Nat
      /\ RowPitch(side, r) \in Nat
    BY PitchesAre DEF IsSide, IsRegion
<1>2. r[2] * RowPitch(side, r) \in Nat
    BY <1>1, ProductIsNat
<1>3. /\ side.row # 0 => side.row >= r[1]
      /\ side.slice # 0 => /\ side.slice >= r[2] * RowPitch(side, r)
                           /\ side.slice % RowPitch(side, r) = 0
    BY DEF PitchesAllowed, RowPitch
<1>4. ~(side.row # 0 /\ side.row < r[1])
    BY <1>1, <1>3
<1>5. ~(side.slice # 0 /\ side.slice < r[2] * RowPitch(side, r))
    BY <1>1, <1>2, <1>3
<1>6. ~(side.slice # 0 /\ side.slice % RowPitch(side, r) # 0)
    BY <1>3
<1>7. ~(side.slice # 0 /\ \/ side.slice < r[2] * RowPitch(side, r)
                          \/ side.slice % RowPitch(side, r) # 0)
    BY <1>5, <1>6
<1>8. ~FALSE
    OBVIOUS
<1> QED
    BY <1>4, <1>7, <1>8, PitchErrorsAre

LEMMA AllowedPasses ==
    ASSUME NEW b, b.size \in Nat, NEW side, NEW r, NEW denied, IsSide(side), IsRegion(r),
           \A i \in 1..3 : r[i] # 0, PitchesAllowed(side, r), Allowed(b, side, r, denied)
    PROVE  /\ SideErrors(b, side, FALSE, r) = <<>>
           /\ b.kind = "buffer" /\ b.ctx = Ctx /\ b.flags \cap denied = {}
<1> DEFINE c == <<r[1] - 1, r[2] - 1, r[3] - 1>>
           row == RowPitch(side, r)
           slice == SlicePitch(side, r)
<1>1. r[1] \in Nat /\ r[2] \in Nat /\ r[3] \in Nat /\ row \in Nat
    BY PitchesAre DEF IsRegion
<1>2. /\ c[1] = r[1] - 1 /\ c[2] = r[2] - 1 /\ c[3] = r[3] - 1
      /\ r[1] - 1 \in 0..(r[1] - 1) /\ r[2] - 1 \in 0..(r[2] - 1) /\ r[3] - 1 \in 0..(r[3] - 1)
    BY <1>1
<1>3. c \in Area(r)
    BY <1>2 DEF Area
<1>4. CellAt(side, r, c) < b.size /\ CellAt(side, r, c) \in Nat
    BY <1>3, CellIs DEF Allowed
<1>5. RectEnd(side, r) = CellAt(side, r, c)
    <2>1. r[2] * row = row * r[2]
        BY <1>1
    <2>2. CellAt(side, r, c) = (side.origin[1] + c[1]) + (side.origin[2] + c[2]) * row
                               + (side.origin[3] + c[3]) * slice
        BY <2>1 DEF CellAt, RowPitch, SlicePitch
    <2>3. RectEnd(side, r) = side.origin[1] + (r[1] - 1) + (side.origin[2] + (r[2] - 1)) * row
                             + (side.origin[3] + (r[3] - 1)) * slice
        BY DEF RectEnd
    <2> HIDE DEF c, row, slice
    <2> QED
        BY <1>2, <2>2, <2>3
<1>6. ~(b.size < RectEnd(side, r))
    <2> HIDE DEF c
    <2> QED
        BY <1>4, <1>5
<1>7. PitchErrors(side, FALSE, r) = <<>>
    BY PitchesPass
<1> QED
    BY <1>6, <1>7, SideErrorsAre DEF Allowed

LEMMA RectCallIs ==
    ASSUME BufferKinds, NEW a \in RectCalls
    PROVE  /\ IsRect(a) /\ a.buf.size \in Nat /\ a.src.size \in Nat
           /\ a.buf.id # Host /\ a.src.id # Host
           /\ a.buf.id = a.src.id => a.buf = a.src
<1>1. /\ a.buf \in Buffers /\ a.src \in Buffers
      /\ a.buf.size \in Nat /\ a.src.size \in Nat /\ a.buf.id # Host /\ a.src.id # Host
      /\ a.buf.id = a.src.id => a.buf = a.src
    BY DEF BufferKinds
<1>2. IsRegion(a.region)
    BY DEF BufferKinds, IsRegion
<1>3. ASSUME NEW side \in {a.to, a.fr} PROVE IsSide(side)
    BY <1>3 DEF BufferKinds, IsSide
<1> QED
    BY <1>1, <1>2, <1>3 DEF IsRect

LEMMA RectIsExact ==
    ASSUME MemTypeInv, NEW api \in RectApis, NEW a, IsRect(a), NEW err, NEW target, NEW source,
           Enqueue(api, a, err, target, source, CopyRect(a)),
           err = Success => Roomy(a.to, a.region) /\ target # source,
           api = lastCommand'.api /\ Legal(lastCommand') /\ ~RefusedAlways(lastCommand') =>
               err = Success
    PROVE  Exact
<1>1. /\ lastCommand'.api = api /\ lastCommand'.args = a /\ lastCommand'.err = err
      /\ lastCommand'.target = target /\ lastCommand'.source = source
      /\ lastCommand'.moves = IF err = Success THEN CopyRect(a) ELSE {}
    BY EnqueueIs
<1>2. IsSide(a.to) /\ IsSide(a.fr) /\ IsRegion(a.region)
    BY DEF IsRect
<1>3. err = Success =>
          /\ OneSource(CopyRect(a))
          /\ \A i \in Nat : Sources(lastCommand', i) = FromCells(CopyRect(a), i)
    <2>1. ASSUME err = Success
          PROVE  /\ OneSource(CopyRect(a))
                 /\ \A i \in Nat : FromCells(CopyRect(a), i) = RectSources(a, i)
        BY <1>2, <2>1, CopyRectExact
    <2>2. \A i \in Nat : Sources(lastCommand', i) = RectSources(a, i)
        BY <1>1, SourcesAre
    <2> QED
        BY <2>1, <2>2
<1>4. MovesExactly /\ MemTypeInv'
    BY <1>3, MovedExactly
<1>5. LinearInBounds'
    BY <1>1 DEF LinearInBounds
<1>6. NoOverlap'
    BY <1>1 DEF NoOverlap
<1>7. LegalIsAccepted'
    BY <1>1 DEF LegalIsAccepted
<1> QED
    BY <1>4, <1>5, <1>6, <1>7 DEF Exact, Safe

LEMMA ReadRectExact ==
    ASSUME BufferKinds, MemTypeInv, NEW a \in RectCalls, clEnqueueReadBufferRect(a)
    PROVE  Exact
<1> DEFINE err == Result(a.nulls, <<>>, ReadBufferRectBuilder(a))
           l == lastCommand'
<1>1. Enqueue("ReadBufferRect", a, err, Host, a.src.id, CopyRect(a))
    BY DEF clEnqueueReadBufferRect
<1>2. l.api = "ReadBufferRect" /\ l.args = a
    BY <1>1, EnqueueIs
<1>3. IsRect(a) /\ a.src.size \in Nat /\ a.src.id # Host
    BY RectCallIs
<1>4. IsErrors(<<>>)
    BY DEF IsErrors
<1>5. err = Success => Roomy(a.to, a.region) /\ Host # a.src.id
    BY <1>3, <1>4, ReadBufferRectIs, MadeIsChecked
<1>6. ASSUME Legal(l) PROVE err = Success
    <2>1. /\ Proper(a) /\ PitchesAllowed(a.to, a.region) /\ PitchesAllowed(a.fr, a.region)
          /\ Allowed(a.src, a.fr, a.region, {"HostWriteOnly", "HostNoAccess"})
        BY <1>2, <1>6 DEF Legal, Proper
    <2>2. /\ IsSide(a.to) /\ IsSide(a.fr) /\ IsRegion(a.region)
          /\ \A i \in 1..3 : a.region[i] # 0
        BY <1>3, <2>1 DEF IsRect, Proper
    <2>3. PitchErrors(a.to, FALSE, a.region) = <<>>
        BY <2>1, <2>2, PitchesPass
    <2>4. /\ SideErrors(a.src, a.fr, FALSE, a.region) = <<>>
          /\ a.src.kind = "buffer" /\ a.src.ctx = Ctx
          /\ a.src.flags \cap {"HostWriteOnly", "HostNoAccess"} = {}
        BY <1>3, <2>1, <2>2, AllowedPasses
    <2>5. "queue" \notin a.nulls /\ ReadBufferRectBuilder(a) = <<>>
        BY <1>3, <2>1, <2>3, <2>4, ReadBufferRectIs
    <2> QED
        BY <1>3, <1>4, <2>5, ReadBufferRectIs, NothingNotified
<1>7. "ReadBufferRect" \in RectApis
    BY DEF RectApis
<1> QED
    BY <1>1, <1>3, <1>5, <1>6, <1>7, RectIsExact

LEMMA WriteRectExact ==
    ASSUME BufferKinds, MemTypeInv, NEW a \in RectCalls, clEnqueueWriteBufferRect(a)
    PROVE  Exact
<1> DEFINE err == Result(a.nulls, <<>>, WriteBufferRectBuilder(a))
           l == lastCommand'
<1>1. Enqueue("WriteBufferRect", a, err, a.buf.id, Host, CopyRect(a))
    BY DEF clEnqueueWriteBufferRect
<1>2. l.api = "WriteBufferRect" /\ l.args = a
    BY <1>1, EnqueueIs
<1>3. IsRect(a) /\ a.buf.size \in Nat /\ a.buf.id # Host
    BY RectCallIs
<1>4. IsErrors(<<>>)
    BY DEF IsErrors
<1>5. err = Success => Roomy(a.to, a.region) /\ a.buf.id # Host
    BY <1>3, <1>4, WriteBufferRectIs, MadeIsChecked
<1>6. ASSUME Legal(l), ~RefusedAlways(l) PROVE err = Success
    <2>1. /\ Proper(a) /\ PitchesAllowed(a.to, a.region) /\ PitchesAllowed(a.fr, a.region)
          /\ Allowed(a.buf, a.to, a.region, {"HostReadOnly", "HostNoAccess"})
        BY <1>2, <1>6 DEF Legal, Proper
    <2>2. /\ IsSide(a.to) /\ IsSide(a.fr) /\ IsRegion(a.region)
          /\ \A i \in 1..3 : a.region[i] # 0
        BY <1>3, <2>1 DEF IsRect, Proper
    <2>3. PitchErrors(a.fr, FALSE, a.region) = <<>>
        BY <2>1, <2>2, PitchesPass
    <2>4. /\ SideErrors(a.buf, a.to, FALSE, a.region) = <<>>
          /\ a.buf.kind = "buffer" /\ a.buf.ctx = Ctx
          /\ a.buf.flags \cap {"HostReadOnly", "HostNoAccess"} = {}
        BY <1>3, <2>1, <2>2, AllowedPasses
    <2>5. a.buf.flags \cap {"HostWriteOnly", "HostNoAccess"} = {}
        BY <1>2, <1>6, <2>4 DEF RefusedAlways
    <2>6. "queue" \notin a.nulls /\ WriteBufferRectBuilder(a) = <<>>
        BY <1>3, <2>1, <2>3, <2>4, <2>5, WriteBufferRectIs
    <2> QED
        BY <1>3, <1>4, <2>6, WriteBufferRectIs, NothingNotified
<1>7. "WriteBufferRect" \in RectApis
    BY DEF RectApis
<1> QED
    BY <1>1, <1>3, <1>5, <1>6, <1>7, RectIsExact

LEMMA CopyRectCallExact ==
    ASSUME BufferKinds, MemTypeInv, NEW a \in RectCalls, clEnqueueCopyBufferRect(a)
    PROVE  Exact
<1> DEFINE err == Result(a.nulls, <<>>, CopyBufferRectBuilder(a))
           l == lastCommand'
<1>1. Enqueue("CopyBufferRect", a, err, a.buf.id, a.src.id, CopyRect(a))
    BY DEF clEnqueueCopyBufferRect
<1>2. l.api = "CopyBufferRect" /\ l.args = a
    BY <1>1, EnqueueIs
<1>3. /\ IsRect(a) /\ a.buf.size \in Nat /\ a.src.size \in Nat
      /\ a.buf.id = a.src.id => a.buf = a.src
    BY RectCallIs
<1>4. IsErrors(<<>>)
    BY DEF IsErrors
<1>5. err = Success => Roomy(a.to, a.region) /\ a.buf.id # a.src.id
    BY <1>3, <1>4, CopyBufferRectIs, MadeIsChecked
<1>6. ASSUME Legal(l), ~RefusedAlways(l) PROVE err = Success
    <2>1. /\ Proper(a) /\ PitchesAllowed(a.to, a.region) /\ PitchesAllowed(a.fr, a.region)
          /\ Allowed(a.src, a.fr, a.region, {}) /\ Allowed(a.buf, a.to, a.region, {})
        BY <1>2, <1>6 DEF Legal, Proper
    <2>2. /\ IsSide(a.to) /\ IsSide(a.fr) /\ IsRegion(a.region)
          /\ \A i \in 1..3 : a.region[i] # 0
        BY <1>3, <2>1 DEF IsRect, Proper
    <2>3. /\ SideErrors(a.src, a.fr, FALSE, a.region) = <<>>
          /\ a.src.kind = "buffer" /\ a.src.ctx = Ctx
        BY <1>3, <2>1, <2>2, AllowedPasses
    <2>4. SideErrors(a.buf, a.to, FALSE, a.region) = <<>>
        <3> DEFINE none == {}
                   b == a.buf
                   side == a.to
                   r == a.region
        <3>1. Allowed(b, side, r, none) /\ PitchesAllowed(side, r)
            BY <2>1
        <3>2. b.size \in Nat /\ IsSide(side) /\ IsRegion(r) /\ \A i \in 1..3 : r[i] # 0
            BY <1>3, <2>2
        <3>3. SideErrors(b, side, FALSE, r) = <<>>
            <4> HIDE DEF none, b, side, r
            <4> QED
                BY <3>1, <3>2, AllowedPasses
        <3> QED
            BY <3>3
    <2>7. a.buf.kind = "buffer" /\ a.buf.ctx = Ctx
        BY <2>1 DEF Allowed
    <2>5. a.buf # a.src
        BY <1>2, <1>6 DEF RefusedAlways
    <2>6. "queue" \notin a.nulls /\ CopyBufferRectBuilder(a) = <<>>
        BY <1>3, <2>1, <2>3, <2>4, <2>5, <2>7, CopyBufferRectIs
    <2> QED
        BY <1>3, <1>4, <2>6, CopyBufferRectIs, NothingNotified
<1>7. "CopyBufferRect" \in RectApis
    BY DEF RectApis
<1> QED
    BY <1>1, <1>3, <1>5, <1>6, <1>7, RectIsExact

---------------------------------------------------------------------------
BufferInv == MemTypeInv /\ Safe

LEMMA BufferStepExact ==
    ASSUME BufferKinds, MemTypeInv, BufferNext
    PROVE  Exact
<1>1. ASSUME NEW a \in LinearCalls, clEnqueueReadBuffer(a) PROVE Exact
    BY <1>1, ReadBufferExact
<1>2. ASSUME NEW a \in LinearCalls, clEnqueueWriteBuffer(a) PROVE Exact
    BY <1>2, WriteBufferExact
<1>3. ASSUME NEW a \in LinearCalls, clEnqueueCopyBuffer(a) PROVE Exact
    BY <1>3, CopyBufferExact
<1>4. ASSUME NEW a \in LinearCalls, clEnqueueFillBuffer(a) PROVE Exact
    BY <1>4, FillBufferExact
<1>5. ASSUME NEW a \in LinearCalls, \/ clEnqueueMarkerWithWaitList(a)
                                    \/ clEnqueueBarrierWithWaitList(a)
                                    \/ clEnqueueWaitForEvents(a)
      PROVE  Exact
    <2>1. \E api \in {"Marker", "Barrier", "WaitForEvents"} : \E err :
              Enqueue(api, a, err, Host, Host, NoMoves)
        BY <1>5 DEF clEnqueueMarkerWithWaitList, clEnqueueBarrierWithWaitList,
                    clEnqueueWaitForEvents
    <2> QED
        BY <2>1, NothingMoves
<1>6. ASSUME NEW a \in RectCalls, clEnqueueReadBufferRect(a) PROVE Exact
    BY <1>6, ReadRectExact
<1>7. ASSUME NEW a \in RectCalls, clEnqueueWriteBufferRect(a) PROVE Exact
    BY <1>7, WriteRectExact
<1>8. ASSUME NEW a \in RectCalls, clEnqueueCopyBufferRect(a) PROVE Exact
    BY <1>8, CopyRectCallExact
<1> QED
    BY <1>1, <1>2, <1>3, <1>4, <1>5, <1>6, <1>7, <1>8 DEF BufferNext

LEMMA BufferStart ==
    ASSUME BufferKinds, BufferInit
    PROVE  BufferInv
<1>1. MemTypeInv
    <2>1. ASSUME NEW id \in DOMAIN mem PROVE DOMAIN mem[id] = 0..(SizeOf(id) - 1)
        BY <2>1 DEF BufferInit
    <2>2. \A id \in DOMAIN mem : \A i \in 0..(SizeOf(id) - 1) : i \in Nat
        <3>1. ASSUME NEW id \in DOMAIN mem PROVE SizeOf(id) \in Nat
            <4>1. id = Host \/ \E b \in Buffers : id = b.id
                BY <3>1 DEF BufferInit
            <4>2. CASE id = Host
                BY <4>2 DEF SizeOf, BufferKinds
            <4>3. CASE \E b \in Buffers : id = b.id
                BY <4>3, SizesAre
            <4> QED
                BY <4>1, <4>2, <4>3
        <3> QED
            BY <3>1
    <2>3. mem = [id \in DOMAIN mem |-> mem[id]]
        BY DEF BufferInit
    <2> QED
        BY <2>1, <2>2, <2>3 DEF MemTypeInv
<1>2. lastCommand.moves = {} /\ lastCommand.api \notin RectApis
    BY DEF BufferInit, NoMoves, RectApis
<1>3. Safe
    BY <1>2 DEF Safe, LinearInBounds, InBounds, NoOverlap, LegalIsAccepted
<1> QED
    BY <1>1, <1>3 DEF BufferInv

\* Whatever the buffers, the areas, the pitches and the faults of a call: what
\* an accepted command moves are the cells of its area, each from the cell it
\* corresponds to, and a refused one moves nothing; linear commands stay inside
\* their objects, no command reads what it writes, and rectangles that OpenCL
\* allows are accepted, but for the two kinds that never are
\* (EnqueueReadBufferBuilder and the other builders, CPUThread::Execute).
THEOREM Buffer_Commands_Are_Exact ==
    ASSUME BufferKinds
    PROVE  BufferSpec => BufferCommandsAreExact
<1>1. BufferInit => BufferInv
    BY BufferStart
<1>2. BufferInv /\ [BufferNext]_bufferVars => BufferInv' /\ [MovesExactly]_bufferVars
    <2>1. ASSUME BufferInv, BufferNext PROVE BufferInv' /\ MovesExactly
        BY <2>1, BufferStepExact DEF BufferInv, Exact
    <2>2. ASSUME BufferInv, UNCHANGED bufferVars PROVE BufferInv'
        BY <2>2 DEF bufferVars, BufferInv, MemTypeInv, Safe, LinearInBounds, InBounds, NoOverlap,
                    LegalIsAccepted
    <2> QED
        BY <2>1, <2>2
<1>3. BufferInv => LinearInBounds /\ NoOverlap /\ LegalIsAccepted
    BY DEF BufferInv, Safe
<1> QED
    BY <1>1, <1>2, <1>3, PTL DEF BufferSpec, BufferCommandsAreExact

---------------------------------------------------------------------------
(* Commands on images: what it means that a builder notified nothing.      *)

InRegion(img, origin, r) ==
    \A i \in 1..3 : r[i] # 0 /\ origin[i] + r[i] <= Extent(img)[i]

HostIsNarrow(a) ==
    \/ HostRow(a) < a.region[1] * a.img.img.elem
    \/ HostSlice(a) < HostRow(a) * a.region[2]

LEMMA OneCheckIs ==
    ASSUME NEW b, NEW e \in Errors
    PROVE  IsErrors(Check(b, e)) /\ (Check(b, e) = <<>> <=> ~b)
BY ErrorsOfOne, NothingWrong

LEMMA NoErrors == IsErrors(<<>>)
BY DEF IsErrors

LEMMA ErrorsOfImages ==
    /\ InvalidValue \in Errors /\ InvalidMemObject \in Errors /\ InvalidOperation \in Errors
    /\ InvalidContext \in Errors /\ FormatMismatch \in Errors /\ InvalidImageSize \in Errors
    /\ FormatNotSupported \in Errors
BY DEF Errors

LEMMA ObjectErrorsAre ==
    ASSUME NEW o, NEW kind, NEW denied
    PROVE  IsErrors(ObjectErrors(o, kind, denied)) /\ (ObjectErrors(o, kind, denied) = <<>> => o.kind = kind)
<1> DEFINE other == o.kind # kind
           forbidden == o.flags \cap denied # {}
           foreign == o.ctx # Ctx
<1>1. ObjectErrors(o, kind, denied) =
          FirstOf(<< <<other, InvalidMemObject>>, <<forbidden, InvalidOperation>>,
                     <<foreign, InvalidContext>> >>)
    BY DEF ObjectErrors
<1> HIDE DEF other, forbidden, foreign
<1>2. IsErrors(ObjectErrors(o, kind, denied))
    BY <1>1, ErrorsOfImages, ErrorsOfThree
<1>3. ObjectErrors(o, kind, denied) = <<>> <=> ~other /\ ~forbidden /\ ~foreign
    BY <1>1, NothingWrongInThree
<1> QED
    BY <1>2, <1>3 DEF other

LEMMA SupportedAre ==
    ASSUME NEW o
    PROVE  /\ IsErrors(Supported(o))
           /\ Supported(o) = <<>> /\ o.kind = "image" => o.img.fmt \in ImageDevice.formats
<1> DEFINE img == o.img
           large == CASE img.type \in {"1D_ARRAY", "2D_ARRAY"} -> img.array > ImageDevice.arr
                      [] img.type = "1D" -> img.width > ImageDevice.w2
                      [] img.type = "1D_BUFFER" -> img.width > ImageDevice.buf
                      [] img.type = "2D" -> img.width > ImageDevice.w2 \/ img.height > ImageDevice.h2
                      [] img.type = "3D" -> \/ img.width > ImageDevice.w3
                                            \/ img.height > ImageDevice.h3
                                            \/ img.depth > ImageDevice.d3
           unknown == img.fmt \notin ImageDevice.formats
           s == Check(large, InvalidImageSize)
           t == Check(unknown, FormatNotSupported)
<1>1. Supported(o) = IF o.kind # "image" THEN <<>> ELSE s \o t
    BY DEF Supported, CheckDevImgSupport
<1> HIDE DEF large, unknown
<1>2. IsErrors(s) /\ IsErrors(t) /\ (t = <<>> <=> ~unknown)
    BY ErrorsOfImages, OneCheckIs
<1> HIDE DEF s, t
<1>3. IsErrors(s \o t) /\ (s \o t = <<>> <=> s = <<>> /\ t = <<>>)
    BY <1>2, ErrorsOfBoth
<1> QED
    BY <1>1, <1>2, <1>3, NoErrors DEF unknown

LEMMA ImageRegionErrorsAre ==
    ASSUME NEW a, NEW o, NEW origin
    PROVE  /\ IsErrors(ImageRegionErrors(a, o, origin))
           /\ ImageRegionErrors(a, o, origin) = <<>> => InRegion(o.img, origin, a.region)
<1> DEFINE bad == \/ "origin" \in a.nulls \/ "region" \in a.nulls
                  \/ \E i \in 1..3 : a.region[i] = 0
                  \/ ~IsValidImgRegion(o.img, origin, a.region)
<1>1. ImageRegionErrors(a, o, origin) = Check(bad, InvalidValue)
    BY DEF ImageRegionErrors
<1>2. ~bad => InRegion(o.img, origin, a.region)
    BY DEF InRegion, IsValidImgRegion
<1> HIDE DEF bad
<1> QED
    BY <1>1, <1>2, ErrorsOfImages, OneCheckIs

LEMMA HostAreaErrorsAre ==
    ASSUME NEW a
    PROVE  /\ IsErrors(HostAreaErrors(a))
           /\ HostAreaErrors(a) = <<>> /\ a.img.kind = "image" =>
                  InRegion(a.img.img, a.origin, a.region) /\ ~HostIsNarrow(a)
<1> DEFINE s == ImageRegionErrors(a, a.img, a.origin)
           narrow == HostIsNarrow(a)
           t == Check(narrow, InvalidValue)
<1>1. HostAreaErrors(a) = IF a.img.kind # "image" THEN <<>>
                          ELSE IF s # <<>> THEN <<InvalidValue>> ELSE t
    BY DEF HostAreaErrors, HostIsNarrow
<1>2. s = <<>> => InRegion(a.img.img, a.origin, a.region)
    BY ImageRegionErrorsAre
<1> HIDE DEF s, narrow
<1>3. IsErrors(t) /\ (t = <<>> <=> ~narrow)
    BY ErrorsOfImages, OneCheckIs
<1> HIDE DEF t
<1>4. IsErrors(<<InvalidValue>>) /\ <<InvalidValue>> # <<>>
    BY ErrorsOfImages DEF IsErrors
<1> QED
    BY <1>1, <1>2, <1>3, <1>4, NoErrors DEF narrow

LEMMA ErrorsOfFive ==
    ASSUME NEW s, IsErrors(s), NEW t, IsErrors(t), NEW u, IsErrors(u), NEW v, IsErrors(v),
           NEW w, IsErrors(w)
    PROVE  /\ IsErrors(s \o t \o u \o v \o w)
           /\ s \o t \o u \o v \o w = <<>> <=> s = <<>> /\ t = <<>> /\ u = <<>> /\ v = <<>> /\ w = <<>>
<1> DEFINE x == s \o t \o u \o v
<1>1. IsErrors(x) /\ (x = <<>> <=> s = <<>> /\ t = <<>> /\ u = <<>> /\ v = <<>>)
    BY ErrorsOfMany
<1> HIDE DEF x
<1>2. IsErrors(x \o w) /\ (x \o w = <<>> <=> x = <<>> /\ w = <<>>)
    BY <1>1, ErrorsOfBoth
<1>3. x \o w = s \o t \o u \o v \o w
    BY DEF x
<1> QED
    BY <1>1, <1>2, <1>3

\* What is known of the arguments of an accepted command.
ReadsImage(a) ==
    /\ a.img.kind = "image" /\ a.img.img.fmt \in ImageDevice.formats
    /\ InRegion(a.img.img, a.origin, a.region)

LEMMA ReadImageIs ==
    ASSUME NEW a
    PROVE  /\ IsErrors(ReadImageBuilder(a))
           /\ ReadImageBuilder(a) = <<>> => ReadsImage(a) /\ ~HostIsNarrow(a)
<1> DEFINE s == ObjectErrors(a.img, "image", {"HostWriteOnly", "HostNoAccess"})
           missing == "ptr" \in a.nulls
           t == Check(missing, InvalidValue)
           u == Supported(a.img)
           v == HostAreaErrors(a)
           w == CheckedWaitList(a.wl, a.blocking)
<1>1. ReadImageBuilder(a) = s \o t \o u \o v \o w
    BY DEF ReadImageBuilder
<1>2. IsErrors(t)
    <2> HIDE DEF missing
    <2> QED
        BY ErrorsOfImages, OneCheckIs
<1>3. IsErrors(s) /\ IsErrors(u) /\ IsErrors(v) /\ IsErrors(w)
    BY ObjectErrorsAre, SupportedAre, HostAreaErrorsAre, WaitListErrors
<1>4. s = <<>> /\ u = <<>> /\ v = <<>> => ReadsImage(a) /\ ~HostIsNarrow(a)
    BY ObjectErrorsAre, SupportedAre, HostAreaErrorsAre DEF ReadsImage
<1> HIDE DEF s, t, u, v, w
<1>5. /\ IsErrors(s \o t \o u \o v \o w)
      /\ s \o t \o u \o v \o w = <<>> <=> s = <<>> /\ t = <<>> /\ u = <<>> /\ v = <<>> /\ w = <<>>
    BY <1>2, <1>3, ErrorsOfFive
<1> QED
    BY <1>1, <1>4, <1>5

LEMMA WriteImageIs ==
    ASSUME NEW a
    PROVE  /\ IsErrors(WriteImageBuilder(a))
           /\ WriteImageBuilder(a) = <<>> => ReadsImage(a) /\ ~HostIsNarrow(a)
<1> DEFINE s == ObjectErrors(a.img, "image", {"HostReadOnly", "HostNoAccess"})
           other == a.img.kind # "image"
           t == Check(other, InvalidValue)
           u == Supported(a.img)
           v == HostAreaErrors(a)
           w == CheckedWaitList(a.wl, a.blocking)
<1>1. WriteImageBuilder(a) = s \o t \o u \o v \o w
    BY DEF WriteImageBuilder
<1>2. IsErrors(t)
    <2> HIDE DEF other
    <2> QED
        BY ErrorsOfImages, OneCheckIs
<1>3. IsErrors(s) /\ IsErrors(u) /\ IsErrors(v) /\ IsErrors(w)
    BY ObjectErrorsAre, SupportedAre, HostAreaErrorsAre, WaitListErrors
<1>4. s = <<>> /\ u = <<>> /\ v = <<>> => ReadsImage(a) /\ ~HostIsNarrow(a)
    BY ObjectErrorsAre, SupportedAre, HostAreaErrorsAre DEF ReadsImage
<1> HIDE DEF s, t, u, v, w
<1>5. /\ IsErrors(s \o t \o u \o v \o w)
      /\ s \o t \o u \o v \o w = <<>> <=> s = <<>> /\ t = <<>> /\ u = <<>> /\ v = <<>> /\ w = <<>>
    BY <1>2, <1>3, ErrorsOfFive
<1> QED
    BY <1>1, <1>4, <1>5

LEMMA CopyImageIs ==
    ASSUME NEW a
    PROVE  /\ IsErrors(CopyImageBuilder(a))
           /\ CopyImageBuilder(a) = <<>> =>
                  /\ ReadsImage(a) /\ a.other.kind = "image" /\ a.img.img.fmt = a.other.img.fmt
                  /\ InRegion(a.other.img, a.from, a.region)
<1> DEFINE s1 == ObjectErrors(a.img, "image", {})
           s2 == ObjectErrors(a.other, "image", {})
           differ == a.img.img.fmt # a.other.img.fmt
           s == Check(differ, FormatMismatch)
           s3 == IF s2 # <<>> THEN <<>> ELSE s
           s4 == Supported(a.img)
           s5 == Supported(a.other)
           out == ImageRegionErrors(a, a.img, a.origin) # <<>>
           outOther == ImageRegionErrors(a, a.other, a.from) # <<>>
           both == FirstOf(<< <<out, InvalidValue>>, <<outOther, InvalidValue>> >>)
           s6 == IF a.img.kind # "image" \/ a.other.kind # "image" THEN <<>> ELSE both
           s7 == CheckedWaitList(a.wl, FALSE)
<1>1. CopyImageBuilder(a) = s1 \o s2 \o s3 \o s4 \o s5 \o s6 \o s7
    BY DEF CopyImageBuilder
<1>2. /\ IsErrors(s1) /\ (s1 = <<>> => a.img.kind = "image")
      /\ IsErrors(s2) /\ (s2 = <<>> => a.other.kind = "image")
    BY ObjectErrorsAre
<1>3. IsErrors(s3) /\ (s2 = <<>> /\ s3 = <<>> => ~differ)
    <2> HIDE DEF differ, s2
    <2>1. IsErrors(s) /\ (s = <<>> <=> ~differ)
        BY ErrorsOfImages, OneCheckIs
    <2> HIDE DEF s
    <2> QED
        BY <2>1, NoErrors
<1>4. /\ IsErrors(s4) /\ IsErrors(s5) /\ IsErrors(s7)
      /\ s4 = <<>> /\ a.img.kind = "image" => a.img.img.fmt \in ImageDevice.formats
    BY SupportedAre, WaitListErrors
<1>5. /\ IsErrors(s6)
      /\ s6 = <<>> /\ a.img.kind = "image" /\ a.other.kind = "image" =>
             InRegion(a.img.img, a.origin, a.region) /\ InRegion(a.other.img, a.from, a.region)
    <2>1. /\ ~out => InRegion(a.img.img, a.origin, a.region)
          /\ ~outOther => InRegion(a.other.img, a.from, a.region)
        BY ImageRegionErrorsAre
    <2> HIDE DEF out, outOther
    <2>2. IsErrors(both) /\ (both = <<>> <=> ~out /\ ~outOther)
        BY ErrorsOfImages, ErrorsOfTwo, NothingWrongInTwo
    <2> HIDE DEF both
    <2> QED
        BY <2>1, <2>2, NoErrors
<1> DEFINE x == s1 \o s2 \o s3 \o s4
<1>6. IsErrors(x) /\ (x = <<>> <=> s1 = <<>> /\ s2 = <<>> /\ s3 = <<>> /\ s4 = <<>>)
    <2> HIDE DEF s1, s2, s3, s4
    <2> QED
        BY <1>2, <1>3, <1>4, ErrorsOfMany
<1>7. CopyImageBuilder(a) = x \o s5 \o s6 \o s7
    BY <1>1
<1> HIDE DEF x, s1, s2, s3, s4, s5, s6, s7
<1>8. /\ IsErrors(x \o s5 \o s6 \o s7)
      /\ x \o s5 \o s6 \o s7 = <<>> <=> x = <<>> /\ s5 = <<>> /\ s6 = <<>> /\ s7 = <<>>
    BY <1>4, <1>5, <1>6, ErrorsOfMany
<1> QED
    BY <1>2, <1>3, <1>4, <1>5, <1>6, <1>7, <1>8 DEF ReadsImage, differ

LEMMA BufferPartErrorsAre ==
    ASSUME NEW a
    PROVE  /\ IsErrors(BufferPartErrors(a))
           /\ BufferPartErrors(a) = <<>> /\ a.img.kind = "image" /\ a.other.kind = "buffer" =>
                  /\ InRegion(a.img.img, a.origin, a.region)
                  /\ ~(a.offset + a.region[1] * a.region[2] * a.region[3] * a.img.img.elem
                           > a.other.size)
<1> DEFINE out == ImageRegionErrors(a, a.img, a.origin) # <<>>
           behind == a.offset + a.region[1] * a.region[2] * a.region[3] * a.img.img.elem
                         > a.other.size
           both == FirstOf(<< <<out, InvalidValue>>, <<behind, InvalidValue>> >>)
<1>1. BufferPartErrors(a) =
          IF a.img.kind # "image" \/ a.other.kind # "buffer" THEN <<>> ELSE both
    BY DEF BufferPartErrors
<1>2. ~out => InRegion(a.img.img, a.origin, a.region)
    BY ImageRegionErrorsAre
<1> HIDE DEF out, behind
<1>3. IsErrors(both) /\ (both = <<>> <=> ~out /\ ~behind)
    BY ErrorsOfImages, ErrorsOfTwo, NothingWrongInTwo
<1> HIDE DEF both
<1> QED
    BY <1>1, <1>2, <1>3, NoErrors DEF behind

\* The builders of the two copies between an image and a buffer.
LEMMA ImageAndBufferIs ==
    ASSUME NEW a, NEW errors,
           errors = ObjectErrors(a.other, "buffer", {}) \o ImageOfBufferErrors(a)
                    \o Supported(a.img) \o BufferPartErrors(a) \o CheckedWaitList(a.wl, FALSE)
    PROVE  /\ IsErrors(errors)
           /\ errors = <<>> =>
                  /\ ReadsImage(a) /\ a.other.kind = "buffer"
                  /\ ~(a.offset + a.region[1] * a.region[2] * a.region[3] * a.img.img.elem
                           > a.other.size)
<1> DEFINE s == ObjectErrors(a.other, "buffer", {})
           other == a.img.kind # "image"
           made == a.img.kind = "image" /\ a.img.img.type = "1D_BUFFER"
                       /\ a.img.img.buffer.id = a.other.id
           foreign == a.img.ctx # Ctx
           t == ImageOfBufferErrors(a)
           u == Supported(a.img)
           v == BufferPartErrors(a)
           w == CheckedWaitList(a.wl, FALSE)
<1>1. IsErrors(t) /\ (t = <<>> => a.img.kind = "image")
    <2>1. t = FirstOf(<< <<other, InvalidMemObject>>, <<made, InvalidMemObject>>,
                         <<foreign, InvalidContext>> >>)
        BY DEF ImageOfBufferErrors
    <2> HIDE DEF t, other, made, foreign
    <2>2. IsErrors(t)
        BY <2>1, ErrorsOfImages, ErrorsOfThree
    <2>3. t = <<>> <=> ~other /\ ~made /\ ~foreign
        BY <2>1, NothingWrongInThree
    <2> QED
        BY <2>2, <2>3 DEF other
<1>2. IsErrors(s) /\ IsErrors(u) /\ IsErrors(v) /\ IsErrors(w)
    BY ObjectErrorsAre, SupportedAre, BufferPartErrorsAre, WaitListErrors
<1>3. /\ s = <<>> => a.other.kind = "buffer"
      /\ u = <<>> /\ a.img.kind = "image" => a.img.img.fmt \in ImageDevice.formats
      /\ v = <<>> /\ a.img.kind = "image" /\ a.other.kind = "buffer" =>
             /\ InRegion(a.img.img, a.origin, a.region)
             /\ ~(a.offset + a.region[1] * a.region[2] * a.region[3] * a.img.img.elem
                      > a.other.size)
    BY ObjectErrorsAre, SupportedAre, BufferPartErrorsAre
<1> HIDE DEF s, t, u, v, w
<1>4. /\ IsErrors(s \o t \o u \o v \o w)
      /\ s \o t \o u \o v \o w = <<>> <=> s = <<>> /\ t = <<>> /\ u = <<>> /\ v = <<>> /\ w = <<>>
    BY <1>1, <1>2, ErrorsOfFive
<1>5. errors = s \o t \o u \o v \o w
    BY DEF s, t, u, v, w
<1> QED
    BY <1>1, <1>3, <1>4, <1>5 DEF ReadsImage

LEMMA FillImageIs ==
    ASSUME NEW a
    PROVE  /\ IsErrors(FillImageBuilder(a))
           /\ FillImageBuilder(a) = <<>> => ReadsImage(a)
<1> DEFINE s == ObjectErrors(a.img, "image", {})
           missing == "ptr" \in a.nulls
           t == Check(missing, InvalidValue)
           u == Supported(a.img)
           v == IF a.img.kind # "image" THEN <<>> ELSE ImageRegionErrors(a, a.img, a.origin)
           w == CheckedWaitList(a.wl, FALSE)
<1>1. FillImageBuilder(a) = s \o t \o u \o v \o w
    BY DEF FillImageBuilder
<1>2. IsErrors(t)
    <2> HIDE DEF missing
    <2> QED
        BY ErrorsOfImages, OneCheckIs
<1>3. IsErrors(s) /\ IsErrors(u) /\ IsErrors(v) /\ IsErrors(w)
    BY ObjectErrorsAre, SupportedAre, ImageRegionErrorsAre, WaitListErrors, NoErrors
<1>4. s = <<>> /\ u = <<>> /\ v = <<>> => ReadsImage(a)
    BY ObjectErrorsAre, SupportedAre, ImageRegionErrorsAre DEF ReadsImage
<1> HIDE DEF s, t, u, v, w
<1>5. /\ IsErrors(s \o t \o u \o v \o w)
      /\ s \o t \o u \o v \o w = <<>> <=> s = <<>> /\ t = <<>> /\ u = <<>> /\ v = <<>> /\ w = <<>>
    BY <1>2, <1>3, ErrorsOfFive
<1> QED
    BY <1>1, <1>4, <1>5

---------------------------------------------------------------------------
(* Where the bytes of a pixel are: byte k of the pixel at c of an area.    *)

AreaByte(area, elem, c, k) == At(area, c[2], c[3]) + (c[1] * elem + k)

IsTriple(p) == p[1] \in Nat /\ p[2] \in Nat /\ p[3] \in Nat

LEMMA Products ==
    ASSUME NEW x \in Nat, NEW y \in Nat, NEW z \in Nat
    PROVE  /\ x * y \in Nat /\ (x + y) * z = x * z + y * z /\ x * y = y * x
           /\ (x * y) * z = x * (y * z) /\ 1 * x = x /\ 0 * x = 0 /\ x * 1 = x
OBVIOUS

\* A place in a grid is before the end of it.
LEMMA WithinGrid ==
    ASSUME NEW x \in Nat, NEW n \in Nat, NEW s \in Nat, NEW y \in 0..(s - 1), x < n
    PROVE  y + x * s < n * s /\ y + x * s \in Nat
<1>1. (x + 1) * s <= n * s /\ (x + 1) * s = x * s + s
    BY ProductGrows
<1>2. x * s \in Nat /\ n * s \in Nat
    BY ProductIsNat
<1> QED
    BY <1>1, <1>2

LEMMA PixelsAre ==
    ASSUME NEW r, IsTriple(r), NEW c \in Pixels(r)
    PROVE  /\ c = <<c[1], c[2], c[3]>> /\ IsTriple(c)
           /\ c[1] < r[1] /\ c[2] < r[2] /\ c[3] < r[3]
BY DEF Pixels, IsTriple

LEMMA ElementIs ==
    ASSUME NEW fmt, FormatErrors(fmt) = <<>>
    PROVE  /\ ElementSize(fmt) \in Nat \ {0} /\ ChannelSize(fmt.type) \in {1, 2, 4}
           /\ fmt.order \in Orders
           /\ fmt.type \in Packed => ElementSize(fmt) = ChannelSize(fmt.type)
           /\ fmt.type \notin Packed =>
                  ElementSize(fmt) = ChannelSize(fmt.type) * NumChannels(fmt.order)
           /\ fmt.order \in ThreeChannels => fmt.type \in Packed
<1> DEFINE bad == \/ fmt.order \notin Orders
                  \/ fmt.type \notin Types
                  \/ fmt.order \in {"RGB", "RGBx"} /\ fmt.type \notin Packed
                  \/ fmt.order \in {"ARGB", "BGRA"} /\ fmt.type \notin OneByte
                  \/ fmt.order \in {"INTENSITY", "LUMINANCE"} /\ fmt.type \notin Gray
<1>1. FormatErrors(fmt) = Check(bad, InvalidFormat)
    BY DEF FormatErrors
<1>2. ~bad
    <2> HIDE DEF bad
    <2> QED
        BY <1>1, NothingWrong
<1>3. fmt.order \in Orders /\ fmt.type \in Types
    BY <1>2
<1>4. ChannelSize(fmt.type) \in {1, 2, 4}
    BY <1>3 DEF ChannelSize, Types
<1>5. NumChannels(fmt.order) \in {1, 2, 3, 4}
    BY <1>3 DEF NumChannels, Orders
<1>6. fmt.order \in ThreeChannels => fmt.type \in Packed
    BY <1>2 DEF ThreeChannels
<1>7. /\ fmt.type \in Packed => ElementSize(fmt) = ChannelSize(fmt.type) * 1
      /\ fmt.type \notin Packed =>
             ElementSize(fmt) = ChannelSize(fmt.type) * NumChannels(fmt.order)
    BY DEF ElementSize
<1> QED
    BY <1>3, <1>4, <1>5, <1>6, <1>7

\* The layout of an image follows from its extent.
LEMMA ImageIs ==
    ASSUME NEW img, IsImage(img)
    PROVE  LET e == Extent(img)
           IN  /\ img.elem = ElementSize(img.fmt) /\ img.elem \in Nat \ {0} /\ IsTriple(e)
               /\ img.row = e[1] * img.elem
               /\ \/ e[3] = 1 /\ img.size = img.row * e[2] /\ img.slice \in Nat
                  \/ /\ img.slice = img.row * e[2]
                     /\ img.size = (img.row * img.slice) * e[3]
<1> DEFINE desc == [image_type |-> img.type, width |-> img.width, height |-> img.height,
                    depth |-> img.depth, array |-> img.array, row |-> 0, slice |-> 0,
                    buffer |-> img.buffer]
           e == Extent(img)
           w == e[1] * img.elem
<1>1. img = SetImage(img.fmt, desc) /\ FormatErrors(img.fmt) = <<>> /\ IsTriple(e)
    BY DEF IsImage, IsTriple
<1>2. img.elem = ElementSize(img.fmt)
    BY <1>1 DEF SetImage
<1>3. img.elem \in Nat \ {0}
    BY <1>1, <1>2, ElementIs
<1>4. /\ img.row = RowPitchOf(desc, img.elem) /\ img.slice = SlicePitchOf(desc, img.elem)
      /\ img.size = SizeOfImage(desc, img.row, img.slice)
      /\ img.height = Height(desc)
    BY <1>1, <1>2 DEF SetImage
<1>5. /\ desc.row = 0 /\ desc.slice = 0 /\ desc.image_type = img.type /\ desc.width = img.width
      /\ desc.height = img.height /\ desc.depth = img.depth /\ desc.array = img.array
    OBVIOUS
<1> HIDE DEF desc
<1>6. img.row = img.width * img.elem
    BY <1>4, <1>5 DEF RowPitchOf
<1>7. img.slice = IF RequiresSlicePitch(img.type) THEN img.row * img.height ELSE 0
    BY <1>4, <1>5 DEF SlicePitchOf
<1>8. img.type \in {"1D", "1D_BUFFER", "1D_ARRAY", "2D", "2D_ARRAY", "3D"}
    BY DEF IsImage
<1>9. img.type # "1D_ARRAY" /\ img.type \notin {"2D", "2D_ARRAY", "3D"} =>
          img.type \in {"1D", "1D_BUFFER"}
    BY <1>8
<1>10. w \in Nat
    BY <1>1, <1>3, ProductIsNat DEF IsTriple
<1>11. CASE img.type \in {"1D", "1D_BUFFER"}
    <2>1. e = <<img.width, 1, 1>>
        BY <1>11 DEF Extent
    <2>2. img.size = img.row
        BY <1>4, <1>5, <1>11 DEF SizeOfImage
    <2>3. img.slice = 0
        BY <1>7, <1>11 DEF RequiresSlicePitch, IsArray
    <2>4. img.row = w /\ e[2] = 1 /\ e[3] = 1 /\ w * 1 = w
        BY <1>6, <1>10, <2>1
    <2> QED
        BY <1>1, <1>2, <1>3, <2>2, <2>3, <2>4
<1>12. CASE img.type = "1D_ARRAY"
    <2>1. e = <<img.width, img.array, 1>>
        BY <1>12 DEF Extent
    <2>2. img.size = img.row * img.array
        BY <1>4, <1>5, <1>12 DEF SizeOfImage
    <2>3. img.height = 0
        BY <1>4, <1>5, <1>12 DEF Height
    <2>4. img.row = w /\ img.slice = w * 0
        BY <1>6, <1>7, <1>12, <2>1, <2>3 DEF RequiresSlicePitch, IsArray
    <2>5. img.slice = 0
        BY <1>10, <2>4
    <2> QED
        BY <1>1, <1>2, <1>3, <2>1, <2>2, <2>4, <2>5
<1>13. CASE img.type = "2D"
    <2>1. e = <<img.width, img.height, 1>>
        BY <1>13 DEF Extent
    <2>2. img.size = img.row * img.height
        BY <1>4, <1>5, <1>13 DEF SizeOfImage
    <2>3. img.slice = 0
        BY <1>7, <1>13 DEF RequiresSlicePitch, IsArray
    <2> QED
        BY <1>1, <1>2, <1>3, <1>6, <2>1, <2>2, <2>3
<1>14. CASE img.type \in {"2D_ARRAY", "3D"}
    <2>1. e = <<img.width, img.height, IF img.type = "3D" THEN img.depth ELSE img.array>>
        BY <1>14 DEF Extent
    <2>2. img.size = (img.row * img.slice) * (IF img.type = "3D" THEN img.depth ELSE img.array)
        BY <1>4, <1>5, <1>14 DEF SizeOfImage
    <2>3. img.slice = img.row * img.height
        BY <1>7, <1>14 DEF RequiresSlicePitch, IsArray
    <2> QED
        BY <1>1, <1>2, <1>3, <1>6, <2>1, <2>2, <2>3
<1> QED
    BY <1>8, <1>11, <1>12, <1>13, <1>14

\* The offset and the pitches of a command lead to the byte that the number
\* of the pixel says, and to one that the image has.
LEMMA ImageSide ==
    ASSUME NEW img, IsImage(img), NEW origin, IsTriple(origin), NEW r, IsTriple(r),
           InRegion(img, origin, r), NEW c \in Pixels(r), NEW k \in 0..(img.elem - 1)
    PROVE  /\ AreaByte(ImageArea(img, origin), img.elem, c, k) = PixelByte(img, origin, c, k)
           /\ PixelByte(img, origin, c, k) \in Nat
           /\ PixelByte(img, origin, c, k) < img.size
<1> DEFINE e == Extent(img)
           m == img.elem
           row == img.row
           slice == img.slice
           x == origin[1] + c[1]
           y == origin[2] + c[2]
           z == origin[3] + c[3]
           area == ImageArea(img, origin)
<1>1. /\ m \in Nat \ {0} /\ IsTriple(e) /\ row = e[1] * m
      /\ \/ e[3] = 1 /\ img.size = row * e[2] /\ slice \in Nat
         \/ slice = row * e[2] /\ img.size = (row * slice) * e[3]
    BY ImageIs
<1>2. IsTriple(c) /\ c[1] < r[1] /\ c[2] < r[2] /\ c[3] < r[3]
    BY PixelsAre
<1>3. e[1] \in Nat /\ e[2] \in Nat /\ e[3] \in Nat
    BY <1>1 DEF IsTriple
<1>4. x \in Nat /\ y \in Nat /\ z \in Nat /\ x < e[1] /\ y < e[2] /\ z < e[3]
    <2>1. /\ origin[1] + r[1] <= e[1] /\ origin[2] + r[2] <= e[2] /\ origin[3] + r[3] <= e[3]
        BY DEF InRegion
    <2> HIDE DEF e
    <2> QED
        BY <1>2, <1>3, <2>1 DEF IsTriple
<1>5. row \in Nat /\ slice \in Nat
    BY <1>1, <1>3, ProductIsNat
<1>6. area.offset = origin[1] * m + origin[2] * row + origin[3] * slice
      /\ area.row = row /\ area.slice = slice
    BY DEF ImageArea
<1>7. PixelByte(img, origin, c, k) = ((z * e[2] + y) * e[1] + x) * m + k
    BY DEF PixelByte
<1>8. AreaByte(area, m, c, k) = (area.offset + c[2] * row + c[3] * slice) + (c[1] * m + k)
    BY <1>6 DEF AreaByte, At
<1> HIDE DEF e, m, row, slice, area
\* The parts of a coordinate add up.
<1>9. AreaByte(area, m, c, k) = (x * m + k) + y * row + z * slice
    <2> DEFINE o1 == origin[1] * m
               o2 == origin[2] * row
               o3 == origin[3] * slice
               c1 == c[1] * m
               c2 == c[2] * row
               c3 == c[3] * slice
    <2>1. /\ origin[1] \in Nat /\ origin[2] \in Nat /\ origin[3] \in Nat
          /\ c[1] \in Nat /\ c[2] \in Nat /\ c[3] \in Nat
        BY <1>2 DEF IsTriple
    <2>2. x * m = o1 + c1 /\ y * row = o2 + c2 /\ z * slice = o3 + c3
        BY <1>1, <1>5, <2>1, Products
    <2>3. /\ o1 \in Nat /\ o2 \in Nat /\ o3 \in Nat /\ c1 \in Nat /\ c2 \in Nat /\ c3 \in Nat
        BY <1>1, <1>5, <2>1, ProductIsNat
    <2>4. AreaByte(area, m, c, k) = (o1 + o2 + o3 + c2 + c3) + (c1 + k)
        BY <1>6, <1>8
    <2> HIDE DEF o1, o2, o3, c1, c2, c3
    <2>5. k \in Nat
        BY DEF m
    <2> QED
        BY <2>2, <2>3, <2>4, <2>5
<1> HIDE DEF x, y, z
<1> DEFINE u == x * m + k
           plane == row * e[2]
<1>10. k \in 0..(m - 1)
    BY DEF m
\* The byte is in its row, and the row in its slice.
<1>11. u \in Nat /\ u < row
    <2>1. k + x * m < e[1] * m /\ k + x * m \in Nat
        BY <1>1, <1>3, <1>4, <1>10, WithinGrid
    <2>2. x * m \in Nat
        BY <1>1, <1>4, ProductIsNat
    <2> QED
        BY <1>1, <1>10, <2>1, <2>2
<1>12. plane \in Nat /\ plane = e[2] * row
    BY <1>3, <1>5, Products
<1> HIDE DEF u, plane
<1>13. u + y * row \in Nat /\ u + y * row < plane
    BY <1>3, <1>4, <1>5, <1>11, <1>12, WithinGrid
<1>14. PixelByte(img, origin, c, k) = u + y * row + z * plane
    <2> DEFINE p == z * e[2]
    <2>1. p \in Nat
        BY <1>3, <1>4, ProductIsNat
    <2>2. (p + y) * e[1] = p * e[1] + y * e[1] /\ p * e[1] \in Nat /\ y * e[1] \in Nat
        <3> HIDE DEF p
        <3> QED
            BY <1>3, <1>4, <2>1, Products
    <2>3. z * plane = (p * e[1]) * m
        <3>1. plane = e[2] * (e[1] * m)
            BY <1>1, <1>12
        <3>2. (p * e[1]) * m = p * (e[1] * m)
            <4> HIDE DEF p
            <4> QED
                BY <1>1, <1>3, <2>1, Products
        <3>3. p * (e[1] * m) = z * (e[2] * (e[1] * m))
            BY <1>1, <1>3, <1>4, <1>5, Products
        <3> QED
            BY <3>1, <3>2, <3>3
    <2>4. y * row = (y * e[1]) * m
        BY <1>1, <1>3, <1>4, Products
    <2> HIDE DEF p
    <2> DEFINE a1 == p * e[1]
               a2 == y * e[1]
    <2>5. ((a1 + a2) + x) * m = (a1 * m + a2 * m) + x * m
        <3>1. a1 \in Nat /\ a2 \in Nat
            BY <2>2
        <3> HIDE DEF a1, a2
        <3>2. ((a1 + a2) + x) * m = (a1 + a2) * m + x * m
            BY <1>1, <1>4, <3>1, Products
        <3>3. (a1 + a2) * m = a1 * m + a2 * m
            BY <1>1, <3>1, Products
        <3> QED
            BY <3>2, <3>3
    <2>6. PixelByte(img, origin, c, k) = ((a1 + a2) + x) * m + k
        BY <1>7, <2>2 DEF p
    <2>7. z * plane \in Nat /\ y * row \in Nat /\ x * m \in Nat
        BY <1>1, <1>4, <1>5, <1>12, ProductIsNat
    <2>8. PixelByte(img, origin, c, k) = ((z * plane + y * row) + x * m) + k
        BY <2>3, <2>4, <2>5, <2>6
    <2> HIDE DEF a1, a2
    <2> DEFINE b1 == z * plane
               b2 == y * row
               b3 == x * m
    <2>9. b1 \in Nat /\ b2 \in Nat /\ b3 \in Nat /\ u = b3 + k
          /\ PixelByte(img, origin, c, k) = ((b1 + b2) + b3) + k
        BY <2>7, <2>8 DEF u
    <2>10. PixelByte(img, origin, c, k) = u + b2 + b1
        <3> HIDE DEF b1, b2, b3
        <3> QED
            BY <1>10, <2>9
    <2> QED
        BY <2>10
<1>15. AreaByte(area, m, c, k) = u + y * row + z * slice
    BY <1>9 DEF u
<1>16. PixelByte(img, origin, c, k) \in Nat /\ PixelByte(img, origin, c, k) < e[3] * plane
    BY <1>3, <1>4, <1>12, <1>13, <1>14, WithinGrid
<1>17. CASE e[3] = 1 /\ img.size = row * e[2] /\ slice \in Nat
    <2>1. z = 0 /\ e[3] * plane = plane
        BY <1>4, <1>12, <1>17
    <2>2. z * slice = 0 /\ z * plane = 0
        BY <1>5, <1>12, <2>1
    <2>3. AreaByte(area, m, c, k) = PixelByte(img, origin, c, k)
        BY <1>14, <1>15, <2>2
    <2>4. img.size = plane
        BY <1>17 DEF plane
    <2> QED
        BY <1>16, <2>1, <2>3, <2>4 DEF area, m
<1>18. CASE slice = row * e[2] /\ img.size = (row * slice) * e[3]
    <2>1. slice = plane
        BY <1>18 DEF plane
    <2>2. AreaByte(area, m, c, k) = PixelByte(img, origin, c, k)
        BY <1>14, <1>15, <2>1
    <2>3. 1 * plane <= row * plane /\ 1 * plane = plane
        BY <1>5, <1>11, <1>12, ProductGrows
    <2>4. row * plane \in Nat
        BY <1>5, <1>12, ProductIsNat
    <2> DEFINE q == row * plane
    <2>5. plane * e[3] <= q * e[3] /\ plane * e[3] = e[3] * plane /\ e[3] * plane \in Nat
          /\ q * e[3] \in Nat
        <3>1. q \in Nat /\ plane <= q
            BY <2>3, <2>4
        <3> HIDE DEF q
        <3> QED
            BY <1>3, <1>12, <3>1, ProductGrows, Products
    <2>6. img.size = q * e[3]
        BY <1>18, <2>1
    <2> HIDE DEF q
    <2>7. PixelByte(img, origin, c, k) < img.size
        BY <1>16, <2>5, <2>6
    <2> QED
        BY <1>16, <2>2, <2>7 DEF area, m
<1> QED
    BY <1>1, <1>17, <1>18

LEMMA HostSide ==
    ASSUME NEW a, IsTriple(a.region), a.row \in Nat, a.slice \in Nat, a.img.img.elem \in Nat \ {0},
           ~HostIsNarrow(a), HostBytes \in Nat, HostSlice(a) * a.region[3] <= HostBytes,
           NEW c \in Pixels(a.region), NEW k \in 0..(a.img.img.elem - 1)
    PROVE  /\ AreaByte(HostArea(a), a.img.img.elem, c, k) = HostByte(a, c, k)
           /\ HostByte(a, c, k) \in Nat /\ HostByte(a, c, k) < HostBytes
<1> DEFINE m == a.img.img.elem
           row == HostRow(a)
           slice == HostSlice(a)
           area == HostArea(a)
           r == a.region
<1>1. IsTriple(c) /\ c[1] < r[1] /\ c[2] < r[2] /\ c[3] < r[3]
    BY PixelsAre
<1>2. /\ c[1] \in Nat /\ c[2] \in Nat /\ c[3] \in Nat
      /\ r[1] \in Nat /\ r[2] \in Nat /\ r[3] \in Nat /\ m \in Nat /\ k \in 0..(m - 1)
    BY <1>1 DEF IsTriple
<1>3. r[1] * m \in Nat
    BY <1>2, ProductIsNat
<1>4. row \in Nat
    BY <1>3 DEF HostRow
<1>5. row * r[2] \in Nat
    BY <1>2, <1>4, ProductIsNat
<1>6. slice \in Nat
    BY <1>5 DEF HostSlice
<1>7. r[1] * m <= row /\ row * r[2] <= slice
    <2>1. ~(row < r[1] * m) /\ ~(slice < row * r[2])
        BY DEF HostIsNarrow
    <2> HIDE DEF row, slice, m, r
    <2> QED
        BY <1>3, <1>4, <1>5, <1>6, <2>1
<1>8. HostByte(a, c, k) = c[1] * m + c[2] * row + c[3] * slice + k
    BY DEF HostByte, HostRow, HostSlice
<1>9. AreaByte(area, m, c, k) = (0 + c[2] * row + c[3] * slice) + (c[1] * m + k)
    BY DEF AreaByte, At, HostArea
<1>10. slice * r[3] <= HostBytes
    OBVIOUS
<1> HIDE DEF m, row, slice, area, r
<1> DEFINE c1 == c[1] * m
           c2 == c[2] * row
           c3 == c[3] * slice
<1>11. c1 \in Nat /\ c2 \in Nat /\ c3 \in Nat
    BY <1>2, <1>4, <1>6, ProductIsNat
<1>12. k + c1 < r[1] * m
    BY <1>1, <1>2, WithinGrid
<1>13. (k + c1) + c2 < r[2] * row /\ r[2] * row = row * r[2]
    <2>1. k + c1 \in 0..(row - 1)
        <3> HIDE DEF c1
        <3> QED
            BY <1>2, <1>3, <1>4, <1>7, <1>11, <1>12
    <2> DEFINE x == k + c1
    <2>2. x \in 0..(row - 1)
        BY <2>1
    <2> HIDE DEF x
    <2>3. x + c2 < r[2] * row
        BY <1>1, <1>2, <1>4, <2>2, WithinGrid
    <2> QED
        BY <1>2, <1>4, <2>3, Products DEF x
<1>14. ((k + c1) + c2) + c3 < r[3] * slice /\ r[3] * slice = slice * r[3]
    <2> DEFINE x == (k + c1) + c2
    <2>1. x \in 0..(slice - 1)
        <3> HIDE DEF c1, c2
        <3> QED
            BY <1>2, <1>5, <1>6, <1>7, <1>11, <1>13
    <2> HIDE DEF x
    <2>2. x + c3 < r[3] * slice
        BY <1>1, <1>2, <1>6, <2>1, WithinGrid
    <2> QED
        BY <1>2, <1>6, <2>2, Products DEF x
<1>15. slice * r[3] \in Nat
    BY <1>2, <1>6, ProductIsNat
<1>16. /\ HostByte(a, c, k) = c1 + c2 + c3 + k
       /\ AreaByte(area, m, c, k) = (0 + c2 + c3) + (c1 + k)
    BY <1>8, <1>9
<1> HIDE DEF c1, c2, c3
<1>17. /\ HostByte(a, c, k) = ((k + c1) + c2) + c3 /\ AreaByte(area, m, c, k) = ((k + c1) + c2) + c3
       /\ HostByte(a, c, k) \in Nat
    BY <1>2, <1>11, <1>16
<1>18. HostByte(a, c, k) < HostBytes
    BY <1>10, <1>14, <1>15, <1>17
<1> QED
    BY <1>17, <1>18 DEF area, m

LEMMA BufferSide ==
    ASSUME NEW a, IsTriple(a.region), a.offset \in Nat, a.img.img.elem \in Nat \ {0}, a.other.size \in Nat,
           ~(a.offset + a.region[1] * a.region[2] * a.region[3] * a.img.img.elem > a.other.size),
           NEW c \in Pixels(a.region), NEW k \in 0..(a.img.img.elem - 1)
    PROVE  /\ AreaByte(BufferArea(a), a.img.img.elem, c, k) = BufferByte(a, c, k)
           /\ BufferByte(a, c, k) \in Nat /\ BufferByte(a, c, k) < a.other.size
<1> DEFINE m == a.img.img.elem
           r1 == a.region[1]
           r2 == a.region[2]
           r3 == a.region[3]
           c1 == c[1]
           c2 == c[2]
           c3 == c[3]
           row == r1 * m
           area == BufferArea(a)
<1>1. IsTriple(c) /\ c1 < r1 /\ c2 < r2 /\ c3 < r3
    BY PixelsAre
<1>2. /\ c1 \in Nat /\ c2 \in Nat /\ c3 \in Nat /\ r1 \in Nat /\ r2 \in Nat /\ r3 \in Nat
      /\ m \in Nat /\ k \in 0..(m - 1)
    BY <1>1 DEF IsTriple
<1>3. area.offset = a.offset /\ area.row = row /\ area.slice = row * r2
    BY DEF BufferArea, ByteRegion
<1>4. AreaByte(area, m, c, k) = (a.offset + c2 * row + c3 * (row * r2)) + (c1 * m + k)
    BY <1>3 DEF AreaByte, At
<1>5. BufferByte(a, c, k) = a.offset + (c1 + (c2 + c3 * r2) * r1) * m + k
    BY DEF BufferByte
<1>6. ~(a.offset + r1 * r2 * r3 * m > a.other.size)
    OBVIOUS
<1> HIDE DEF m, r1, r2, r3, c1, c2, c3, area
<1>7. row \in Nat
    BY <1>2, ProductIsNat
<1> DEFINE u == k + c1 * m
           plane == r2 * row
           y == c2 * row
           z == c3 * plane
           p == c3 * r2
<1>8. c1 * m \in Nat /\ y \in Nat /\ plane \in Nat /\ p \in Nat
    BY <1>2, <1>7, ProductIsNat
<1>9. z \in Nat
    <2> HIDE DEF plane
    <2> QED
        BY <1>2, <1>8, ProductIsNat
<1>10. u \in 0..(row - 1)
    <2>1. u < r1 * m /\ u \in Nat
        BY <1>1, <1>2, WithinGrid
    <2> QED
        BY <1>7, <2>1
<1>11. u + y \in 0..(plane - 1)
    <2> HIDE DEF u, row
    <2>1. u + y < r2 * row /\ u + y \in Nat
        BY <1>1, <1>2, <1>7, <1>10, WithinGrid
    <2> HIDE DEF y
    <2> QED
        BY <1>8, <2>1
<1>12. (u + y) + z < r3 * plane
    <2> DEFINE x == u + y
    <2>1. x \in 0..(plane - 1)
        BY <1>11
    <2> HIDE DEF x, plane
    <2>2. x + z < r3 * plane
        BY <1>1, <1>2, <1>8, <2>1, WithinGrid
    <2> QED
        BY <2>2 DEF x
\* The size of the area is that of its pixels.
<1>13. r1 * r2 * r3 * m = r3 * plane
    <2> DEFINE q == r1 * r2
    <2>1. q \in Nat /\ q = r2 * r1
        BY <1>2, Products
    <2>2. q * r3 = r3 * q /\ (r3 * q) * m = r3 * (q * m)
        <3> HIDE DEF q
        <3> QED
            BY <1>2, <2>1, Products
    <2>3. (r2 * r1) * m = r2 * (r1 * m)
        BY <1>2, Products
    <2> QED
        BY <2>1, <2>2, <2>3
<1>14. BufferByte(a, c, k) = a.offset + ((c1 * m + y) + z) + k
    <2>1. (p + c2) * r1 = p * r1 + c2 * r1 /\ p * r1 \in Nat /\ c2 * r1 \in Nat
          /\ (c2 + p) * r1 = (p + c2) * r1
        <3> HIDE DEF p
        <3> QED
            BY <1>2, <1>8, Products
    <2> DEFINE a1 == p * r1
               a2 == c2 * r1
    <2>2. (c1 + (a1 + a2)) * m = c1 * m + (a1 * m + a2 * m)
        <3>1. a1 \in Nat /\ a2 \in Nat
            BY <2>1
        <3> HIDE DEF a1, a2
        <3>2. a1 + a2 \in Nat
            BY <3>1
        <3>3. (c1 + (a1 + a2)) * m = c1 * m + (a1 + a2) * m
            BY <1>2, <3>2, Products
        <3>4. (a1 + a2) * m = a1 * m + a2 * m
            BY <1>2, <3>1, Products
        <3> QED
            BY <3>3, <3>4
    <2>3. a2 * m = y
        BY <1>2, Products
    <2>4. a1 * m = z
        <3>1. a1 * m = p * (r1 * m)
            <4> HIDE DEF p
            <4> QED
                BY <1>2, <1>8, Products
        <3>2. p * row = c3 * (r2 * row)
            <4> HIDE DEF row
            <4> QED
                BY <1>2, <1>7, Products
        <3> QED
            BY <3>1, <3>2
    <2>5. BufferByte(a, c, k) = a.offset + (c1 + (a1 + a2)) * m + k
        BY <1>5, <2>1
    <2> HIDE DEF a1, a2, y, z
    <2> DEFINE b1 == a1 * m
               b2 == a2 * m
               b3 == c1 * m
    <2>6. b1 = z /\ b2 = y /\ b3 \in Nat /\ BufferByte(a, c, k) = a.offset + (b3 + (b1 + b2)) + k
        BY <1>8, <2>2, <2>3, <2>4, <2>5
    <2>7. BufferByte(a, c, k) = a.offset + ((b3 + y) + z) + k
        <3> HIDE DEF b1, b2, b3
        <3> QED
            BY <1>8, <1>9, <2>6
    <2> QED
        BY <2>7
<1>15. AreaByte(area, m, c, k) = (a.offset + y + z) + (c1 * m + k)
    <2>1. row * r2 = plane
        <3> HIDE DEF row
        <3> QED
            BY <1>2, <1>7, Products
    <2> QED
        BY <1>4, <2>1
<1> DEFINE w == c1 * m
           t == r3 * plane
<1>16. w \in Nat /\ u = k + w /\ t \in Nat
    <2> HIDE DEF plane
    <2> QED
        BY <1>2, <1>8, ProductIsNat
<1>17. /\ BufferByte(a, c, k) = a.offset + ((w + y) + z) + k
       /\ AreaByte(area, m, c, k) = (a.offset + y + z) + (w + k)
       /\ (u + y) + z < t /\ ~(a.offset + t > a.other.size)
    BY <1>6, <1>12, <1>13, <1>14, <1>15
<1> HIDE DEF w, t, u, y, z
<1>18. /\ AreaByte(area, m, c, k) = BufferByte(a, c, k) /\ BufferByte(a, c, k) \in Nat
       /\ BufferByte(a, c, k) < a.other.size
    BY <1>2, <1>8, <1>9, <1>16, <1>17
<1> QED
    BY <1>18 DEF area, m

---------------------------------------------------------------------------
(* The loops of a worker go through the bytes of the pixels.               *)

\* A byte of a row is one of a pixel.
LEMMA BytesOfRow ==
    ASSUME NEW n \in Nat, NEW m \in Nat \ {0}, NEW i \in 0..(n * m - 1)
    PROVE  /\ i \div m \in 0..(n - 1) /\ i % m \in 0..(m - 1)
           /\ i = (i \div m) * m + (i % m)
<1> DEFINE q == i \div m
           k == i % m
<1>1. n * m \in Nat /\ i \in Nat
    BY ProductIsNat
<1>2. i = m * q + k /\ q \in Nat
    BY <1>1, Quotient
<1>3. k \in 0..(m - 1)
    BY <1>1
<1> HIDE DEF q, k
<1>4. i = q * m + k
    BY <1>2
<1>5. ASSUME ~(q < n) PROVE FALSE
    <2>1. n * m <= q * m /\ q * m \in Nat
        BY <1>2, <1>5, ProductGrows, ProductIsNat
    <2> QED
        BY <1>1, <1>3, <1>4, <2>1
<1>6. q \in 0..(n - 1)
    BY <1>2, <1>5
<1>7. q \in 0..(n - 1) /\ k \in 0..(m - 1) /\ i = q * m + k
    BY <1>3, <1>4, <1>6
<1> QED
    BY <1>7 DEF q, k

LEMMA ByteIsOne ==
    ASSUME NEW n \in Nat, NEW m \in Nat \ {0}, NEW q \in 0..(n - 1), NEW k \in 0..(m - 1)
    PROVE  /\ q * m + k \in 0..(n * m - 1) /\ (q * m + k) \div m = q /\ (q * m + k) % m = k
<1> DEFINE i == q * m + k
<1>1. q * m \in Nat /\ n * m \in Nat
    BY ProductIsNat
<1>2. k + q * m < n * m
    BY WithinGrid
<1>3. i \in 0..(n * m - 1)
    <2> DEFINE p == q * m
               t == n * m
    <2>1. p \in Nat /\ t \in Nat /\ k + p < t /\ i = p + k
        BY <1>1, <1>2
    <2> HIDE DEF p, t, i
    <2> QED
        BY <2>1 DEF t
<1> HIDE DEF i
<1>4. PICK u \in 0..(n - 1), v \in 0..(m - 1) :
          i \div m = u /\ i % m = v /\ i = u * m + v
    <2>1. /\ i \div m \in 0..(n - 1) /\ i % m \in 0..(m - 1)
          /\ i = (i \div m) * m + (i % m)
        BY <1>3, BytesOfRow
    <2> QED
        BY <2>1
<1>5. v + u * m = k + q * m
    <2>1. u * m \in Nat /\ i = q * m + k
        BY <1>4, ProductIsNat DEF i
    <2> QED
        BY <1>1, <1>4, <2>1
<1>6. v = k /\ u = q
    BY <1>4, <1>5, TwoDigits
<1>7. i \in 0..(n * m - 1) /\ i \div m = q /\ i % m = k
    BY <1>3, <1>4, <1>6
<1> QED
    BY <1>7 DEF i

LEMMA RectMovesAre ==
    ASSUME NEW r, IsTriple(r), NEW m \in Nat \ {0}, NEW to, NEW fr
    PROVE  MemRectCpy(<<r[1] * m, r[2], r[3]>>, to, fr) =
               {<<AreaByte(to, m, c, k), AreaByte(fr, m, c, k)>> : c \in Pixels(r), k \in 0..(m - 1)}
<1> DEFINE n == r[1] * m
           region == <<n, r[2], r[3]>>
           moves == MemRectCpy(region, to, fr)
           T(y, z) == At(to, y, z)
           F(y, z) == At(fr, y, z)
<1>1. r[1] \in Nat /\ r[2] \in Nat /\ r[3] \in Nat
    BY DEF IsTriple
<1>2. moves = UNION {Memcpy(T(p[1], p[2]), F(p[1], p[2]), n) : p \in Rows(region)}
    BY DEF MemRectCpy
<1>3. Rows(region) = (0..(r[2] - 1)) \X (0..(r[3] - 1))
    BY DEF Rows
<1>4. \A c, k : /\ AreaByte(to, m, c, k) = T(c[2], c[3]) + (c[1] * m + k)
                /\ AreaByte(fr, m, c, k) = F(c[2], c[3]) + (c[1] * m + k)
    BY DEF AreaByte
<1> HIDE DEF moves, T, F, region
<1>5. ASSUME NEW c \in Pixels(r), NEW k \in 0..(m - 1)
      PROVE  <<AreaByte(to, m, c, k), AreaByte(fr, m, c, k)>> \in moves
    <2>1. c[1] \in 0..(r[1] - 1) /\ <<c[2], c[3]>> \in Rows(region)
        BY <1>3, <1>5 DEF Pixels
    <2>2. c[1] * m + k \in 0..(n - 1)
        BY <1>1, <2>1, ByteIsOne
    <2> DEFINE i == c[1] * m + k
    <2> HIDE DEF n
    <2>3. <<T(c[2], c[3]) + i, F(c[2], c[3]) + i>> \in Memcpy(T(c[2], c[3]), F(c[2], c[3]), n)
        BY <2>2 DEF Memcpy
    <2> HIDE DEF i
    <2>4. <<T(c[2], c[3]) + i, F(c[2], c[3]) + i>> \in moves
        BY <1>2, <2>1, <2>3
    <2> QED
        BY <1>4, <2>4 DEF i
<1>6. ASSUME NEW mv \in moves
      PROVE  \E c \in Pixels(r), k \in 0..(m - 1) :
                 mv = <<AreaByte(to, m, c, k), AreaByte(fr, m, c, k)>>
    <2>1. PICK p \in Rows(region) : mv \in Memcpy(T(p[1], p[2]), F(p[1], p[2]), n)
        BY <1>2, <1>6
    <2>2. PICK i \in 0..(n - 1) : mv = <<T(p[1], p[2]) + i, F(p[1], p[2]) + i>>
        BY <2>1 DEF Memcpy
    <2> DEFINE q == i \div m
               k == i % m
               c == <<q, p[1], p[2]>>
    <2>3. q \in 0..(r[1] - 1) /\ k \in 0..(m - 1) /\ i = q * m + k
        BY <1>1, <2>2, BytesOfRow
    <2> HIDE DEF q, k
    <2>4. c \in Pixels(r) /\ c[1] = q /\ c[2] = p[1] /\ c[3] = p[2]
        BY <1>3, <2>1, <2>3 DEF Pixels
    <2> HIDE DEF c
    <2>5. mv = <<AreaByte(to, m, c, k), AreaByte(fr, m, c, k)>>
        BY <1>4, <2>2, <2>3, <2>4
    <2> QED
        BY <2>3, <2>4, <2>5
<1> HIDE DEF n
<1>7. moves = {<<AreaByte(to, m, c, k), AreaByte(fr, m, c, k)>> : c \in Pixels(r), k \in 0..(m - 1)}
    BY <1>5, <1>6
<1> QED
    BY <1>7 DEF moves, region, n

\* An element is written to every pixel.
LEMMA RectFillIs ==
    ASSUME NEW r, IsTriple(r), NEW m \in Nat \ {0}, NEW to
    PROVE  MemRectFill(<<r[1] * m, r[2], r[3]>>, to, m) =
               {<<AreaByte(to, m, c, k), k>> : c \in Pixels(r), k \in 0..(m - 1)}
<1> DEFINE n == r[1] * m
           region == <<n, r[2], r[3]>>
           moves == MemRectFill(region, to, m)
           T(y, z) == At(to, y, z)
<1>1. r[1] \in Nat /\ r[2] \in Nat /\ r[3] \in Nat
    BY DEF IsTriple
<1>2. moves = UNION {MemFill(T(p[1], p[2]), n, m) : p \in Rows(region)}
    BY DEF MemRectFill
<1>3. Rows(region) = (0..(r[2] - 1)) \X (0..(r[3] - 1))
    BY DEF Rows
<1>4. \A c, k : AreaByte(to, m, c, k) = T(c[2], c[3]) + (c[1] * m + k)
    BY DEF AreaByte
<1>5. n \in Nat /\ n % m = 0
    <2> DEFINE z == 0
               t == r[1] + 1
               q == r[1]
    <2>1. z \in 0..(m - 1) /\ q \in 0..(t - 1) /\ t \in Nat /\ q \in Nat
        BY <1>1
    <2> HIDE DEF n, z, t, q
    <2>2. (q * m + z) % m = z
        BY <2>1, ByteIsOne
    <2>3. q * m \in Nat /\ n = q * m
        BY <2>1, ProductIsNat DEF n, q
    <2>4. q * m + z = n
        BY <2>3 DEF z
    <2> QED
        BY <2>2, <2>3, <2>4 DEF z
<1> HIDE DEF n
<1>6. (n \div m) * m = n
    BY <1>5, WholePatterns
<1> HIDE DEF moves, T, region
<1>7. \A y, z : MemFill(T(y, z), n, m) = {<<T(y, z) + i, i % m>> : i \in 0..(n - 1)}
    BY <1>6 DEF MemFill
<1>8. ASSUME NEW c \in Pixels(r), NEW k \in 0..(m - 1)
      PROVE  <<AreaByte(to, m, c, k), k>> \in moves
    <2>1. c[1] \in 0..(r[1] - 1) /\ <<c[2], c[3]>> \in Rows(region)
        BY <1>3, <1>8 DEF Pixels
    <2> DEFINE i == c[1] * m + k
    <2>2. i \in 0..(n - 1) /\ i % m = k
        <3>1. i \in 0..(r[1] * m - 1) /\ i % m = k
            <4> DEFINE x == c[1]
                       w == r[1]
            <4>1. x \in 0..(w - 1) /\ w \in Nat /\ i = x * m + k
                BY <1>1, <2>1
            <4> HIDE DEF x, w, i
            <4>2. x * m + k \in 0..(w * m - 1) /\ (x * m + k) % m = k
                BY <4>1, ByteIsOne
            <4>3. i \in 0..(w * m - 1) /\ i % m = k
                BY <4>1, <4>2
            <4> QED
                BY <4>3 DEF w
        <3> QED
            BY <3>1 DEF n
    <2> HIDE DEF i
    <2>3. <<T(c[2], c[3]) + i, i % m>> \in MemFill(T(c[2], c[3]), n, m)
        BY <1>7, <2>2
    <2>4. <<T(c[2], c[3]) + i, k>> \in moves
        BY <1>2, <2>1, <2>2, <2>3
    <2> QED
        BY <1>4, <2>4 DEF i
<1>9. ASSUME NEW mv \in moves
      PROVE  \E c \in Pixels(r), k \in 0..(m - 1) : mv = <<AreaByte(to, m, c, k), k>>
    <2>1. PICK p \in Rows(region) : mv \in MemFill(T(p[1], p[2]), n, m)
        BY <1>2, <1>9
    <2>2. PICK i \in 0..(n - 1) : mv = <<T(p[1], p[2]) + i, i % m>>
        BY <1>7, <2>1
    <2> DEFINE q == i \div m
               k == i % m
               c == <<q, p[1], p[2]>>
    <2>3. q \in 0..(r[1] - 1) /\ k \in 0..(m - 1) /\ i = q * m + k
        <3>1. i \in 0..(r[1] * m - 1)
            BY <2>2 DEF n
        <3> QED
            BY <1>1, <3>1, BytesOfRow
    <2>4. mv = <<T(p[1], p[2]) + i, k>>
        BY <2>2
    <2> HIDE DEF q, k
    <2>5. c \in Pixels(r) /\ c[1] = q /\ c[2] = p[1] /\ c[3] = p[2]
        BY <1>3, <2>1, <2>3 DEF Pixels
    <2> HIDE DEF c
    <2>6. mv = <<AreaByte(to, m, c, k), k>>
        BY <1>4, <2>3, <2>4, <2>5
    <2> QED
        BY <2>3, <2>5, <2>6
<1>10. moves = {<<AreaByte(to, m, c, k), k>> : c \in Pixels(r), k \in 0..(m - 1)}
    BY <1>8, <1>9
<1> QED
    BY <1>10 DEF moves, region, n

\* How many channels an order has ...
LEMMA ChannelsAre ==
    /\ \A o \in {"R", "Rx", "A", "INTENSITY", "LUMINANCE"} : NumChannels(o) = 1
    /\ \A o \in {"RG", "RGx", "RA"} : NumChannels(o) = 2
    /\ \A o \in {"RGBA", "ARGB", "BGRA"} : NumChannels(o) = 4
<1>1. ASSUME NEW o \in OneChannel PROVE NumChannels(o) = 1
    <2>1. o \notin TwoChannels /\ o \notin ThreeChannels /\ o \notin FourChannels
        BY DEF OneChannel, TwoChannels, ThreeChannels, FourChannels
    <2> QED
        BY <2>1 DEF NumChannels
<1>2. ASSUME NEW o \in TwoChannels PROVE NumChannels(o) = 2
    <2>1. o \notin OneChannel /\ o \notin ThreeChannels /\ o \notin FourChannels
        BY DEF OneChannel, TwoChannels, ThreeChannels, FourChannels
    <2> QED
        BY <2>1 DEF NumChannels
<1>3. ASSUME NEW o \in FourChannels PROVE NumChannels(o) = 4
    <2>1. o \notin OneChannel /\ o \notin TwoChannels /\ o \notin ThreeChannels
        BY DEF OneChannel, TwoChannels, ThreeChannels, FourChannels
    <2> QED
        BY <2>1 DEF NumChannels
<1> QED
    BY <1>1, <1>2, <1>3 DEF OneChannel, TwoChannels, FourChannels

\* ... and which they are.
LEMMA ChannelsNamed ==
    /\ \A o \in {"R", "Rx"} : FillChannels(o) = <<0>> /\ Named(o) = <<"R">>
    /\ FillChannels("A") = <<3>> /\ Named("A") = <<"A">>
    /\ \A o \in {"RG", "RGx"} : FillChannels(o) = <<0, 1>> /\ Named(o) = <<"R", "G">>
    /\ FillChannels("RA") = <<0, 3>> /\ Named("RA") = <<"R", "A">>
    /\ FillChannels("RGBA") = <<0, 1, 2, 3>> /\ Named("RGBA") = <<"R", "G", "B", "A">>
    /\ FillChannels("ARGB") = <<3, 0, 1, 2>> /\ Named("ARGB") = <<"A", "R", "G", "B">>
    /\ FillChannels("BGRA") = <<2, 1, 0, 3>> /\ Named("BGRA") = <<"B", "G", "R", "A">>
    /\ \A o \in ThreeChannels \cup {"INTENSITY", "LUMINANCE"} : FillChannels(o) = <<4>>
<1>1. FillChannels("R") = <<0>>
    BY DEF FillChannels, ThreeChannels
<1>2. Named("R") = <<"R">>
    BY DEF Named
<1>3. FillChannels("Rx") = <<0>>
    BY DEF FillChannels, ThreeChannels
<1>4. Named("Rx") = <<"R">>
    BY DEF Named
<1>5. FillChannels("A") = <<3>>
    BY DEF FillChannels, ThreeChannels
<1>6. Named("A") = <<"A">>
    BY DEF Named
<1>7. FillChannels("RG") = <<0, 1>>
    BY DEF FillChannels, ThreeChannels
<1>8. Named("RG") = <<"R", "G">>
    BY DEF Named
<1>9. FillChannels("RGx") = <<0, 1>>
    BY DEF FillChannels, ThreeChannels
<1>10. Named("RGx") = <<"R", "G">>
    BY DEF Named
<1>11. FillChannels("RA") = <<0, 3>>
    BY DEF FillChannels, ThreeChannels
<1>12. Named("RA") = <<"R", "A">>
    BY DEF Named
<1>13. FillChannels("RGBA") = <<0, 1, 2, 3>>
    BY DEF FillChannels, ThreeChannels
<1>14. Named("RGBA") = <<"R", "G", "B", "A">>
    BY DEF Named
<1>15. FillChannels("ARGB") = <<3, 0, 1, 2>>
    BY DEF FillChannels, ThreeChannels
<1>16. Named("ARGB") = <<"A", "R", "G", "B">>
    BY DEF Named
<1>17. FillChannels("BGRA") = <<2, 1, 0, 3>>
    BY DEF FillChannels, ThreeChannels
<1>18. Named("BGRA") = <<"B", "G", "R", "A">>
    BY DEF Named
<1>19. FillChannels("RGB") = <<4>>
    BY DEF FillChannels, ThreeChannels
<1>20. FillChannels("RGBx") = <<4>>
    BY DEF FillChannels, ThreeChannels
<1>21. FillChannels("INTENSITY") = <<4>>
    BY DEF FillChannels, ThreeChannels
<1>22. FillChannels("LUMINANCE") = <<4>>
    BY DEF FillChannels, ThreeChannels
<1> QED
    BY <1>1, <1>2, <1>3, <1>4, <1>5, <1>6, <1>7, <1>8, <1>9, <1>10, <1>11, <1>12, <1>13, <1>14,
       <1>15, <1>16, <1>17, <1>18, <1>19, <1>20, <1>21, <1>22 DEF ThreeChannels

\* A channel is filled with the component it is named for.
LEMMA ColorIs ==
    ASSUME NEW fmt, FormatErrors(fmt) = <<>>, fmt.type \in Packed => fmt.order \in ThreeChannels,
           NEW k \in 0..(ElementSize(fmt) - 1)
    PROVE  LET n == ChannelSize(fmt.type)
           IN  /\ FillChannels(fmt.order)[(k \div n) + 1] * n + (k % n) = ColorByte(fmt, k)
               /\ ColorByte(fmt, k) \in Nat /\ ColorByte(fmt, k) < 20
<1> DEFINE n == ChannelSize(fmt.type)
           j == k \div n
           b == k % n
           order == fmt.order
           color == ColorByte(fmt, k)
           filled == FillChannels(order)[j + 1] * n + b
           mixed == fmt.type \in Packed \/ order \in {"INTENSITY", "LUMINANCE"}
           chans == IF fmt.type \in Packed THEN 1 ELSE NumChannels(order)
<1>1. n \in {1, 2, 4} /\ order \in Orders /\ (order \in ThreeChannels => fmt.type \in Packed)
    BY ElementIs
<1>2. chans \in {1, 2, 3, 4}
    BY <1>1 DEF NumChannels, Orders
<1>3. ElementSize(fmt) = chans * n
    <2>1. /\ fmt.type \in Packed => ElementSize(fmt) = n
          /\ fmt.type \notin Packed => ElementSize(fmt) = n * NumChannels(order)
        BY ElementIs
    <2> HIDE DEF n
    <2>2. /\ fmt.type \in Packed => chans = 1
          /\ fmt.type \notin Packed => chans = NumChannels(order)
        OBVIOUS
    <2> HIDE DEF chans
    <2>3. CASE fmt.type \in Packed
        BY <1>1, <2>1, <2>2, <2>3
    <2>4. CASE fmt.type \notin Packed
        BY <1>1, <1>2, <2>1, <2>2, <2>4
    <2> QED
        BY <2>3, <2>4
<1>4. j \in 0..(chans - 1) /\ b \in 0..(n - 1) /\ k = j * n + b
    <2>1. k \in 0..(chans * n - 1) /\ chans \in Nat /\ n \in Nat \ {0}
        BY <1>1, <1>2, <1>3
    <2> HIDE DEF n, chans
    <2> QED
        BY <2>1, BytesOfRow
<1>5. color = IF mixed THEN 4 * n + k ELSE ComponentOf[Named(order)[j + 1]] * n + b
    BY DEF ColorByte
<1> HIDE DEF n, j, b, color, order
<1>6. CASE mixed
    <2>1. FillChannels(order) = <<4>> /\ chans = 1
        <3>1. \/ order \in ThreeChannels
              \/ order \in {"INTENSITY", "LUMINANCE"} /\ fmt.type \notin Packed
            BY <1>6 DEF order
        <3>2. order \in ThreeChannels \cup {"INTENSITY", "LUMINANCE"}
            BY <3>1
        <3>4. FillChannels(order) = <<4>>
            BY <3>2, ChannelsNamed
        <3>5. order \in {"INTENSITY", "LUMINANCE"} => NumChannels(order) = 1
            BY ChannelsAre
        <3> QED
            BY <1>1, <3>1, <3>4, <3>5
    <2>2. j = 0 /\ k = b /\ b \in 0..(n - 1)
        BY <1>1, <1>4, <2>1
    <2>3. <<4>>[j + 1] = 4
        BY <2>2
    <2>4. color = 4 * n + k
        BY <1>5, <1>6
    <2>5. filled = 4 * n + k
        BY <2>1, <2>2, <2>3
    <2> HIDE DEF filled
    <2>6. color = filled /\ color \in Nat /\ color < 20
        BY <1>1, <2>2, <2>4, <2>5
    <2> QED
        BY <2>6 DEF filled, n, j, b, color, order
<1>7. CASE ~mixed
    <2>1. chans = NumChannels(order) /\ order \notin ThreeChannels
          /\ order # "INTENSITY" /\ order # "LUMINANCE"
        BY <1>1, <1>7
    <2>2. order \in {"R", "Rx", "A", "RG", "RGx", "RA", "RGBA", "ARGB", "BGRA"}
        BY <1>1, <2>1 DEF Orders, OneChannel, TwoChannels, ThreeChannels, FourChannels
    <2>3. ComponentOf["R"] = 0 /\ ComponentOf["G"] = 1 /\ ComponentOf["B"] = 2 /\ ComponentOf["A"] = 3
        BY DEF ComponentOf
    <2>4. FillChannels(order)[j + 1] = ComponentOf[Named(order)[j + 1]]
          /\ FillChannels(order)[j + 1] \in 0..3
        <3> HIDE DEF chans
        <3>0. /\ order \in {"R", "Rx", "A"} => NumChannels(order) = 1
              /\ order \in {"RG", "RGx", "RA"} => NumChannels(order) = 2
              /\ order \in {"RGBA", "ARGB", "BGRA"} => NumChannels(order) = 4
            BY ChannelsAre
        <3>1. CASE order \in {"R", "Rx"}
            <4>1. j = 0
                BY <1>4, <2>1, <3>1, <3>0
            <4>2. FillChannels(order) = <<0>> /\ Named(order) = <<"R">>
                BY <3>1, ChannelsNamed
            <4> QED
                BY <2>3, <4>1, <4>2
        <3>2. CASE order = "A"
            <4>1. j = 0
                BY <1>4, <2>1, <3>2, <3>0
            <4>2. FillChannels(order) = <<3>> /\ Named(order) = <<"A">>
                BY <3>2, ChannelsNamed
            <4> QED
                BY <2>3, <4>1, <4>2
        <3>3. CASE order \in {"RG", "RGx"}
            <4>1. j \in {0, 1}
                BY <1>4, <2>1, <3>3, <3>0
            <4>2. FillChannels(order) = <<0, 1>> /\ Named(order) = <<"R", "G">>
                BY <3>3, ChannelsNamed
            <4> QED
                BY <2>3, <4>1, <4>2
        <3>4. CASE order = "RA"
            <4>1. j \in {0, 1}
                BY <1>4, <2>1, <3>4, <3>0
            <4>2. FillChannels(order) = <<0, 3>> /\ Named(order) = <<"R", "A">>
                BY <3>4, ChannelsNamed
            <4> QED
                BY <2>3, <4>1, <4>2
        <3>6. CASE order = "RGBA"
            <4>1. j \in {0, 1, 2, 3}
                BY <1>4, <2>1, <3>6, <3>0
            <4>2. FillChannels(order) = <<0, 1, 2, 3>> /\ Named(order) = <<"R", "G", "B", "A">>
                BY <3>6, ChannelsNamed
            <4> QED
                BY <2>3, <4>1, <4>2
        <3>7. CASE order = "ARGB"
            <4>1. j \in {0, 1, 2, 3}
                BY <1>4, <2>1, <3>7, <3>0
            <4>2. FillChannels(order) = <<3, 0, 1, 2>> /\ Named(order) = <<"A", "R", "G", "B">>
                BY <3>7, ChannelsNamed
            <4> QED
                BY <2>3, <4>1, <4>2
        <3>8. CASE order = "BGRA"
            <4>1. j \in {0, 1, 2, 3}
                BY <1>4, <2>1, <3>8, <3>0
            <4>2. FillChannels(order) = <<2, 1, 0, 3>> /\ Named(order) = <<"B", "G", "R", "A">>
                BY <3>8, ChannelsNamed
            <4> QED
                BY <2>3, <4>1, <4>2
        <3> QED
            BY <2>2, <3>1, <3>2, <3>3, <3>4, <3>6, <3>7, <3>8
    <2> DEFINE ch == FillChannels(order)[j + 1]
    <2>5. color = ch * n + b /\ filled = ch * n + b /\ ch \in 0..3
        BY <1>5, <1>7, <2>4
    <2> HIDE DEF ch, filled
    <2>6. color = filled /\ color \in Nat /\ color < 20
        BY <1>1, <1>4, <2>5
    <2> QED
        BY <2>6 DEF filled, n, j, b, color, order
<1> QED
    BY <1>6, <1>7

---------------------------------------------------------------------------
(* What an accepted command on an image moves.                             *)

LEMMA BytesOfAre ==
    ASSUME ImageKinds, NEW o \in ImageObjects
    PROVE  /\ o.kind = "image" => BytesOf(o.id) = o.img.size
           /\ o.kind = "buffer" => BytesOf(o.id) = o.size
           /\ BytesOf(Host) = HostBytes /\ BytesOf(Color) = 20
<1> DEFINE named == CHOOSE p \in ImageObjects : p.id = o.id
<1>1. o.id # Host /\ o.id # Color /\ \A p \in ImageObjects : p.id = o.id => p = o
    BY DEF ImageKinds
<1>2. named = o
    BY <1>1
<1>3. Color # Host
    BY DEF Host, Color
<1>4. /\ BytesOf(Host) = HostBytes /\ BytesOf(Color) = 20
      /\ BytesOf(o.id) = CASE named.kind = "image" -> named.img.size
                           [] named.kind = "buffer" -> named.size
                           [] OTHER -> 0
    BY <1>1, <1>3 DEF BytesOf
<1> HIDE DEF named
<1> QED
    BY <1>2, <1>4

LEMMA ArgumentsAre ==
    ASSUME ImageKinds, NEW a \in ImageCalls
    PROVE  /\ IsTriple(a.origin) /\ IsTriple(a.from) /\ IsTriple(a.region)
           /\ a.offset \in Nat /\ a.row \in Nat /\ a.slice \in Nat /\ HostBytes \in Nat
           /\ a.img \in ImageObjects /\ a.other \in ImageObjects
           /\ a.img.kind = "image" =>
                  /\ IsImage(a.img.img) /\ a.img.img.elem \in Nat \ {0}
                  /\ a.img.img.elem = ElementSize(a.img.img.fmt)
                  /\ HostSlice(a) * a.region[3] <= HostBytes
           /\ a.other.kind = "image" =>
                  IsImage(a.other.img) /\ a.other.img.elem = ElementSize(a.other.img.fmt)
           /\ a.other.kind = "buffer" => a.other.size \in Nat
<1>1. /\ \A i \in 1..3 : a.origin[i] \in Nat /\ a.from[i] \in Nat /\ a.region[i] \in Nat
      /\ a.offset \in Nat /\ a.row \in Nat /\ a.slice \in Nat /\ HostBytes \in Nat
      /\ a.img \in ImageObjects /\ a.other \in ImageObjects
      /\ a.img.kind = "image" => HostSlice(a) * a.region[3] <= HostBytes
    BY DEF ImageKinds
<1>2. IsTriple(a.origin) /\ IsTriple(a.from) /\ IsTriple(a.region)
    BY <1>1 DEF IsTriple
<1>3. /\ a.img.kind = "image" => IsImage(a.img.img)
      /\ a.other.kind = "image" => IsImage(a.other.img)
      /\ a.other.kind = "buffer" => a.other.size \in Nat
    BY <1>1 DEF ImageKinds
<1>4. /\ a.img.kind = "image" =>
             a.img.img.elem \in Nat \ {0} /\ a.img.img.elem = ElementSize(a.img.img.fmt)
      /\ a.other.kind = "image" => a.other.img.elem = ElementSize(a.other.img.fmt)
    BY <1>3, ImageIs
<1> QED
    BY <1>1, <1>2, <1>3, <1>4

\* The moves of a call l are those it means, and are inside both objects.
MovesMeant(l, target, source, moves) ==
    moves = Meant(l) /\ \A mv \in moves : mv[1] < BytesOf(target) /\ mv[2] < BytesOf(source)

LEMMA RectIsMeant ==
    ASSUME NEW l, NEW a, a = l.args, IsTriple(a.region), NEW m, m = a.img.img.elem, m \in Nat \ {0},
           NEW to, NEW fr, NEW target, NEW source,
           \A c \in Pixels(a.region), k \in 0..(m - 1) :
               /\ AreaByte(to, m, c, k) = TargetByte(l, c, k)
               /\ AreaByte(fr, m, c, k) = SourceByte(l, c, k)
               /\ TargetByte(l, c, k) < BytesOf(target)
               /\ SourceByte(l, c, k) < BytesOf(source)
    PROVE  MovesMeant(l, target, source, MemRectCpy(ByteRegion(a.img.img, a.region), to, fr))
<1> DEFINE moves == MemRectCpy(ByteRegion(a.img.img, a.region), to, fr)
<1>1. moves = {<<AreaByte(to, m, c, k), AreaByte(fr, m, c, k)>> :
                   c \in Pixels(a.region), k \in 0..(m - 1)}
    BY RectMovesAre DEF ByteRegion
<1>2. Meant(l) = {<<TargetByte(l, c, k), SourceByte(l, c, k)>> :
                      c \in Pixels(a.region), k \in 0..(m - 1)}
    BY DEF Meant
<1> HIDE DEF moves
<1>3. moves = Meant(l)
    BY <1>1, <1>2
<1>4. ASSUME NEW mv \in Meant(l) PROVE mv[1] < BytesOf(target) /\ mv[2] < BytesOf(source)
    <2>1. PICK c \in Pixels(a.region), k \in 0..(m - 1) :
              mv = <<TargetByte(l, c, k), SourceByte(l, c, k)>>
        BY <1>2, <1>4
    <2> QED
        BY <2>1
<1>5. MovesMeant(l, target, source, moves)
    BY <1>3, <1>4 DEF MovesMeant
<1> QED
    BY <1>5 DEF moves

LEMMA ImageCommandIsExact ==
    ASSUME NEW api, NEW a, NEW errors, IsErrors(errors), NEW target, NEW source, NEW moves,
           EnqueueImageCommand(api, a, errors, target, source, moves), api # "none",
           NEW l, l.api = api, l.args = a,
           errors = <<>> => MovesMeant(l, target, source, moves)
    PROVE  PixelsAreExact'
<1> DEFINE early == Check(~ImageDevice.images, InvalidOperation)
           err == Result(a.nulls, early, errors)
<1>1. err = Success => errors = <<>>
    <2>1. IsErrors(early)
        BY OneCheckIs, ErrorsOfImages
    <2> HIDE DEF early
    <2> QED
        BY <2>1, MadeIsChecked
<1>2. /\ lastImage'.api = api /\ lastImage'.args = a /\ lastImage'.err = err
      /\ lastImage'.target = target /\ lastImage'.source = source
      /\ lastImage'.moves = IF err = Success THEN moves ELSE NoMoves
    BY DEF EnqueueImageCommand
<1> HIDE DEF err
<1>3. Meant(lastImage') = Meant(l)
    <2>1. lastImage'.api = l.api /\ lastImage'.args = l.args
        BY <1>2
    <2>2. \A c, k : /\ TargetByte(lastImage', c, k) = TargetByte(l, c, k)
                    /\ SourceByte(lastImage', c, k) = SourceByte(l, c, k)
        BY <2>1 DEF TargetByte, SourceByte
    <2> QED
        BY <2>1, <2>2 DEF Meant
<1>4. err = Success => /\ moves = Meant(l)
                       /\ \A mv \in moves : mv[1] < BytesOf(target) /\ mv[2] < BytesOf(source)
    BY <1>1 DEF MovesMeant
<1>5. lastImage'.moves = IF err = Success THEN Meant(lastImage') ELSE NoMoves
    BY <1>2, <1>3, <1>4
<1>6. \A mv \in lastImage'.moves : /\ mv[1] < BytesOf(lastImage'.target)
                                   /\ mv[2] < BytesOf(lastImage'.source)
    <2>1. CASE err = Success
        BY <1>2, <1>4, <2>1
    <2>2. CASE err # Success
        BY <1>2, <2>2 DEF NoMoves
    <2> QED
        BY <2>1, <2>2
<1> QED
    BY <1>2, <1>5, <1>6 DEF PixelsAreExact


---------------------------------------------------------------------------
(* The functions, one by one.                                              *)

LEMMA ReadImageExact ==
    ASSUME ImageKinds, NEW a \in ImageCalls, clEnqueueReadImage(a)
    PROVE  PixelsAreExact'
<1> DEFINE l == [api |-> "ReadImage", args |-> a]
           m == a.img.img.elem
           errors == ReadImageBuilder(a)
           id == a.img.id
<1>1. IsErrors(errors) /\ (errors = <<>> => ReadsImage(a) /\ ~HostIsNarrow(a))
    BY ReadImageIs
<1>2. \A c, k : /\ TargetByte(l, c, k) = HostByte(a, c, k)
                /\ SourceByte(l, c, k) = PixelByte(a.img.img, a.origin, c, k)
    BY DEF TargetByte, SourceByte
<1>3. l.api = "ReadImage" /\ l.args = a
    OBVIOUS
<1> HIDE DEF l
<1>4. ASSUME ReadsImage(a), ~HostIsNarrow(a) PROVE MovesMeant(l, Host, id, ReadMoves(a))
    <2>1. a.img.kind = "image" /\ InRegion(a.img.img, a.origin, a.region)
        BY <1>4 DEF ReadsImage
    <2>2. /\ IsTriple(a.region) /\ IsTriple(a.origin) /\ a.row \in Nat /\ a.slice \in Nat
          /\ HostBytes \in Nat /\ IsImage(a.img.img) /\ m \in Nat \ {0}
          /\ HostSlice(a) * a.region[3] <= HostBytes /\ a.img \in ImageObjects
        BY <2>1, ArgumentsAre
    <2>3. BytesOf(id) = a.img.img.size /\ BytesOf(Host) = HostBytes
        BY <2>1, <2>2, BytesOfAre
    <2>4. ASSUME NEW c \in Pixels(a.region), NEW k \in 0..(m - 1)
          PROVE  /\ AreaByte(HostArea(a), m, c, k) = TargetByte(l, c, k)
                 /\ AreaByte(ImageArea(a.img.img, a.origin), m, c, k) = SourceByte(l, c, k)
                 /\ TargetByte(l, c, k) < BytesOf(Host)
                 /\ SourceByte(l, c, k) < BytesOf(id)
        <3>1. /\ AreaByte(HostArea(a), m, c, k) = HostByte(a, c, k)
              /\ HostByte(a, c, k) < HostBytes
            BY <1>4, <2>2, HostSide
        <3>2. /\ AreaByte(ImageArea(a.img.img, a.origin), m, c, k)
                     = PixelByte(a.img.img, a.origin, c, k)
              /\ PixelByte(a.img.img, a.origin, c, k) < a.img.img.size
            BY <2>1, <2>2, ImageSide
        <3> QED
            BY <1>2, <2>3, <3>1, <3>2
    <2> HIDE DEF m, id
    <2> QED
        BY <1>3, <2>2, <2>4, RectIsMeant DEF ReadMoves, m
<1>5. EnqueueImageCommand("ReadImage", a, errors, Host, id, ReadMoves(a))
    BY DEF clEnqueueReadImage
<1> HIDE DEF errors, id
<1> QED
    BY <1>1, <1>3, <1>4, <1>5, ImageCommandIsExact

LEMMA WriteImageExact ==
    ASSUME ImageKinds, NEW a \in ImageCalls, clEnqueueWriteImage(a)
    PROVE  PixelsAreExact'
<1> DEFINE l == [api |-> "WriteImage", args |-> a]
           m == a.img.img.elem
           errors == WriteImageBuilder(a)
           id == a.img.id
<1>1. IsErrors(errors) /\ (errors = <<>> => ReadsImage(a) /\ ~HostIsNarrow(a))
    BY WriteImageIs
<1>2. \A c, k : /\ TargetByte(l, c, k) = PixelByte(a.img.img, a.origin, c, k)
                /\ SourceByte(l, c, k) = HostByte(a, c, k)
    BY DEF TargetByte, SourceByte
<1>3. l.api = "WriteImage" /\ l.args = a
    OBVIOUS
<1> HIDE DEF l
<1>4. ASSUME ReadsImage(a), ~HostIsNarrow(a) PROVE MovesMeant(l, id, Host, WriteMoves(a))
    <2>1. a.img.kind = "image" /\ InRegion(a.img.img, a.origin, a.region)
        BY <1>4 DEF ReadsImage
    <2>2. /\ IsTriple(a.region) /\ IsTriple(a.origin) /\ a.row \in Nat /\ a.slice \in Nat
          /\ HostBytes \in Nat /\ IsImage(a.img.img) /\ m \in Nat \ {0}
          /\ HostSlice(a) * a.region[3] <= HostBytes /\ a.img \in ImageObjects
        BY <2>1, ArgumentsAre
    <2>3. BytesOf(id) = a.img.img.size /\ BytesOf(Host) = HostBytes
        BY <2>1, <2>2, BytesOfAre
    <2>4. ASSUME NEW c \in Pixels(a.region), NEW k \in 0..(m - 1)
          PROVE  /\ AreaByte(ImageArea(a.img.img, a.origin), m, c, k) = TargetByte(l, c, k)
                 /\ AreaByte(HostArea(a), m, c, k) = SourceByte(l, c, k)
                 /\ TargetByte(l, c, k) < BytesOf(id)
                 /\ SourceByte(l, c, k) < BytesOf(Host)
        <3>1. /\ AreaByte(HostArea(a), m, c, k) = HostByte(a, c, k)
              /\ HostByte(a, c, k) < HostBytes
            BY <1>4, <2>2, HostSide
        <3>2. /\ AreaByte(ImageArea(a.img.img, a.origin), m, c, k)
                     = PixelByte(a.img.img, a.origin, c, k)
              /\ PixelByte(a.img.img, a.origin, c, k) < a.img.img.size
            BY <2>1, <2>2, ImageSide
        <3> QED
            BY <1>2, <2>3, <3>1, <3>2
    <2> HIDE DEF m, id
    <2> QED
        BY <1>3, <2>2, <2>4, RectIsMeant DEF WriteMoves, m
<1>5. EnqueueImageCommand("WriteImage", a, errors, id, Host, WriteMoves(a))
    BY DEF clEnqueueWriteImage
<1> HIDE DEF errors, id
<1> QED
    BY <1>1, <1>3, <1>4, <1>5, ImageCommandIsExact

LEMMA CopyImageExact ==
    ASSUME ImageKinds, NEW a \in ImageCalls, clEnqueueCopyImage(a)
    PROVE  PixelsAreExact'
<1> DEFINE l == [api |-> "CopyImage", args |-> a]
           m == a.img.img.elem
           errors == CopyImageBuilder(a)
           id == a.img.id
           other == a.other.id
           good == /\ ReadsImage(a) /\ a.other.kind = "image" /\ a.img.img.fmt = a.other.img.fmt
                   /\ InRegion(a.other.img, a.from, a.region)
<1>1. IsErrors(errors) /\ (errors = <<>> => good)
    BY CopyImageIs
<1>2. \A c, k : /\ TargetByte(l, c, k) = PixelByte(a.img.img, a.origin, c, k)
                /\ SourceByte(l, c, k) = PixelByte(a.other.img, a.from, c, k)
    BY DEF TargetByte, SourceByte
<1>3. l.api = "CopyImage" /\ l.args = a
    OBVIOUS
<1> HIDE DEF l
<1>4. ASSUME good PROVE MovesMeant(l, id, other, CopyMoves(a))
    <2>1. a.img.kind = "image" /\ InRegion(a.img.img, a.origin, a.region)
        BY <1>4 DEF ReadsImage
    <2>2. /\ IsTriple(a.region) /\ IsTriple(a.origin) /\ IsTriple(a.from)
          /\ IsImage(a.img.img) /\ m \in Nat \ {0} /\ a.img \in ImageObjects
        BY <2>1, ArgumentsAre
    <2>3. IsImage(a.other.img) /\ a.other.img.elem = m /\ a.other \in ImageObjects
        BY <1>4, <2>1, ArgumentsAre
    <2>4. BytesOf(id) = a.img.img.size /\ BytesOf(other) = a.other.img.size
        BY <1>4, <2>1, <2>2, <2>3, BytesOfAre
    <2>5. ASSUME NEW c \in Pixels(a.region), NEW k \in 0..(m - 1)
          PROVE  /\ AreaByte(ImageArea(a.img.img, a.origin), m, c, k) = TargetByte(l, c, k)
                 /\ AreaByte(ImageArea(a.other.img, a.from), m, c, k) = SourceByte(l, c, k)
                 /\ TargetByte(l, c, k) < BytesOf(id)
                 /\ SourceByte(l, c, k) < BytesOf(other)
        <3>1. /\ AreaByte(ImageArea(a.img.img, a.origin), m, c, k)
                     = PixelByte(a.img.img, a.origin, c, k)
              /\ PixelByte(a.img.img, a.origin, c, k) < a.img.img.size
            BY <2>1, <2>2, ImageSide
        <3>2. /\ AreaByte(ImageArea(a.other.img, a.from), a.other.img.elem, c, k)
                     = PixelByte(a.other.img, a.from, c, k)
              /\ PixelByte(a.other.img, a.from, c, k) < a.other.img.size
            BY <1>4, <2>2, <2>3, ImageSide
        <3> QED
            BY <1>2, <2>3, <2>4, <3>1, <3>2
    <2> HIDE DEF m, id, other
    <2> QED
        BY <1>3, <2>2, <2>5, RectIsMeant DEF CopyMoves, m
<1>5. EnqueueImageCommand("CopyImage", a, errors, id, other, CopyMoves(a))
    BY DEF clEnqueueCopyImage
<1> HIDE DEF errors, id, other, good
<1> QED
    BY <1>1, <1>3, <1>4, <1>5, ImageCommandIsExact

\* What is known of an image and a buffer between which pixels are copied.
ImageAndBuffer(a) ==
    /\ ReadsImage(a) /\ a.other.kind = "buffer"
    /\ ~(a.offset + a.region[1] * a.region[2] * a.region[3] * a.img.img.elem > a.other.size)

LEMMA ImageAndBufferSides ==
    ASSUME ImageKinds, NEW a \in ImageCalls, ImageAndBuffer(a)
    PROVE  /\ IsTriple(a.region) /\ a.img.img.elem \in Nat \ {0}
           /\ \A c \in Pixels(a.region), k \in 0..(a.img.img.elem - 1) :
                  /\ AreaByte(ImageArea(a.img.img, a.origin), a.img.img.elem, c, k)
                         = PixelByte(a.img.img, a.origin, c, k)
                  /\ PixelByte(a.img.img, a.origin, c, k) < BytesOf(a.img.id)
                  /\ AreaByte(BufferArea(a), a.img.img.elem, c, k) = BufferByte(a, c, k)
                  /\ BufferByte(a, c, k) < BytesOf(a.other.id)
<1>1. /\ a.img.kind = "image" /\ InRegion(a.img.img, a.origin, a.region)
      /\ a.other.kind = "buffer"
      /\ ~(a.offset + a.region[1] * a.region[2] * a.region[3] * a.img.img.elem > a.other.size)
    BY DEF ImageAndBuffer, ReadsImage
<1>2. /\ IsTriple(a.region) /\ IsTriple(a.origin) /\ a.offset \in Nat
      /\ IsImage(a.img.img) /\ a.img.img.elem \in Nat \ {0} /\ a.other.size \in Nat
      /\ a.img \in ImageObjects /\ a.other \in ImageObjects
    BY <1>1, ArgumentsAre
<1>3. BytesOf(a.img.id) = a.img.img.size /\ BytesOf(a.other.id) = a.other.size
    BY <1>1, <1>2, BytesOfAre
<1>4. ASSUME NEW c \in Pixels(a.region), NEW k \in 0..(a.img.img.elem - 1)
      PROVE  /\ AreaByte(ImageArea(a.img.img, a.origin), a.img.img.elem, c, k)
                    = PixelByte(a.img.img, a.origin, c, k)
             /\ PixelByte(a.img.img, a.origin, c, k) < a.img.img.size
             /\ AreaByte(BufferArea(a), a.img.img.elem, c, k) = BufferByte(a, c, k)
             /\ BufferByte(a, c, k) < a.other.size
    <2>1. /\ AreaByte(ImageArea(a.img.img, a.origin), a.img.img.elem, c, k)
                 = PixelByte(a.img.img, a.origin, c, k)
          /\ PixelByte(a.img.img, a.origin, c, k) < a.img.img.size
        BY <1>1, <1>2, ImageSide
    <2>2. /\ AreaByte(BufferArea(a), a.img.img.elem, c, k) = BufferByte(a, c, k)
          /\ BufferByte(a, c, k) < a.other.size
        BY <1>1, <1>2, BufferSide
    <2> QED
        BY <2>1, <2>2
<1> QED
    BY <1>2, <1>3, <1>4

LEMMA CopyImageToBufferExact ==
    ASSUME ImageKinds, NEW a \in ImageCalls, clEnqueueCopyImageToBuffer(a)
    PROVE  PixelsAreExact'
<1> DEFINE l == [api |-> "CopyImageToBuffer", args |-> a]
           m == a.img.img.elem
           errors == CopyImageToBufferBuilder(a)
           id == a.img.id
           other == a.other.id
<1>1. IsErrors(errors) /\ (errors = <<>> => ImageAndBuffer(a))
    <2>1. errors = ObjectErrors(a.other, "buffer", {}) \o ImageOfBufferErrors(a)
                   \o Supported(a.img) \o BufferPartErrors(a) \o CheckedWaitList(a.wl, FALSE)
        BY DEF CopyImageToBufferBuilder
    <2> HIDE DEF errors
    <2> QED
        BY <2>1, ImageAndBufferIs DEF ImageAndBuffer
<1>2. \A c, k : /\ TargetByte(l, c, k) = BufferByte(a, c, k)
                /\ SourceByte(l, c, k) = PixelByte(a.img.img, a.origin, c, k)
    BY DEF TargetByte, SourceByte
<1>3. l.api = "CopyImageToBuffer" /\ l.args = a
    OBVIOUS
<1> HIDE DEF l
<1>4. ASSUME ImageAndBuffer(a) PROVE MovesMeant(l, other, id, ToBufferMoves(a))
    <2>1. /\ IsTriple(a.region) /\ m \in Nat \ {0}
          /\ \A c \in Pixels(a.region), k \in 0..(m - 1) :
                 /\ AreaByte(BufferArea(a), m, c, k) = TargetByte(l, c, k)
                 /\ AreaByte(ImageArea(a.img.img, a.origin), m, c, k) = SourceByte(l, c, k)
                 /\ TargetByte(l, c, k) < BytesOf(other)
                 /\ SourceByte(l, c, k) < BytesOf(id)
        BY <1>2, <1>4, ImageAndBufferSides
    <2> HIDE DEF m, id, other
    <2> QED
        BY <1>3, <2>1, RectIsMeant DEF ToBufferMoves, m
<1>5. EnqueueImageCommand("CopyImageToBuffer", a, errors, other, id, ToBufferMoves(a))
    BY DEF clEnqueueCopyImageToBuffer
<1> DEFINE moves == ToBufferMoves(a)
<1> HIDE DEF m, errors, id, other
<1>6. /\ errors = <<>> => MovesMeant(l, other, id, moves)
      /\ EnqueueImageCommand(l.api, a, errors, other, id, moves)
    BY <1>1, <1>3, <1>4, <1>5
<1>7. l.api # "none"
    BY <1>3
<1> HIDE DEF moves
<1> QED
    BY <1>1, <1>3, <1>6, <1>7, ImageCommandIsExact

LEMMA CopyBufferToImageExact ==
    ASSUME ImageKinds, NEW a \in ImageCalls, clEnqueueCopyBufferToImage(a)
    PROVE  PixelsAreExact'
<1> DEFINE l == [api |-> "CopyBufferToImage", args |-> a]
           m == a.img.img.elem
           errors == CopyBufferToImageBuilder(a)
           id == a.img.id
           other == a.other.id
<1>1. IsErrors(errors) /\ (errors = <<>> => ImageAndBuffer(a))
    <2>1. errors = ObjectErrors(a.other, "buffer", {}) \o ImageOfBufferErrors(a)
                   \o Supported(a.img) \o BufferPartErrors(a) \o CheckedWaitList(a.wl, FALSE)
        BY DEF CopyBufferToImageBuilder
    <2> HIDE DEF errors
    <2> QED
        BY <2>1, ImageAndBufferIs DEF ImageAndBuffer
<1>2. \A c, k : /\ TargetByte(l, c, k) = PixelByte(a.img.img, a.origin, c, k)
                /\ SourceByte(l, c, k) = BufferByte(a, c, k)
    BY DEF TargetByte, SourceByte
<1>3. l.api = "CopyBufferToImage" /\ l.args = a
    OBVIOUS
<1> HIDE DEF l
<1>4. ASSUME ImageAndBuffer(a) PROVE MovesMeant(l, id, other, FromBufferMoves(a))
    <2>1. /\ IsTriple(a.region) /\ m \in Nat \ {0}
          /\ \A c \in Pixels(a.region), k \in 0..(m - 1) :
                 /\ AreaByte(ImageArea(a.img.img, a.origin), m, c, k) = TargetByte(l, c, k)
                 /\ AreaByte(BufferArea(a), m, c, k) = SourceByte(l, c, k)
                 /\ TargetByte(l, c, k) < BytesOf(id)
                 /\ SourceByte(l, c, k) < BytesOf(other)
        BY <1>2, <1>4, ImageAndBufferSides
    <2> HIDE DEF m, id, other
    <2> QED
        BY <1>3, <2>1, RectIsMeant DEF FromBufferMoves, m
<1>5. EnqueueImageCommand("CopyBufferToImage", a, errors, id, other, FromBufferMoves(a))
    BY DEF clEnqueueCopyBufferToImage
<1> DEFINE moves == FromBufferMoves(a)
<1> HIDE DEF m, errors, id, other
<1>6. /\ errors = <<>> => MovesMeant(l, id, other, moves)
      /\ EnqueueImageCommand(l.api, a, errors, id, other, moves)
    BY <1>1, <1>3, <1>4, <1>5
<1>7. l.api # "none"
    BY <1>3
<1> HIDE DEF moves
<1> QED
    BY <1>1, <1>3, <1>6, <1>7, ImageCommandIsExact

LEMMA FillImageExact ==
    ASSUME ImageKinds, NEW a \in ImageCalls, clEnqueueFillImage(a)
    PROVE  PixelsAreExact'
<1> DEFINE l == [api |-> "FillImage", args |-> a]
           img == a.img.img
           m == img.elem
           n == ChannelSize(img.fmt.type)
           FromColor(i) == FillChannels(img.fmt.order)[(i \div n) + 1] * n + (i % n)
           errors == FillImageBuilder(a)
           id == a.img.id
           to == ImageArea(img, a.origin)
           moves == FillMoves(a)
<1>1. IsErrors(errors) /\ (errors = <<>> => ReadsImage(a))
    BY FillImageIs
<1>2. \A c, k : /\ TargetByte(l, c, k) = PixelByte(img, a.origin, c, k)
                /\ SourceByte(l, c, k) = ColorByte(img.fmt, k)
    BY DEF TargetByte, SourceByte
<1>3. l.api = "FillImage" /\ l.args = a
    OBVIOUS
<1>4. moves = {<<mv[1], FromColor(mv[2])>> : mv \in MemRectFill(ByteRegion(img, a.region), to, m)}
    BY DEF FillMoves
<1>5. EnqueueImageCommand("FillImage", a, errors, id, Color, moves)
    BY DEF clEnqueueFillImage
<1> HIDE DEF l, moves
<1>6. ASSUME ReadsImage(a) PROVE MovesMeant(l, id, Color, moves)
    <2>1. /\ a.img.kind = "image" /\ InRegion(img, a.origin, a.region)
          /\ img.fmt \in ImageDevice.formats
        BY <1>6 DEF ReadsImage
    <2>2. /\ IsTriple(a.region) /\ IsTriple(a.origin) /\ IsImage(img) /\ m \in Nat \ {0}
          /\ m = ElementSize(img.fmt) /\ a.img \in ImageObjects
        BY <2>1, ArgumentsAre
    <2>3. FormatErrors(img.fmt) = <<>> /\ (img.fmt.type \in Packed => img.fmt.order \in ThreeChannels)
        BY <2>1 DEF ImageKinds
    <2>4. BytesOf(id) = img.size /\ BytesOf(Color) = 20
        BY <2>1, <2>2, BytesOfAre
    <2>5. ASSUME NEW k \in 0..(m - 1)
          PROVE  FromColor(k) = ColorByte(img.fmt, k) /\ ColorByte(img.fmt, k) < 20
        <3>1. k \in 0..(ElementSize(img.fmt) - 1)
            BY <2>2
        <3> QED
            BY <2>3, <3>1, ColorIs
    <2>6. ASSUME NEW c \in Pixels(a.region), NEW k \in 0..(m - 1)
          PROVE  /\ AreaByte(to, m, c, k) = PixelByte(img, a.origin, c, k)
                 /\ PixelByte(img, a.origin, c, k) < img.size
        BY <2>1, <2>2, ImageSide
    <2>7. MemRectFill(ByteRegion(img, a.region), to, m)
              = {<<AreaByte(to, m, c, k), k>> : c \in Pixels(a.region), k \in 0..(m - 1)}
        <3> HIDE DEF to
        <3> QED
            BY <2>2, RectFillIs DEF ByteRegion
    <2>8. Meant(l) = {<<TargetByte(l, c, k), SourceByte(l, c, k)>> :
                          c \in Pixels(a.region), k \in 0..(m - 1)}
        BY <1>3 DEF Meant
    <2> HIDE DEF FromColor, m, img, n, to, id
    <2>9. moves = {<<AreaByte(to, m, c, k), FromColor(k)>> :
                       c \in Pixels(a.region), k \in 0..(m - 1)}
        <3> DEFINE rect == MemRectFill(ByteRegion(img, a.region), to, m)
        <3>1. moves = {<<mv[1], FromColor(mv[2])>> : mv \in rect}
            BY <1>4
        <3>2. rect = {<<AreaByte(to, m, c, k), k>> : c \in Pixels(a.region), k \in 0..(m - 1)}
            BY <2>7
        <3> HIDE DEF rect
        <3>3. ASSUME NEW c \in Pixels(a.region), NEW k \in 0..(m - 1)
              PROVE  <<AreaByte(to, m, c, k), FromColor(k)>> \in moves
            <4> DEFINE mv == <<AreaByte(to, m, c, k), k>>
            <4>1. mv \in rect /\ mv[1] = AreaByte(to, m, c, k) /\ mv[2] = k
                BY <3>2
            <4> HIDE DEF mv
            <4> QED
                BY <3>1, <4>1
        <3>4. ASSUME NEW v \in moves
              PROVE  \E c \in Pixels(a.region), k \in 0..(m - 1) :
                         v = <<AreaByte(to, m, c, k), FromColor(k)>>
            <4>1. PICK mv \in rect : v = <<mv[1], FromColor(mv[2])>>
                BY <3>1, <3>4
            <4>2. PICK c \in Pixels(a.region), k \in 0..(m - 1) : mv = <<AreaByte(to, m, c, k), k>>
                BY <3>2, <4>1
            <4>3. mv[1] = AreaByte(to, m, c, k) /\ mv[2] = k
                BY <4>2
            <4> QED
                BY <4>1, <4>3
        <3> QED
            BY <3>3, <3>4
    <2>10. moves = Meant(l)
        BY <1>2, <2>5, <2>6, <2>8, <2>9
    <2>11. ASSUME NEW mv \in Meant(l) PROVE mv[1] < BytesOf(id) /\ mv[2] < BytesOf(Color)
        <3>1. PICK c \in Pixels(a.region), k \in 0..(m - 1) :
                  mv = <<TargetByte(l, c, k), SourceByte(l, c, k)>>
            BY <2>8, <2>11
        <3> QED
            BY <1>2, <2>4, <2>5, <2>6, <3>1
    <2> QED
        BY <2>10, <2>11 DEF MovesMeant
<1> HIDE DEF errors, id
<1> QED
    BY <1>1, <1>3, <1>5, <1>6, ImageCommandIsExact

\* Whatever the images, their formats, their types and the areas of a call: an
\* accepted command moves exactly the bytes of the pixels of its region, each to
\* or from the byte it stands for, inside the image and inside the host's array,
\* the buffer, the other image or the color; a refused one moves nothing
\* (EnqueueReadImageBuilder and the other builders of Command.cpp, and what
\* CPUThread::Execute does with offsets, pitches and colors).
THEOREM Pixels_Are_Exact ==
    ASSUME ImageKinds
    PROVE  ImageSpec => []PixelsAreExact
<1>1. ImageInit => PixelsAreExact
    BY DEF ImageInit, PixelsAreExact, NoMoves
<1>2. PixelsAreExact /\ [ImageNext]_imageVars => PixelsAreExact'
    <2>1. ASSUME NEW a \in ImageCalls, clEnqueueReadImage(a) PROVE PixelsAreExact'
        BY <2>1, ReadImageExact
    <2>2. ASSUME NEW a \in ImageCalls, clEnqueueWriteImage(a) PROVE PixelsAreExact'
        BY <2>2, WriteImageExact
    <2>3. ASSUME NEW a \in ImageCalls, clEnqueueFillImage(a) PROVE PixelsAreExact'
        BY <2>3, FillImageExact
    <2>4. ASSUME NEW a \in ImageCalls, clEnqueueCopyImage(a) PROVE PixelsAreExact'
        BY <2>4, CopyImageExact
    <2>5. ASSUME NEW a \in ImageCalls, clEnqueueCopyImageToBuffer(a) PROVE PixelsAreExact'
        BY <2>5, CopyImageToBufferExact
    <2>6. ASSUME NEW a \in ImageCalls, clEnqueueCopyBufferToImage(a) PROVE PixelsAreExact'
        BY <2>6, CopyBufferToImageExact
    <2>7. ASSUME PixelsAreExact, UNCHANGED imageVars PROVE PixelsAreExact'
        BY <2>7 DEF imageVars, PixelsAreExact
    <2> QED
        BY <2>1, <2>2, <2>3, <2>4, <2>5, <2>6, <2>7 DEF ImageNext
<1> QED
    BY <1>1, <1>2, PTL DEF ImageSpec

=============================================================================
