-------------------------- MODULE LibraryGenerator --------------------------
(***************************************************************************)
(* The generator of the built-in library.  From tables of functions and    *)
(* of implementations it makes a header with a prototype for every         *)
(* signature and a source file with a definition for each signature that   *)
(* has an implementation; what depends on the target is left to the        *)
(* preprocessor.  The text is a sequence of lines, the bodies are left out *)
(* except for the functions of the library that they call.                 *)
(***************************************************************************)
EXTENDS TypeOrder, FiniteSets, SequencesExt

CONSTANTS
    Libraries, \* the tables
    Targets    \* the sets of macros that the compilers of targets define

VARIABLES
    lib,         \* the tables of this run
    todo,        \* implementations to be looked at
    Impls,       \* by function, the implementation of each signature
    next,        \* the function that is written next
    EmittedReqs, \* written for the current group
    header,      \* made from the same tables
    out,         \* the source file so far
    seen         \* what a compiler made of both

vars == <<lib, todo, Impls, next, EmittedReqs, header, out, seen>>

---------------------------------------------------------------------------
(* Signatures: the type of the result and those of the parameters.         *)

\* What the iterators of an operand go over; a single type is a group of one.
Members(o) ==
    CASE o.wrap = "plain"     -> o.types
      [] o.wrap = "qualified" -> {Qualified(t, o.qual) : t \in o.types}
      [] o.wrap = "pointer"   -> {Pointer(t, o.space, o.mods) : t \in o.types}

\* An operand, or what it points to.
Param(p, sign) == IF p.pointee THEN sign[p.op].of ELSE sign[p.op]

Inner(t) == IF t.kind \in {"qualified", "pointer"} THEN t.of ELSE t
HasBase(t) == t.kind \in {"integer", "real", "vector"}
Width(t) == IF t.kind = "vector" THEN t.width ELSE 1

\* By the place of its name among those of the images: the number of
\* coordinates of a 1D array, a 1D buffer, a 1D, a 2D array, a 2D and a 3D.
Coordinates == <<2, 1, 1, 4, 2, 4>>

Related(how, s, t) ==
    CASE how = "isSameAs"         -> s = t
      [] how = "isSameDimAs"      -> /\ HasBase(s) /\ HasBase(t)
                                     /\ (s.kind = "vector") = (t.kind = "vector")
                                     /\ Width(s) = Width(t)
      [] how = "isSameBaseAs"     -> HasBase(s) /\ HasBase(t) /\ BaseOf(s) = BaseOf(t)
      [] how = "isSameBaseSizeAs" ->
            HasBase(s) /\ HasBase(t) /\ BaseOf(s).bits = BaseOf(t).bits
      [] how = "isSameBaseKindAs" ->
            HasBase(s) /\ HasBase(t) /\ BaseOf(s).kind = BaseOf(t).kind
      [] how = "isSameBitSizeAs"  ->
            /\ HasBase(s) /\ HasBase(t)
            /\ Width(s) * BaseOf(s).bits = Width(t) * BaseOf(t).bits
      [] how = "isCompatibleWithImageDim" ->
            /\ HasBase(t) /\ Width(t) = Coordinates[Inner(s).name]
            /\ (t.kind = "vector") = (Coordinates[Inner(s).name] > 1)

apply(c, sign) ==
    Related(c.how, Param(c.first, sign), Param(c.second, sign)) = ~c.negated

getMaxOperand(c) == IF c.first.op > c.second.op THEN c.first.op ELSE c.second.op

\* A constraint is looked at once its last operand is there.
IsConsistent(v, sign) ==
    \A c \in v.constraints : getMaxOperand(c) = Len(sign) => apply(c, sign)

\* What a variant says of a signature.
IsSign(v, sign) ==
    /\ Len(sign) = Len(v.operands)
    /\ \A i \in DOMAIN sign : sign[i] \in Members(v.operands[i])
    /\ \A c \in v.constraints : apply(c, sign)

ExpandSigns(v) ==
    LET UpTo[n \in 0..Len(v.operands)] ==
            IF n = 0 THEN {<<>>}
            ELSE {s \in {Append(p, t) : p \in UpTo[n - 1], t \in Members(v.operands[n])} :
                      IsConsistent(v, s)}
    IN  UpTo[Len(v.operands)]

---------------------------------------------------------------------------
(* The tables: functions in the order of their groups and names.           *)

Builtins(l) == {l.builtins[i] : i \in DOMAIN l.builtins}
Builtin(l, id) == CHOOSE b \in Builtins(l) : b.id = id
Signs(b) == UNION {ExpandSigns(b.variants[i]) : i \in DOMAIN b.variants}

\* The variants an implementation is for: the one it names, and all of them
\* if it names none.  Nothing if there is no such variant.
CurVariants(b, r) ==
    LET named == {i \in DOMAIN b.variants : b.variants[i].name = r.variant}
    IN  IF named # {} THEN named ELSE IF r.variant = "" THEN DOMAIN b.variants ELSE {}

Covered(b, r) == UNION {ExpandSigns(b.variants[i]) : i \in CurVariants(b, r)}

TypePredicates(t) ==
    LET inner == BaseOf(Inner(t))
    IN  IF inner.kind = "real"
        THEN IF inner.bits = 64 THEN {"fp64"} ELSE IF inner.bits = 16 THEN {"fp16"} ELSE {}
        ELSE {}

\* Those of the function and the variant, and those of the types.  Address
\* spaces are not among the predicates that are kept.
ComputePredicates(b, sign) ==
    LET v == CHOOSE i \in DOMAIN b.variants : IsSign(b.variants[i], sign)
    IN  b.predicates \cup b.variants[v].predicates
            \cup UNION {TypePredicates(sign[i]) : i \in DOMAIN sign}

\* In the order of the comparison, which must order them.
Sorted(signs) ==
    LET before == [s \in signs |-> Cardinality({q \in signs : BuiltinSignCompare(q, s)})]
    IN  [i \in 1..Cardinality(signs) |-> CHOOSE s \in signs : before[s] = i - 1]

SameResult(signs, sign) == {s \in signs : s[1] = sign[1]}

---------------------------------------------------------------------------
(* Lines under guards.                                                     *)

Line(is, what) == <<[is |-> is, what |-> what]>>
Begin(preds) == IF preds = {} THEN <<>> ELSE Line("if", preds)
End(preds) == IF preds = {} THEN <<>> ELSE Line("endif", preds)
Push(current, preds) == IF preds = current THEN <<>> ELSE End(current) \o Begin(preds)

\* Items with their predicates, each with lines that come before its guard.
\* Neighbours with the same predicates share a guard.
Section(items) ==
    LET Guarded(i) == IF i = 0 THEN {} ELSE items[i].preds
        Upto[i \in 0..Len(items)] ==
            IF i = 0 THEN <<>>
            ELSE Upto[i - 1] \o items[i].before \o Push(Guarded(i - 1), Guarded(i)) \o items[i].lines
    IN  Upto[Len(items)] \o End(Guarded(Len(items)))

Item(preds, before, lines) == [preds |-> preds, before |-> before, lines |-> lines]

\* The extensions of a target, under the macros of its machine.
TargetDefs(l) ==
    Section([i \in DOMAIN l.features |->
                 Item(l.features[i].preds, <<>>, Line("define", l.features[i].name))])

VectorTypesOf(l) ==
    {t \in UNION {{Inner(s[i]) : i \in DOMAIN s} : s \in UNION {Signs(b) : b \in Builtins(l)}} :
        t.kind = "vector"}

TypeDefs(l) ==
    LET order == Sorted({<<t>> : t \in VectorTypesOf(l)})
    IN  Section([i \in DOMAIN order |->
                     Item(TypePredicates(order[i][1]), <<>>, Line("typedef", order[i][1]))])

\* A function is overloaded if it has another signature; a conversion, whose
\* name holds the type of its result, if that one has.
Overloaded(b, signs, sign) ==
    IF b.cast THEN Cardinality(SameResult(signs, sign)) > 1 ELSE Cardinality(signs) > 1

IsCast(id) == Builtin(lib, id).cast

Declaration(b, signs, sign) == [id |-> b.id, sign |-> sign, overload |-> Overloaded(b, signs, sign)]

\* The guards of a conversion end where the type of the result changes.
Prototypes(b) ==
    LET signs == Signs(b)
        order == Sorted(signs)
        Declared(s) == Item(ComputePredicates(b, s), <<>>, Line("prototype", Declaration(b, signs, s)))
        Run(i) == SelectSeq(order, LAMBDA s : s[1] = order[i][1])
        Starts(i) == i = 1 \/ order[i][1] # order[i - 1][1]
        Part(i) == IF b.cast THEN IF Starts(i) THEN Section([j \in DOMAIN Run(i) |-> Declared(Run(i)[j])])
                                  ELSE <<>>
                   ELSE IF i = 1 THEN Section([j \in DOMAIN order |-> Declared(order[j])]) ELSE <<>>
    IN  FlattenSeq([i \in DOMAIN order |-> Part(i)])

Header(l) ==
    TargetDefs(l) \o TypeDefs(l)
        \o FlattenSeq([i \in DOMAIN l.builtins |-> Prototypes(l.builtins[i])])

---------------------------------------------------------------------------
(* The functions that a body calls, with the elements they are for.        *)

IsScalarSignature(sign) ==
    \A i \in DOMAIN sign :
        (sign[i].kind = "pointer" => sign[i].of.kind # "vector") /\ sign[i].kind # "vector"

\* A part of a vector; one element is a scalar.
Part(t, n) == IF t.kind # "vector" THEN t ELSE IF n = 1 THEN t.base ELSE Vector(t.base, n)

VectorWidth(sign) ==
    LET i == CHOOSE i \in DOMAIN sign : sign[i].kind = "vector" IN sign[i].width

\* The halves of the vectors, by the function itself.
RecursiveSplit(sign) ==
    LET n == VectorWidth(sign)
        half == n \div 2
    IN  << [sign |-> [i \in DOMAIN sign |-> Part(sign[i], half)], from |-> 1, to |-> half],
           [sign |-> [i \in DOMAIN sign |-> Part(sign[i], n - half)], from |-> half + 1, to |-> n] >>

\* Each element; what points to a vector is taken to point to elements.
DirectSplit(sign) ==
    LET Element(t) == IF t.kind = "pointer" THEN Pointer(BaseOf(t.of), t.space, t.mods) ELSE Part(t, 1)
    IN  [i \in 1..VectorWidth(sign) |->
             [sign |-> [j \in DOMAIN sign |-> Element(sign[j])], from |-> i, to |-> i]]

\* A template, and the scalar function, has its own text.
Body(r, sign) ==
    IF r.strategy = "template" \/ IsScalarSignature(sign) THEN <<>>
    ELSE IF r.strategy = "recursive" THEN RecursiveSplit(sign) ELSE DirectSplit(sign)

---------------------------------------------------------------------------
(* The source file.                                                        *)

\* Mutant: of two implementations the last one is taken.
PlaceLast(r) ==
    LET b == Builtin(lib, r.builtin)
        signs == Covered(b, r)
    IN  /\ r \in todo
        /\ todo' = todo \ {r}
        /\ Impls' = [Impls EXCEPT ![b.id] =
              [s \in signs \cup DOMAIN Impls[b.id] |-> IF s \in signs THEN r ELSE Impls[b.id][s]]]
        /\ UNCHANGED <<lib, next, EmittedReqs, header, out, seen>>

\* The implementations come in the order of names that the table did not
\* give them: in any.  One that is for a target, or follows one that names no
\* variant, replaces what is there.
Place(r) ==
    LET b == Builtin(lib, r.builtin)
        signs == Covered(b, r)
        old == Impls[b.id]
        Taken(s) == s \notin DOMAIN old \/ r.target \/ old[s].variant = ""
    IN  /\ r \in todo
        /\ todo' = todo \ {r}
        /\ Impls' = [Impls EXCEPT ![b.id] =
              [s \in signs \cup DOMAIN old |-> IF s \in signs /\ Taken(s) THEN r ELSE old[s]]]
        /\ UNCHANGED <<lib, next, EmittedReqs, header, out, seen>>

\* The requirements of an implementation are written before the guard of its
\* first signature, and so under the guard of the signature before.
Definitions(b, impls, emitted) ==
    LET signs == DOMAIN impls
        order == Sorted(signs)
        Earlier(i) == emitted \cup UNION {impls[order[j]].requires : j \in 1..i - 1}
        New(i) == impls[order[i]].requires \ Earlier(i)
        Definition(s) == Line("definition", Declaration(b, signs, s) @@
                                  [calls |-> Body(impls[s], s), requires |-> impls[s].requires])
    IN  Section([i \in DOMAIN order |->
                     Item(ComputePredicates(b, order[i]),
                          IF New(i) = {} THEN <<>> ELSE Line("requirements", New(i)),
                          Definition(order[i]))])

\* The group whose guard is open.
Current ==
    LET written == {i \in 1..next - 1 : DOMAIN Impls[lib.builtins[i].id] # {}}
    IN  IF written = {} THEN ""
        ELSE lib.builtins[CHOOSE i \in written : \A j \in written : j <= i].group

Guard(group) == IF group = "" THEN {} ELSE {group}

\* A function without an implementation is left out; a new group forgets
\* which requirements were written.
EmitBuiltin ==
    /\ todo = {} /\ next <= Len(lib.builtins)
    /\ LET b == lib.builtins[next]
           impls == Impls[b.id]
           emitted == IF b.group = Current THEN EmittedReqs ELSE {}
       IN  IF DOMAIN impls = {} THEN UNCHANGED <<EmittedReqs, out>>
           ELSE /\ out' = out \o Push(Guard(Current), Guard(b.group))
                              \o Definitions(b, impls, emitted)
                /\ EmittedReqs' = emitted \cup UNION {impls[s].requires : s \in DOMAIN impls}
    /\ next' = next + 1
    /\ UNCHANGED <<lib, todo, Impls, header, seen>>

Finalize ==
    /\ next = Len(lib.builtins) + 1
    /\ out' = out \o End(Guard(Current))
    /\ next' = next + 1
    /\ UNCHANGED <<lib, todo, Impls, EmittedReqs, header, seen>>

\* The lines that are under no guard of an undefined macro; "balanced" says
\* that every guard was opened and closed.
Compiled(lines, macros) ==
    LET See(acc, line) ==
            CASE line.is = "if"    -> [acc EXCEPT !.stack = Append(@, line.what \subseteq acc.macros)]
              [] line.is = "endif" ->
                    IF acc.stack = <<>> THEN [acc EXCEPT !.balanced = FALSE]
                    ELSE [acc EXCEPT !.stack = SubSeq(@, 1, Len(@) - 1)]
              [] line.is \notin {"if", "endif"} ->
                    IF \E i \in DOMAIN acc.stack : ~acc.stack[i] THEN acc
                    ELSE [acc EXCEPT !.lines = Append(@, line),
                                     !.macros = IF line.is = "define" THEN @ \cup {line.what} ELSE @]
        Upto[i \in 0..Len(lines)] ==
            IF i = 0 THEN [stack |-> <<>>, macros |-> macros, lines |-> <<>>, balanced |-> TRUE]
            ELSE See(Upto[i - 1], lines[i])
        all == Upto[Len(lines)]
    IN  [macros |-> all.macros, lines |-> all.lines, balanced |-> all.balanced /\ all.stack = <<>>]

NotCompiled == [group |-> "none"]
Groups == {b.group : b \in Builtins(lib)}

\* A group of the library is compiled for a target from a file of its own,
\* which defines the name of the group and includes the other two.
Compile(macros, group) ==
    /\ next = Len(lib.builtins) + 2 /\ seen = NotCompiled
    /\ seen' = Compiled(header \o out, macros \cup Guard(group)) @@ [group |-> group]
    /\ UNCHANGED <<lib, todo, Impls, next, EmittedReqs, header, out>>

Init ==
    /\ lib \in Libraries
    /\ todo = lib.impls
    /\ Impls = [id \in {b.id : b \in Builtins(lib)} |-> <<>>]
    /\ next = 1 /\ EmittedReqs = {} /\ out = <<>>
    /\ header = Header(lib)
    /\ seen = NotCompiled

Next ==
    \/ \E r \in todo : Place(r)
    \/ EmitBuiltin
    \/ Finalize
    \/ \E macros \in Targets, group \in Groups : Compile(macros, group)

Spec == Init /\ [][Next]_vars

---------------------------------------------------------------------------
\* What a table says of the signatures.
AllSigns(v) ==
    LET n == Len(v.operands)
    IN  {s \in [1..n -> UNION {Members(v.operands[i]) : i \in 1..n}] : IsSign(v, s)}

\* The signatures of a function are those that satisfy all its constraints,
\* though each is looked at when only a part of the signature is there.
ExpansionIsExact ==
    \A b \in Builtins(lib) : \A i \in DOMAIN b.variants :
        ExpandSigns(b.variants[i]) = AllSigns(b.variants[i])

\* Whatever the order in which the implementations come: a signature has one
\* if there is one for it; that of a target for a named variant gives way
\* only to one of a target, and that for a named variant only to one of these.
MostSpecificIsTaken ==
    todo = {} => \A b \in Builtins(lib) :
        LET mine == {r \in lib.impls : r.builtin = b.id}
        IN  /\ DOMAIN Impls[b.id] = UNION {Covered(b, r) : r \in mine}
            /\ \A s \in DOMAIN Impls[b.id] :
                  LET r == Impls[b.id][s]
                      candidates == {q \in mine : s \in Covered(b, q)}
                  IN  /\ r \in candidates
                      /\ (\E q \in candidates : q.target /\ q.variant # "") => r.target
                      /\ (\E q \in candidates : q.variant # "") => r.target \/ r.variant # ""

LinesOf(lines, is) == {lines[i].what : i \in {j \in DOMAIN lines : lines[j].is = is}}
At(lines, is, x) == CHOOSE i \in DOMAIN lines : lines[i].is = is /\ lines[i].what = x

\* A split calls, in order, a function for each element once.
SplitsInOrder(calls) ==
    calls # <<>> =>
        /\ calls[1].from = 1
        /\ \A i \in 1..Len(calls) - 1 : calls[i + 1].from = calls[i].to + 1

\* For every target and group the library compiles, and it is complete: the
\* guards are paired; the definitions are those whose predicates hold, once
\* each; each is declared alike, its vector types are defined, its
\* requirements are there before it, and the functions that its body calls
\* for the parts of its vectors are defined too.
CompilesComplete ==
    seen # NotCompiled =>
        LET defs == LinesOf(seen.lines, "definition")
            prototypes == LinesOf(seen.lines, "prototype")
            typedefs == LinesOf(seen.lines, "typedef")
            required == {i \in DOMAIN seen.lines : seen.lines[i].is = "requirements"}
            Enabled(b) ==
                {s \in DOMAIN Impls[b.id] : ComputePredicates(b, s) \subseteq seen.macros}
        IN  /\ seen.balanced
            /\ \A b \in Builtins(lib) :
                  {d.sign : d \in {e \in defs : e.id = b.id}}
                      = IF b.group \in {seen.group, ""} THEN Enabled(b) ELSE {}
            /\ Cardinality(defs) =
                  Cardinality({i \in DOMAIN seen.lines : seen.lines[i].is = "definition"})
            /\ \A d \in defs :
                  /\ [id |-> d.id, sign |-> d.sign, overload |-> d.overload] \in prototypes
                  /\ \A i \in DOMAIN d.sign :
                        Inner(d.sign[i]).kind = "vector" => Inner(d.sign[i]) \in typedefs
                  /\ \A r \in d.requires : \E i \in required :
                        r \in seen.lines[i].what /\ i < At(seen.lines, "definition", d)
                  /\ \A p \in prototypes :
                        p.id = d.id /\ p.sign # d.sign /\ (p.sign[1] = d.sign[1] \/ ~IsCast(d.id)) =>
                            d.overload
                  /\ SplitsInOrder(d.calls)
                  /\ \A i \in DOMAIN d.calls :
                        \E e \in defs : e.id = d.id /\ e.sign = d.calls[i].sign
=============================================================================
