---------------------------- MODULE KernelInputs ----------------------------
(***************************************************************************)
(* Kernel launches and arguments of kernels.  The table of presets and the *)
(* limits are those of the CPU device scaled down; the table keeps the     *)
(* device's shape (one preferred size, two, three).                        *)
(***************************************************************************)
EXTENDS CommandBuilder, IndexSpace

PresetSizes == << <<4, 0, 0>>, <<2, 2, 0>>, <<2, 1, 2>> >>
StrayRows == {<<0, 0, 0>>}
ItemSizes == <<4, 4, 4>>

Call(dims, global, local) ==
    [kernel |-> "good", dims |-> dims, global |-> global, local |-> local,
     off |-> <<1, 0, 2, 0>>, required |-> <<>>, wl |-> NoWaitList, nulls |-> {"off"}]

Sizes(n) == {s \in [1..4 -> 1..n] : s[4] = 1}
Flat(sizes, n) == {s \in sizes : \A i \in (n + 1)..3 : s[i] = 1}

\* Accepted and refused sizes in one, two and three dimensions.
Shapes ==
    UNION {{Call(n, g, l) : g \in Flat(Sizes(4), n), l \in Flat(Sizes(2), n)} : n \in 1..2}
    \cup {Call(3, g, l) : g \in {<<2, 2, 2, 1>>, <<2, 1, 4, 1>>, <<1, 2, 3, 1>>},
                          l \in {<<2, 1, 1, 1>>, <<1, 2, 2, 1>>, <<2, 2, 2, 1>>, <<1, 1, 3, 1>>}}

Nulls ==
    {[Call(n, g, g) EXCEPT !.nulls = {"off", "local"}] : n \in 1..2, g \in Flat(Sizes(4), 2)}

\* What may be wrong with a call.
Faults ==
    LET good == Call(2, <<2, 2, 1, 1>>, <<2, 1, 1, 1>>)
    IN  {[good EXCEPT !.kernel = k] : k \in {"unbuilt", "foreign"}}
        \cup {[good EXCEPT !.dims = n, !.nulls = u] : n \in {0, 4}, u \in {{"off"}, {"off", "local"}}}
        \cup {[good EXCEPT !.nulls = u] : u \in {{"queue"}, {"global", "off", "local"}, {}}}
        \cup {[good EXCEPT !.global = <<0, 2, 1, 1>>, !.nulls = {"off", "local"}],
              [good EXCEPT !.off = <<8, 8, 0, 0>>, !.nulls = {}],
              [good EXCEPT !.wl = [n |-> 1, given |-> FALSE, evs |-> <<>>]],
              [good EXCEPT !.wl = [n |-> 1, given |-> TRUE, evs |-> <<"foreign">>]]}
        \cup {[good EXCEPT !.required = r, !.nulls = u] :
                  r \in {<<2, 1, 1>>, <<1, 1, 1>>}, u \in {{"off"}, {"off", "local"}}}

\* Without the spaces that are cut into more than four work-groups.
LaunchCalls ==
    {c \in Shapes : Product(c.global) <= 4 * Product(c.local)}
    \cup {c \in Nulls : Product(c.global) <= 6} \cup Faults

Some == {Call(1, <<4, 1, 1, 1>>, <<2, 1, 1, 1>>), Call(2, <<2, 2, 1, 1>>, <<1, 2, 1, 1>>)}
              \cup Faults

---------------------------------------------------------------------------
(* A handle has size 8, a value size 4; local buffers are given by their   *)
(* size.                                                                   *)

Null == "null"

MixedParams == <<"buffer", "local", "value", "local">>
SizeOfKind == [kind \in {"buffer", "image", "sampler", "value"} |->
               IF kind = "value" THEN 4 ELSE 8]

Give(size, value) == [size |-> size, value |-> value, foreign |-> FALSE]
MixedGiven == {Give(8, "a"), Give(8, "b"), Give(8, Null), Give(4, "b"), Give(0, Null),
               [size |-> 8, value |-> "c", foreign |-> TRUE]}

FewParams == <<"image", "sampler">>
FewGiven == {Give(8, "a"), Give(8, "b"), Give(4, "a"),
             [size |-> 8, value |-> "c", foreign |-> TRUE]}
---------------------------------------------------------------------------
(* Modules of two kernels.  In Plain kernel a has three local variables,   *)
(* and both reach the helper h and its table; in the others a kernel calls *)
(* the other, has the other inlined, declares a constant, or uses a table  *)
(* whose initial value refers to another.                                  *)

Variable(owner, local, size, align, abi) ==
    [owner |-> owner, internal |-> TRUE, local |-> local, size |-> size,
     align |-> align, abi |-> abi]

IntOf(n) == [kind |-> "int", bits |-> n]
Pointer == [kind |-> "pointer"]
Array(n, t) == [kind |-> "array", n |-> n, of |-> t]
Alloca(n, t) == [n |-> n, type |-> t]

Plain ==
    [fns |-> {"a", "b", "g", "h", "barrier"}, kernels |-> {"a", "b"},
     params |-> [a |-> <<"pointer", "value", "pointer">>, b |-> <<"value">>],
     calls |-> {<<"a", "h">>, <<"a", "barrier">>, <<"b", "g">>, <<"g", "h">>, <<"h", "h">>},
     uses |-> {<<"a", "a.x">>, <<"a", "a.y">>, <<"a", "a.z">>, <<"h", "table">>},
     refs |-> {},
     globals |-> [v \in {"a.x", "a.y", "a.z", "table", "other"} |->
         CASE v = "a.x" -> Variable("a", TRUE, 8, 8, 8)
           [] v = "a.y" -> Variable("a", TRUE, 3, 1, 1)
           [] v = "a.z" -> Variable("a", TRUE, 12, 16, 4)
           [] OTHER     -> Variable("", FALSE, 4, 4, 4)],
     allocas |-> [a |-> <<Alloca(1, [kind |-> "struct", of |-> <<IntOf(8), Pointer, IntOf(16)>>]),
                          Alloca(0, IntOf(32)), Alloca(2, Array(3, IntOf(20)))>>,
                  b |-> <<Alloca(1, [kind |-> "vector", n |-> 4, of |-> [kind |-> "float", bits |-> 16]])>>]]

Quiet == [Plain EXCEPT !.uses = {<<"h", "table">>}, !.allocas = [a |-> <<>>, b |-> <<Alloca(3, Pointer)>>]]
Nested == [Plain EXCEPT !.calls = @ \cup {<<"b", "a">>}]
Inlined == [Plain EXCEPT !.uses = @ \cup {<<"b", "a.x">>}]
OwnConstant == [Plain EXCEPT !.globals["a.y"].local = FALSE]
Reference == [Plain EXCEPT !.refs = {<<"table", "other">>}]

KernelModules == {Plain, Quiet, Nested, Inlined, OwnConstant, Reference}
=============================================================================
