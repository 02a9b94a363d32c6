---------------------------- MODULE MCTreeCompare ----------------------------
(* Acyclic graphs of four nodes, with one and two roots, and pairs of small trees. *)
EXTENDS TreeCompare

CONSTANTS NodeCount

\* Sequences without repetition over S.
Orders(S) == UNION {{s \in [1 .. n -> S] : IsInjective(s)} : n \in 0 .. Cardinality(S)}

\* A node points to smaller ones; the last node of the chain has few.
Forwards == {f \in [1 .. NodeCount -> Orders(1 .. NodeCount - 1)] :
               \A n \in 1 .. NodeCount : \A m \in ToSet(f[n]) : m < n}
DagsOf == {[roots |-> r, forward |-> f] :
             r \in { <<NodeCount>>, <<NodeCount - 1, NodeCount>>, <<1, 1>>, << >> }, f \in Forwards}

N(stem, suffix, label, type, v, kids) ==
  [name |-> <<stem, suffix>>, label |-> label, type |-> type, v |-> v, kids |-> kids]
Root(kids) == N(1, 0, "L", "None", 0, kids)
Array(stem, suffix, v) == N(stem, suffix, "DataArray_t", "R8", v, << >>)

Roots == {<<N(stem, 0, label, tv[1], tv[2], << >>)>> :
            stem \in 1 .. 2, label \in {"L", "DataArray_t"},
            tv \in {<<"None", 0>>, <<"I4", 4>>, <<"I8", 4>>, <<"R8", 4>>, <<"R8", 5>>, <<"R8", 7>>, <<"R8", 0>>}}
OneKid == {<<Root(<<2>>), Array(stem, 0, v)>> : stem \in 1 .. 3, v \in {4, 5}}
TwoKids == {<<Root(kids), Array(1, 0, v), N(2, 0, label, "I4", 1, << >>)>> :
              kids \in {<<2, 3>>, <<3, 2>>}, v \in {4, 9}, label \in {"L", "M"}}
Chains == {<<Root(<<2>>), N(1, 0, label, "None", 0, <<3>>), Array(stem, 0, 4)>> :
             stem \in 1 .. 2, label \in {"L", "M"}}
Vectors == {<<Root(kids), Array(1, 1, v[1]), Array(1, 2, v[2]), Array(1, 3, v[3])>> :
              kids \in {<<2, 3, 4>>, <<4, 2, 3>>}, v \in {<<1, 2, 3>>, <<2, 2, 2>>, <<1, 4, 3>>, <<1, 2, 9>>, <<0, 0, 0>>}}

PairsOf == (Roots \X Roots) \cup ((OneKid \cup TwoKids \cup Chains) \X (OneKid \cup TwoKids \cup Chains))
             \cup (Vectors \X Vectors)
=============================================================================
