--------------------------- MODULE MCLoadBalancing ---------------------------
(* Sizes of zones for TLC: the order of the zones only matters to nosplit.   *)
EXTENDS LoadBalancing

Increasing(n, m) == {s \in [1 .. n -> 1 .. m] : \A z \in 1 .. n - 1 : s[z] <= s[z + 1]}
Cells(S) == {[n_cell |-> s, n_vtx |-> s] : s \in S}

MCTrees ==
  Cells(UNION {Increasing(1, 30), Increasing(2, 24), Increasing(3, 14), Increasing(4, 9)}
          \cup Increasing(5, 4))
    \cup {[n_cell |-> <<0, 0>>, n_vtx |-> <<4, 7>>], [n_cell |-> <<5, 0>>, n_vtx |-> <<12, 9>>]}
=============================================================================
