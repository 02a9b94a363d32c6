------------------------------ MODULE MCTreeEdit ------------------------------
(* Trees of up to four nodes, and five for the walker that is kept. *)
EXTENDS TreeEdit

L(name, kids) == Node(name, "L_t", << >>, kids)
U(name, kids) == Node(name, DefaultLabel, << >>, kids)

WalkTreesOf == {L("a", <<L("a", <<L("b", << >>)>>), U("b", <<L("a", << >>)>>)>>),
                U("a", <<L("a", <<U("a", <<L("a", << >>)>>)>>), L("b", << >>)>>)}
=============================================================================
