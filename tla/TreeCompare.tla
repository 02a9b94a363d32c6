----------------------------- MODULE TreeCompare -----------------------------
(***************************************************************************)
(* The comparison of two trees (maia.pytree.compare, compare_arrays and    *)
(* graph/cgns.py): a depth-first traversal of the two at once.             *)
(*                                                                         *)
(* A tree is a sequence of nodes, the root first; kids are the positions   *)
(* of the children of a node.  A node of the traversal is a pair of        *)
(* positions, 0 for None.  A name is <<stem, suffix>>: the suffixes 1, 2   *)
(* and 3 are the X, Y and Z of a vector.  A value is an array of one       *)
(* integer v of the type I4, I8 or R8 (or None).                           *)
(***************************************************************************)
EXTENDS GraphTraversal, FiniteSets

CONSTANTS
  Dags,      \* graphs [roots, forward]
  Pairs      \* pairs of trees to compare

\* The children of a node are nodes, and no two of them have the same name.
IsTree(t) ==
  /\ Len(t) \in Nat \ {0} /\ DOMAIN t = 1 .. Len(t)
  /\ \A i \in 1 .. Len(t) :
       /\ t[i].name \in Int \X Int
       /\ t[i].kids \in Seq(1 .. Len(t))
       /\ IsInjective(t[i].kids)
       /\ \A a, b \in ToSet(t[i].kids) : t[a].name = t[b].name => a = b

ASSUME DagsAssumption == \A g \in Dags : IsGraph(g)
ASSUME PairsAssumption == \A p \in Pairs : IsTree(p[1]) /\ IsTree(p[2])

VARIABLES
  trees,
  is_ok,     \* is_same of same_tree_visitor, is_ok of diff_tree_visitor
  err,       \* err_report: the paths reported, with what is reported
  warn

vars == <<graph, visitor, trees, is_ok, err, warn, traversal>>

T(k, i) == trees[k][i]
Kind(type) == IF type \in {"I4", "I8"} THEN "I" ELSE type

-----------------------------------------------------------------------------
(***************************************************************************)
(* cgns.py: pytree_zip_adaptor                                             *)
(***************************************************************************)

less_by_name(m, n) == m.name[1] < n.name[1] \/ (m.name[1] = n.name[1] /\ m.name[2] < n.name[2])

_get_sorted_children(t, i) ==
  IF i = 0 THEN << >>
  ELSE CHOOSE s \in [DOMAIN t[i].kids -> ToSet(t[i].kids)] :
         \A k, l \in DOMAIN s : k < l => less_by_name(t[s[k]], t[s[l]])

\* The entries of the sorted sequences x (positions in t) and y (positions in u) that both
\* have, in pairs, and the others.
set_intersection_difference(x, y, t, u) ==
  LET merge[at \in (1 .. Len(x) + 1) \X (1 .. Len(y) + 1)] ==
        LET i == at[1]
            j == at[2]
        IN  IF i > Len(x) \/ j > Len(y)
            THEN [inter |-> << >>, diff_x |-> SubSeq(x, i, Len(x)), diff_y |-> SubSeq(y, j, Len(y))]
            ELSE IF less_by_name(t[x[i]], u[y[j]])
            THEN [merge[<<i + 1, j>>] EXCEPT !.diff_x = <<x[i]>> \o @]
            ELSE IF less_by_name(u[y[j]], t[x[i]])
            THEN [merge[<<i, j + 1>>] EXCEPT !.diff_y = <<y[j]>> \o @]
            ELSE [merge[<<i + 1, j + 1>>] EXCEPT !.inter = << <<x[i], y[j]>> >> \o @]
  IN  merge[<<1, 1>>]

\* What is left on the two sides is paired in its order.
_zip_lists(x, y, t, u) ==
  LET r == set_intersection_difference(x, y, t, u)
      sz == IF Len(r.diff_x) < Len(r.diff_y) THEN Len(r.diff_y) ELSE Len(r.diff_x)
      value_or_none(s, i) == IF i \in DOMAIN s THEN s[i] ELSE 0
  IN  r.inter \o [i \in 1 .. sz |-> <<value_or_none(r.diff_x, i), value_or_none(r.diff_y, i)>>]

ZipGraph(t, u) ==
  [roots |-> << <<1, 1>> >>,
   forward |-> [ij \in (0 .. Len(t)) \X (0 .. Len(u)) |->
                  _zip_lists(_get_sorted_children(t, ij[1]), _get_sorted_children(u, ij[2]), t, u)]]

-----------------------------------------------------------------------------
(***************************************************************************)
(* compare_arrays.py: [ok, err, warn] of two arrays.  The tolerance of the *)
(* relative comparisons is one half.                                       *)
(***************************************************************************)

Report(ok, e, w) == [ok |-> ok, err |-> e, warn |-> w]

\* The report is the one of rank 0: the other ranks have the same ok and no text.
equal_array_report(x, ref) == Report(x = ref, x # ref, FALSE)

SquareNorm(x) == LET s[i \in 0 .. Len(x)] == IF i = 0 THEN 0 ELSE x[i] * x[i] + s[i - 1] IN s[Len(x)]

\* A null reference wants the equality.
relative_norm_comparison(x, ref) ==
  LET diff == SquareNorm([i \in DOMAIN x |-> x[i] - ref[i]])
      within_tol == x = ref \/ (SquareNorm(ref) > 0 /\ 4 * diff <= SquareNorm(ref))
  IN  Report(within_tol, ~within_tol, within_tol /\ x # ref)

\* The components of the vector of this stem below the nodes p of the tree t.
Components(t, p, stem) ==
  [s \in 1 .. 3 |-> t[CHOOSE i \in ToSet(t[p].kids) : t[i].name = <<stem, s>>].v]

field_comparison(m, n) ==
  IF m.type = "R8" THEN relative_norm_comparison(<<m.v>>, <<n.v>>) ELSE equal_array_report(m.v, n.v)

\* The components of a vector are compared together, when the first one is met.  The nine components
\* of a tensor, which the code treats in the same way, are left out.
tensor_field_comparison(nodes_stack) ==
  LET ij == Last(nodes_stack)
      m == T(1, ij[1])
      n == T(2, ij[2])
      parent == Last(Front(nodes_stack))
  IN  IF m.label # "DataArray_t" \/ m.type # "R8" THEN equal_array_report(m.v, n.v)
      ELSE IF m.name[2] = 1
      THEN relative_norm_comparison(Components(trees[1], parent[1], m.name[1]),
                                    Components(trees[2], parent[2], m.name[1]))
      ELSE IF m.name[2] \in {2, 3} THEN Report(TRUE, FALSE, FALSE)
      ELSE relative_norm_comparison(<<m.v>>, <<n.v>>)

modify_name(comp, name) == IF comp = "tensor" THEN <<name[1], 0>> ELSE name

-----------------------------------------------------------------------------
(***************************************************************************)
(* compare.py                                                              *)
(***************************************************************************)

is_same_value_type(m, n, strict) ==
  IF strict THEN m.type = n.type ELSE Kind(m.type) = Kind(n.type)

\* A value is one number, so the two have the same shape.
is_same_value(m, n, abs_tol, type_tol) ==
  /\ is_same_value_type(m, n, ~type_tol)
  /\ \/ m.type = "None"
     \/ m.type = "R8" /\ m.v - n.v \in -abs_tol .. abs_tol
     \/ m.v = n.v

is_same_node(m, n, abs_tol, type_tol) ==
  m.name = n.name /\ m.label = n.label /\ is_same_value(m, n, abs_tol, type_tol)

value_comparison_report(nodes_stack, comp) ==
  LET m == T(1, Last(nodes_stack)[1])
      n == T(2, Last(nodes_stack)[2])
  IN  IF m.type = "None" THEN Report(TRUE, FALSE, FALSE)
      ELSE IF comp = "equal" THEN equal_array_report(m.v, n.v)
      ELSE IF comp = "field" THEN field_comparison(m, n)
      ELSE tensor_field_comparison(nodes_stack)

\* The names of the ancestors, the same in both trees.
_zip_path(nodes_stack) == [k \in DOMAIN nodes_stack |-> T(1, nodes_stack[k][1]).name]

diff_nodes(nodes_stack, strict, comp) ==
  LET i == Last(nodes_stack)[1]
      j == Last(nodes_stack)[2]
      At(name) == Append(_zip_path(Front(nodes_stack)), name)
      Differ(next, e) == [next |-> next, ok |-> FALSE, err |-> e, warn |-> << >>]
      OnlyFirst == <<"<", At(T(1, i).name)>>
      OnlySecond == <<">", At(T(2, j).name)>>
      values == value_comparison_report(nodes_stack, comp)
      There == At(modify_name(comp, T(1, i).name))
      If(b, e) == IF b THEN <<e>> ELSE << >>
  IN  IF i = 0 THEN Differ("over", <<OnlySecond>>)
      ELSE IF j = 0 THEN Differ("over", <<OnlyFirst>>)
      ELSE IF T(1, i).name # T(2, j).name THEN Differ("over", <<OnlyFirst, OnlySecond>>)
      ELSE IF T(1, i).label # T(2, j).label
      THEN Differ("into", << <<"label", At(T(1, i).name)>> >>)
      ELSE IF ~is_same_value_type(T(1, i), T(2, j), strict)
      THEN Differ("into", << <<"type", At(T(1, i).name)>> >>)
      ELSE [next |-> "into", ok |-> values.ok, err |-> If(values.err, <<"value", There>>),
            warn |-> If(values.warn, There)]

\* pre of same_tree_visitor
SamePre ==
  LET ij == current_node(stack)
      same == /\ ij[1] # 0 /\ ij[2] # 0
              /\ is_same_node(T(1, ij[1]), T(2, ij[2]), visitor.abs_tol, visitor.type_tol)
  IN  /\ visitor.name = "same"
      /\ Pre(IF same THEN "into" ELSE "out")
      /\ is_ok' = (is_ok /\ same)
      /\ UNCHANGED <<graph, visitor, trees, err, warn>>

\* Mutant: only the last node counts.
DiffPre_Last ==
  /\ visitor.name = "diff"
  /\ phase = "search" /\ ~level_is_done(stack)
  /\ LET d == diff_nodes(nodes(stack), visitor.strict, visitor.comp)
     IN  /\ Pre(d.next)
         /\ is_ok' = d.ok
         /\ err' = err \o d.err
         /\ warn' = warn \o d.warn
  /\ UNCHANGED <<graph, visitor, trees>>

\* pre of diff_tree_visitor
DiffPre ==
  /\ visitor.name = "diff"
  /\ phase = "search" /\ ~level_is_done(stack)
  /\ LET d == diff_nodes(nodes(stack), visitor.strict, visitor.comp)
     IN  /\ Pre(d.next)
         /\ is_ok' = (is_ok /\ d.ok)
         /\ err' = err \o d.err
         /\ warn' = warn \o d.warn
  /\ UNCHANGED <<graph, visitor, trees>>

\* A visitor that answers anything.
AnyPre == \E answer \in Step :
  /\ visitor.name = "any"
  /\ Pre(answer)
  /\ UNCHANGED <<graph, visitor, trees, is_ok, err, warn>>

SameVisitors == {[name |-> "same", abs_tol |-> a, type_tol |-> t] : a \in 0 .. 1, t \in BOOLEAN}
DiffVisitors == {[name |-> "diff", strict |-> s, comp |-> c] :
                   s \in BOOLEAN, c \in {"equal", "field", "tensor"}}

Init ==
  /\ \/ /\ visitor = [name |-> "any"]
        /\ graph \in Dags
        /\ trees = << >>
     \/ /\ visitor \in SameVisitors \cup DiffVisitors
        /\ trees \in Pairs
        /\ graph = ZipGraph(trees[1], trees[2])
  /\ is_ok = TRUE
  /\ err = << >>
  /\ warn = << >>
  /\ InitTraversal

Returned == phase = "done" /\ UNCHANGED vars

Next ==
  \/ AnyPre
  \/ SamePre
  \/ DiffPre
  \/ (Post \/ Done \/ Unwind) /\ UNCHANGED <<graph, visitor, trees, is_ok, err, warn>>
  \/ Returned

Spec == Init /\ [][Next]_vars

-----------------------------------------------------------------------------
(***************************************************************************)
(* Properties                                                              *)
(***************************************************************************)

\* The nodes at these positions are the same, and so are their children, in any order.
Equivalent ==
  LET same[at \in (DOMAIN trees[1]) \X (DOMAIN trees[2])] ==
        LET m == T(1, at[1])
            n == T(2, at[2])
        IN  /\ is_same_node(m, n, visitor.abs_tol, visitor.type_tol)
            /\ {T(1, a).name : a \in ToSet(m.kids)} = {T(2, b).name : b \in ToSet(n.kids)}
            /\ \A a \in ToSet(m.kids) : \A b \in ToSet(n.kids) :
                 T(1, a).name = T(2, b).name => same[<<a, b>>]
  IN  same

\* is_same_tree, which walks through sorted children and stops at the first difference, says
\* the trees are the same exactly if they are equal up to the order of the children.
SameTreeExact == phase = "done" /\ visitor.name = "same" => is_ok = Equivalent[<<1, 1>>]

\* The paths of the nodes, each with the position of its node.
PathsOf(t) ==
  LET below[i \in DOMAIN t] ==
        {<< <<t[i].name>>, i>>}
          \cup {<< <<t[i].name>> \o p[1], p[2]>> : p \in UNION {below[a] : a \in ToSet(t[i].kids)}}
  IN  below[1]
Paths(t) == {p[1] : p \in PathsOf(t)}
NodeAt(t, path) == t[(CHOOSE p \in PathsOf(t) : p[1] = path)[2]]

\* The paths compared under the same name as path: the components of a vector, or path alone.
Group(path) ==
  IF visitor.comp = "tensor" /\ Last(path)[2] > 0
  THEN {Append(Front(path), <<Last(path)[1], s>>) : s \in 1 .. 3} ELSE {path}

\* How far the arrays of a group are from the reference, and what the comparison allows.
SumOver(group, k) ==
  LET Square(p) == LET d == NodeAt(trees[2], p).v - (IF k = 1 THEN NodeAt(trees[1], p).v ELSE 0)
                   IN  d * d
      sum[Q \in SUBSET group] ==
        IF Q = {} THEN 0 ELSE LET q == CHOOSE q \in Q : TRUE IN Square(q) + sum[Q \ {q}]
  IN  sum[group]
Relative(m) == \/ visitor.comp = "field" /\ m.type = "R8"
               \/ visitor.comp = "tensor" /\ m.type = "R8" /\ m.label = "DataArray_t"

\* The differences between the trees: paths of one tree only (of which just the highest is
\* given), and for the others their labels, their types or their values.
Differences ==
  LET one == Paths(trees[1])
      two == Paths(trees[2])
      Highest(S, U) == {p \in S \ U : Len(p) = 1 \/ Front(p) \in U}
      labels == {p \in one \cap two : NodeAt(trees[1], p).label # NodeAt(trees[2], p).label}
      types == {p \in (one \cap two) \ labels :
                  ~is_same_value_type(NodeAt(trees[1], p), NodeAt(trees[2], p), visitor.strict)}
      values == {p \in (one \cap two) \ (labels \cup types) :
                   /\ NodeAt(trees[1], p).type # "None"
                   /\ \E q \in Group(p) : NodeAt(trees[1], q).v # NodeAt(trees[2], q).v
                   /\ Relative(NodeAt(trees[1], p)) => 4 * SumOver(Group(p), 1) > SumOver(Group(p), 2)}
      Named(p) == Append(Front(p), modify_name(visitor.comp, Last(p)))
  IN  {<<"<", p>> : p \in Highest(one, two)} \cup {<<">", p>> : p \in Highest(two, one)}
        \cup {<<"label", p>> : p \in labels} \cup {<<"type", p>> : p \in types}
        \cup {<<"value", Named(p)>> : p \in values}

\* diff_tree reports each difference once, whatever the order of the children, how the ones
\* of only one side are paired, and which component of a vector is met first; and the trees
\* are said to be the same exactly if nothing is reported.
DiffExact == phase = "done" /\ visitor.name = "diff" =>
  /\ ToSet(err) = Differences
  /\ IsInjective(err)
  /\ is_ok = (err = << >>)

\* Both comparisons say of two trees exactly what differs.
ComparisonsExact == SameTreeExact /\ DiffExact
=============================================================================
