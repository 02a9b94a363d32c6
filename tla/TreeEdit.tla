------------------------------- MODULE TreeEdit -------------------------------
(***************************************************************************)
(* Edition of a CGNS tree (maia.pytree.node access.py, create.py and       *)
(* check.py, walk/remove_nodes.py), and a walker that is kept and          *)
(* reconfigured between its calls (walk/nodes_walker.py and                *)
(* nodes_walkers.py).                                                      *)
(*                                                                         *)
(* An edit answers the tree it leaves and whether it returned; it raises   *)
(* otherwise.  A walker is used while the tree stays as it is: the cache   *)
(* of a walker does not follow the edits, and its callers do not expect    *)
(* it to.                                                                  *)
(***************************************************************************)
EXTENDS NodeWalk, FiniteSets

CONSTANTS
  Name, Label,             \* the valid ones, and
  BadName, BadLabel,       \* others
  MaxNodes,                \* of a tree
  WalkTrees                \* the trees of the kept walker

VARIABLES
  tree,
  raised,    \* whether the last edit raised
  walker     \* << >>, or the walker

vars == <<tree, raised, walker>>

DefaultLabel == "UserDefined_t"

Size(t) == Cardinality(Positions(t))
Leaf(name, label) == Node(name, label, << >>, << >>)

-----------------------------------------------------------------------------
(***************************************************************************)
(* access.py, create.py                                                    *)
(***************************************************************************)

is_valid_name(name) == name \in Name
is_valid_label(label) == label \in Label

set_name(t, p, name) ==
  IF is_valid_name(name) THEN Edit(Put(t, p, [At(t, p) EXCEPT !.name = name]), TRUE) ELSE Edit(t, FALSE)

set_label(t, p, label) ==
  IF is_valid_label(label) THEN Edit(Put(t, p, [At(t, p) EXCEPT !.label = label]), TRUE) ELSE Edit(t, FALSE)

\* It raises if the child, here its position, is not there.
rm_child(t, p, i) ==
  IF i \in DOMAIN At(t, p).kids THEN Edit(Put(t, p, [At(t, p) EXCEPT !.kids = RemoveAt(@, i)]), TRUE)
  ELSE Edit(t, FALSE)

\* Mutant: the children that were added before the failure stay.
set_children_Partial(t, p, children) ==
  LET n == At(t, p)
      after == FoldLeft(LAMBDA r, c : IF r.ok THEN add_child(r.tree, c) ELSE r,
                        Edit([n EXCEPT !.kids = << >>], TRUE), children)
  IN  Edit(Put(t, p, after.tree), after.ok)

\* The former children are put back if one of the new ones cannot be added.
set_children(t, p, children) ==
  LET n == At(t, p)
      after == FoldLeft(LAMBDA r, c : IF r.ok THEN add_child(r.tree, c) ELSE r,
                        Edit([n EXCEPT !.kids = << >>], TRUE), children)
  IN  IF after.ok THEN Edit(Put(t, p, after.tree), TRUE) ELSE Edit(t, FALSE)

\* The node is complete when it is attached.
new_child(t, p, name, label, children) ==
  LET named == set_name(Leaf("Node", DefaultLabel), << >>, name)
      labelled == set_label(named.tree, << >>, label)
      node == set_children(labelled.tree, << >>, children)
      attached == add_child(At(t, p), node.tree)
  IN  IF named.ok /\ labelled.ok /\ node.ok /\ attached.ok THEN Edit(Put(t, p, attached.tree), TRUE)
      ELSE Edit(t, FALSE)

\* What update_node does with the label and the children it is given, << >> being UNSET.
update_node(t, p, label, children) ==
  LET labelled == IF label = << >> THEN Edit(t, TRUE) ELSE set_label(t, p, label[1])
  IN  IF ~labelled.ok \/ children = << >> THEN labelled
      ELSE set_children(labelled.tree, p, children[1])

\* A child that is not there is created, and stays if it cannot be updated.
update_child(t, p, name, label, children) ==
  LET there == get_child_from_name(t, p, name)
      created == new_child(t, p, name, DefaultLabel, << >>)
      last == Append(p, Len(At(t, p).kids) + 1)
  IN  IF there # << >> THEN update_node(t, there[1], label, children)
      ELSE IF ~created.ok THEN created
      ELSE update_node(created.tree, last, label, children)

rm_children(t, p, q) == Edit(Put(t, p, rm_children_from_predicate(At(t, p), q)), TRUE)
keep_children(t, p, q) == Edit(Put(t, p, keep_children_from_predicate(At(t, p), q)), TRUE)
rm_nodes(t, p, q, depth) == Edit(Put(t, p, rm_nodes_from_predicate(At(t, p), q, depth)), TRUE)

Named(name) == [by |-> "name", of |-> {name}]

\* All the nodes of this name below the parent are removed, and it raises if there is none.
rm_node_from_path(t, p, path) ==
  IF Len(path) = 1 THEN rm_children(t, p, Named(path[1]))
  ELSE LET parent == get_node_from_path(t, p, Front(path))
       IN  IF parent = << >> THEN Edit(t, FALSE) ELSE rm_nodes(t, parent[1], Named(Last(path)), 0)

-----------------------------------------------------------------------------
(***************************************************************************)
(* The kept walker.  many: it is a NodesWalkers, for a chain of predicates *)
(***************************************************************************)

NoWalker == << >>
Query == {[by |-> "name", of |-> {n}] : n \in Name} \cup {[by |-> "label", of |-> {l}] : l \in Label}
Depth == {[min |-> 0, max |-> << >>], [min |-> 1, max |-> <<1>>], [min |-> 0, max |-> <<1>>]}
Setting == [search : {"dfs", "bfs"}, explore : {"deep", "shallow"}, depth : Depth, sort : {"forward", "backward"}]

W == walker[1]
Clean(w) == [w EXCEPT !.cache = << >>]

\* What a call computes.
Walk(t, w) ==
  IF ~w.many THEN NodesOf(t, w.root, w.predicates[1], w.set)
  ELSE LET for_each == [i \in DOMAIN w.predicates |-> w.set]
       IN  IF w.ancestors THEN iter_nodes_from_predicates_with_parents(t, w.root, w.predicates, for_each)
           ELSE iter_nodes_from_predicates(t, w.root, w.predicates, for_each)

\* An empty cache is computed again.
Call(t, w) == IF w.caching /\ w.cache # << >> THEN w.cache ELSE Walk(t, w)

NewWalker == \E many, caching \in BOOLEAN, q \in Query :
  /\ walker = NoWalker
  /\ tree \in WalkTrees
  /\ walker' = <<[many |-> many, root |-> << >>, predicates |-> IF many THEN <<q, q>> ELSE <<q>>,
                  set |-> Default, ancestors |-> FALSE, caching |-> caching, cache |-> << >>]>>
  /\ UNCHANGED <<tree, raised>>

\* Mutant: the cache is kept when the root changes.
SetRoot_Kept == \E p \in Positions(tree) :
  /\ walker # NoWalker
  /\ walker' = <<[W EXCEPT !.root = p]>>
  /\ UNCHANGED <<tree, raised>>

SetRoot == \E p \in Positions(tree) :
  /\ walker # NoWalker
  /\ walker' = <<Clean([W EXCEPT !.root = p])>>
  /\ UNCHANGED <<tree, raised>>

SetPredicate == \E q \in Query :
  /\ walker # NoWalker
  /\ walker' = <<Clean([W EXCEPT !.predicates[1] = q])>>
  /\ UNCHANGED <<tree, raised>>

\* search, explore, depth or sort
SetSetting == \E s \in Setting :
  /\ walker # NoWalker
  /\ ~W.many
  /\ Cardinality({k \in DOMAIN s : s[k] # W.set[k]}) = 1
  /\ walker' = <<Clean([W EXCEPT !.set = s])>>
  /\ UNCHANGED <<tree, raised>>

SetAncestors ==
  /\ walker # NoWalker
  /\ W.many
  /\ walker' = <<Clean([W EXCEPT !.ancestors = ~@])>>
  /\ UNCHANGED <<tree, raised>>

\* The walker of one predicate keeps its cache.
SetCaching ==
  /\ walker # NoWalker
  /\ LET w == [W EXCEPT !.caching = ~@] IN walker' = <<IF w.many THEN Clean(w) ELSE w>>
  /\ UNCHANGED <<tree, raised>>

CallWalker ==
  /\ walker # NoWalker
  /\ walker' = <<IF W.caching THEN [W EXCEPT !.cache = Call(tree, W)] ELSE W>>
  /\ UNCHANGED <<tree, raised>>

-----------------------------------------------------------------------------
(***************************************************************************)
(* Edits                                                                   *)
(***************************************************************************)

Leaves == {<< >>} \cup {<<Leaf(m, l)>> : m \in Name, l \in Label}
                 \cup {<<Leaf(m, l), Leaf(n, l)>> : m, n \in Name, l \in Label}
Optional(S) == {<< >>} \cup {<<x>> : x \in S}
AnyName == Name \cup BadName
AnyLabel == Label \cup BadLabel
Path == {<<m>> : m \in Name} \cup (Name \X Name)

\* Each edit of the tree by its caller.  A caller of set_name makes sure that no sibling has
\* the name, which the code leaves to it.
Edits(t) == UNION {
  {new_child(t, p, n, l, << >>) : n \in AnyName, l \in AnyLabel}
   \cup {update_child(t, p, n, l, c) : n \in AnyName, l \in Optional(AnyLabel), c \in Optional(Leaves)}
   \cup {set_label(t, p, l) : l \in AnyLabel}
   \cup {set_children(t, p, c) : c \in Leaves}
   \cup {rm_child(t, p, i) : i \in 1 .. Len(At(t, p).kids) + 1}
   \cup {rm_children(t, p, q) : q \in Query}
   \cup {keep_children(t, p, q) : q \in Query}
   \cup {rm_nodes(t, p, q, d) : q \in Query, d \in 0 .. 2}
   \cup {rm_node_from_path(t, p, path) : path \in Path}
   \cup {set_name(t, p, n) : n \in {m \in AnyName : p = << >> \/
           m \notin {At(t, Front(p)).kids[i].name : i \in DOMAIN At(t, Front(p)).kids}}}
  : p \in Positions(t)}

EditTree == \E r \in Edits(tree) :
  /\ walker = NoWalker
  /\ Size(tree) <= MaxNodes
  /\ Size(r.tree) <= MaxNodes
  /\ tree' = r.tree
  /\ raised' = ~r.ok
  /\ UNCHANGED walker

\* The walker is dropped.
DropWalker ==
  /\ walker # NoWalker
  /\ walker' = NoWalker
  /\ UNCHANGED <<tree, raised>>

Init ==
  /\ tree \in {Leaf(n, l) : n \in Name, l \in Label} \cup WalkTrees
  /\ raised = FALSE
  /\ walker = NoWalker

Next == \/ EditTree
        \/ NewWalker \/ SetRoot \/ SetPredicate \/ SetSetting \/ SetAncestors \/ SetCaching
        \/ CallWalker \/ DropWalker

Spec == Init /\ [][Next]_vars

-----------------------------------------------------------------------------
(***************************************************************************)
(* Properties                                                              *)
(***************************************************************************)

\* The positions from p on, those of t in the order of a walk through all of it.
Below(t, p) == {r \in Positions(t) : IsPrefix(p, r)}
Before(r, s, sort) ==
  \/ IsStrictPrefix(r, s)
  \/ \E k \in DOMAIN r \cap DOMAIN s :
       /\ SubSeq(r, 1, k - 1) = SubSeq(s, 1, k - 1)
       /\ IF sort = "backward" THEN r[k] > s[k] ELSE r[k] < s[k]
Order(S, r, s) == IF S.search = "dfs" THEN Before(r, s, S.sort)
                  ELSE Len(r) < Len(s) \/ (Len(r) = Len(s) /\ Before(r, s, S.sort))

\* The nodes that match in the range of depths.
Hits(t, p, q, S) ==
  LET level(r) == Len(r) - Len(p)
  IN  {r \in Below(t, p) : /\ level(r) >= S.depth.min
                           /\ S.depth.max # << >> => level(r) <= S.depth.max[1]
                           /\ match(At(t, r), q)}

\* The nodes a walk is for: the hits and, for a shallow walk, those with no hit above them.
Wanted(t, p, q, S) ==
  LET hits == Hits(t, p, q, S)
  IN  IF S.explore = "deep" THEN hits ELSE {r \in hits : ~\E s \in hits : IsStrictPrefix(s, r)}

\* A shallow depth-first walk from a root that is a hit itself goes on below it, where the
\* documentation says that the children of a node that matches are not tested.
GoesOnBelow(t, p, q, S) == S.search = "dfs" /\ S.explore = "shallow" /\ p \in Hits(t, p, q, S)

Depths == [min : 0 .. 2, max : {<< >>, <<0>>, <<1>>, <<2>>}]
AllSettings == [search : {"dfs", "bfs"}, explore : {"deep", "shallow"}, depth : Depths,
                sort : {"forward", "backward"}]

\* Every search, recursive or with a queue, with any range of depths and either order of the
\* children, gives each of the nodes wanted once and in its order, and the search for one node
\* gives the first of the deep one.  It says nothing of the nodes below a root that is a hit
\* itself in a shallow depth-first walk.
WalksExact == walker = NoWalker /\ ~raised => \A S \in AllSettings : \A q \in Query :
  LET found == NodesOf(tree, << >>, q, S)
      first == NodeWalker(tree, << >>, q, S)
  IN  /\ GoesOnBelow(tree, << >>, q, S) \/ ToSet(found) = Wanted(tree, << >>, q, S)
      /\ \A i, j \in DOMAIN found : i < j => Order(S, found[i], found[j])
      /\ S.explore = "deep" => first = SubSeq(found, 1, IF found = << >> THEN 0 ELSE 1)

\* A walker answers what a new one with its settings would, whichever of them were changed
\* between its calls and whenever the cache was turned on or off.
CacheFresh == walker # NoWalker => Call(tree, W) = Walk(tree, W)

NamesTo(t, p) == [k \in DOMAIN p |-> At(t, SubSeq(p, 1, k)).name]

\* No two siblings ever get the same name, so that a path leads to one node: the path of each
\* node leads back to it, a search for paths gives those of the nodes it is for, and a tree made
\* of the paths has them for its leaves.
PathsLead == walker = NoWalker /\ ~raised =>
  /\ \A p \in Positions(tree) : get_node_from_path(tree, << >>, NamesTo(tree, p)) = <<p>>
  /\ \A q, r \in Query :
       LET paths == predicates_to_paths(tree, << >>, <<q, r>>)
           made == paths_to_tree(paths, "Root")
       IN  /\ IsInjective(paths)
           /\ ToSet(paths) = {NamesTo(tree, p) : p \in {s \in Positions(tree) :
                 Len(s) = 2 /\ match(At(tree, Front(s)), q) /\ match(At(tree, s), r)}}
           /\ {NamesTo(made, p) : p \in {s \in Positions(made) : At(made, s).kids = << >>}}
                = IF paths = << >> THEN {<< >>} ELSE ToSet(paths)
           /\ \A p \in Positions(made) : At(made, p).value = << >>

\* The paths of a tree, in the order of a walk through it.
AllPaths(t) ==
  LET order == SetToSortSeq(Positions(t), LAMBDA r, s : Before(r, s, "forward"))
  IN  [i \in DOMAIN order |-> <<NamesTo(t, order[i]), At(t, order[i]).label>>]
Survives(t, p, q, depth) ==
  LET Gone(r) == \E s \in Below(t, p) : /\ s # p /\ IsPrefix(s, r)
                                        /\ depth > 0 => Len(s) - Len(p) <= depth
                                        /\ match(At(t, s), q)
      kept == SetToSortSeq({r \in Positions(t) : ~Gone(r)}, LAMBDA r, s : Before(r, s, "forward"))
  IN  [i \in DOMAIN kept |-> <<NamesTo(t, kept[i]), At(t, kept[i]).label>>]

\* A removal takes the nodes that match in its range of depths and what is below them, and
\* leaves all others in their order; a removal by path takes the node and nothing outside of
\* its parent.
RemovalsExact == walker = NoWalker /\ ~raised =>
  /\ \A p \in Positions(tree) : \A q \in Query :
       /\ \A d \in 0 .. 2 : AllPaths(rm_nodes(tree, p, q, d).tree) = Survives(tree, p, q, d)
       /\ rm_children(tree, p, q).tree = rm_nodes(tree, p, q, 1).tree
  /\ \A p \in Positions(tree) \ {<< >>} :
       LET r == rm_node_from_path(tree, << >>, NamesTo(tree, p))
           Outside(t) == SelectSeq(AllPaths(t), LAMBDA x : ~IsStrictPrefix(NamesTo(tree, Front(p)), x[1]))
       IN  /\ r.ok
           /\ get_node_from_path(r.tree, << >>, NamesTo(tree, p)) = << >>
           /\ Outside(r.tree) = Outside(tree)

\* The children of the nodes, by path.
KidsOf(t) == {<<NamesTo(t, p), [i \in DOMAIN At(t, p).kids |-> At(t, p).kids[i].name]>> : p \in Positions(t)}

\* An edit that raises leaves the children of every node as they were: it never replaces some of
\* them.  Only update_child, which creates the child first, may leave it there with no children.
FailuresKeepChildren == [][raised' =>
  \/ KidsOf(tree') = KidsOf(tree)
  \/ \E p \in Positions(tree), n \in Name :
       tree' = new_child(tree, p, n, DefaultLabel, << >>).tree
       \/ \E l \in Label : tree' = new_child(tree, p, n, l, << >>).tree]_vars

\* After any sequence of edits, a path leads to the one node it names, and a removal takes what
\* it is told to take and nothing else.
EditsExact == PathsLead /\ RemovalsExact
=============================================================================
