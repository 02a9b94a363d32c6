------------------------------- MODULE NodeWalk -------------------------------
(***************************************************************************)
(* Searches in a CGNS tree (maia.pytree.walk, path_utils.py).              *)
(*                                                                         *)
(* A node is [name, label, value, kids] and is designated by its position, *)
(* the sequence of the indices of children that lead to it from the root   *)
(* of the tree.  A pattern of names or of labels is the set it matches,    *)
(* and a path is a sequence of names.  The settings of a walk are          *)
(*   search  "dfs" or "bfs"                                                *)
(*   explore "deep" or "shallow"                                           *)
(*   depth   [min, max], max being << >> for None and <<n>> for n          *)
(*   sort    "forward" or "backward"                                       *)
(***************************************************************************)
EXTENDS Integers, Sequences, SequencesExt, TLC

Node(name, label, value, kids) == [name |-> name, label |-> label, value |-> value, kids |-> kids]

RECURSIVE At(_, _)
At(t, p) == IF p = << >> THEN t ELSE At(t.kids[Head(p)], Tail(p))

RECURSIVE Positions(_)
Positions(t) == {<< >>} \cup UNION {{<<i>> \o p : p \in Positions(t.kids[i])} : i \in DOMAIN t.kids}

\* What an edit leaves, and whether it returned.
Edit(t, ok) == [tree |-> t, ok |-> ok]

RECURSIVE Put(_, _, _)
Put(t, p, n) == IF p = << >> THEN n ELSE [t EXCEPT !.kids[Head(p)] = Put(@, Tail(p), n)]

add_child(n, child) ==
  IF child.name \in {n.kids[i].name : i \in DOMAIN n.kids} THEN Edit(n, FALSE)
  ELSE Edit([n EXCEPT !.kids = Append(@, child)], TRUE)

-----------------------------------------------------------------------------
(***************************************************************************)
(* predicate.py                                                            *)
(***************************************************************************)

match_name(n, names) == n.name \in names
match_label(n, labels) == n.label \in labels
match_value(n, value) == n.value = value

\* The callable made from a query.
match(n, q) ==
  CASE q.by = "name" -> match_name(n, q.of)
    [] q.by = "label" -> match_label(n, q.of)
    [] q.by = "value" -> match_value(n, q.of)
    [] q.by = "name_label" -> match_name(n, q.names) /\ match_label(n, q.labels)

-----------------------------------------------------------------------------
(***************************************************************************)
(* _node_parsers.py: the classes without a range of levels are those with  *)
(* one, for the range [0, None].                                           *)
(***************************************************************************)

Children(t, p, sort) ==
  LET n == Len(At(t, p).kids)
  IN  [i \in 1 .. n |-> Append(p, IF sort = "backward" THEN n + 1 - i ELSE i)]

\* Mutant: the level of the children of the root is not looked at.
cond2_Next(S, level) == S.depth.max = << >> \/ level <= S.depth.max[1]

cond1(S) == S.depth.max = << >> \/ S.depth.max[1] > 0
cond2(S, level) == S.depth.max = << >> \/ level < S.depth.max[1]

If(b, s) == IF b THEN s ELSE << >>

\* A node found is not entered by a shallow walk.
Stops(S, hit) == hit /\ S.explore = "shallow"

RECURSIVE _dfs(_, _, _, _, _)
_dfs(t, parent, q, S, level) ==
  LET kids == Children(t, parent, S.sort)
      Found(child) ==
        LET hit == level >= S.depth.min /\ match(At(t, child), q)
        IN  If(hit, <<child>>) \o If(~Stops(S, hit) /\ cond2(S, level), _dfs(t, child, q, S, level + 1))
  IN  FlattenSeq([i \in DOMAIN kids |-> Found(kids[i])])

\* The children of the root are walked through even if the root is found.
dfs(t, root, q, S) ==
  If(S.depth.min = 0 /\ match(At(t, root), q), <<root>>) \o If(cond1(S), _dfs(t, root, q, S, 1))

RECURSIVE BfsQueue(_, _, _, _)
BfsQueue(t, temp, q, S) ==
  IF temp = << >> THEN << >>
  ELSE LET level == Head(temp)[1]
           node == Head(temp)[2]
           hit == level >= S.depth.min /\ match(At(t, node), q)
           kids == Children(t, node, S.sort)
           put == If(~Stops(S, hit) /\ cond2(S, level), [i \in DOMAIN kids |-> <<level + 1, kids[i]>>])
       IN  If(hit, <<node>>) \o BfsQueue(t, Tail(temp) \o put, q, S)
bfs(t, root, q, S) == BfsQueue(t, << <<0, root>> >>, q, S)

\* NodesWalker without a cache
NodesOf(t, root, q, S) == IF S.search = "dfs" THEN dfs(t, root, q, S) ELSE bfs(t, root, q, S)

\* NodeParser and RangeLevelNodeParser stop at the first node found.
RECURSIVE FirstBelow(_, _, _, _, _)
FirstBelow(t, kids, q, S, level) ==
  IF kids = << >> THEN << >>
  ELSE LET child == Head(kids)
           below == If(cond2(S, level), FirstBelow(t, Children(t, child, S.sort), q, S, level + 1))
       IN  IF level >= S.depth.min /\ match(At(t, child), q) THEN <<child>>
           ELSE IF below # << >> THEN below
           ELSE FirstBelow(t, Tail(kids), q, S, level)

RECURSIVE FirstInQueue(_, _, _, _)
FirstInQueue(t, temp, q, S) ==
  IF temp = << >> THEN << >>
  ELSE LET level == Head(temp)[1]
           node == Head(temp)[2]
           kids == Children(t, node, S.sort)
           put == If(cond2(S, level), [i \in DOMAIN kids |-> <<level + 1, kids[i]>>])
       IN  IF level >= S.depth.min /\ match(At(t, node), q) THEN <<node>>
           ELSE FirstInQueue(t, Tail(temp) \o put, q, S)

\* The first node found, or none.
NodeWalker(t, root, q, S) ==
  IF S.search = "bfs" THEN FirstInQueue(t, << <<0, root>> >>, q, S)
  ELSE IF S.depth.min = 0 /\ match(At(t, root), q) THEN <<root>>
  ELSE If(cond1(S), FirstBelow(t, Children(t, root, S.sort), q, S, 1))

-----------------------------------------------------------------------------
(***************************************************************************)
(* node_walkers.py, nodes_walkers.py: a chain of predicates, each with its *)
(* settings.  The result has the ancestors; without them, their last.      *)
(***************************************************************************)

RECURSIVE iter_nodes_from_predicates_with_parents(_, _, _, _)
iter_nodes_from_predicates_with_parents(t, parent, qs, for_each) ==
  LET found == NodesOf(t, parent, Head(qs), Head(for_each))
      Under(node) ==
        LET sub == iter_nodes_from_predicates_with_parents(t, node, Tail(qs), Tail(for_each))
        IN  [i \in DOMAIN sub |-> <<node>> \o sub[i]]
  IN  IF Len(qs) = 1 THEN [i \in DOMAIN found |-> <<found[i]>>]
      ELSE FlattenSeq([i \in DOMAIN found |-> Under(found[i])])

iter_nodes_from_predicates(t, parent, qs, for_each) ==
  LET chains == iter_nodes_from_predicates_with_parents(t, parent, qs, for_each)
  IN  [i \in DOMAIN chains |-> Last(chains[i])]

\* The first node of each predicate only is tried.
RECURSIVE get_node_from_predicates(_, _, _, _)
get_node_from_predicates(t, parent, qs, for_each) ==
  LET node == NodeWalker(t, parent, Head(qs), Head(for_each))
  IN  IF Len(qs) = 1 \/ node = << >> THEN node
      ELSE get_node_from_predicates(t, node[1], Tail(qs), Tail(for_each))

\* The defaults of the searches, and of their variants for the children.
Default == [search |-> "dfs", explore |-> "shallow", depth |-> [min |-> 0, max |-> << >>], sort |-> "forward"]
ChildDepth(S) == [S EXCEPT !.depth = [min |-> 1, max |-> <<1>>]]

\* walkers_api.py: one node, or all of them
get_node_from_predicate(t, p, q, S) == NodeWalker(t, p, q, S)
get_nodes_from_predicate(t, p, q, S) == NodesOf(t, p, q, S)

get_children_from_predicate(t, p, q) == get_nodes_from_predicate(t, p, q, ChildDepth(Default))
get_children_from_predicates(t, p, qs) ==
  iter_nodes_from_predicates(t, p, qs, [i \in DOMAIN qs |-> ChildDepth(Default)])
get_child_from_name(t, p, name) == get_node_from_predicate(t, p, [by |-> "name", of |-> {name}], ChildDepth(Default))

-----------------------------------------------------------------------------
(***************************************************************************)
(* Paths: generate.py and path_utils.py                                    *)
(***************************************************************************)

RECURSIVE get_node_from_path(_, _, _)
get_node_from_path(t, p, path) ==
  IF path = << >> THEN <<p>>
  ELSE LET kids == At(t, p).kids
           named == {i \in DOMAIN kids : kids[i].name = Head(path)}
           first == CHOOSE i \in named : \A j \in named : i <= j
       IN  IF named = {} THEN << >> ELSE get_node_from_path(t, Append(p, first), Tail(path))

predicates_to_paths(t, p, qs) ==
  LET chains == iter_nodes_from_predicates_with_parents(t, p, qs, [i \in DOMAIN qs |-> ChildDepth(Default)])
  IN  [i \in DOMAIN chains |-> [k \in DOMAIN chains[i] |-> At(t, chains[i][k]).name]]

\* The value of a node is << >> for None, or holds the list of the paths still to be put below
\* it.  A path that ends at a node already there adds the path of the empty name to its list;
\* if its value is None, one of the paths ending there, the code raises and this is undefined.
RECURSIVE unroll(_)
unroll(root) ==
  LET Placed(kids, path) ==
        LET first == Head(path)
            there == {i \in DOMAIN kids : kids[i].name = first}
        IN  IF there = {}
            THEN Append(kids, Node(first, "None", If(Len(path) > 1, <<<<Tail(path)>>>>), << >>))
            ELSE [kids EXCEPT ![CHOOSE i \in there : TRUE].value[1] =
                    Append(@, IF Len(path) > 1 THEN Tail(path) ELSE <<"">>)]
      kids == FoldLeft(Placed, root.kids, root.value[1])
  IN  IF root.value = << >> THEN root
      ELSE [root EXCEPT !.value = << >>, !.kids = [i \in DOMAIN kids |-> unroll(kids[i])]]

paths_to_tree(paths, root_name) == unroll(Node(root_name, "None", <<paths>>, << >>))

-----------------------------------------------------------------------------
(***************************************************************************)
(* remove_nodes.py: the tree n is left with                                *)
(***************************************************************************)

\* Mutant: the indices are deleted in increasing order, the later ones having moved.
DeleteAll_Forward(kids, indices) ==
  LET order == SetToSortSeq(indices, <)
  IN  FoldLeft(LAMBDA s, i : IF i \in DOMAIN s THEN RemoveAt(s, i) ELSE s, kids, order)

DeleteAll(kids, indices) == FoldLeft(RemoveAt, kids, SetToSortSeq(indices, >))

rm_children_from_predicate(n, q) ==
  [n EXCEPT !.kids = DeleteAll(@, {i \in DOMAIN @ : match(@[i], q)})]

keep_children_from_predicate(n, q) ==
  [n EXCEPT !.kids = DeleteAll(@, {i \in DOMAIN @ : ~match(@[i], q)})]

RECURSIVE rm_nodes_from_predicate_with_level(_, _, _, _)
rm_nodes_from_predicate_with_level(parent, q, depth, level) ==
  LET hit == {i \in DOMAIN parent.kids : match(parent.kids[i], q)}
      Below(i) == IF i \in hit \/ level >= depth THEN parent.kids[i]
                  ELSE rm_nodes_from_predicate_with_level(parent.kids[i], q, depth, level + 1)
  IN  [parent EXCEPT !.kids = DeleteAll([i \in DOMAIN @ |-> Below(i)], hit)]

RECURSIVE rm_all_nodes_from_predicate(_, _)
rm_all_nodes_from_predicate(parent, q) ==
  LET hit == {i \in DOMAIN parent.kids : match(parent.kids[i], q)}
      Below(i) == IF i \in hit THEN parent.kids[i] ELSE rm_all_nodes_from_predicate(parent.kids[i], q)
  IN  [parent EXCEPT !.kids = DeleteAll([i \in DOMAIN @ |-> Below(i)], hit)]

\* A depth of 0 is no depth.
rm_nodes_from_predicate(n, q, depth) ==
  IF depth >= 1 THEN rm_nodes_from_predicate_with_level(n, q, depth, 1) ELSE rm_all_nodes_from_predicate(n, q)

=============================================================================
