------------------------------- MODULE CutTree -------------------------------
(***************************************************************************)
(* maia.factory.partitioning.split_S: the balancing cut tree and the boxes *)
(* it cuts a block in.  A tree of depth 1 is <<number of leaves>>, a       *)
(* deeper one is the sequence of its children.  The code keeps references  *)
(* to nodes of the tree, here they are paths (sequences of positions).     *)
(* The weights are integers proportional to the ones of the code.          *)
(***************************************************************************)
EXTENDS StructuredIndex, SequencesExt

-----------------------------------------------------------------------------
(***************************************************************************)
(* balancing_cut_tree                                                      *)
(***************************************************************************)

RECURSIVE init_cut_tree(_)
init_cut_tree(n) == IF n = 0 THEN 1 ELSE <<init_cut_tree(n - 1)>>

RECURSIVE sum_leaves(_, _)
sum_leaves(node, dep) ==
  IF dep = 0 THEN node ELSE SumSeq([i \in DOMAIN node |-> sum_leaves(node[i], dep - 1)])

RECURSIVE reset_sub_tree(_, _)
reset_sub_tree(node, dep) ==
  IF dep > 1 THEN [i \in DOMAIN node |-> reset_sub_tree(node[i], dep - 1)] ELSE <<1>>

\* The number of children of a node; its weight is divided by the size of its direction.
Children(node, dep) == IF dep > 1 THEN Len(node) ELSE node[1]
LighterThan(node1, dep1, node2, dep2, dims) ==
  Children(node1, dep1) * dims[Len(dims) - dep2 + 1]
    < Children(node2, dep2) * dims[Len(dims) - dep1 + 1]

\* The position of the leftmost child having the least leaves.
child_with_least_leaves(node, dep) ==
  CHOOSE i \in DOMAIN node : \A j \in DOMAIN node :
    LET n(k) == sum_leaves(node[k], dep - 1) IN n(i) < n(j) \/ (n(i) = n(j) /\ i <= j)

RECURSIVE Descent(_, _)
Descent(node, dep) ==
  IF dep = 1 THEN << >>
  ELSE LET i == child_with_least_leaves(node, dep) IN <<i>> \o Descent(node[i], dep - 1)

RECURSIVE NodeAt(_, _)
NodeAt(node, path) == IF path = << >> THEN node ELSE NodeAt(node[path[1]], Tail(path))

RECURSIVE ReplaceNode(_, _, _)
ReplaceNode(node, path, new) ==
  IF path = << >> THEN new ELSE [node EXCEPT ![path[1]] = ReplaceNode(@, Tail(path), new)]

\* The path of the first node of least weight on the way down.
select_insertion(node, dep, dims) ==
  LET path == Descent(node, dep)
      At_(k) == NodeAt(node, SubSeq(path, 1, k))
      best == CHOOSE k \in 0 .. Len(path) : \A l \in 0 .. Len(path) :
                /\ ~LighterThan(At_(l), dep - l, At_(k), dep - k, dims)
                /\ l < k => LighterThan(At_(k), dep - k, At_(l), dep - l, dims)
  IN  SubSeq(path, 1, best)

\* The subtree is reset, and refined until it has one leaf more than before.
RECURSIVE insert_child_at(_, _, _), RefineTo(_, _, _, _)
insert_child_at(node, dep, dims) ==
  IF dep = 1 THEN <<node[1] + 1>>
  ELSE RefineTo(Append(reset_sub_tree(node, dep), init_cut_tree(dep - 1)), dep, dims,
                sum_leaves(node, dep) + 1)
RefineTo(node, dep, dims, n) ==
  IF sum_leaves(node, dep) = n THEN node
  ELSE LET path == select_insertion(node, dep, dims)
           new == insert_child_at(NodeAt(node, path), dep - Len(path), dims)
       IN  RefineTo(ReplaceNode(node, path, new), dep, dims, n)

\* The tree of n_parts leaves: refine_cut_tree, n_parts - 1 times.
cut_tree(dims, n_parts) == RefineTo(init_cut_tree(Len(dims)), Len(dims), dims, n_parts)

-----------------------------------------------------------------------------
(***************************************************************************)
(* split_cut_tree                                                          *)
(***************************************************************************)

\* int(weight * dim + 0.5) for the sums of the first weights.  On an exact half the floats
\* of the code may fall on either side (down = 1).
Cuts(ws, dim, down) ==
  LET total == SumSeq(ws)
      sum == [k \in 0 .. Len(ws) |-> SumSeq(SubSeq(ws, 1, k))]
      x(k) == 2 * sum[k] * dim + total
  IN  [k \in 0 .. Len(ws) |->
         (x(k) \div (2 * total)) - (IF x(k) % (2 * total) = 0 THEN down ELSE 0)]

\* Mutant: a part ends before the cut, as if windows were closed.
CutInterval_Closed(cuts, i) == <<cuts[i - 1], IF cuts[i] > 0 THEN cuts[i] - 1 ELSE cuts[i]>>

CutInterval(cuts, i) == <<cuts[i - 1], cuts[i]>>

\* apply_weights_to_cut_tree and bct_to_partitions_bounds: the weights go to the leaves from
\* left to right, and the boxes come in the order of the leaves.
RECURSIVE bct_to_partitions_bounds(_, _, _, _)
bct_to_partitions_bounds(tree, dims, ws, down) ==
  LET dep == Len(dims)
      n == Listed([i \in DOMAIN tree |-> sum_leaves(tree[i], dep - 1)])
      Slice(i) == LET before == SumSeq(SubSeq(n, 1, i - 1))
                  IN  SubSeq(ws, before + 1, before + n[i])
      cuts == Cuts([i \in DOMAIN tree |-> SumSeq(Slice(i))], dims[1], down)
      leaf_cuts == Cuts(ws, dims[1], down)
      Box(i) == LET subs == bct_to_partitions_bounds(tree[i], Tail(dims), Slice(i), down)
                IN  Listed([k \in DOMAIN subs |-> <<CutInterval(cuts, i)>> \o subs[k]])
  IN  IF dep = 1 THEN [i \in 1 .. tree[1] |-> <<CutInterval(leaf_cuts, i)>>]
      ELSE FlattenSeq([i \in DOMAIN tree |-> Box(i)])

Volume(box) == Abs(Product([d \in DOMAIN box |-> box[d][2] - box[d][1]]))

Permutations1(n) == {p \in [1 .. n -> 1 .. n] : \A i, j \in 1 .. n : p[i] = p[j] => i = j}

\* The boxes of the parts, in the order of their weights, for the permutation p of the
\* weights; and how far above its weight the largest one is.
BoxesFor(p, dims, ws, down) ==
  LET parts == bct_to_partitions_bounds(cut_tree(dims, Len(ws)), dims,
                                        Listed([i \in DOMAIN ws |-> ws[p[i]]]), down)
  IN  Listed([i \in DOMAIN ws |-> parts[CHOOSE k \in DOMAIN ws : p[k] = i]])
MaxDiff(boxes, dims, ws) ==
  LET diff == {Volume(boxes[k]) * SumSeq(ws) - ws[k] * Product(dims) : k \in DOMAIN ws}
  IN  CHOOSE m \in diff : \A x \in diff : x <= m

\* The results split_S_block may have: of equally good permutations the first is kept, but
\* the floats of the code may tell equal ones apart.  All the permutations are tried (there
\* are at most max_it = 720 of them up to six parts).
split_S_block(dims, ws) ==
  UNION {LET all == {BoxesFor(p, dims, ws, down) : p \in Permutations1(Len(ws))}
         IN  {b \in all : \A c \in all : MaxDiff(b, dims, ws) <= MaxDiff(c, dims, ws)}
         : down \in {0, 1}}

\* floor(weights * dim), the remainder given one by one from the first part on.
split_S_line(dim, ws) ==
  LET total == SumSeq(ws)
      Floor(down) == [i \in DOMAIN ws |->
        ((ws[i] * dim) \div total) - (IF ws[i] * dim % total = 0 /\ ws[i] > 0 THEN down ELSE 0)]
      Boxes(n_cell) ==
        LET rest == dim - SumSeq(n_cell)
            size == [i \in DOMAIN ws |-> n_cell[i] + rest \div Len(ws)
                                           + (IF i <= rest % Len(ws) THEN 1 ELSE 0)]
            last(i) == SumSeq(SubSeq(size, 1, i))
        IN  [i \in DOMAIN ws |-> << <<last(i - 1), last(i)>> >>]
  IN  {Boxes(Floor(0)), Boxes(Floor(1))}

SplitBlock(dims, ws) == IF Len(dims) > 1 THEN split_S_block(dims, ws)
                                         ELSE split_S_line(dims[1], ws)

=============================================================================
