---------------------------- MODULE GraphTraversal ----------------------------
(***************************************************************************)
(* Depth-first traversal of maia.pytree.graph (algo.py), the trees it      *)
(* builds (build.py) and the forward and backward lists made of them       *)
(* (fb_graph.py).  graph has its roots and the forward nodes of each node; *)
(* a node reached by several ways is visited each time.                    *)
(*                                                                         *)
(* A level of the stack is the sequence of the siblings left to visit, the *)
(* current node first: << >> is the one past the last sibling.             *)
(***************************************************************************)
EXTENDS Integers, Sequences, SequencesExt, TLC

VARIABLES
  graph,
  visitor,   \* whose pre, post, down and up are called
  stack,
  calls,     \* the calls of the visitor, each with the nodes of the stack
  steps,     \* what the visitor answered to its calls of pre
  found,     \* the node the visitor stopped at, if any
  built,     \* _sub_tree_stack of build.py, for trees <<node, children>>
  lists,     \* the same for the adjacency lists of fb_tree_ctor
  made,      \* the counter of fb_tree_ctor
  phase

\* The forward nodes of a node are nodes, and so are the roots.
IsGraph(g) ==
  /\ g.forward \in [DOMAIN g.forward -> Seq(DOMAIN g.forward)]
  /\ g.roots \in Seq(DOMAIN g.forward)

traversal == <<stack, calls, steps, found, built, lists, made, phase>>

Step == {"into", "over", "out"}

level_is_done(s) == Last(s) = << >>
is_at_root_level(s) == Len(s) = 1
is_done(s) == is_at_root_level(s) /\ level_is_done(s)
nodes(s) == [i \in DOMAIN s |-> Head(s[i])]
current_node(s) == Head(Last(s))
push_level(s) == Append(s, graph.forward[current_node(s)])
push_done_level(s) == Append(s, << >>)
pop_level(s) == Front(s)

advance_node_range(s) == [s EXCEPT ![Len(s)] = Tail(@)]

Call(kind, s) == <<kind, nodes(s)>>
DownIfAny(s) == IF level_is_done(s) THEN << >> ELSE << Call("down", s) >>

-----------------------------------------------------------------------------
(***************************************************************************)
(* _build_tree_visitor and fb_tree_ctor                                    *)
(***************************************************************************)

BuildPre ==
  /\ built' = Append(built, << >>)
  /\ lists' = Append(lists, << >>)
  /\ UNCHANGED made

\* The subtree takes the place of the level of its children.
Deposit(sub, node) ==
  LET up == Front(sub) IN [up EXCEPT ![Len(up)] = Append(@, node)]

\* Mutant: the forward indices of the lists joined are left as they are.
Shifted_Not(adj, offset) == adj

\* An entry of a list that is put after offset others.
Shifted(adj, offset) == [adj EXCEPT !.forward = [i \in DOMAIN @ |-> @[i] + offset]]

\* The lists of the children one after the other, whose last entries are the children, and
\* the node itself.  Indices count from 0.
fb_tree_ctor(node, subs, i) ==
  LET before(k) == LET n[j \in 0 .. Len(subs)] == IF j = 0 THEN 0 ELSE Len(subs[j]) + n[j - 1]
                   IN  n[k]
      Rooted(k) == [subs[k] EXCEPT ![Len(subs[k])].backward = <<i>>]
      Moved(k) == LET sub == Rooted(k) IN [j \in DOMAIN sub |-> Shifted(sub[j], before(k - 1))]
  IN  FlattenSeq([k \in DOMAIN subs |-> Moved(k)])
        \o << [value |-> node, backward |-> << >>,
               forward |-> [k \in DOMAIN subs |-> before(k) - 1]] >>

BuildPost(node) ==
  /\ built' = Deposit(built, <<node, Last(built)>>)
  /\ lists' = Deposit(lists, fb_tree_ctor(node, Last(lists), made))
  /\ made' = made + 1

-----------------------------------------------------------------------------
(***************************************************************************)
(* _depth_first_search_stack, with the answer of pre                       *)
(***************************************************************************)

Pre(answer) ==
  /\ phase = "search"
  /\ ~level_is_done(stack)
  /\ steps' = Append(steps, answer)
  /\ BuildPre
  /\ LET pushed == CASE answer = "into" -> push_level(stack)
                     [] answer = "over" -> push_done_level(stack)
                     [] answer = "out" -> stack
         down == IF answer = "into" THEN DownIfAny(pushed) ELSE << >>
     IN  /\ stack' = pushed
         /\ calls' = calls \o << Call("pre", stack) >> \o down
  /\ IF answer = "out" THEN phase' = "unwind" /\ found' = <<current_node(stack)>>
                       ELSE UNCHANGED <<phase, found>>

Post ==
  /\ phase = "search"
  /\ level_is_done(stack)
  /\ ~is_at_root_level(stack)
  /\ LET up == pop_level(stack)
         next == advance_node_range(up)
     IN  /\ stack' = next
         /\ calls' = calls \o << Call("post", up) >>
                           \o (IF is_at_root_level(up) THEN << >>
                               ELSE << Call("up", up) >> \o DownIfAny(next))
         /\ BuildPost(current_node(up))
  /\ UNCHANGED <<steps, found, phase>>

\* The traversal is complete.
Done ==
  /\ phase = "search"
  /\ is_done(stack)
  /\ phase' = "done"
  /\ UNCHANGED <<stack, calls, steps, found, built, lists, made>>

\* Mutant: the way up is not announced.
Unwind_Silent ==
  /\ phase = "unwind"
  /\ calls' = Append(calls, Call("post", stack))
  /\ BuildPost(current_node(stack))
  /\ IF is_at_root_level(stack) THEN phase' = "done" /\ UNCHANGED stack
                                ELSE stack' = pop_level(stack) /\ UNCHANGED phase
  /\ UNCHANGED <<steps, found>>

\* unwind: the calls of the ancestors are closed, the root included.
Unwind ==
  /\ phase = "unwind"
  /\ calls' = calls \o << Call("post", stack) >>
                    \o (IF is_at_root_level(stack) THEN << >> ELSE << Call("up", stack) >>)
  /\ BuildPost(current_node(stack))
  /\ IF is_at_root_level(stack) THEN phase' = "done" /\ UNCHANGED stack
                                ELSE stack' = pop_level(stack) /\ UNCHANGED phase
  /\ UNCHANGED <<steps, found>>

InitTraversal ==
  /\ stack = <<graph.roots>>
  /\ calls = << >>
  /\ steps = << >>
  /\ found = << >>
  /\ built = << << >> >>
  /\ lists = << << >> >>
  /\ made = 0
  /\ phase = "search"

-----------------------------------------------------------------------------
(***************************************************************************)
(* Properties                                                              *)
(***************************************************************************)

\* The traversal by recursion, as a result: the calls, the first answer that is left, whether
\* it was stopped, the trees of the nodes entered.
Result(c, left, stop, subtrees) == [calls |-> c, left |-> left, stop |-> stop, trees |-> subtrees]

\* The siblings ns of g under the ancestors anc, with the answers from the i-th on; the way down and
\* up is announced below the roots.  If more answers are asked than there are, left is beyond
\* the one after the last.
Visit(g, answers) ==
  LET Node == DOMAIN g.forward
      Way(kind, anc, path) == IF anc = << >> THEN << >> ELSE << <<kind, path>> >>
      visit[at \in (1 .. Len(answers) + 2) \X Seq(Node) \X Seq(Node)] ==
        LET i == at[1]
            ns == at[2]
            anc == at[3]
            path == Append(anc, Head(ns))
            below == IF answers[i] = "into" THEN visit[<<i + 1, g.forward[Head(ns)], path>>]
                     ELSE Result(<< >>, i + 1, answers[i] = "out", << >>)
            other == IF below.stop THEN Result(<< >>, below.left, TRUE, << >>)
                     ELSE visit[<<below.left, Tail(ns), anc>>]
        IN  IF ns = << >> THEN Result(<< >>, i, FALSE, << >>)
            ELSE IF i > Len(answers)
            THEN Result(Way("down", anc, path), Len(answers) + 2, TRUE, << >>)
            ELSE Result(Way("down", anc, path) \o << <<"pre", path>> >> \o below.calls
                          \o << <<"post", path>> >> \o Way("up", anc, path) \o other.calls,
                        other.left, other.stop, << <<Head(ns), below.trees>> >> \o other.trees)
  IN  visit
VisitRoots(answers) == Visit(graph, answers)[<<1, graph.roots, << >> >>]

\* A traversal that has ended, even one that was stopped, made the calls of the recursive
\* definition for the same answers: every pre has its post, every way down its way up, each
\* with its ancestors, and it returns the node it was stopped at.
CallsOfRecursion == phase = "done" =>
  LET reference == VisitRoots(steps)
  IN  /\ calls = reference.calls
      /\ reference.left = Len(steps) + 1
      /\ (found = << >>) = ~reference.stop
      /\ \A n \in ToSet(found) : \E i \in DOMAIN calls : calls[i][1] = "pre" /\ Last(calls[i][2]) = n

\* At the end of a traversal one level of subtrees is left (asserted by
\* retrieve_composition_term), and it holds the tree of the nodes entered under each root.
BuiltOfRecursion == phase = "done" =>
  built = <<VisitRoots(steps).trees>>

\* The tree under the last entry.
Unrolled(list) ==
  LET tree[i \in 0 .. Len(list) - 1] ==
        <<list[i + 1].value, [k \in DOMAIN list[i + 1].forward |-> tree[list[i + 1].forward[k]]]>>
  IN  tree[Len(list) - 1]

\* The forward and backward lists of a tree built from a single root agree, and followed from
\* the last entry on they are the tree, although parents are numbered by a counter shared by
\* the whole build and children by their place in the lists joined so far.
ListsCoherent == phase = "done" /\ Len(graph.roots) = 1 =>
  LET list == lists[1][1]
      Index == 0 .. Len(list) - 1
  IN  /\ Unrolled(list) = built[1][1]
      /\ \A i, j \in Index : (j \in ToSet(list[i + 1].forward)) = (list[j + 1].backward = <<i>>)

\* What is built along a traversal, nested or as lists of indices, is the tree of the nodes it
\* entered.
BuildersExact == BuiltOfRecursion /\ ListsCoherent
=============================================================================
