---------------------------- MODULE LoadBalancing ----------------------------
(***************************************************************************)
(* The functions that say which part of which zone each process asks for:  *)
(* balance_multizone_tree with its two methods, compute_nosplit_weights    *)
(* and npart_per_zone.  All the processes know the sizes of the zones and  *)
(* compute the same repartition; each keeps its own weights.  The zones    *)
(* are numbered in the order of the method, and a weight is counted in     *)
(* cells: the code divides it by the size of the zone.                     *)
(***************************************************************************)
EXTENDS BalanceParameters

CONSTANTS
  Trees,    \* the inputs: [n_cell, n_vtx], for each zone its cells and its vertices
  NParts,   \* the numbers of parts that ranks may ask of npart_per_zone
  Methods   \* the functions considered

ASSUME TreesAssumption ==
  /\ \A t \in Trees : /\ t.n_cell \in Seq(Nat) /\ t.n_cell # << >>
                      /\ t.n_vtx \in Seq(Nat \ {0}) /\ Len(t.n_vtx) = Len(t.n_cell)
  /\ NParts \subseteq Nat
  /\ Methods \subseteq {"non_uniform", "uniform", "nosplit", "npart"}

VARIABLES
  method,    \* the function that is called
  size,      \* size[z]: cells of zone z
  rep,       \* rep[z][p]: repart_per_zone, cells of zone z for rank p
  load, cur, pc,
  tol, mean, left, open, k,   \* BalanceNonUniform
  procs, i, j, r, ii,         \* BalanceUniform
  heap,                       \* NoSplit
  weights    \* weights[p][z]: zone_to_weights of rank p, the parts it asks of zone z

NU == INSTANCE BalanceNonUniform
U == INSTANCE BalanceUniform
NS == INSTANCE NoSplit

nuVars == <<tol, mean, left, open, k>>
uVars == <<procs, i, j, r, ii>>
vars == <<method, size, rep, load, cur, pc, nuVars, uVars, heap, weights>>

Zone == DOMAIN size

\* Point clouds, which have no cells, are balanced by their vertices.
nb_elmt_per_zone(t) == IF \E z \in DOMAIN t.n_cell : t.n_cell[z] = 0 THEN t.n_vtx ELSE t.n_cell

\* sorted: by increasing or by decreasing sizes, zones of the same size in their order.
Precedes(s, y, z) ==
  LET before(a, b) == (method = "non_uniform" /\ a < b) \/ (method = "uniform" /\ a > b)
  IN  before(s[y], s[z]) \/ (~ before(s[z], s[y]) /\ y <= z)

Sorted(s) ==
  [a \in DOMAIN s |->
     s[CHOOSE z \in DOMAIN s : Cardinality({y \in DOMAIN s : Precedes(s, y, z)}) = a]]

Init ==
  /\ method \in Methods
  /\ \E t \in Trees : size = Sorted(nb_elmt_per_zone(t))
  /\ rep = [z \in Zone |-> [p \in Rank |-> 0]]
  /\ load = [p \in Rank |-> 0] /\ cur = 0
  /\ pc = "start"
  /\ NU!Init /\ U!Init /\ NS!Init
  /\ weights = [p \in Rank |-> << >>]

balance_with_non_uniform_weights ==
  /\ method = "non_uniform" /\ NU!Next
  /\ UNCHANGED <<method, uVars, heap, weights>>

balance_with_uniform_weights ==
  /\ method = "uniform" /\ U!Next
  /\ UNCHANGED <<method, nuVars, heap, weights>>

compute_nosplit_weights ==
  /\ method = "nosplit" /\ NS!Next
  /\ UNCHANGED <<method, load, cur, nuVars, uVars, weights>>

\* A rank asks for one part of each zone it has cells of.
zone_to_weights(p) == [z \in {z \in Zone : rep[z][p] > 0} |-> <<rep[z][p]>>]

Return ==
  /\ pc = "done"
  /\ weights' = [p \in Rank |-> zone_to_weights(p)]
  /\ pc' = "returned"
  /\ UNCHANGED <<method, size, rep, load, cur, nuVars, uVars, heap>>

\* Each rank p asks for n_part[p] parts of each zone; all the parts are equal.
npart_per_zone ==
  /\ method = "npart" /\ pc = "start"
  /\ \E n_part \in {n \in [Rank -> NParts] : \E p \in Rank : n[p] > 0} :
       LET before(p) == SumAt(n_part, 0 .. p - 1)
           n_part_tot == SumAt(n_part, Rank)
       IN  weights' = [p \in Rank |-> [z \in Zone |-> [q \in 1 .. n_part[p] |->
                         U!homogeneous_repart(size[z], n_part_tot, before(p) + q - 1)]]]
  /\ pc' = "returned"
  /\ UNCHANGED <<method, size, rep, load, cur, nuVars, uVars, heap>>

Ended == pc \in {"returned", "raised"}

Terminated == Ended /\ UNCHANGED vars

Next ==
  \/ balance_with_non_uniform_weights \/ balance_with_uniform_weights
  \/ compute_nosplit_weights \/ npart_per_zone
  \/ Return \/ Terminated

Spec == Init /\ [][Next]_vars /\ WF_vars(Next)

-----------------------------------------------------------------------------
\* balance_with_non_uniform_weights: through all the steps and restarts, no count goes below
\* zero, and the cells of a zone that are given and the ones that are left are the cells of
\* the zone.
RepartConserved == method = "non_uniform" => NU!TypeOK /\ NU!RepartConserved

\* The loads on which the choices rest are the ones of the repartition.  With non uniform
\* weights, only the cuts and the rests of step 2 overload a rank, so that a restart is never
\* due to steps 0 and 1; with uniform ones, what the ranks of a zone can take is never negative.
LoadsAgree ==
  /\ method = "non_uniform" => NU!LoadsAgree /\ NU!FilledWithinMean
  /\ method = "uniform" => U!TypeOK

\* karmarkar_karp: through all the merges a zone is in one bin of one item, and the bins of an
\* item, and so the loads of two ranks, never differ by more than the largest zone.
BinsBalanced == method = "nosplit" => NS!InOneBin /\ NS!WithinLargest

\* Whatever the function, the parts that all the processes ask of a zone make up the zone: the
\* weights that partition_dist_tree adds up over the ranks are one.  With as many cells as
\* ranks (balance_with_uniform_weights) or as many zones (compute_nosplit_weights), no rank is
\* left without a zone.
WeightsComplete ==
  /\ pc = "returned" => \A z \in Zone :
       size[z] = SumAt([p \in Rank |-> IF z \in DOMAIN weights[p]
                                       THEN SumAt(weights[p][z], DOMAIN weights[p][z]) ELSE 0], Rank)
  /\ method = "uniform" => U!NoIdleRank
  /\ method = "nosplit" => NS!NoIdleRank

\* Every function returns or raises: the tolerance stops growing, cur_rank meets n_rank,
\* the heap shrinks to one item.
Termination == <>Ended
=============================================================================
