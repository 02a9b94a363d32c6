-------------------------- MODULE BalanceNonUniform --------------------------
(***************************************************************************)
(* balance_with_non_uniform_weights: the cells of each zone are given to   *)
(* the ranks, a zone being cut where needed.  The zones are numbered in    *)
(* the order of their sizes, the one of the working dictionary.  A round   *)
(* matches whole zones to the mean load (step 0), fills the ranks to 75%   *)
(* with small zones (step 1), and cuts the others (step 2); it is started  *)
(* again with a tolerance of one percent more as long as a rank has more   *)
(* than the mean.                                                          *)
(***************************************************************************)
EXTENDS BalanceParameters

VARIABLES
  size,    \* size[z]: cells of zone z
  tol,     \* adjusted_tol, in percent
  mean,    \* mean_per_rank
  left,    \* left[z]: cells of z not given yet; zones at 0 are out of n_elem_zone_abs
  rep,     \* rep[z][r]: repart_per_zone
  load,    \* load[r]: proc_load
  cur,     \* current_proc
  open,    \* the ranks that are is_fully_open
  k,       \* round of step 0
  pc

Zone == DOMAIN size
Todo == {z \in Zone : left[z] > 0}
Total == SumAt(size, Zone)

initial_mean_per_rank == Total \div NRank + (IF Total % NRank = 0 THEN 0 ELSE 1)

\* int(round(0.75 * mean)), halves to even; int(round(0.20 * mean)) meets no half.
allowed_load_ini ==
  LET q == (3 * mean) \div 4
      twice == 2 * ((3 * mean) % 4)
  IN  IF twice > 4 \/ (twice = 4 /\ q % 2 = 1) THEN q + 1 ELSE q
min_chunk_size == (2 * mean + 5) \div 10

\* The first rank of S with the least, or the largest, load.
argmin(S, ld) == CHOOSE r \in S : \A q \in S : ld[r] < ld[q] \/ (ld[r] = ld[q] /\ r <= q)
argmax(S, ld) == CHOOSE r \in S : \A q \in S : ld[r] > ld[q] \/ (ld[r] = ld[q] /\ r <= q)

\* n[z] cells of each zone z are given to rank r.
Affect(r, n) ==
  /\ rep' = [z \in Zone |-> [rep[z] EXCEPT ![r] = @ + n[z]]]
  /\ load' = [load EXCEPT ![r] = @ + SumAt(n, Zone)]
  /\ left' = [z \in Zone |-> left[z] - n[z]]

Cells(z, n) == [y \in Zone |-> IF y = z THEN n ELSE 0]

Init ==
  /\ tol = 0 /\ mean = 0
  /\ left = size
  /\ open = Rank /\ k = 0

\* int(initial_mean_per_rank * (1 + adjusted_tol)): where the exact product is an
\* integer, the one computed in floating point may be just below.
Means ==
  LET exact == initial_mean_per_rank * (100 + tol)
  IN  IF exact % 100 = 0 /\ tol > 0 THEN {exact \div 100, exact \div 100 - 1}
      ELSE {exact \div 100}

\* Mutant: the repartition of the round before is not cleared.
Start_Dirty ==
  /\ pc = "start"
  /\ mean' \in Means
  /\ left' = size
  /\ load' = [r \in Rank |-> 0]
  /\ cur' = 0 /\ open' = Rank /\ k' = 0
  /\ pc' = "match"
  /\ UNCHANGED <<size, tol, rep>>

Start ==
  /\ pc = "start"
  /\ mean' \in Means
  /\ left' = size
  /\ rep' = [z \in Zone |-> [r \in Rank |-> 0]]
  /\ load' = [r \in Rank |-> 0]
  /\ cur' = 0 /\ open' = Rank /\ k' = 0
  /\ pc' = "match"
  /\ UNCHANGED <<size, tol>>

-----------------------------------------------------------------------------
(***************************************************************************)
(* Step 0                                                                  *)
(***************************************************************************)
\* The zones of which the sizes add up to the mean, or to one less.
Found ==
  LET zones == [a \in 1 .. Cardinality(Todo) |->
                  CHOOSE z \in Todo : Cardinality({y \in Todo : y <= z}) = a]
  IN  {zones[a] : a \in search_subset_match([a \in DOMAIN zones |-> left[zones[a]]], mean - k)}

Match ==
  /\ pc = "match"
  /\ Found # {}
  /\ IF cur < NRank
     THEN /\ Affect(cur, [z \in Zone |-> IF z \in Found THEN left[z] ELSE 0])
          /\ cur' = cur + 1
          /\ UNCHANGED pc
     ELSE /\ pc' = "raised"                 \* IndexError
          /\ UNCHANGED <<rep, load, left, cur>>
  /\ UNCHANGED <<size, tol, mean, open, k>>

NoMatch ==
  /\ pc = "match"
  /\ Found = {}
  /\ IF k = 0 /\ Total % NRank # 0 THEN k' = 1 /\ UNCHANGED pc
     ELSE pc' = "fill" /\ UNCHANGED k
  /\ UNCHANGED <<size, tol, mean, left, rep, load, cur, open>>

(***************************************************************************)
(* Step 1                                                                  *)
(***************************************************************************)
Smallest == Min(Todo)

Fill ==
  /\ pc = "fill"
  /\ Todo # {} /\ cur < NRank
  /\ left[Smallest] <= allowed_load_ini - load[cur]
  /\ Affect(cur, Cells(Smallest, left[Smallest]))
  /\ UNCHANGED <<size, tol, mean, cur, open, k, pc>>

NextProc ==
  /\ pc = "fill"
  /\ Todo # {} /\ cur < NRank - 1
  /\ left[Smallest] > allowed_load_ini - load[cur]
  /\ left[Smallest] <= allowed_load_ini
  /\ cur' = cur + 1
  /\ UNCHANGED <<size, tol, mean, left, rep, load, open, k, pc>>

\* proc_load[current_proc] is read first.
EndFill ==
  /\ pc = "fill"
  /\ \/ Todo = {} /\ pc' = "treat"
     \/ Todo # {} /\ cur = NRank /\ pc' = "raised"     \* IndexError
     \/ /\ Todo # {} /\ cur < NRank
        /\ left[Smallest] > allowed_load_ini - load[cur]
        /\ left[Smallest] > allowed_load_ini \/ cur = NRank - 1
        /\ pc' = "treat"
  /\ UNCHANGED <<size, tol, mean, left, rep, load, cur, open, k>>

-----------------------------------------------------------------------------
(***************************************************************************)
(* Step 2: the zone is the first one left, n_elem what is left of it.      *)
(***************************************************************************)
n_elem == left[Smallest]
not_full == {r \in Rank : load[r] < mean - 1}
min_loaded == argmin(not_full, load)
fully_open == open \cap not_full
max_loaded == argmax(fully_open, load)
available_on_max == mean - load[max_loaded]
matching == {r \in Rank : load[r] + n_elem = mean}

IsExact == matching # {}
IsSmall == ~ IsExact /\ n_elem + load[min_loaded] <= allowed_load_ini
IsComplete == /\ ~ IsExact /\ ~ IsSmall
              /\ fully_open # {} /\ available_on_max <= n_elem - min_chunk_size
IsCut == ~ IsExact /\ ~ IsSmall /\ ~ IsComplete /\ n_elem >= 2 * min_chunk_size
IsRest == ~ IsExact /\ ~ IsSmall /\ ~ IsComplete /\ ~ IsCut

Treating == pc = "treat" /\ Todo # {} /\ not_full # {}

\* np.argmin of an empty array raises ValueError, before the cases are looked at.
NoneLeft ==
  /\ pc = "treat" /\ Todo # {} /\ not_full = {}
  /\ pc' = "raised"
  /\ UNCHANGED <<size, tol, mean, left, rep, load, cur, open, k>>

\* A rank reaches the mean, or the least loaded one stays under 75%.
TreatWhole ==
  /\ Treating /\ (IsExact \/ IsSmall)
  /\ Affect(IF IsExact THEN Min(matching) ELSE min_loaded, Cells(Smallest, n_elem))
  /\ UNCHANGED <<size, tol, mean, cur, open, k, pc>>

\* The most loaded rank is completed, and a chunk of 20% at least is left.
TreatComplete ==
  /\ Treating /\ IsComplete
  /\ Affect(max_loaded, Cells(Smallest, available_on_max))
  /\ UNCHANGED <<size, tol, mean, cur, open, k, pc>>

\* not_full_procs_idx[argsort(...)][::-1]: by decreasing load, then decreasing rank.
Before(p, q) == load[p] > load[q] \/ (load[p] = load[q] /\ p > q)
FirstOf(S) == CHOOSE p \in S : \A q \in S \ {p} : Before(p, q)

\* A chunk of 20% is kept; the rest goes to the first rank that could take the whole
\* zone, or else to the one that ends nearest to the mean, which is closed.
TreatCut ==
  /\ Treating /\ IsCut
  /\ LET n == n_elem - min_chunk_size
         fit == {p \in not_full : n_elem <= mean - load[p]}
         gap(p) == IF mean >= load[p] + n THEN mean - load[p] - n ELSE load[p] + n - mean
         nearest == {p \in not_full : \A q \in not_full : gap(p) <= gap(q)}
         p == IF fit # {} THEN FirstOf(fit) ELSE FirstOf(nearest)
     IN  /\ Affect(p, Cells(Smallest, n))
         /\ open' = IF fit # {} THEN open ELSE open \ {p}
  /\ UNCHANGED <<size, tol, mean, cur, k, pc>>

\* Mutant: the second half is not added to the load of its rank.
TreatRest_Unloaded ==
  /\ Treating /\ IsRest
  /\ LET halves == Cardinality(not_full) > 1 /\ n_elem > 2 * AsyncMpi
         n1 == IF halves THEN n_elem \div 2 ELSE n_elem
         n2 == n_elem - n1
         p1 == min_loaded
         load1 == [load EXCEPT ![p1] = @ + n1]
         p2 == IF halves THEN argmin(Rank, load1) ELSE p1
     IN  /\ rep' = [rep EXCEPT ![Smallest] = [r \in Rank |->
                    @[r] + (IF r = p1 THEN n1 ELSE 0) + (IF r = p2 THEN n2 ELSE 0)]]
         /\ load' = load1
         /\ left' = [left EXCEPT ![Smallest] = 0]
  /\ UNCHANGED <<size, tol, mean, cur, open, k, pc>>

\* The zone can not be cut any more: it goes to the least loaded rank, in two halves to
\* the two least loaded ones if it is large.
TreatRest ==
  /\ Treating /\ IsRest
  /\ LET halves == Cardinality(not_full) > 1 /\ n_elem > 2 * AsyncMpi
         n1 == IF halves THEN n_elem \div 2 ELSE n_elem
         n2 == n_elem - n1
         p1 == min_loaded
         load1 == [load EXCEPT ![p1] = @ + n1]
         p2 == IF halves THEN argmin(Rank, load1) ELSE p1
         load2 == [load1 EXCEPT ![p2] = @ + n2]
     IN  /\ rep' = [rep EXCEPT ![Smallest] = [r \in Rank |->
                    @[r] + (IF r = p1 THEN n1 ELSE 0) + (IF r = p2 THEN n2 ELSE 0)]]
         /\ load' = load2
         /\ left' = [left EXCEPT ![Smallest] = 0]
         /\ open' = open \ ({p \in {p1} : mean - load1[p] < min_chunk_size}
                              \cup {p \in {p2} : mean - load2[p] < min_chunk_size})
  /\ UNCHANGED <<size, tol, mean, cur, k, pc>>

\* Mutant: the tolerance stays the same.
Converge_SameTolerance ==
  /\ pc = "treat" /\ Todo = {}
  /\ pc' = IF \A r \in Rank : load[r] <= mean THEN "done" ELSE "start"
  /\ UNCHANGED <<size, tol, mean, left, rep, load, cur, open, k>>

\* The round is over: done, or again with more tolerance.
Converge ==
  /\ pc = "treat" /\ Todo = {}
  /\ IF \A r \in Rank : load[r] <= mean
     THEN pc' = "done" /\ UNCHANGED tol
     ELSE pc' = "start" /\ tol' = tol + 1
  /\ UNCHANGED <<size, mean, left, rep, load, cur, open, k>>

Next ==
  \/ Start \/ Match \/ NoMatch
  \/ Fill \/ NextProc \/ EndFill
  \/ NoneLeft \/ TreatWhole \/ TreatComplete \/ TreatCut \/ TreatRest
  \/ Converge

-----------------------------------------------------------------------------
\* No rank is given a negative number of cells.
TypeOK ==
  /\ left \in [Zone -> Nat] /\ rep \in [Zone -> [Rank -> Nat]] /\ load \in [Rank -> Nat]
  /\ cur \in 0 .. NRank /\ open \subseteq Rank /\ k \in {0, 1} /\ tol \in Nat /\ mean \in Nat

\* Through all the steps and restarts, the cells of a zone that are given and the ones
\* that are left are the cells of the zone: the weights of a zone add up to one.
RepartConserved == \A z \in Zone : SumAt(rep[z], Rank) + left[z] = size[z]

\* proc_load, on which every choice rests, is the load of the repartition.
LoadsAgree == \A r \in Rank : load[r] = SumAt([z \in Zone |-> rep[z][r]], Zone)

\* Only the cuts and the rests of step 2 overload a rank: the ranks that steps 0 and 1
\* fill are within the mean, so that a restart is never due to them.
FilledWithinMean == pc \in {"match", "fill"} => \A r \in Rank : load[r] <= mean
=============================================================================
