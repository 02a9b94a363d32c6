---------------------------- MODULE BalanceUniform ----------------------------
(***************************************************************************)
(* balance_with_uniform_weights: ranks are given to zones, and a zone is   *)
(* cut into equal parts for its ranks.  The zones are numbered in the      *)
(* order of decreasing sizes, the one of the working dictionary.  The      *)
(* sizes come from Zone.n_cell and are numpy integers: a division by zero  *)
(* gives zero if it is an integer one and inf if it is not.                *)
(***************************************************************************)
EXTENDS BalanceParameters

VARIABLES
  size,    \* size[z]: cells of zone z
  procs,   \* procs[z]: dproc_to_zone, the ranks of zone z in the order they are added
  cur,     \* cur_rank: the ranks below it are taken
  i,       \* the zone that is given ranks of its own
  j,       \* the zone that may share them
  r,       \* r_elem: cells the ranks of zone i can still take
  ii,      \* ii_rank: the next of these ranks to be shared
  load,    \* load[p]: n_elem_mpi_tmp, in units of 1/Unit of a cell
  rep,     \* rep[z][p]: repart_per_zone
  pc

Zone == DOMAIN size
Remain == {z \in Zone : procs[z] = << >>}
mean_per_rank == SumAt(size, Zone) \div NRank

\* The number of ranks a zone fills by itself.
n_rank_zone(z) == IF mean_per_rank = 0 THEN 0 ELSE size[z] \div mean_per_rank

\* A multiple of all the numbers of ranks a zone can have.
Unit ==
  LET factorial[n \in 0 .. NRank] == IF n = 0 THEN 1 ELSE n * factorial[n - 1]
  IN  factorial[NRank]

Init ==
  /\ procs = [z \in Zone |-> << >>]
  /\ i = 1 /\ j = 1 /\ r = 0 /\ ii = 0

-----------------------------------------------------------------------------
\* A large zone takes the ranks it fills; a smaller one none, and shares none.
GiveRanks ==
  /\ pc = "start" /\ i \in Zone
  /\ procs' = [procs EXCEPT ![i] = @ \o [p \in 1 .. n_rank_zone(i) |-> cur + p - 1]]
  /\ r' = size[i] - n_rank_zone(i) * mean_per_rank
  /\ ii' = 0 /\ j' = 1
  /\ IF n_rank_zone(i) > 0 THEN pc' = "share" /\ UNCHANGED i
     ELSE i' = i + 1 /\ UNCHANGED pc
  /\ UNCHANGED <<size, cur, load, rep>>

\* A zone without ranks that fits in the rest of zone i joins one of its ranks.
Share ==
  /\ pc = "share" /\ j \in Zone
  /\ IF procs[j] = << >> /\ size[j] <= r
     THEN LET next == IF ii > n_rank_zone(i) THEN 0 ELSE ii
          IN  /\ procs' = [procs EXCEPT ![j] = Append(@, next + cur)]
              /\ ii' = next + 1
              /\ r' = r - size[j]
     ELSE UNCHANGED <<procs, ii, r>>
  /\ j' = j + 1
  /\ UNCHANGED <<size, cur, i, load, rep, pc>>

EndShare ==
  /\ pc = "share" /\ j \notin Zone
  /\ cur' = cur + n_rank_zone(i)
  /\ i' = i + 1
  /\ pc' = "start"
  /\ UNCHANGED <<size, procs, j, r, ii, load, rep>>

EndZones ==
  /\ pc = "start" /\ i \notin Zone
  /\ pc' = IF Remain = {} THEN "load" ELSE "remain"
  /\ UNCHANGED <<size, procs, cur, i, j, r, ii, load, rep>>

-----------------------------------------------------------------------------
\* The zones of S that are taken in their order as long as the mean is kept.
Greedy(S) ==
  LET taken[z \in 0 .. Len(size)] ==
        IF z = 0 THEN {}
        ELSE IF z \in S /\ SumAt(size, taken[z - 1]) + size[z] <= mean_per_rank
        THEN taken[z - 1] \cup {z} ELSE taken[z - 1]
  IN  taken[Len(size)]

\* The next rank takes the zones without ranks that fit on it together.
TakeRemain ==
  /\ pc = "remain"
  /\ LET taken == Greedy(Remain)
     IN  /\ procs' = [z \in Zone |-> IF z \in taken THEN <<cur>> ELSE procs[z]]
         /\ pc' = IF taken = Remain \/ cur + 1 = NRank THEN "load" ELSE "remain"
  /\ cur' = cur + 1
  /\ UNCHANGED <<size, i, j, r, ii, load, rep>>

\* n_elem_mpi_tmp[lprocs] raises IndexError for a rank that does not exist; a zone
\* without ranks adds inf to no rank at all.
ComputeLoad ==
  /\ pc = "load"
  /\ IF \A z \in Zone : ToSet(procs[z]) \subseteq Rank
     THEN /\ load' = [p \in Rank |->
                SumAt([z \in Zone |-> (size[z] * Unit) \div Len(procs[z])],
                      {z \in Zone : p \in ToSet(procs[z])})]
          /\ pc' = "least"
     ELSE pc' = "raised" /\ UNCHANGED load
  /\ UNCHANGED <<size, procs, cur, i, j, r, ii, rep>>

\* The first zone without ranks goes to a least loaded rank: where exact loads are
\* equal, the sums computed in floating point may not be.
AddToLeast ==
  /\ pc = "least" /\ Remain # {}
  /\ \E p \in {p \in Rank : \A q \in Rank : load[p] <= load[q]} :
       /\ procs' = [procs EXCEPT ![Min(Remain)] = Append(@, p)]
       /\ load' = [load EXCEPT ![p] = @ + size[Min(Remain)] * Unit]
  /\ UNCHANGED <<size, cur, i, j, r, ii, rep, pc>>

-----------------------------------------------------------------------------
\* The zone with the largest parts, the first one of them.
maxZone ==
  CHOOSE z \in Zone : \A y \in Zone :
    \/ size[z] * Len(procs[y]) > size[y] * Len(procs[z])
    \/ size[z] * Len(procs[y]) = size[y] * Len(procs[z]) /\ z <= y

\* Mutant: the rank is not counted as taken by the zone that gets it.
CutMore_First ==
  /\ pc = "least" /\ Remain = {} /\ cur # NRank
  /\ procs' = [procs EXCEPT ![maxZone] = Append(@, 0)]
  /\ cur' = cur + 1
  /\ UNCHANGED <<size, i, j, r, ii, load, rep, pc>>

\* The ranks that are left cut the zone with the largest parts.
CutMore ==
  /\ pc = "least" /\ Remain = {} /\ cur # NRank
  /\ procs' = [procs EXCEPT ![maxZone] = Append(@, cur)]
  /\ cur' = cur + 1
  /\ UNCHANGED <<size, i, j, r, ii, load, rep, pc>>

\* The part number p, from 0, of n cells cut into m parts.
homogeneous_repart(n, m, p) == n \div m + (IF p < n % m THEN 1 ELSE 0)

\* Double entries are removed, and the parts follow the order of the ranks.
Format ==
  /\ pc = "least" /\ Remain = {} /\ cur = NRank
  /\ rep' = [z \in Zone |-> LET P == ToSet(procs[z]) IN [p \in Rank |->
       IF p \in P THEN homogeneous_repart(size[z], Cardinality(P), Cardinality({q \in P : q < p}))
       ELSE 0]]
  /\ pc' = "done"
  /\ UNCHANGED <<size, procs, cur, i, j, r, ii, load>>

Next ==
  \/ GiveRanks \/ Share \/ EndShare \/ EndZones
  \/ TakeRemain \/ ComputeLoad \/ AddToLeast \/ CutMore \/ Format

-----------------------------------------------------------------------------
\* What the ranks of a zone can still take is never negative.
TypeOK ==
  /\ procs \in [Zone -> Seq(Nat)] /\ cur \in Nat /\ r \in Nat /\ ii \in Nat
  /\ i \in 1 .. Len(size) + 1 /\ j \in 1 .. Len(size) + 1
  /\ load \in [Rank -> Nat] /\ rep \in [Zone -> [Rank -> Nat]]

\* If there are as many cells as ranks, no rank is left without a zone: cur_rank is only
\* advanced over ranks that have got one.
NoIdleRank ==
  pc = "done" /\ mean_per_rank > 0 => \A p \in Rank : \E z \in Zone : p \in ToSet(procs[z])
=============================================================================
