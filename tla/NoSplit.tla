------------------------------- MODULE NoSplit -------------------------------
(***************************************************************************)
(* compute_nosplit_weights: whole zones are given to the ranks, by the     *)
(* largest differencing method (karmarkar_karp) when there are more zones  *)
(* than ranks.  Every process computes the same repartition from the sizes *)
(* and keeps its own line of it.  Items of the heap that have the same     *)
(* key, and bins that have the same weight, may be taken in any order.     *)
(***************************************************************************)
EXTENDS BalanceParameters

Bin == 1 .. NRank

VARIABLES
  size,      \* size[z]: nb_elts, cells of zone z
  heap,      \* all_subsets: items [key, bins], bins[b] the zones in bin b
  rep,       \* rep[z][p]: repart_per_zone
  pc

Zone == DOMAIN size
subset_weight(S) == SumAt(size, S)
Largest == Max({size[z] : z \in Zone})

Init == heap = {}

-----------------------------------------------------------------------------
Affected(owner) == [z \in Zone |-> [p \in Rank |-> IF p = owner[z] THEN size[z] ELSE 0]]

NeedsSearch == NRank > 1 /\ NRank < Len(size)

\* One rank takes all, or there is a rank for every zone.
NoSearch ==
  /\ pc = "start"
  /\ ~ NeedsSearch
  /\ rep' = Affected([z \in Zone |-> IF NRank = 1 THEN 0 ELSE z - 1])
  /\ pc' = "done"
  /\ UNCHANGED <<size, heap>>

\* karmarkar_karp is called: each number is alone in the last of its bins.
Push ==
  /\ pc = "start"
  /\ NeedsSearch
  /\ heap' = {[key |-> size[z], bins |-> [b \in Bin |-> IF b = NRank THEN {z} ELSE {}]] : z \in Zone}
  /\ pc' = "combine"
  /\ UNCHANGED <<size, rep>>

Top(H) == {t \in H : \A u \in H : t.key >= u.key}

\* Mutant: the bins are joined in the same order.
combined_subset_Same(first, second) == [b \in Bin |-> first.bins[b] \cup second.bins[b]]

\* The most loaded bins of one item are joined with the least loaded ones of the other.
combined_subset(first, second) == [b \in Bin |-> first.bins[b] \cup second.bins[NRank - b + 1]]

SortedBins(c) ==
  {d \in {[b \in Bin |-> c[p[b]]] : p \in {p \in [Bin -> Bin] : \A a, b \in Bin : a # b => p[a] # p[b]}} :
     \A b \in 1 .. NRank - 1 : subset_weight(d[b]) <= subset_weight(d[b + 1])}

Combine ==
  /\ pc = "combine" /\ Cardinality(heap) > 1
  /\ \E first \in Top(heap) : \E second \in Top(heap \ {first}) :
     \E c \in SortedBins(combined_subset(first, second)) :
       heap' = (heap \ {first, second})
                 \cup {[key |-> subset_weight(c[NRank]) - subset_weight(c[1]), bins |-> c]}
  /\ UNCHANGED <<size, rep, pc>>

\* The bins of the last item are the ones of the ranks.
Assign ==
  /\ pc = "combine" /\ Cardinality(heap) = 1
  /\ \E t \in heap : rep' = [z \in Zone |-> [p \in Rank |-> IF z \in t.bins[p + 1] THEN size[z] ELSE 0]]
  /\ pc' = "done"
  /\ UNCHANGED <<size, heap>>

Next == NoSearch \/ Push \/ Combine \/ Assign

-----------------------------------------------------------------------------
Load(p) == SumAt([z \in Zone |-> rep[z][p]], Zone)

\* Through all the merges a zone is in one bin of one item.
InOneBin ==
  pc = "combine" => \A z \in Zone : Cardinality({e \in heap \X Bin : z \in e[1].bins[e[2]]}) = 1

\* No merge makes the bins of an item differ by more than the largest zone, because the
\* bins are joined in reverse order: the loads of two ranks do not differ by more.
WithinLargest ==
  /\ \A t \in heap : t.key <= Largest
  /\ pc = "done" /\ NRank < Len(size) => \A p, q \in Rank : Load(p) - Load(q) <= Largest

\* No rank is idle as long as there are as many zones as ranks.
NoIdleRank == pc = "done" /\ NRank <= Len(size) => \A p \in Rank : Load(p) > 0
=============================================================================
