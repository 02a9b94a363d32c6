----------------------------- MODULE SubsetSum -----------------------------
(***************************************************************************)
(* The search of a subset of a sorted array that has a given sum           *)
(* (cmaia.utils.search_subset_match), as a function.  A subset is a set of *)
(* indices.  The limits on the iterations and on the memory of the search  *)
(* (2^20 steps, 10^8 booleans) are far from the sizes considered.          *)
(***************************************************************************)
EXTENDS Integers, Sequences, FiniteSetsExt

SumAt(x, S) == MapThenSumSet(LAMBDA i : x[i], S)

\* subset[i, j]: some subset of the first i entries has sum j.
isSubsetSum(x, n, sum) ==
  LET subset[i \in 0 .. n, j \in 0 .. sum] ==
        \/ j = 0
        \/ i > 0 /\ (subset[i - 1, j] \/ (j >= x[i] /\ subset[i - 1, j - x[i]]))
  IN  subset[n, sum]

(***************************************************************************)
(* The candidates are taken in order as long as they fit; at the end of    *)
(* the array the last candidate is given up and the search goes on after   *)
(* it.  The search ends when there is nothing after it.                    *)
(***************************************************************************)
subset_sum_positions(x, n, target) ==
  LET search[p \in (1 .. n + 1) \X SUBSET (1 .. n)] ==
        LET first == p[1]
            candidates == p[2]
            s == SumAt(x, candidates)
            back == Max(candidates)
        IN  IF first = n + 1
            THEN IF candidates = {} \/ back = n THEN {}
                 ELSE search[<<back + 1, candidates \ {back}>>]
            ELSE IF s + x[first] = target THEN candidates \cup {first}
            ELSE IF s + x[first] < target THEN search[<<first + 1, candidates \cup {first}>>]
            ELSE search[<<first + 1, candidates>>]
  IN  IF target = 0 \/ SumAt(x, 1 .. n) < target THEN {} ELSE search[<<1, {}>>]

\* x is sorted, so that the entries above the target are at its end.
search_subset_match(x, target) ==
  LET n == Cardinality({i \in DOMAIN x : x[i] <= target})
  IN  IF n > 0 /\ isSubsetSum(x, n, target) THEN subset_sum_positions(x, n, target) ELSE {}
=============================================================================
