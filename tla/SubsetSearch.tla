---------------------------- MODULE SubsetSearch ----------------------------
(***************************************************************************)
(* The loops of subset_sum_positions, step by step, and what they promise. *)
(* The limit on the iterations is left out: the search ends without it.    *)
(***************************************************************************)
EXTENDS SubsetSum

CONSTANTS
  MaxLength,   \* bound on the length of the array
  MaxValue     \* bound on its entries

ASSUME BoundAssumption == MaxLength \in Nat /\ MaxValue \in Nat

VARIABLES
  x, target,   \* the sorted array and the wanted sum
  first,       \* the next position
  candidates,  \* the positions taken, in increasing order
  s,           \* their sum
  pc,
  result       \* the positions returned

vars == <<x, target, first, candidates, s, pc, result>>
input == <<x, target>>

N == Len(x)
SortedArrays(n) == {a \in [1 .. n -> 1 .. MaxValue] : \A i \in 1 .. n - 1 : a[i] <= a[i + 1]}

\* Called by search_subset_match with the entries up to the target, if a subset exists.
Init ==
  /\ \E n \in 1 .. MaxLength : x \in SortedArrays(n)
  /\ target \in x[Len(x)] .. SumAt(x, 1 .. Len(x))
  /\ isSubsetSum(x, Len(x), target)
  /\ first = 1 /\ candidates = << >> /\ s = 0
  /\ pc = "scan" /\ result = {}

Hit ==
  /\ pc = "scan" /\ first <= N
  /\ s + x[first] = target
  /\ candidates' = Append(candidates, first)
  /\ s' = s + x[first]
  /\ result' = {candidates[i] : i \in 1 .. Len(candidates)} \cup {first}
  /\ pc' = "found"
  /\ UNCHANGED <<input, first>>

Take ==
  /\ pc = "scan" /\ first <= N
  /\ s + x[first] < target
  /\ candidates' = Append(candidates, first)
  /\ s' = s + x[first]
  /\ first' = first + 1
  /\ UNCHANGED <<input, pc, result>>

Skip ==
  /\ pc = "scan" /\ first <= N
  /\ s + x[first] > target
  /\ first' = first + 1
  /\ UNCHANGED <<input, candidates, s, pc, result>>

\* Mutant: the sum keeps the entry that is given up.
Backtrack_KeepsSum ==
  /\ pc = "scan" /\ first = N + 1
  /\ candidates # << >>
  /\ LET back == candidates[Len(candidates)]
     IN  /\ first' = back + 1
         /\ candidates' = SubSeq(candidates, 1, Len(candidates) - 1)
         /\ pc' = IF back = N THEN "failed" ELSE "scan"
  /\ UNCHANGED <<input, s, result>>

\* Mutant: the search starts again from the entry that is given up.
Backtrack_Same ==
  /\ pc = "scan" /\ first = N + 1
  /\ candidates # << >>
  /\ LET back == candidates[Len(candidates)]
     IN  /\ first' = back
         /\ candidates' = SubSeq(candidates, 1, Len(candidates) - 1)
         /\ s' = s - x[back]
         /\ pc' = IF back = N THEN "failed" ELSE "scan"
  /\ UNCHANGED <<input, result>>

\* The last candidate is given up; the outer loop ends when it was at the last position.
Backtrack ==
  /\ pc = "scan" /\ first = N + 1
  /\ candidates # << >>
  /\ LET back == candidates[Len(candidates)]
     IN  /\ first' = back + 1
         /\ candidates' = SubSeq(candidates, 1, Len(candidates) - 1)
         /\ s' = s - x[back]
         /\ pc' = IF back = N THEN "failed" ELSE "scan"
  /\ UNCHANGED <<input, result>>

Ended == pc \in {"found", "failed"}

Terminated == Ended /\ UNCHANGED vars

Next == Hit \/ Take \/ Skip \/ Backtrack \/ Terminated

Spec == Init /\ [][Next]_vars /\ WF_vars(Next)

-----------------------------------------------------------------------------
\* The positions stay in the array, in increasing order.
TypeOK ==
  /\ first \in 1 .. N + 1
  /\ \A i \in 1 .. Len(candidates) : candidates[i] \in 1 .. N
  /\ \A i \in 1 .. Len(candidates) - 1 : candidates[i] < candidates[i + 1]
  /\ pc \in {"scan", "found", "failed"}

\* The positions found have the wanted sum, and the running sum is the one of the
\* candidates through every retreat.
Sound ==
  /\ s = SumAt(x, {candidates[i] : i \in 1 .. Len(candidates)})
  /\ pc = "found" => SumAt(x, result) = target

\* The loops compute what the function that the balancing uses says.
MatchesFunction ==
  Ended => result = subset_sum_positions(x, N, target)

\* Through every retreat the running sum and the candidates agree, and what is returned at the
\* end is what the function says, with the wanted sum.
SearchExact == TypeOK /\ Sound /\ MatchesFunction

\* The search ends, without the limit on the iterations.
Termination == <>Ended

\* subset_sum.pybind.cpp: "return (if existing) a list of indices such that
\* array[indices].sum == target".  isSubsetSum has told that one exists.
FindsExisting == pc # "failed"
=============================================================================
