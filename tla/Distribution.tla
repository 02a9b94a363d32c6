---------------------------- MODULE Distribution ----------------------------
(***************************************************************************)
(* Distributions of maia: how an array of global size n is cut into one    *)
(* block per rank.  A full distribution is the array of the NRank + 1      *)
(* bounds; a partial one is, on each rank, <<start, end, total>>.          *)
(* Everything here is a pure function of the arguments; a value that the   *)
(* code holds once per rank is a function on Rank.                         *)
(***************************************************************************)
EXTENDS Integers, Sequences

CONSTANT NRank      \* size of the communicator

ASSUME NRankAssumption == NRank \in Nat \ {0}

Rank == 0 .. NRank - 1

\* py_utils.uniform_distribution_at: the bounds of interval i of n_interval.
uniform_distribution_at(n, i, n_interval) ==
  LET step == n \div n_interval
      remainder == n % n_interval
      inf == IF i < remainder THEN i * (step + 1) ELSE i * step + remainder
  IN  <<inf, inf + step + (IF i < remainder THEN 1 ELSE 0)>>

uniform_distribution(n) ==
  [r \in Rank |-> LET u == uniform_distribution_at(n, r, NRank) IN <<u[1], u[2], n>>]

\* Mutant: the ranks after the gathering one start at zero too.
gathering_distribution_Zero(i_rank, n) ==
  [r \in Rank |-> <<0, IF r = i_rank THEN n ELSE 0, n>>]

gathering_distribution(i_rank, n) ==
  [r \in Rank |-> <<IF r <= i_rank THEN 0 ELSE n, IF r < i_rank THEN 0 ELSE n, n>>]

\* An Allgather of one value per rank, a leading zero, and the cumulated sum.
gather_and_shift(value) ==
  LET cumsum[i \in 0 .. NRank] == IF i = 0 THEN 0 ELSE cumsum[i - 1] + value[i - 1]
  IN  cumsum

partial_to_full_distribution(partial) ==
  gather_and_shift([r \in Rank |-> partial[r][2] - partial[r][1]])

\* Two ranks: a partial distribution has the size of a full one, and the one rank 0
\* holds is broadcast as if it were full.
auto_expand_distri(partial) ==
  IF NRank = 2 THEN [i \in 0 .. 2 |-> partial[0][i + 1]]
  ELSE partial_to_full_distribution(partial)

\* 'uniform' and 'gather.<rank>' ('gather' is 'gather.0').
Policy == [type : {"uniform"}, rank : {0}] \cup [type : {"gather"}, rank : Rank]

interpret_policy(policy, n) ==
  IF policy.type = "uniform" THEN uniform_distribution(n)
  ELSE gathering_distribution(policy.rank, n)

-----------------------------------------------------------------------------
(***************************************************************************)
(* The arithmetic of a block to block exchange between two full            *)
(* distributions.                                                          *)
(***************************************************************************)
MinOf(a, b) == IF a <= b THEN a ELSE b
MaxOf(a, b) == IF a <= b THEN b ELSE a

\* Mutant: disjoint intervals overlap by a negative size.
_overlap_size_Signed(start1, end1, start2, end2) == MinOf(end1, end2) - MaxOf(start1, start2)

_overlap_size(start1, end1, start2, end2) ==
  MaxOf(MinOf(end1, end2) - MaxOf(start1, start2), 0)

send_counts(din, dout, r) ==
  [i \in Rank |-> _overlap_size(din[r], din[r + 1], dout[i], dout[i + 1])]

recv_counts(din, dout, r) ==
  [i \in Rank |-> _overlap_size(dout[r], dout[r + 1], din[i], din[i + 1])]

\* The part of a rank's buffer that Alltoallv sends to rank i: the counts are laid out
\* one after the other.
Chunk(data, counts, i) ==
  LET at == gather_and_shift(counts) IN SubSeq(data, at[i] + 1, at[i + 1])

\* The buffer of rank r filled by Alltoallv with the chunks of all ranks, in rank order.
Alltoallv(data, counts, r) ==
  LET upto[i \in 0 .. NRank] ==
        IF i = 0 THEN << >> ELSE upto[i - 1] \o Chunk(data[i - 1], counts[i - 1], r)
  IN  upto[NRank]

\* block_to_block on partial distributions, constant stride 1; equal distributions go
\* through SerialBlockToBlock, a copy.
block_to_block(data, distri_in, distri_out) ==
  LET din  == auto_expand_distri(distri_in)
      dout == auto_expand_distri(distri_out)
  IN  IF din = dout THEN data
      ELSE [r \in Rank |-> Alltoallv(data, [i \in Rank |-> send_counts(din, dout, i)], r)]

-----------------------------------------------------------------------------
\* Reference notions used by the properties of several modules.

\* The blocks of a partial distribution follow each other from 0 to the total.
Tiles(partial, n) ==
  /\ partial[0][1] = 0 /\ partial[NRank - 1][2] = n
  /\ \A r \in Rank : partial[r][1] <= partial[r][2] /\ partial[r][3] = n
  /\ \A r \in Rank \ {0} : partial[r][1] = partial[r - 1][2]

\* The block of a global array that a partial distribution gives to rank r.
BlockOf(global, partial, r) == SubSeq(global, partial[r][1] + 1, partial[r][2])
=============================================================================
