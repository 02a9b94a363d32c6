-------------------------- MODULE BalanceParameters --------------------------
(* The parameters of the balancings of several zones. *)
EXTENDS SubsetSum, SequencesExt

CONSTANTS
  NRank,     \* number of ranks
  AsyncMpi   \* n_elem_async_mpi

ASSUME BalanceAssumption == NRank \in Nat \ {0} /\ AsyncMpi \in Nat

Rank == 0 .. NRank - 1
=============================================================================
