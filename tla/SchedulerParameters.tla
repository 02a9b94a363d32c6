------------------------- MODULE SchedulerParameters -------------------------
(***************************************************************************)
(* The arguments of run_scheduler_old: the communicator, and the number of *)
(* ranks each test of the suite asks for.                                  *)
(***************************************************************************)
EXTENDS Integers

CONSTANTS
  NRank,   \* size of the world communicator
  NTest,   \* number of tests of the suite
  Need     \* Need[t]: the ranks test t asks for (n_rank_for_test)

Rank == 0 .. NRank - 1
Test == 0 .. NTest - 1

ASSUME ConstAssumption ==
  /\ NRank \in Nat \ {0}
  /\ NTest \in Nat
  /\ Need \in [Test -> Nat]
=============================================================================
