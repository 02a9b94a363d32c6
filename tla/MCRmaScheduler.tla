--------------------------- MODULE MCRmaScheduler ---------------------------
(* Values of the parameters of RmaScheduler for TLC. *)
EXTENDS RmaScheduler

\* A pair, a test that does not fit, the whole communicator, a lone rank.
MCNeed == [t \in Test |-> <<2, NRank + 1, NRank, 1>>[t + 1]]

\* The count window zero filled, with a test found complete, with a count beyond the
\* ranks of the test, and with a test that has lost a place.
MCFreshCounts ==
  LET Counts(s) == [t \in Test |-> s[t + 1]]
  IN  {Counts(<<0, 0, 0, 0>>), Counts(<<2, 0, 0, 0>>), Counts(<<0, 1, 4, 0>>),
       Counts(<<0, 0, 1, 0>>)}

\* The list window holding what is no rank, or a rank of the communicator.
MCFreshLists == {[t \in Test |-> [k \in Place(t) |-> g]] : g \in {-1, 2}}
=============================================================================
