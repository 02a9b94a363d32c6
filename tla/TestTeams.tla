------------------------------ MODULE TestTeams ------------------------------
(***************************************************************************)
(* What a test scheduler promises, whatever its protocol: each test that   *)
(* fits in the communicator gets a roster of distinct ranks, one at a time *)
(* up to the number it asks for; only a complete roster runs, every member *)
(* runs it once, and a rank sits on one unfinished roster at most.  Places *)
(* may be taken from the start, by nobody: they are lost, and a test that  *)
(* has such a place is never run by the part of a team that it can get.    *)
(***************************************************************************)
EXTENDS SchedulerParameters, Sequences

VARIABLES
  taken,   \* taken[t]: the places of t that nobody took
  roster,  \* roster[t]: the ranks enlisted for t, in order of enlistment
  ran      \* ran[t]: the ranks that have executed t

teamVars == <<taken, roster, ran>>

Listed(r, t) == \E k \in DOMAIN roster[t] : roster[t][k] = r

TeamInit ==
  /\ taken \in [Test -> Nat]
  /\ roster = [t \in Test |-> << >>]
  /\ ran = [t \in Test |-> {}]

Enlist(r, t) ==
  /\ Need[t] <= NRank
  /\ taken[t] + Len(roster[t]) < Need[t]
  /\ \A u \in Test : Listed(r, u) => r \in ran[u]
  /\ ~ Listed(r, t)
  /\ roster' = [roster EXCEPT ![t] = Append(@, r)]
  /\ UNCHANGED <<taken, ran>>

Execute(r, t) ==
  /\ Len(roster[t]) = Need[t]
  /\ Listed(r, t)
  /\ r \notin ran[t]
  /\ ran' = [ran EXCEPT ![t] = @ \cup {r}]
  /\ UNCHANGED <<taken, roster>>

TeamNext == \E r \in Rank, t \in Test : Enlist(r, t) \/ Execute(r, t)

TeamSpec == TeamInit /\ [][TeamNext]_teamVars
=============================================================================
