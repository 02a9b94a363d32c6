---------------------------- MODULE RmaScheduler ----------------------------
(***************************************************************************)
(* run_scheduler_old: every rank walks the test suite in order and claims  *)
(* a place in each test through two one-sided MPI windows, both held by    *)
(* rank 0 (dtest_proc = <<0, n, ..., n>>, so i_target_rank = 0 for every   *)
(* test).  The count window holds, per test, the places taken; the list    *)
(* window holds the claimants.  A claim is a Get and a Put of the count    *)
(* under an exclusive window lock, with the Put of the rank nested in it.  *)
(* A claimant then polls the count under a shared lock until the test is   *)
(* complete, reads the list and creates the communicator of the test.      *)
(***************************************************************************)
EXTENDS SchedulerParameters, Sequences, FiniteSets

CONSTANTS
  FreshCounts,  \* the contents MPI_Win_allocate may leave in the count window
  FreshLists    \* and in the list window

Place(t) == 1 .. Need[t]

\* Any content, but for a count below zero: it would send the Put of a claimant's rank
\* to the places of an earlier test.
ASSUME FreshAssumption ==
  /\ FreshCounts \subseteq [Test -> Nat]
  /\ \A l \in FreshLists : DOMAIN l = Test /\ \A t \in Test : l[t] \in [Place(t) -> Int]

VARIABLES
  count,    \* count window: count[t] places taken in test t
  start,    \* start[t]: count[t] as MPI_Win_allocate left it (history)
  list,     \* list window: list[t][k] the claimant of place k of test t
  countX,   \* the ranks holding the count window lock in exclusive mode
  countS,   \* the ranks holding it in shared mode
  listX,    \* the ranks holding the list window lock (always exclusive)
  pc,       \* where each rank is in its loop
  itest,    \* itest[r]: i_test_g
  remote,   \* remote[r]: remote_copy_count_rank[0]
  group,    \* group[r]: the copy of list[itest[r]] the rank builds its group from
  joined,   \* joined[t]: the ranks that have entered MPI_Comm_create_group of t
  ran       \* ran[t]: the ranks that have executed test t

vars == <<count, start, list, countX, countS, listX, pc, itest, remote, group, joined, ran>>
winVars == <<count, start, list>>
lockVars == <<countX, countS, listX>>

Locations == {"loop", "get_count", "put_count", "lock_list", "put_list",
              "claimed", "refused", "spin", "spin_get", "lock_read", "get_list",
              "group", "create", "run", "win_free", "done",
              "assert_failed", "mpi_error"}

(***************************************************************************)
(* MPI_Win_allocate leaves the windows as the allocator found them; the    *)
(* loops that would zero them are commented out.  Ranks start after the    *)
(* MPI_Barrier that follows the allocation.                                *)
(***************************************************************************)
Init ==
  /\ start \in FreshCounts /\ count = start
  /\ list \in FreshLists
  /\ countX = {} /\ countS = {} /\ listX = {}
  /\ pc = [r \in Rank |-> "loop"]
  /\ itest = [r \in Rank |-> 0]
  /\ remote = [r \in Rank |-> -1]
  /\ group = [r \in Rank |-> << >>]
  /\ joined = [t \in Test |-> {}]
  /\ ran = [t \in Test |-> {}]

Goto(r, l) == pc' = [pc EXCEPT ![r] = l]

NextTest(r) ==
  /\ itest' = [itest EXCEPT ![r] = @ + 1]
  /\ Goto(r, "loop")

-----------------------------------------------------------------------------
\* A test asking for more ranks than the communicator has is passed over.
SkipTest(r) ==
  /\ pc[r] = "loop" /\ itest[r] < NTest
  /\ Need[itest[r]] > NRank
  /\ NextTest(r)
  /\ UNCHANGED <<winVars, lockVars, remote, group, joined, ran>>

(***************************************************************************)
(* update_window_to_match_test                                             *)
(***************************************************************************)
\* Mutant: the claim is made under a shared lock.
LockCount_Shared(r) ==
  /\ pc[r] = "loop" /\ itest[r] < NTest
  /\ Need[itest[r]] <= NRank
  /\ countX' = countX \cup {r}
  /\ Goto(r, "get_count")
  /\ UNCHANGED <<winVars, countS, listX, itest, remote, group, joined, ran>>

\* Mutant: a test that asks for more ranks than there are is claimed as well.
LockCount_AnySize(r) ==
  /\ pc[r] = "loop" /\ itest[r] < NTest
  /\ countX = {} /\ countS = {}
  /\ countX' = {r}
  /\ Goto(r, "get_count")
  /\ UNCHANGED <<winVars, countS, listX, itest, remote, group, joined, ran>>

LockCount(r) ==
  /\ pc[r] = "loop" /\ itest[r] < NTest
  /\ Need[itest[r]] <= NRank
  /\ countX = {} /\ countS = {}
  /\ countX' = {r}
  /\ Goto(r, "get_count")
  /\ UNCHANGED <<winVars, countS, listX, itest, remote, group, joined, ran>>

GetCount(r) ==
  /\ pc[r] = "get_count"
  /\ remote' = [remote EXCEPT ![r] = count[itest[r]]]
  /\ Goto(r, IF count[itest[r]] < Need[itest[r]] THEN "put_count" ELSE "refused")
  /\ UNCHANGED <<winVars, lockVars, itest, group, joined, ran>>

PutCount(r) ==
  /\ pc[r] = "put_count"
  /\ remote' = [remote EXCEPT ![r] = @ + 1]
  /\ count' = [count EXCEPT ![itest[r]] = remote[r] + 1]
  /\ Goto(r, "lock_list")
  /\ UNCHANGED <<start, list, lockVars, itest, group, joined, ran>>

\* The list window is locked while the count window still is.
LockList(r) ==
  /\ pc[r] = "lock_list"
  /\ listX = {}
  /\ listX' = {r}
  /\ Goto(r, "put_list")
  /\ UNCHANGED <<winVars, countX, countS, itest, remote, group, joined, ran>>

\* Mutant: the claimant always writes the first place.
PutList_First(r) ==
  /\ pc[r] = "put_list"
  /\ list' = [list EXCEPT ![itest[r]][1] = r]
  /\ listX' = listX \ {r}
  /\ Goto(r, "claimed")
  /\ UNCHANGED <<count, start, countX, countS, itest, remote, group, joined, ran>>

PutList(r) ==
  /\ pc[r] = "put_list"
  /\ list' = [list EXCEPT ![itest[r]][remote[r]] = r]
  /\ listX' = listX \ {r}
  /\ Goto(r, "claimed")
  /\ UNCHANGED <<count, start, countX, countS, itest, remote, group, joined, ran>>

\* The count window is released and run_this_test returned: true after a claim ...
UnlockClaimed(r) ==
  /\ pc[r] = "claimed"
  /\ countX' = countX \ {r}
  /\ Goto(r, "spin")
  /\ UNCHANGED <<winVars, countS, listX, itest, remote, group, joined, ran>>

\* Mutant: the loop variable is advanced in the body and again by the loop.
UnlockRefused_Twice(r) ==
  /\ pc[r] = "refused"
  /\ countX' = countX \ {r}
  /\ itest' = [itest EXCEPT ![r] = @ + 2]
  /\ Goto(r, "loop")
  /\ UNCHANGED <<winVars, countS, listX, remote, group, joined, ran>>

\* ... and false when the test was complete already, which ends the loop body.
UnlockRefused(r) ==
  /\ pc[r] = "refused"
  /\ countX' = countX \ {r}
  /\ NextTest(r)
  /\ UNCHANGED <<winVars, countS, listX, remote, group, joined, ran>>

(***************************************************************************)
(* The polling loop: while( !is_ready_with_other && run_this_test )        *)
(***************************************************************************)
LockShared(r) ==
  /\ pc[r] = "spin"
  /\ countX = {}
  /\ countS' = countS \cup {r}
  /\ Goto(r, "spin_get")
  /\ UNCHANGED <<winVars, countX, listX, itest, remote, group, joined, ran>>

\* Mutant: the poll stops one claimant too early.
PollCount_Early(r) ==
  /\ pc[r] = "spin_get"
  /\ remote' = [remote EXCEPT ![r] = count[itest[r]]]
  /\ countS' = countS \ {r}
  /\ Goto(r, IF count[itest[r]] >= Need[itest[r]] - 1 THEN "lock_read" ELSE "spin")
  /\ UNCHANGED <<winVars, countX, listX, itest, group, joined, ran>>

PollCount(r) ==
  /\ pc[r] = "spin_get"
  /\ remote' = [remote EXCEPT ![r] = count[itest[r]]]
  /\ countS' = countS \ {r}
  /\ Goto(r, IF count[itest[r]] = Need[itest[r]] THEN "lock_read" ELSE "spin")
  /\ UNCHANGED <<winVars, countX, listX, itest, group, joined, ran>>

(***************************************************************************)
(* update_list_rank_for_test                                               *)
(***************************************************************************)
LockListForRead(r) ==
  /\ pc[r] = "lock_read"
  /\ listX = {}
  /\ listX' = {r}
  /\ Goto(r, "get_list")
  /\ UNCHANGED <<winVars, countX, countS, itest, remote, group, joined, ran>>

\* Mutant: the first reader clears the list.
GetList_Reset(r) ==
  /\ pc[r] = "get_list"
  /\ group' = [group EXCEPT ![r] = list[itest[r]]]
  /\ list' = [list EXCEPT ![itest[r]] = [k \in Place(itest[r]) |-> 0]]
  /\ listX' = listX \ {r}
  /\ Goto(r, "group")
  /\ UNCHANGED <<count, start, countX, countS, itest, remote, joined, ran>>

GetList(r) ==
  /\ pc[r] = "get_list"
  /\ group' = [group EXCEPT ![r] = list[itest[r]]]
  /\ listX' = listX \ {r}
  /\ Goto(r, "group")
  /\ UNCHANGED <<winVars, countX, countS, itest, remote, joined, ran>>

\* Mutant: only the first rank of the group finds itself in it.
Member_First(r) == group[r][1] = r

Member(r) == \E k \in DOMAIN group[r] : group[r][k] = r

\* MPI_Group_incl takes distinct ranks of the communicator; anything else is an MPI
\* error, fatal under the default handler.
Includes(r) ==
  /\ \A k \in DOMAIN group[r] : group[r][k] \in Rank
  /\ \A j, k \in DOMAIN group[r] : group[r][j] = group[r][k] => j = k

\* MPI_Group_incl, then assert( i_rank_group != MPI_UNDEFINED) and the call of
\* MPI_Comm_create_group.
EnterCreateGroup(r) ==
  /\ pc[r] = "group"
  /\ joined' = [joined EXCEPT ![itest[r]] = IF Includes(r) /\ Member(r) THEN @ \cup {r} ELSE @]
  /\ Goto(r, IF ~ Includes(r) THEN "mpi_error"
             ELSE IF Member(r) THEN "create" ELSE "assert_failed")
  /\ UNCHANGED <<winVars, lockVars, itest, remote, group, ran>>

\* The collective returns once every member of the caller's group has entered it.
LeaveCreateGroup(r) ==
  /\ pc[r] = "create"
  /\ \A k \in DOMAIN group[r] : group[r][k] \in joined[itest[r]]
  /\ Goto(r, "run")
  /\ UNCHANGED <<winVars, lockVars, itest, remote, group, joined, ran>>

\* tests_suite[i_test_g](test_comm), then the communicator and the group are freed.
RunTest(r) ==
  /\ pc[r] = "run"
  /\ ran' = [ran EXCEPT ![itest[r]] = @ \cup {r}]
  /\ group' = [group EXCEPT ![r] = << >>]
  /\ NextTest(r)
  /\ UNCHANGED <<winVars, lockVars, remote, joined>>

\* End of the loop: MPI_Win_free is collective on the communicator.
EnterWinFree(r) ==
  /\ pc[r] = "loop" /\ itest[r] = NTest
  /\ Goto(r, "win_free")
  /\ UNCHANGED <<winVars, lockVars, itest, remote, group, joined, ran>>

LeaveWinFree(r) ==
  /\ pc[r] = "win_free"
  /\ \A q \in Rank : pc[q] \in {"win_free", "done"}
  /\ Goto(r, "done")
  /\ UNCHANGED <<winVars, lockVars, itest, remote, group, joined, ran>>

-----------------------------------------------------------------------------
RankStep(r) ==
  \/ SkipTest(r)
  \/ LockCount(r) \/ GetCount(r) \/ PutCount(r)
  \/ LockList(r) \/ PutList(r)
  \/ UnlockClaimed(r) \/ UnlockRefused(r)
  \/ LockShared(r) \/ PollCount(r)
  \/ LockListForRead(r) \/ GetList(r)
  \/ EnterCreateGroup(r) \/ LeaveCreateGroup(r) \/ RunTest(r)
  \/ EnterWinFree(r) \/ LeaveWinFree(r)

Finished == \A r \in Rank : pc[r] = "done"

\* The ranks have left run_scheduler_old.
Terminated == Finished /\ UNCHANGED vars

Next == (\E r \in Rank : RankStep(r)) \/ Terminated

Spec == Init /\ [][Next]_vars

\* The rank has called MPI_Win_lock in exclusive mode on the count window.
Requests(r) == pc[r] = "loop" /\ itest[r] < NTest /\ Need[itest[r]] <= NRank

\* Every rank keeps running.  Nothing is assumed of the window lock: MPI_Win_lock
\* promises no order, and the pollers take and release the shared lock over and over.
Fairness == \A r \in Rank : WF_vars(RankStep(r))

FairSpec == Spec /\ Fairness

-----------------------------------------------------------------------------
(***************************************************************************)
(* Properties                                                              *)
(***************************************************************************)
Writing == {"lock_list", "put_list"}
Waiting == {"claimed", "spin", "spin_get"}
Complete == {"lock_read", "get_list", "group", "create", "run", "mpi_error"}
Grouped == {"group", "create", "run", "mpi_error"}

\* Every variable keeps the type its declaration in run_scheduler_old gives it.
TypeOK ==
  /\ count \in [Test -> Int] /\ start \in [Test -> Nat]
  /\ DOMAIN list = Test
  /\ \A t \in Test : list[t] \in [Place(t) -> Int]
  /\ countX \in SUBSET Rank /\ countS \in SUBSET Rank /\ listX \in SUBSET Rank
  /\ pc \in [Rank -> Locations]
  /\ itest \in [Rank -> 0 .. NTest]
  /\ remote \in [Rank -> Int]
  /\ group \in [Rank -> Seq(Int)]
  /\ joined \in [Test -> SUBSET Rank]
  /\ ran \in [Test -> SUBSET Rank]
  /\ \A r \in Rank : pc[r] \notin {"loop", "win_free", "done"} => itest[r] \in Test

\* The ranks that have taken a place in test t.
Claimants(t) ==
  ran[t] \cup {r \in Rank : itest[r] = t /\ pc[r] \in Writing \cup Waiting \cup Complete}

\* The count window grows by one for each rank that takes a place in the test: no
\* increment of update_window_to_match_test is lost or made twice.
CountsRanks == \A t \in Test : count[t] = start[t] + Cardinality(Claimants(t))

\* The ranks of one test build their group from the same list.  Whatever the windows
\* held at first, its places above the initial count name distinct ranks of the
\* communicator, the builder among them; with an initial count of zero that is the
\* precondition of MPI_Group_incl, of the collective MPI_Comm_create_group and of the
\* assertion between them.
GroupAgreement ==
  \A r \in Rank : pc[r] \in Grouped =>
    LET taken == start[itest[r]] + 1 .. Need[itest[r]]
    IN  /\ \A k \in taken : group[r][k] \in Rank
        /\ \A j, k \in taken : group[r][j] = group[r][k] => j = k
        /\ \E k \in taken : group[r][k] = r
        /\ \A q \in Rank : pc[q] \in Grouped /\ itest[q] = itest[r] => group[q] = group[r]

\* No rank fails assert( i_rank_group != MPI_UNDEFINED).
AssertionHolds == \A r \in Rank : pc[r] # "assert_failed"

\* When the windows are freed, each test that fits and whose count started at zero has
\* been executed by exactly the ranks it asked for, and every other test by none: the
\* loop leaves no test half staffed behind, whatever the windows held at first.
AllStaffed ==
  Finished => \A t \in Test :
    Cardinality(ran[t]) = IF Need[t] <= NRank /\ start[t] = 0 THEN Need[t] ELSE 0

\* No claim is lost or counted twice on the way, and in the end every test has its team.
TestsStaffed == CountsRanks /\ AllStaffed

\* Once a rank has seen a test complete, nobody writes the list of that test: the
\* copies that the members read one after the other are equal.
CompleteListFrozen ==
  [][\A r \in Rank : pc[r] \in Complete => list'[itest[r]] = list[itest[r]]]_vars

\* Every rank leaves run_scheduler_old, unless a request of the exclusive lock is never
\* served: no claimant polls for ever for a partner that is waiting in another test or
\* does not exist.  A test some of whose places nobody took (an initial count between
\* zero and its ranks) is out of it: its team cannot be completed.
Termination ==
  (\A t \in Test : start[t] = 0 \/ start[t] >= Need[t]) =>
    (<>Finished \/ \E r \in Rank : <>[]Requests(r))

\* The places of test t whose claimant has been written in the list window.
Written(t) ==
  IF \E r \in Rank : itest[r] = t /\ pc[r] \in Writing THEN count[t] - 1 ELSE count[t]

\* The roster of each test: the part of its list written since the allocation.
RosterOf ==
  [t \in Test |-> [k \in 1 .. Written(t) - start[t] |-> list[t][start[t] + k]]]

Teams == INSTANCE TestTeams WITH roster <- RosterOf, taken <- start

\* run_scheduler_old implements the promise of TestTeams, the list window being the
\* rosters.
ImplementsTeams == Teams!TeamSpec
=============================================================================
