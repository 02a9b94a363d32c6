------------------------- MODULE RmaScheduler_proofs -------------------------
(***************************************************************************)
(* Proofs about RmaScheduler for every number of ranks, every suite and    *)
(* every number of ranks per test, whatever counts (not below zero) and    *)
(* lists MPI_Win_allocate left in the windows.                             *)
(***************************************************************************)
EXTENDS RmaScheduler, FiniteSetTheorems, TLAPS

Holding == {"get_count", "put_count", "lock_list", "put_list", "claimed", "refused"}

\* r has a place in test t and its rank is in the list window.
Placed(r, t) == r \in ran[t] \/ (itest[r] = t /\ pc[r] \in Waiting \cup Complete)

\* The location of a rank tells what it holds, and the window lock excludes.
Exclusion ==
  /\ \A r \in Rank : r \in countX <=> pc[r] \in Holding
  /\ \A r \in Rank : r \in countS <=> pc[r] = "spin_get"
  /\ \A r, q \in Rank : pc[r] \in Holding /\ pc[q] \in Holding => r = q
  /\ \A r, q \in Rank : pc[r] \in Holding => pc[q] # "spin_get"

\* Between its Get and the Put of its rank, the copy of the holder is up to date.
Claiming ==
  \A r \in Rank :
    /\ pc[r] = "put_count" => remote[r] = count[itest[r]] /\ count[itest[r]] < Need[itest[r]]
    /\ pc[r] \in Writing => /\ remote[r] = count[itest[r]]
                         /\ count[itest[r]] \in start[itest[r]] + 1 .. Need[itest[r]]

\* The count only grows, and stops growing at the ranks the test asks for.
CountBound ==
  \A t \in Test : count[t] >= start[t] /\ (count[t] <= Need[t] \/ count[t] = start[t])

\* The places of test t written since the allocation.
Filled(t) == start[t] + 1 .. Written(t)

\* They name distinct ranks that have a place, and all of those.
Listing ==
  \A t \in Test : \A k \in Filled(t) : list[t][k] \in Rank /\ Placed(list[t][k], t)

Distinct ==
  \A t \in Test : \A j, k \in Filled(t) : list[t][j] = list[t][k] => j = k

Listed ==
  \A t \in Test : \A r \in Rank :
    Placed(r, t) => \E k \in Filled(t) : list[t][k] = r

Past == \A t \in Test : \A r \in Rank : r \in ran[t] => t < itest[r]

\* A test seen complete stays complete, with no place still to be written.
Frozen ==
  \A r \in Rank : pc[r] \in Complete =>
    /\ count[itest[r]] = Need[itest[r]]
    /\ \A q \in Rank : itest[q] = itest[r] => pc[q] \notin Writing

GroupIsList == \A r \in Rank : pc[r] \in Grouped => group[r] = list[itest[r]]

\* Only a test that fits in the communicator is entered.
Fits ==
  \A r \in Rank : pc[r] \notin {"loop", "win_free", "done"} => Need[itest[r]] <= NRank

\* Only ranks that have a place join the collective, with a group MPI accepts.
Joining == \A t \in Test : \A r \in joined[t] : Placed(r, t)

Creating == \A r \in Rank : pc[r] = "create" => Includes(r)

\* A test that has lost a place from the start is not executed.
Whole ==
  /\ \A r \in Rank : pc[r] = "run" => start[itest[r]] = 0
  /\ \A t \in Test : ran[t] # {} => start[t] = 0

IndInv ==
  /\ TypeOK /\ Exclusion /\ Fits /\ Claiming /\ CountBound
  /\ Listing /\ Distinct /\ Listed /\ Past
  /\ Frozen /\ GroupIsList /\ AssertionHolds
  /\ Joining /\ Creating /\ Whole
-----------------------------------------------------------------------------
(***************************************************************************)
(* Typing                                                                  *)
(***************************************************************************)
\* The loop index of a rank still in the loop is a test, and its successor is a loop
\* index.
LEMMA TestIndex ==
  /\ \A i \in 0 .. NTest : i < NTest => i \in Test
  /\ \A t \in Test : t + 1 \in 0 .. NTest /\ t \in 0 .. NTest /\ t < t + 1
  /\ \A t \in Test : Need[t] \in Nat
  BY ConstAssumption DEF Test

\* The windows, the locks and the locals of run_scheduler_old keep their types
\* through every step of every rank.
LEMMA TypeStep == TypeOK /\ [Next]_vars => TypeOK'
<1> SUFFICES ASSUME TypeOK, [Next]_vars PROVE TypeOK'
  OBVIOUS
<1> USE DEF TypeOK, Goto, NextTest, winVars, lockVars
<1>1. ASSUME NEW r \in Rank, SkipTest(r) PROVE TypeOK'
  BY <1>1, TestIndex DEF SkipTest, Locations
<1>2. ASSUME NEW r \in Rank, LockCount(r) PROVE TypeOK'
  BY <1>2, TestIndex DEF LockCount, Locations
<1>3. ASSUME NEW r \in Rank, GetCount(r) PROVE TypeOK'
  BY <1>3, TestIndex DEF GetCount, Locations
<1>4. ASSUME NEW r \in Rank, PutCount(r) PROVE TypeOK'
  <2> USE <1>4 DEF PutCount
  <2>1. pc' \in [Rank -> Locations] /\ remote' \in [Rank -> Int]
    BY DEF Locations
  <2>2. remote[r] + 1 \in Int
    OBVIOUS
  <2>3. count' \in [Test -> Int]
    BY <2>2
  <2> QED
    BY <2>1, <2>3
<1>5. ASSUME NEW r \in Rank, LockList(r) PROVE TypeOK'
  BY <1>5, TestIndex DEF LockList, Locations
<1>6. ASSUME NEW r \in Rank, PutList(r) PROVE TypeOK'
  <2> USE <1>6 DEF PutList
  <2>1. pc' \in [Rank -> Locations] /\ listX' \in SUBSET Rank
    BY DEF Locations
  <2>2. r \in Int
    BY ConstAssumption DEF Rank
  <2>3. DOMAIN list' = Test /\ \A t \in Test : list'[t] \in [Place(t) -> Int]
    BY <2>2
  <2> QED
    BY <2>1, <2>3
<1>7. ASSUME NEW r \in Rank, UnlockClaimed(r) PROVE TypeOK'
  BY <1>7, TestIndex DEF UnlockClaimed, Locations
<1>8. ASSUME NEW r \in Rank, UnlockRefused(r) PROVE TypeOK'
  <2> USE <1>8 DEF UnlockRefused
  <2>1. itest[r] \in Test /\ itest[r] + 1 \in 0 .. NTest
    BY TestIndex
  <2>2. itest' \in [Rank -> 0 .. NTest] /\ pc' \in [Rank -> Locations]
    BY <2>1 DEF Locations
  <2> QED
    BY <2>2
<1>9. ASSUME NEW r \in Rank, LockShared(r) PROVE TypeOK'
  BY <1>9, TestIndex DEF LockShared, Locations
<1>10. ASSUME NEW r \in Rank, PollCount(r) PROVE TypeOK'
  BY <1>10, TestIndex DEF PollCount, Locations
<1>11. ASSUME NEW r \in Rank, LockListForRead(r) PROVE TypeOK'
  BY <1>11, TestIndex DEF LockListForRead, Locations
<1>12. ASSUME NEW r \in Rank, GetList(r) PROVE TypeOK'
  <2> USE <1>12 DEF GetList
  <2>1. pc' \in [Rank -> Locations] /\ listX' \in SUBSET Rank
    BY DEF Locations
  <2>2. itest[r] \in Test
    OBVIOUS
  <2>3. list[itest[r]] \in Seq(Int)
    <3>1. Need[itest[r]] \in Nat /\ list[itest[r]] \in [1 .. Need[itest[r]] -> Int]
      BY <2>2, TestIndex DEF Place
    <3> HIDE <1>12 DEF TypeOK
    <3> QED
      BY <3>1
  <2>4. group' \in [Rank -> Seq(Int)]
    BY <2>3
  <2> QED
    BY <2>1, <2>4
<1>13. ASSUME NEW r \in Rank, EnterCreateGroup(r) PROVE TypeOK'
  <2> USE <1>13 DEF EnterCreateGroup
  <2>1. itest[r] \in Test /\ joined[itest[r]] \cup {r} \in SUBSET Rank
    OBVIOUS
  <2>2. joined' \in [Test -> SUBSET Rank]
    BY <2>1
  <2>3. pc' \in [Rank -> Locations]
    BY DEF Locations
  <2> QED
    BY <2>1, <2>2, <2>3
<1>14. ASSUME NEW r \in Rank, LeaveCreateGroup(r) PROVE TypeOK'
  BY <1>14, TestIndex DEF LeaveCreateGroup, Locations
<1>15. ASSUME NEW r \in Rank, RunTest(r) PROVE TypeOK'
  <2> USE <1>15 DEF RunTest
  <2>1. itest[r] \in Test
    OBVIOUS
  <2>2. ran' \in [Test -> SUBSET Rank]
    BY <2>1
  <2>3. itest' \in [Rank -> 0 .. NTest] /\ pc' \in [Rank -> Locations]
    BY <2>1, TestIndex DEF Locations
  <2>4. group' \in [Rank -> Seq(Int)]
    OBVIOUS
  <2> QED
    BY <2>2, <2>3, <2>4
<1>16. ASSUME NEW r \in Rank, EnterWinFree(r) PROVE TypeOK'
  BY <1>16, TestIndex DEF EnterWinFree, Locations
<1>17. ASSUME NEW r \in Rank, LeaveWinFree(r) PROVE TypeOK'
  BY <1>17, TestIndex DEF LeaveWinFree, Locations
<1>18. CASE UNCHANGED vars
  BY <1>18 DEF vars
<1> QED
  BY <1>1, <1>2, <1>3, <1>4, <1>5, <1>6, <1>7, <1>8, <1>9, <1>10, <1>11, <1>12, <1>13, <1>14, <1>15, <1>16, <1>17, <1>18 DEF Next, RankStep, Terminated

-----------------------------------------------------------------------------
(***************************************************************************)
(* The inductive invariant                                                 *)
(***************************************************************************)

\* The count window has one exclusive holder, which excludes pollers; what a rank
\* holds is told by its location.
LEMMA ExclusionStep == TypeOK /\ Exclusion /\ [Next]_vars => Exclusion'
<1> SUFFICES ASSUME TypeOK, Exclusion, [Next]_vars PROVE Exclusion'
  OBVIOUS
<1> USE DEF TypeOK, Exclusion, Holding, Goto, NextTest, winVars, lockVars
<1>1. ASSUME NEW r \in Rank, SkipTest(r) PROVE Exclusion'
  BY <1>1 DEF SkipTest
<1>2. ASSUME NEW r \in Rank, LockCount(r) PROVE Exclusion'
  BY <1>2 DEF LockCount
<1>3. ASSUME NEW r \in Rank, GetCount(r) PROVE Exclusion'
  BY <1>3 DEF GetCount
<1>4. ASSUME NEW r \in Rank, PutCount(r) PROVE Exclusion'
  BY <1>4 DEF PutCount
<1>5. ASSUME NEW r \in Rank, LockList(r) PROVE Exclusion'
  BY <1>5 DEF LockList
<1>6. ASSUME NEW r \in Rank, PutList(r) PROVE Exclusion'
  BY <1>6 DEF PutList
<1>7. ASSUME NEW r \in Rank, UnlockClaimed(r) PROVE Exclusion'
  BY <1>7 DEF UnlockClaimed
<1>8. ASSUME NEW r \in Rank, UnlockRefused(r) PROVE Exclusion'
  BY <1>8 DEF UnlockRefused
<1>9. ASSUME NEW r \in Rank, LockShared(r) PROVE Exclusion'
  BY <1>9 DEF LockShared
<1>10. ASSUME NEW r \in Rank, PollCount(r) PROVE Exclusion'
  BY <1>10 DEF PollCount
<1>11. ASSUME NEW r \in Rank, LockListForRead(r) PROVE Exclusion'
  BY <1>11 DEF LockListForRead
<1>12. ASSUME NEW r \in Rank, GetList(r) PROVE Exclusion'
  BY <1>12 DEF GetList
<1>13. ASSUME NEW r \in Rank, EnterCreateGroup(r) PROVE Exclusion'
  BY <1>13 DEF EnterCreateGroup
<1>14. ASSUME NEW r \in Rank, LeaveCreateGroup(r) PROVE Exclusion'
  BY <1>14 DEF LeaveCreateGroup
<1>15. ASSUME NEW r \in Rank, RunTest(r) PROVE Exclusion'
  BY <1>15 DEF RunTest
<1>16. ASSUME NEW r \in Rank, EnterWinFree(r) PROVE Exclusion'
  BY <1>16 DEF EnterWinFree
<1>17. ASSUME NEW r \in Rank, LeaveWinFree(r) PROVE Exclusion'
  BY <1>17 DEF LeaveWinFree
<1>18. CASE UNCHANGED vars
  BY <1>18 DEF vars
<1> QED
  BY <1>1, <1>2, <1>3, <1>4, <1>5, <1>6, <1>7, <1>8, <1>9, <1>10, <1>11, <1>12, <1>13, <1>14, <1>15, <1>16, <1>17, <1>18
     DEF Next, RankStep, Terminated

\* The copy the holder of the count window made with its Get is not outdated when
\* it is used by the two Puts.
LEMMA ClaimingStep == TypeOK /\ Exclusion /\ CountBound /\ Claiming /\ [Next]_vars => Claiming'
<1> SUFFICES ASSUME TypeOK, Exclusion, CountBound, Claiming, [Next]_vars PROVE Claiming'
  OBVIOUS
<1> USE DEF TypeOK, Exclusion, CountBound, Claiming, Holding, Writing, Place, Goto, NextTest, winVars, lockVars
<1>1. ASSUME NEW r \in Rank, SkipTest(r) PROVE Claiming'
  BY <1>1 DEF SkipTest
<1>2. ASSUME NEW r \in Rank, LockCount(r) PROVE Claiming'
  BY <1>2 DEF LockCount
<1>3. ASSUME NEW r \in Rank, GetCount(r) PROVE Claiming'
  BY <1>3 DEF GetCount
<1>4. ASSUME NEW r \in Rank, PutCount(r) PROVE Claiming'
  <2> USE <1>4 DEF PutCount
  <2>0. itest[r] \in Test
    OBVIOUS
  <2>1. /\ Need[itest[r]] \in Nat /\ start[itest[r]] \in Nat /\ count[itest[r]] \in Int
        /\ start[itest[r]] <= count[itest[r]]
        /\ count[itest[r]] < Need[itest[r]] /\ remote[r] = count[itest[r]]
    BY <2>0, TestIndex
  <2>2. /\ pc'[r] = "lock_list" /\ remote'[r] = remote[r] + 1
        /\ itest'[r] = itest[r] /\ count'[itest[r]] = remote[r] + 1
    BY <2>0
  <2>3. remote[r] + 1 \in start[itest[r]] + 1 .. Need[itest[r]] /\ start' = start
    BY <2>1
  <2>4. \A q \in Rank : q # r => pc'[q] \notin Holding
    OBVIOUS
  <2> QED
    BY <2>2, <2>3, <2>4
<1>5. ASSUME NEW r \in Rank, LockList(r) PROVE Claiming'
  BY <1>5 DEF LockList
<1>6. ASSUME NEW r \in Rank, PutList(r) PROVE Claiming'
  BY <1>6 DEF PutList
<1>7. ASSUME NEW r \in Rank, UnlockClaimed(r) PROVE Claiming'
  BY <1>7 DEF UnlockClaimed
<1>8. ASSUME NEW r \in Rank, UnlockRefused(r) PROVE Claiming'
  BY <1>8 DEF UnlockRefused
<1>9. ASSUME NEW r \in Rank, LockShared(r) PROVE Claiming'
  BY <1>9 DEF LockShared
<1>10. ASSUME NEW r \in Rank, PollCount(r) PROVE Claiming'
  BY <1>10 DEF PollCount
<1>11. ASSUME NEW r \in Rank, LockListForRead(r) PROVE Claiming'
  BY <1>11 DEF LockListForRead
<1>12. ASSUME NEW r \in Rank, GetList(r) PROVE Claiming'
  BY <1>12 DEF GetList
<1>13. ASSUME NEW r \in Rank, EnterCreateGroup(r) PROVE Claiming'
  BY <1>13 DEF EnterCreateGroup
<1>14. ASSUME NEW r \in Rank, LeaveCreateGroup(r) PROVE Claiming'
  BY <1>14 DEF LeaveCreateGroup
<1>15. ASSUME NEW r \in Rank, RunTest(r) PROVE Claiming'
  BY <1>15 DEF RunTest
<1>16. ASSUME NEW r \in Rank, EnterWinFree(r) PROVE Claiming'
  BY <1>16 DEF EnterWinFree
<1>17. ASSUME NEW r \in Rank, LeaveWinFree(r) PROVE Claiming'
  BY <1>17 DEF LeaveWinFree
<1>18. CASE UNCHANGED vars
  BY <1>18 DEF vars
<1> QED
  BY <1>1, <1>2, <1>3, <1>4, <1>5, <1>6, <1>7, <1>8, <1>9, <1>10, <1>11, <1>12, <1>13, <1>14, <1>15, <1>16, <1>17, <1>18
     DEF Next, RankStep, Terminated

\* A test does not run with one of its ranks ahead of or behind it in the loop.
LEMMA PastStep == TypeOK /\ Past /\ [Next]_vars => Past'
<1> SUFFICES ASSUME TypeOK, Past, [Next]_vars PROVE Past'
  OBVIOUS
<1> USE DEF TypeOK, Past, Goto, NextTest, winVars, lockVars
<1>1. ASSUME NEW r \in Rank, SkipTest(r) PROVE Past'
  <2>1. (\A q \in Rank : itest[q] \in Int) /\ \A t \in Test : t \in Int
    BY ConstAssumption DEF Test
  <2>2. itest'[r] = itest[r] + 1 /\ \A q \in Rank : q # r => itest'[q] = itest[q]
    BY <1>1 DEF SkipTest
  <2>3. \A t \in Test : \A q \in Rank : q \in ran'[t] => q \in ran[t] \/ (q = r /\ itest[r] = t)
    BY <1>1 DEF SkipTest
  <2>4. ASSUME NEW t \in Test, NEW q \in Rank, q \in ran'[t] PROVE t < itest'[q]
    <3>1. CASE q \in ran[t]
      <4>1. t < itest[q]
        BY <3>1
      <4>2. itest'[q] = itest[q] \/ itest'[q] = itest[q] + 1
        BY <2>2
      <4>3. itest[q] \in Int /\ t \in Int
        BY <2>1
      <4> HIDE DEF TypeOK, Past
      <4> QED
        BY <4>1, <4>2, <4>3
    <3>2. CASE q = r /\ itest[r] = t
      BY <2>1, <2>2, <3>2
    <3> QED
      BY <2>3, <2>4, <3>1, <3>2
  <2> QED
    BY <2>4
<1>2. ASSUME NEW r \in Rank, LockCount(r) PROVE Past'
  BY <1>2 DEF LockCount
<1>3. ASSUME NEW r \in Rank, GetCount(r) PROVE Past'
  BY <1>3 DEF GetCount
<1>4. ASSUME NEW r \in Rank, PutCount(r) PROVE Past'
  BY <1>4 DEF PutCount
<1>5. ASSUME NEW r \in Rank, LockList(r) PROVE Past'
  BY <1>5 DEF LockList
<1>6. ASSUME NEW r \in Rank, PutList(r) PROVE Past'
  BY <1>6 DEF PutList
<1>7. ASSUME NEW r \in Rank, UnlockClaimed(r) PROVE Past'
  BY <1>7 DEF UnlockClaimed
<1>8. ASSUME NEW r \in Rank, UnlockRefused(r) PROVE Past'
  <2>1. (\A q \in Rank : itest[q] \in Int) /\ \A t \in Test : t \in Int
    BY ConstAssumption DEF Test
  <2>2. itest'[r] = itest[r] + 1 /\ \A q \in Rank : q # r => itest'[q] = itest[q]
    BY <1>8 DEF UnlockRefused
  <2>3. \A t \in Test : \A q \in Rank : q \in ran'[t] => q \in ran[t] \/ (q = r /\ itest[r] = t)
    BY <1>8 DEF UnlockRefused
  <2>4. ASSUME NEW t \in Test, NEW q \in Rank, q \in ran'[t] PROVE t < itest'[q]
    <3>1. CASE q \in ran[t]
      <4>1. t < itest[q]
        BY <3>1
      <4>2. itest'[q] = itest[q] \/ itest'[q] = itest[q] + 1
        BY <2>2
      <4>3. itest[q] \in Int /\ t \in Int
        BY <2>1
      <4> HIDE DEF TypeOK, Past
      <4> QED
        BY <4>1, <4>2, <4>3
    <3>2. CASE q = r /\ itest[r] = t
      BY <2>1, <2>2, <3>2
    <3> QED
      BY <2>3, <2>4, <3>1, <3>2
  <2> QED
    BY <2>4
<1>9. ASSUME NEW r \in Rank, LockShared(r) PROVE Past'
  BY <1>9 DEF LockShared
<1>10. ASSUME NEW r \in Rank, PollCount(r) PROVE Past'
  BY <1>10 DEF PollCount
<1>11. ASSUME NEW r \in Rank, LockListForRead(r) PROVE Past'
  BY <1>11 DEF LockListForRead
<1>12. ASSUME NEW r \in Rank, GetList(r) PROVE Past'
  BY <1>12 DEF GetList
<1>13. ASSUME NEW r \in Rank, EnterCreateGroup(r) PROVE Past'
  BY <1>13 DEF EnterCreateGroup
<1>14. ASSUME NEW r \in Rank, LeaveCreateGroup(r) PROVE Past'
  BY <1>14 DEF LeaveCreateGroup
<1>15. ASSUME NEW r \in Rank, RunTest(r) PROVE Past'
  <2>1. (\A q \in Rank : itest[q] \in Int) /\ \A t \in Test : t \in Int
    BY ConstAssumption DEF Test
  <2>2. itest'[r] = itest[r] + 1 /\ \A q \in Rank : q # r => itest'[q] = itest[q]
    BY <1>15 DEF RunTest
  <2>3. \A t \in Test : \A q \in Rank : q \in ran'[t] => q \in ran[t] \/ (q = r /\ itest[r] = t)
    BY <1>15 DEF RunTest
  <2>4. ASSUME NEW t \in Test, NEW q \in Rank, q \in ran'[t] PROVE t < itest'[q]
    <3>1. CASE q \in ran[t]
      <4>1. t < itest[q]
        BY <3>1
      <4>2. itest'[q] = itest[q] \/ itest'[q] = itest[q] + 1
        BY <2>2
      <4>3. itest[q] \in Int /\ t \in Int
        BY <2>1
      <4> HIDE DEF TypeOK, Past
      <4> QED
        BY <4>1, <4>2, <4>3
    <3>2. CASE q = r /\ itest[r] = t
      BY <2>1, <2>2, <3>2
    <3> QED
      BY <2>3, <2>4, <3>1, <3>2
  <2> QED
    BY <2>4
<1>16. ASSUME NEW r \in Rank, EnterWinFree(r) PROVE Past'
  BY <1>16 DEF EnterWinFree
<1>17. ASSUME NEW r \in Rank, LeaveWinFree(r) PROVE Past'
  BY <1>17 DEF LeaveWinFree
<1>18. CASE UNCHANGED vars
  BY <1>18 DEF vars
<1> QED
  BY <1>1, <1>2, <1>3, <1>4, <1>5, <1>6, <1>7, <1>8, <1>9, <1>10, <1>11, <1>12, <1>13, <1>14, <1>15, <1>16, <1>17, <1>18
     DEF Next, RankStep, Terminated

\* Once a rank has polled the full count, no place of the test is written any more.
LEMMA FrozenStep == TypeOK /\ Exclusion /\ Claiming /\ Frozen /\ [Next]_vars => Frozen'
<1> SUFFICES ASSUME TypeOK, Exclusion, Claiming, Frozen, [Next]_vars PROVE Frozen'
  OBVIOUS
<1> USE DEF TypeOK, Exclusion, Claiming, Frozen, Holding, Writing, Complete, Goto, NextTest, winVars, lockVars
<1>1. ASSUME NEW r \in Rank, SkipTest(r) PROVE Frozen'
  BY <1>1 DEF SkipTest
<1>2. ASSUME NEW r \in Rank, LockCount(r) PROVE Frozen'
  BY <1>2 DEF LockCount
<1>3. ASSUME NEW r \in Rank, GetCount(r) PROVE Frozen'
  BY <1>3 DEF GetCount
<1>4. ASSUME NEW r \in Rank, PutCount(r) PROVE Frozen'
  BY <1>4 DEF PutCount
<1>5. ASSUME NEW r \in Rank, LockList(r) PROVE Frozen'
  BY <1>5 DEF LockList
<1>6. ASSUME NEW r \in Rank, PutList(r) PROVE Frozen'
  BY <1>6 DEF PutList
<1>7. ASSUME NEW r \in Rank, UnlockClaimed(r) PROVE Frozen'
  BY <1>7 DEF UnlockClaimed
<1>8. ASSUME NEW r \in Rank, UnlockRefused(r) PROVE Frozen'
  BY <1>8 DEF UnlockRefused
<1>9. ASSUME NEW r \in Rank, LockShared(r) PROVE Frozen'
  BY <1>9 DEF LockShared
<1>10. ASSUME NEW r \in Rank, PollCount(r) PROVE Frozen'
  BY <1>10 DEF PollCount
<1>11. ASSUME NEW r \in Rank, LockListForRead(r) PROVE Frozen'
  BY <1>11 DEF LockListForRead
<1>12. ASSUME NEW r \in Rank, GetList(r) PROVE Frozen'
  BY <1>12 DEF GetList
<1>13. ASSUME NEW r \in Rank, EnterCreateGroup(r) PROVE Frozen'
  BY <1>13 DEF EnterCreateGroup
<1>14. ASSUME NEW r \in Rank, LeaveCreateGroup(r) PROVE Frozen'
  BY <1>14 DEF LeaveCreateGroup
<1>15. ASSUME NEW r \in Rank, RunTest(r) PROVE Frozen'
  BY <1>15 DEF RunTest
<1>16. ASSUME NEW r \in Rank, EnterWinFree(r) PROVE Frozen'
  BY <1>16 DEF EnterWinFree
<1>17. ASSUME NEW r \in Rank, LeaveWinFree(r) PROVE Frozen'
  BY <1>17 DEF LeaveWinFree
<1>18. CASE UNCHANGED vars
  BY <1>18 DEF vars
<1> QED
  BY <1>1, <1>2, <1>3, <1>4, <1>5, <1>6, <1>7, <1>8, <1>9, <1>10, <1>11, <1>12, <1>13, <1>14, <1>15, <1>16, <1>17, <1>18
     DEF Next, RankStep, Terminated

\* The members of a test keep reading the list they built their group from: the only
\* rank that writes a list writes one that nobody has seen complete.
LEMMA GroupStep == TypeOK /\ Frozen /\ GroupIsList /\ [Next]_vars => GroupIsList'
<1> SUFFICES ASSUME TypeOK, Frozen, GroupIsList, [Next]_vars PROVE GroupIsList'
  OBVIOUS
<1> USE DEF TypeOK, Frozen, GroupIsList, Complete, Grouped, Writing, Goto, NextTest, winVars, lockVars
<1>1. ASSUME NEW r \in Rank, PutList(r) PROVE GroupIsList'
  <2> USE <1>1 DEF PutList
  <2>1. ASSUME NEW q \in Rank, pc'[q] \in Grouped PROVE group'[q] = list'[itest'[q]]
    <3>1. q # r /\ pc[q] \in Grouped /\ itest[q] \in Test
      BY <2>1
    <3>2. itest[q] # itest[r]
      BY <3>1
    <3> QED
      BY <3>1, <3>2
  <2> QED
    BY <2>1
<1>2. ASSUME NEW r \in Rank, GetList(r) PROVE GroupIsList'
  BY <1>2 DEF GetList
<1>3. ASSUME NEW r \in Rank,
             \/ SkipTest(r) \/ LockCount(r) \/ GetCount(r) \/ PutCount(r) \/ LockList(r)
             \/ UnlockClaimed(r) \/ UnlockRefused(r) \/ LockShared(r)
      PROVE GroupIsList'
  BY <1>3 DEF SkipTest, LockCount, GetCount, PutCount, LockList, UnlockClaimed,
              UnlockRefused, LockShared
<1>4. ASSUME NEW r \in Rank,
             \/ PollCount(r) \/ LockListForRead(r) \/ EnterCreateGroup(r)
             \/ LeaveCreateGroup(r) \/ RunTest(r) \/ EnterWinFree(r) \/ LeaveWinFree(r)
      PROVE GroupIsList'
  BY <1>4 DEF PollCount, LockListForRead, EnterCreateGroup, LeaveCreateGroup, RunTest,
              EnterWinFree, LeaveWinFree
<1>5. CASE UNCHANGED vars
  BY <1>5 DEF vars
<1> QED
  BY <1>1, <1>2, <1>3, <1>4, <1>5 DEF Next, RankStep, Terminated

\* A rank stays out of the tests that ask for more ranks than there are.
LEMMA FitsStep == TypeOK /\ Fits /\ [Next]_vars => Fits'
<1> SUFFICES ASSUME TypeOK, Fits, [Next]_vars PROVE Fits'
  OBVIOUS
<1> USE DEF TypeOK, Fits, Goto, NextTest, winVars, lockVars
<1>1. ASSUME NEW r \in Rank,
             \/ SkipTest(r) \/ LockCount(r) \/ GetCount(r) \/ PutCount(r) \/ LockList(r)
             \/ PutList(r) \/ UnlockClaimed(r) \/ UnlockRefused(r) \/ LockShared(r)
      PROVE Fits'
  BY <1>1 DEF SkipTest, LockCount, GetCount, PutCount, LockList, PutList, UnlockClaimed,
              UnlockRefused, LockShared
<1>2. ASSUME NEW r \in Rank,
             \/ PollCount(r) \/ LockListForRead(r) \/ GetList(r) \/ EnterCreateGroup(r)
             \/ LeaveCreateGroup(r) \/ RunTest(r) \/ EnterWinFree(r) \/ LeaveWinFree(r)
      PROVE Fits'
  BY <1>2 DEF PollCount, LockListForRead, GetList, EnterCreateGroup, LeaveCreateGroup,
              RunTest, EnterWinFree, LeaveWinFree
<1>3. CASE UNCHANGED vars
  BY <1>3 DEF vars
<1> QED
  BY <1>1, <1>2, <1>3 DEF Next, RankStep, Terminated

Roster == Listing /\ Distinct /\ Listed /\ CountBound

\* A step that writes neither window nor ran, and moves no rank into or out of a
\* place, leaves the rosters as they are.
LEMMA RosterFrame ==
  ASSUME Roster, UNCHANGED <<count, start, list, ran>>,
         \A q \in Rank :
           /\ pc'[q] \in Writing <=> pc[q] \in Writing
           /\ pc'[q] \in Waiting \cup Complete <=> pc[q] \in Waiting \cup Complete
           /\ pc[q] \in Writing \cup Waiting \cup Complete => itest'[q] = itest[q]
  PROVE  Roster'
<1>1. \A t \in Test : Written(t)' = Written(t) /\ Filled(t)' = Filled(t)
  BY DEF Written, Filled
<1>2. \A t \in Test : \A q \in Rank : Placed(q, t)' <=> Placed(q, t)
  BY DEF Placed
<1>3. Listing'
  <2> SUFFICES ASSUME NEW t \in Test, NEW k \in Filled(t)'
               PROVE  list'[t][k] \in Rank /\ Placed(list[t][k], t)'
    BY DEF Listing
  <2>1. list[t][k] \in Rank /\ Placed(list[t][k], t)
    BY <1>1 DEF Roster, Listing
  <2> QED
    BY <1>2, <2>1
<1>4. Distinct'
  BY <1>1 DEF Roster, Distinct
<1>5. Listed'
  BY <1>1, <1>2 DEF Roster, Listed
<1>6. CountBound'
  BY DEF Roster, CountBound
<1> QED
  BY <1>3, <1>4, <1>5, <1>6 DEF Roster

\* While r writes, no other rank does.
LEMMA OneWriter ==
  ASSUME Exclusion, NEW r \in Rank, pc[r] \in Holding
  PROVE  \A q \in Rank : pc[q] \in Writing => q = r
BY DEF Exclusion, Holding, Writing

\* Taking a place (the Put of the count) does not change what is written in the list.
LEMMA PutCountRoster ==
  ASSUME TypeOK, Exclusion, Claiming, Roster, NEW r \in Rank, PutCount(r)
  PROVE  Roster'
<1> DEFINE t0 == itest[r]
<1>1. pc[r] = "put_count" /\ pc[r] \in Holding
  BY DEF PutCount, Holding
<1>2. /\ t0 \in Test /\ remote[r] = count[t0] /\ count[t0] < Need[t0]
      /\ count[t0] \in Int /\ start[t0] \in Nat /\ start[t0] <= count[t0] /\ Need[t0] \in Nat
  BY <1>1, TestIndex DEF TypeOK, Claiming, Roster, CountBound
<1>3. /\ \A q \in Rank : pc'[q] = IF q = r THEN "lock_list" ELSE pc[q]
      /\ \A t \in Test : count'[t] = IF t = t0 THEN count[t0] + 1 ELSE count[t]
      /\ UNCHANGED <<start, list, itest, ran>>
  BY <1>2 DEF PutCount, Goto, TypeOK
<1>4. \A q \in Rank : pc[q] \notin Writing
  BY <1>1, OneWriter DEF Writing
<1>5. \A t \in Test : Written(t)' = Written(t)
  <2> SUFFICES ASSUME NEW t \in Test PROVE Written(t)' = Written(t)
    OBVIOUS
  <2>1. Written(t) = count[t]
    BY <1>4 DEF Written
  <2>2. CASE t = t0
    <3>1. Written(t)' = count'[t] - 1
      BY <1>3, <2>2 DEF Written, Writing
    <3> QED
      BY <1>2, <1>3, <2>1, <2>2, <3>1
  <2>3. CASE t # t0
    <3>1. \A q \in Rank : ~ (itest'[q] = t /\ pc'[q] \in Writing)
      BY <1>3, <1>4, <2>3
    <3> QED
      BY <1>3, <2>1, <2>3, <3>1 DEF Written
  <2> QED
    BY <2>2, <2>3
<1>6. /\ \A t \in Test : \A q \in Rank : Placed(q, t)' <=> Placed(q, t)
      /\ \A t \in Test : Filled(t)' = Filled(t)
  BY <1>1, <1>3, <1>5 DEF Placed, Waiting, Complete, Filled
<1>7. Listing'
  BY <1>3, <1>5, <1>6 DEF Roster, Listing
<1>8. Distinct'
  BY <1>3, <1>6 DEF Roster, Distinct
<1>9. Listed'
  BY <1>3, <1>5, <1>6 DEF Roster, Listed
<1>10. CountBound'
  <2> SUFFICES ASSUME NEW t \in Test
               PROVE  count'[t] >= start[t] /\ (count'[t] <= Need[t] \/ count'[t] = start[t])
    BY <1>3 DEF CountBound
  <2> QED
    BY <1>2, <1>3 DEF Roster, CountBound
<1> QED
  BY <1>7, <1>8, <1>9, <1>10 DEF Roster

\* The Put of the rank fills the place taken last, with a rank not listed before.
LEMMA PutListRoster ==
  ASSUME TypeOK, Exclusion, Claiming, Past, Roster, NEW r \in Rank, PutList(r)
  PROVE  Roster'
<1> DEFINE t0 == itest[r]
           n0 == count[itest[r]]
           s0 == start[itest[r]]
<1>1. pc[r] = "put_list" /\ pc[r] \in Holding /\ pc[r] \in Writing
  BY DEF PutList, Holding, Writing
<1>2. /\ t0 \in Test /\ remote[r] = n0 /\ n0 \in s0 + 1 .. Need[t0] /\ Need[t0] \in Nat
      /\ s0 \in Nat /\ list[t0] \in [1 .. Need[t0] -> Int]
  BY <1>1, TestIndex DEF TypeOK, Claiming, Place
<1>3. /\ \A q \in Rank : pc'[q] = IF q = r THEN "claimed" ELSE pc[q]
      /\ UNCHANGED <<count, start, itest, ran>>
  BY DEF PutList, Goto, TypeOK
<1>4. /\ \A t \in Test : t # t0 => list'[t] = list[t]
      /\ list'[t0][n0] = r
      /\ \A k \in 1 .. Need[t0] : k # n0 => list'[t0][k] = list[t0][k]
  BY <1>2 DEF PutList, TypeOK
<1>5. \A q \in Rank : pc[q] \in Writing => q = r
  BY <1>1, OneWriter
<1>6. \A q \in Rank : pc'[q] \notin Writing
  BY <1>3, <1>5 DEF Writing
<1>7. \A t \in Test : Filled(t)' = start[t] + 1 .. count[t]
  BY <1>3, <1>6 DEF Written, Filled
<1>8. Filled(t0) = s0 + 1 .. n0 - 1 /\ \A t \in Test : t # t0 => Filled(t) = start[t] + 1 .. count[t]
  BY <1>1, <1>2, <1>5 DEF Written, Filled
<1>9. ~ Placed(r, t0)
  <2>1. r \notin ran[t0]
    <3>1. t0 \in Int /\ ~ (t0 < itest[r])
      BY <1>2, ConstAssumption DEF Test
    <3> QED
      BY <1>2, <3>1 DEF Past
  <2> QED
    BY <1>1, <2>1 DEF Placed, Waiting, Complete
<1>10. \A t \in Test : \A q \in Rank : Placed(q, t)' <=> (Placed(q, t) \/ (q = r /\ t = t0))
  BY <1>1, <1>3 DEF Placed, Waiting, Complete
<1>11. \A k \in s0 + 1 .. n0 - 1 : /\ list'[t0][k] = list[t0][k]
                              /\ list[t0][k] \in Rank /\ Placed(list[t0][k], t0)
                              /\ list[t0][k] # r
  BY <1>2, <1>4, <1>8, <1>9 DEF Roster, Listing
<1>12. Listing'
  <2> SUFFICES ASSUME NEW t \in Test, NEW k \in start[t] + 1 .. count[t]
               PROVE  list'[t][k] \in Rank /\ Placed(list[t][k], t)'
    BY <1>7 DEF Listing
  <2>1. CASE t # t0
    <3>1. list[t][k] \in Rank /\ Placed(list[t][k], t)
      BY <1>8, <2>1 DEF Roster, Listing
    <3> QED
      BY <1>4, <1>10, <2>1, <3>1
  <2>2. CASE t = t0 /\ k = n0
    BY <1>4, <1>10, <1>2, <2>2
  <2>3. CASE t = t0 /\ k # n0
    <3>1. k \in s0 + 1 .. n0 - 1
      BY <1>2, <2>3
    <3> QED
      BY <1>2, <1>10, <1>11, <2>3, <3>1
  <2> QED
    BY <2>1, <2>2, <2>3
<1>13. Distinct'
  <2> SUFFICES ASSUME NEW t \in Test, NEW j \in start[t] + 1 .. count[t], NEW k \in start[t] + 1 .. count[t],
                      list'[t][j] = list'[t][k]
               PROVE  j = k
    BY <1>7 DEF Distinct
  <2>1. CASE t # t0
    <3>1. list'[t] = list[t] /\ j \in Filled(t) /\ k \in Filled(t)
      BY <1>4, <1>8, <2>1
    <3> QED
      BY <3>1 DEF Roster, Distinct
  <2>2. CASE t = t0
    <3>1. (j = n0 \/ j \in s0 + 1 .. n0 - 1) /\ (k = n0 \/ k \in s0 + 1 .. n0 - 1)
      BY <1>2, <2>2
    <3>2. CASE j \in s0 + 1 .. n0 - 1 /\ k \in s0 + 1 .. n0 - 1
      BY <1>2, <1>8, <1>11, <2>2, <3>2 DEF Roster, Distinct
    <3> QED
      BY <1>4, <1>11, <2>2, <3>1, <3>2
  <2> QED
    BY <2>1, <2>2
<1>14. Listed'
  <2> SUFFICES ASSUME NEW t \in Test, NEW q \in Rank, Placed(q, t)'
               PROVE  \E k \in start[t] + 1 .. count[t] : list'[t][k] = q
    BY <1>7 DEF Listed
  <2>1. CASE q = r /\ t = t0
    BY <1>2, <1>4, <2>1
  <2>2. CASE Placed(q, t) /\ t # t0
    <3>1. list'[t] = list[t] /\ Filled(t) = start[t] + 1 .. count[t]
      BY <1>4, <1>8, <2>2
    <3>2. \E k \in Filled(t) : list[t][k] = q
      BY <2>2 DEF Roster, Listed
    <3> QED
      BY <3>1, <3>2
  <2>3. CASE Placed(q, t) /\ t = t0
    <3>1. PICK k \in s0 + 1 .. n0 - 1 : list[t0][k] = q
      BY <1>2, <1>8, <2>3 DEF Roster, Listed
    <3>2. k \in s0 + 1 .. n0
      BY <1>2
    <3> QED
      BY <1>11, <2>3, <3>1, <3>2
  <2> QED
    BY <1>10, <2>1, <2>2, <2>3
<1>15. CountBound'
  BY <1>3 DEF Roster, CountBound
<1> QED
  BY <1>12, <1>13, <1>14, <1>15 DEF Roster

\* Executing a test keeps the rank placed: from its location to ran.
LEMMA RunTestRoster ==
  ASSUME TypeOK, Roster, NEW r \in Rank, RunTest(r)
  PROVE  Roster'
<1>1. /\ pc[r] = "run" /\ itest[r] \in Test
      /\ \A q \in Rank : pc'[q] = IF q = r THEN "loop" ELSE pc[q]
      /\ \A q \in Rank : q # r => itest'[q] = itest[q]
      /\ UNCHANGED <<count, start, list>>
  BY DEF RunTest, NextTest, Goto, TypeOK, winVars
<1>2. \A t \in Test : ran'[t] = IF t = itest[r] THEN ran[t] \cup {r} ELSE ran[t]
  BY <1>1 DEF RunTest, TypeOK
<1>3. \A t \in Test : Written(t)' = Written(t) /\ Filled(t)' = Filled(t)
  BY <1>1 DEF Written, Writing, Filled
<1>4. \A t \in Test : \A q \in Rank : Placed(q, t)' <=> Placed(q, t)
  <2> SUFFICES ASSUME NEW t \in Test, NEW q \in Rank PROVE Placed(q, t)' <=> Placed(q, t)
    OBVIOUS
  <2>1. CASE q # r
    <3>1. q \in ran'[t] <=> q \in ran[t]
      BY <1>2, <2>1
    <3> QED
      BY <1>1, <2>1, <3>1 DEF Placed
  <2>2. CASE q = r /\ t = itest[r]
    BY <1>1, <1>2, <2>2 DEF Placed, Complete
  <2>3. CASE q = r /\ t # itest[r]
    BY <1>1, <1>2, <2>3 DEF Placed, Waiting, Complete
  <2> QED
    BY <2>1, <2>2, <2>3
<1>5. Listing'
  BY <1>1, <1>3, <1>4 DEF Roster, Listing
<1>6. Distinct'
  BY <1>1, <1>3 DEF Roster, Distinct
<1>7. Listed'
  BY <1>1, <1>3, <1>4 DEF Roster, Listed
<1>8. CountBound'
  BY <1>1 DEF Roster, CountBound
<1> QED
  BY <1>5, <1>6, <1>7, <1>8 DEF Roster

\* The assertion before MPI_Comm_create_group holds of every rank that reaches it: a
\* complete list names all the ranks that took a place.
LEMMA MemberOfGroup ==
  ASSUME IndInv, NEW r \in Rank, pc[r] \in Grouped
  PROVE  /\ itest[r] \in Test /\ group[r] = list[itest[r]]
         /\ Written(itest[r]) = Need[itest[r]]
         /\ \E k \in Filled(itest[r]) : group[r][k] = r
         /\ DOMAIN group[r] = Place(itest[r])
         /\ Filled(itest[r]) = start[itest[r]] + 1 .. Need[itest[r]]
         /\ Filled(itest[r]) \subseteq Place(itest[r])
<1>1. itest[r] \in Test /\ pc[r] \in Complete
  BY DEF IndInv, TypeOK, Grouped, Complete
<1>2. group[r] = list[itest[r]]
  BY DEF IndInv, GroupIsList
<1>3. Written(itest[r]) = Need[itest[r]]
  BY <1>1 DEF IndInv, Frozen, Written
<1>4. Placed(r, itest[r])
  BY <1>1 DEF Placed
<1>5. \E k \in Filled(itest[r]) : list[itest[r]][k] = r
  BY <1>1, <1>4 DEF IndInv, Listed
<1>6. start[itest[r]] \in Nat /\ Need[itest[r]] \in Nat
  BY <1>1, TestIndex DEF IndInv, TypeOK
<1>7. /\ Filled(itest[r]) = start[itest[r]] + 1 .. Need[itest[r]]
      /\ Filled(itest[r]) \subseteq Place(itest[r])
  BY <1>3, <1>6 DEF Filled, Place
<1>8. DOMAIN group[r] = Place(itest[r])
  BY <1>1, <1>2 DEF IndInv, TypeOK
<1> QED
  BY <1>1, <1>2, <1>3, <1>5, <1>7, <1>8

\* Every step of every rank keeps the rosters.
LEMMA RosterStep == IndInv /\ [Next]_vars => Roster'
<1> SUFFICES ASSUME IndInv, [Next]_vars PROVE Roster'
  OBVIOUS
<1>1. TypeOK /\ Exclusion /\ Claiming /\ Past /\ Roster
  BY DEF IndInv, Roster
<1>2. ASSUME NEW r \in Rank, PutCount(r) PROVE Roster'
  BY <1>1, <1>2, PutCountRoster
<1>3. ASSUME NEW r \in Rank, PutList(r) PROVE Roster'
  BY <1>1, <1>3, PutListRoster
<1>4. ASSUME NEW r \in Rank, RunTest(r) PROVE Roster'
  BY <1>1, <1>4, RunTestRoster
<1>5. ASSUME NEW r \in Rank, EnterCreateGroup(r) PROVE Roster'
  <2>1. Member(r)
    BY <1>5, MemberOfGroup DEF EnterCreateGroup, Grouped, Member
  <2> QED
    BY <1>1, <1>5, <2>1, RosterFrame
       DEF EnterCreateGroup, Goto, winVars, TypeOK, Writing, Waiting, Complete
<1>6. ASSUME NEW r \in Rank, SkipTest(r) \/ UnlockRefused(r) PROVE Roster'
  BY <1>1, <1>6, RosterFrame
     DEF SkipTest, UnlockRefused, NextTest, Goto, winVars, TypeOK, Writing, Waiting, Complete
<1>7. ASSUME NEW r \in Rank, LockCount(r) \/ GetCount(r) \/ LockList(r) PROVE Roster'
  BY <1>1, <1>7, RosterFrame
     DEF LockCount, GetCount, LockList, Goto, winVars, TypeOK, Writing, Waiting, Complete
<1>8. ASSUME NEW r \in Rank, UnlockClaimed(r) \/ LockShared(r) \/ PollCount(r) PROVE Roster'
  BY <1>1, <1>8, RosterFrame
     DEF UnlockClaimed, LockShared, PollCount, Goto, winVars, TypeOK, Writing, Waiting, Complete
<1>9. ASSUME NEW r \in Rank, LockListForRead(r) \/ GetList(r) \/ LeaveCreateGroup(r) PROVE Roster'
  BY <1>1, <1>9, RosterFrame
     DEF LockListForRead, GetList, LeaveCreateGroup, Goto, winVars, TypeOK, Writing, Waiting, Complete
<1>10. ASSUME NEW r \in Rank, EnterWinFree(r) \/ LeaveWinFree(r) PROVE Roster'
  BY <1>1, <1>10, RosterFrame
     DEF EnterWinFree, LeaveWinFree, Goto, winVars, TypeOK, Writing, Waiting, Complete
<1>11. CASE UNCHANGED vars
  BY <1>1, <1>11, RosterFrame DEF vars
<1> QED
  BY <1>2, <1>3, <1>4, <1>5, <1>6, <1>7, <1>8, <1>9, <1>10, <1>11
     DEF Next, RankStep, Terminated

\* No step fails the assertion.
LEMMA AssertionStep == IndInv /\ [Next]_vars => AssertionHolds'
<1> SUFFICES ASSUME IndInv, [Next]_vars PROVE AssertionHolds'
  OBVIOUS
<1>1. \A r \in Rank : pc[r] # "assert_failed"
  BY DEF IndInv, AssertionHolds
<1>2. pc \in [Rank -> Locations]
  BY DEF IndInv, TypeOK
<1>3. ASSUME NEW r \in Rank, EnterCreateGroup(r) PROVE AssertionHolds'
  <2>1. Member(r)
    BY <1>3, MemberOfGroup DEF EnterCreateGroup, Grouped, Member
  <2> QED
    BY <1>1, <1>2, <1>3, <2>1 DEF EnterCreateGroup, Goto, AssertionHolds
<1>4. ASSUME NEW r \in Rank, NEW l \in Locations, l # "assert_failed", Goto(r, l)
      PROVE AssertionHolds'
  BY <1>1, <1>2, <1>4 DEF Goto, AssertionHolds
<1>5. ASSUME NEW r \in Rank, RankStep(r), ~ EnterCreateGroup(r) PROVE AssertionHolds'
  BY <1>4, <1>5
     DEF RankStep, Locations, SkipTest, LockCount, GetCount, PutCount, LockList, PutList,
         UnlockClaimed, UnlockRefused, LockShared, PollCount, LockListForRead, GetList,
         LeaveCreateGroup, RunTest, EnterWinFree, LeaveWinFree, NextTest
<1>6. CASE UNCHANGED vars
  BY <1>1, <1>6 DEF vars, AssertionHolds
<1> QED
  BY <1>3, <1>5, <1>6 DEF Next, Terminated

\* A rank that has a place keeps it.
LEMMA PlacedStays ==
  ASSUME IndInv, [Next]_vars, NEW t \in Test, NEW q \in Rank, Placed(q, t)
  PROVE  Placed(q, t)'
<1> USE DEF Placed, Waiting, Complete, Goto
<1>1. TypeOK /\ AssertionHolds
  BY DEF IndInv
<1>2. ASSUME NEW r \in Rank, EnterCreateGroup(r) PROVE Placed(q, t)'
  <2>1. Member(r)
    BY <1>2, MemberOfGroup DEF EnterCreateGroup, Grouped, Member
  <2> QED
    BY <1>1, <1>2, <2>1 DEF EnterCreateGroup, TypeOK
<1>3. ASSUME NEW r \in Rank, RunTest(r) PROVE Placed(q, t)'
  BY <1>1, <1>3 DEF RunTest, NextTest, TypeOK
<1>4. ASSUME NEW r \in Rank,
             \/ SkipTest(r) \/ LockCount(r) \/ GetCount(r) \/ PutCount(r) \/ LockList(r)
             \/ PutList(r) \/ UnlockClaimed(r) \/ UnlockRefused(r) \/ LockShared(r)
      PROVE Placed(q, t)'
  BY <1>1, <1>4 DEF SkipTest, LockCount, GetCount, PutCount, LockList, PutList, UnlockClaimed,
              UnlockRefused, LockShared, NextTest, TypeOK
<1>5. ASSUME NEW r \in Rank,
             \/ PollCount(r) \/ LockListForRead(r) \/ GetList(r)
             \/ LeaveCreateGroup(r) \/ EnterWinFree(r) \/ LeaveWinFree(r)
      PROVE Placed(q, t)'
  BY <1>1, <1>5 DEF PollCount, LockListForRead, GetList, LeaveCreateGroup, EnterWinFree,
              LeaveWinFree, TypeOK
<1>6. CASE UNCHANGED vars
  BY <1>6 DEF vars
<1> QED
  BY <1>2, <1>3, <1>4, <1>5, <1>6 DEF Next, RankStep, Terminated

\* MPI_Comm_create_group returns only if every place of the list names a rank that
\* joined, hence one that is written above the initial count as well: as the group has
\* no rank twice, the count started at zero.
LEMMA WholeGroup ==
  ASSUME IndInv, NEW r \in Rank, LeaveCreateGroup(r)
  PROVE  start[itest[r]] = 0
<1> DEFINE t0 == itest[r]
<1>1. /\ pc[r] = "create" /\ Includes(r)
      /\ \A k \in DOMAIN group[r] : group[r][k] \in joined[t0]
  BY DEF LeaveCreateGroup, IndInv, Creating
<1>2. /\ t0 \in Test /\ group[r] = list[t0] /\ DOMAIN group[r] = Place(t0)
      /\ Filled(t0) = start[t0] + 1 .. Need[t0] /\ Filled(t0) \subseteq Place(t0)
      /\ \E k \in Filled(t0) : group[r][k] = r
  BY <1>1, MemberOfGroup DEF Grouped
<1>3. start[t0] \in Nat /\ Need[t0] \in Nat
  BY <1>2, TestIndex DEF IndInv, TypeOK
<1> SUFFICES ASSUME start[t0] # 0 PROVE FALSE
  OBVIOUS
<1>4. 1 \in Place(t0) /\ 1 \notin Filled(t0)
  BY <1>2, <1>3 DEF Place
<1>5. group[r][1] \in joined[t0] /\ group[r][1] \in Rank
  BY <1>1, <1>2, <1>4 DEF Includes
<1>6. PICK k \in Filled(t0) : list[t0][k] = group[r][1]
  BY <1>2, <1>5 DEF IndInv, Joining, Listed
<1>7. k = 1
  BY <1>1, <1>2, <1>4, <1>6 DEF Includes
<1> QED
  BY <1>4, <1>6, <1>7

\* Every step of every rank keeps the tests that have lost a place from being executed.
LEMMA WholeStep == IndInv /\ [Next]_vars => Joining' /\ Creating' /\ Whole'
<1> SUFFICES ASSUME IndInv, [Next]_vars PROVE Joining' /\ Creating' /\ Whole'
  OBVIOUS
<1> USE DEF Goto, winVars, lockVars
<1>1. TypeOK /\ Joining /\ Creating /\ Whole
  BY DEF IndInv
<1>2. \A t \in Test : \A q \in Rank : Placed(q, t) => Placed(q, t)'
  BY PlacedStays
<1>3. ASSUME UNCHANGED joined PROVE Joining'
  BY <1>1, <1>2, <1>3 DEF Joining, TypeOK
<1>4. ASSUME NEW r \in Rank, EnterCreateGroup(r) PROVE Joining' /\ Creating' /\ Whole'
  <2>1. itest[r] \in Test /\ pc[r] = "group" /\ Placed(r, itest[r])
    BY <1>1, <1>4 DEF EnterCreateGroup, TypeOK, Placed, Complete
  <2>2. \A t \in Test : joined'[t] \subseteq joined[t] \cup (IF t = itest[r] THEN {r} ELSE {})
    BY <1>1, <1>4, <2>1 DEF EnterCreateGroup, TypeOK
  <2>3. Joining'
    BY <1>1, <1>2, <2>1, <2>2 DEF Joining, TypeOK
  <2>4. Creating' /\ Whole'
    BY <1>1, <1>4 DEF EnterCreateGroup, TypeOK, Creating, Whole, Includes
  <2> QED
    BY <2>3, <2>4
<1>5. ASSUME NEW r \in Rank, LeaveCreateGroup(r) PROVE Joining' /\ Creating' /\ Whole'
  <2>1. start[itest[r]] = 0
    BY <1>5, WholeGroup
  <2>2. Joining'
    BY <1>3, <1>5 DEF LeaveCreateGroup
  <2> QED
    BY <1>1, <1>5, <2>1, <2>2 DEF LeaveCreateGroup, TypeOK, Creating, Whole, Includes
<1>6. ASSUME NEW r \in Rank, RunTest(r) PROVE Joining' /\ Creating' /\ Whole'
  <2>1. itest[r] \in Test /\ start[itest[r]] = 0
    BY <1>1, <1>6 DEF RunTest, TypeOK, Whole
  <2>2. Joining'
    BY <1>3, <1>6 DEF RunTest
  <2>3. Creating'
    BY <1>1, <1>6 DEF RunTest, NextTest, TypeOK, Creating, Includes
  <2>4. Whole'
    BY <1>1, <1>6, <2>1 DEF RunTest, NextTest, TypeOK, Whole
  <2> QED
    BY <2>2, <2>3, <2>4
<1>7. ASSUME NEW r \in Rank, GetList(r) PROVE Joining' /\ Creating' /\ Whole'
  <2>1. Joining'
    BY <1>3, <1>7 DEF GetList
  <2> QED
    BY <1>1, <1>7, <2>1 DEF GetList, TypeOK, Creating, Whole, Includes
<1>8. ASSUME NEW r \in Rank,
             \/ SkipTest(r) \/ LockCount(r) \/ GetCount(r) \/ PutCount(r) \/ LockList(r)
             \/ PutList(r) \/ UnlockClaimed(r) \/ UnlockRefused(r)
      PROVE Joining' /\ Creating' /\ Whole'
  <2>1. Joining'
    BY <1>3, <1>8 DEF SkipTest, LockCount, GetCount, PutCount, LockList, PutList,
                      UnlockClaimed, UnlockRefused
  <2>2. /\ UNCHANGED <<start, group, ran>>
        /\ \A q \in Rank : pc'[q] \in {"create", "run"} => pc'[q] = pc[q] /\ itest'[q] = itest[q]
    BY <1>1, <1>8
       DEF SkipTest, LockCount, GetCount, PutCount, LockList, PutList, UnlockClaimed,
           UnlockRefused, NextTest, TypeOK
  <2> QED
    BY <1>1, <2>1, <2>2 DEF Creating, Whole, Includes
<1>9. ASSUME NEW r \in Rank,
             \/ LockShared(r) \/ PollCount(r) \/ LockListForRead(r)
             \/ EnterWinFree(r) \/ LeaveWinFree(r)
      PROVE Joining' /\ Creating' /\ Whole'
  <2>1. Joining'
    BY <1>3, <1>9 DEF LockShared, PollCount, LockListForRead, EnterWinFree, LeaveWinFree
  <2> QED
    BY <1>1, <1>9, <2>1
       DEF LockShared, PollCount, LockListForRead, EnterWinFree, LeaveWinFree,
           TypeOK, Creating, Whole, Includes
<1>10. CASE UNCHANGED vars
  BY <1>1, <1>3, <1>10 DEF vars, Creating, Whole, Includes
<1> QED
  BY <1>4, <1>5, <1>6, <1>7, <1>8, <1>9, <1>10 DEF Next, RankStep, Terminated

\* The invariant holds initially, whatever the windows hold.
LEMMA InitIndInv == Init => IndInv
<1> SUFFICES ASSUME Init PROVE IndInv
  OBVIOUS
<1>1. start \in [Test -> Nat] /\ count = start
  BY FreshAssumption DEF Init
<1>2. \A t \in Test : Filled(t) = {}
  <2> SUFFICES ASSUME NEW t \in Test PROVE Filled(t) = {}
    OBVIOUS
  <2>1. Written(t) = start[t] /\ start[t] \in Nat
    BY <1>1 DEF Init, Written, Writing
  <2> QED
    BY <2>1 DEF Filled
<1>3. TypeOK
  <2>1. NTest \in Nat /\ 0 \in 0 .. NTest
    BY ConstAssumption
  <2>2. << >> \in Seq(Int)
    OBVIOUS
  <2>3. count \in [Test -> Int]
    BY <1>1
  <2>4. DOMAIN list = Test /\ \A t \in Test : list[t] \in [Place(t) -> Int]
    BY FreshAssumption DEF Init
  <2> QED
    BY <1>1, <2>1, <2>2, <2>3, <2>4 DEF Init, TypeOK, Locations
<1>4. Exclusion /\ Fits /\ Claiming /\ Past /\ Frozen /\ GroupIsList /\ AssertionHolds
  BY DEF Init, Exclusion, Fits, Claiming, Past, Frozen, GroupIsList, AssertionHolds,
         Holding, Writing, Complete, Grouped
<1>5. CountBound
  BY <1>1 DEF CountBound
<1>6. Listing /\ Distinct
  BY <1>2 DEF Listing, Distinct
<1>7. Listed
  BY DEF Init, Listed, Placed, Waiting, Complete
<1>8. Joining /\ Creating /\ Whole
  BY DEF Init, Joining, Creating, Whole
<1> QED
  BY <1>3, <1>4, <1>5, <1>6, <1>7, <1>8 DEF IndInv

\* The invariant is inductive and holds in every behaviour of run_scheduler_old.
THEOREM SchedulerInvariant == Spec => []IndInv
<1>1. Init => IndInv
  BY InitIndInv
<1>2. IndInv /\ [Next]_vars => IndInv'
  BY TypeStep, ExclusionStep, FitsStep, ClaimingStep, PastStep, FrozenStep, GroupStep,
     RosterStep, AssertionStep, WholeStep DEF IndInv, Roster
<1> QED
  BY <1>1, <1>2, PTL DEF Spec

-----------------------------------------------------------------------------
(***************************************************************************)
(* Consequences                                                            *)
(***************************************************************************)

\* Whatever the suite, the communicator and the windows at first, the variables keep their types.
THEOREM TypeCorrect == Spec => []TypeOK
<1>1. IndInv => TypeOK
  BY DEF IndInv
<1> QED
  BY <1>1, SchedulerInvariant, PTL

\* Whatever the suite, the communicator and the windows at first, the ranks of a test
\* build the same group, of distinct ranks above the initial count, each a member:
\* MPI_Comm_create_group is called consistently.
THEOREM GroupsAgree == Spec => []GroupAgreement
<1>1. ASSUME IndInv PROVE GroupAgreement
  <2> SUFFICES ASSUME NEW r \in Rank, pc[r] \in Grouped
               PROVE
                 LET taken == start[itest[r]] + 1 .. Need[itest[r]]
                 IN  /\ \A k \in taken : group[r][k] \in Rank
                     /\ \A j, k \in taken : group[r][j] = group[r][k] => j = k
                     /\ \E k \in taken : group[r][k] = r
                     /\ \A q \in Rank :
                          pc[q] \in Grouped /\ itest[q] = itest[r] => group[q] = group[r]
    BY DEF GroupAgreement
  <2>1. /\ itest[r] \in Test /\ group[r] = list[itest[r]]
        /\ Written(itest[r]) = Need[itest[r]]
        /\ \E k \in Filled(itest[r]) : group[r][k] = r
        /\ Filled(itest[r]) = start[itest[r]] + 1 .. Need[itest[r]]
    BY <1>1, MemberOfGroup
  <2>2. \A k \in Filled(itest[r]) : group[r][k] \in Rank
    BY <1>1, <2>1 DEF IndInv, Listing
  <2>3. \A j, k \in Filled(itest[r]) : group[r][j] = group[r][k] => j = k
    BY <1>1, <2>1 DEF IndInv, Distinct
  <2>4. \A q \in Rank : pc[q] \in Grouped /\ itest[q] = itest[r] => group[q] = group[r]
    BY <1>1 DEF IndInv, GroupIsList
  <2> QED
    BY <2>1, <2>2, <2>3, <2>4
<1> QED
  BY <1>1, SchedulerInvariant, PTL

\* Whatever the suite, the communicator and the windows at first, assert( i_rank_group != MPI_UNDEFINED)
\* never fails.
THEOREM AssertionNeverFails == Spec => []AssertionHolds
<1>1. IndInv => AssertionHolds
  BY DEF IndInv
<1> QED
  BY <1>1, SchedulerInvariant, PTL

\* Whatever the suite, the communicator and the windows at first, the list of a test that some rank has seen
\* complete is never written again.
THEOREM ListsFreeze == Spec => CompleteListFrozen
<1>1. ASSUME IndInv, [Next]_vars
      PROVE  [\A r \in Rank : pc[r] \in Complete => list'[itest[r]] = list[itest[r]]]_vars
  <2> SUFFICES ASSUME NEW q \in Rank, pc[q] \in Complete, Next
               PROVE  list'[itest[q]] = list[itest[q]]
    BY <1>1
  <2>1. itest[q] \in Test
    BY <1>1 DEF IndInv, TypeOK, Complete
  <2>2. ASSUME NEW r \in Rank, PutList(r) PROVE list'[itest[q]] = list[itest[q]]
    <3>1. itest[r] # itest[q]
      BY <1>1, <2>2 DEF IndInv, Frozen, PutList, Writing
    <3> QED
      BY <1>1, <2>1, <2>2, <3>1 DEF PutList, IndInv, TypeOK
  <2>3. ASSUME NEW r \in Rank, RankStep(r), ~ PutList(r) PROVE list' = list
    BY <2>3
       DEF RankStep, SkipTest, LockCount, GetCount, PutCount, LockList, UnlockClaimed,
           UnlockRefused, LockShared, PollCount, LockListForRead, GetList, EnterCreateGroup,
           LeaveCreateGroup, RunTest, EnterWinFree, LeaveWinFree, winVars
  <2> QED
    BY <2>2, <2>3 DEF Next, Terminated, vars
<1> QED
  BY <1>1, SchedulerInvariant, PTL DEF Spec, CompleteListFrozen

-----------------------------------------------------------------------------
(***************************************************************************)
(* Staffing: the count window counts the claimants, and the loop leaves    *)
(* only complete tests behind it.                                          *)
(***************************************************************************)

\* A rank leaves a test that fits only when all its places are taken.
Passed ==
  \A r \in Rank : \A t \in Test : t < itest[r] /\ Need[t] <= NRank => count[t] >= Need[t]

\* A rank is refused by a complete test only.
Refused == \A r \in Rank : pc[r] = "refused" => count[itest[r]] >= Need[itest[r]]

AtEnd == \A r \in Rank : pc[r] \in {"win_free", "done"} => itest[r] = NTest

OnlyFitting == \A t \in Test : Need[t] > NRank => ran[t] = {}

\* What the ranks leave behind them.
Behind == Passed /\ Refused /\ AtEnd /\ OnlyFitting

\* A rank that goes to its next test leaves a test that does not fit or is complete.
LEMMA NextTestPassed ==
  ASSUME TypeOK, Passed, NEW r \in Rank, NextTest(r), UNCHANGED count, itest[r] \in Test,
         Need[itest[r]] <= NRank => count[itest[r]] >= Need[itest[r]]
  PROVE  Passed'
<1> SUFFICES ASSUME NEW q \in Rank, NEW t \in Test, t < itest'[q], Need[t] <= NRank
             PROVE  count'[t] >= Need[t]
  BY DEF Passed
<1>1. t \in Int /\ itest[r] \in Int
  BY ConstAssumption DEF Test
<1>2. itest'[r] = itest[r] + 1 /\ \A p \in Rank : p # r => itest'[p] = itest[p]
  BY DEF NextTest, TypeOK
<1>3. CASE q # r
  BY <1>2, <1>3 DEF Passed
<1>4. CASE q = r
  <2>1. t < itest[r] \/ t = itest[r]
    BY <1>1, <1>2, <1>4
  <2> QED
    BY <2>1 DEF Passed
<1> QED
  BY <1>3, <1>4

\* Every step of every rank leaves only complete tests behind.
LEMMA BehindStep == IndInv /\ Behind /\ [Next]_vars => Behind'
<1> SUFFICES ASSUME IndInv, Behind, [Next]_vars PROVE Behind'
  OBVIOUS
<1> USE DEF Behind, winVars, lockVars
<1>1. TypeOK /\ Exclusion /\ Claiming /\ CountBound /\ Frozen /\ Fits
  BY DEF IndInv
<1>2. ASSUME NEW r \in Rank, SkipTest(r) PROVE Behind'
  <2>1. itest[r] \in Test
    BY <1>1, <1>2, TestIndex DEF SkipTest, TypeOK
  <2>2. Passed'
    <3>1. Need[itest[r]] \in Int /\ NRank \in Int
      BY <2>1, TestIndex, ConstAssumption
    <3> QED
      BY <1>1, <1>2, <2>1, <3>1, NextTestPassed DEF SkipTest
  <2> QED
    BY <1>1, <1>2, <2>2 DEF SkipTest, NextTest, Goto, TypeOK, Refused, AtEnd, OnlyFitting
<1>3. ASSUME NEW r \in Rank, GetCount(r) PROVE Behind'
  <2>1. itest[r] \in Test /\ Need[itest[r]] \in Nat /\ count[itest[r]] \in Int
    BY <1>1, <1>3, TestIndex DEF GetCount, TypeOK
  <2>2. pc'[r] = "refused" => count[itest[r]] >= Need[itest[r]]
    BY <1>1, <1>3, <2>1 DEF GetCount, Goto, TypeOK
  <2>3. \A q \in Rank : q # r => pc'[q] = pc[q]
    BY <1>1, <1>3 DEF GetCount, Goto, TypeOK
  <2>4. UNCHANGED <<count, itest, ran>>
    BY <1>3 DEF GetCount
  <2>5. pc'[r] \in {"put_count", "refused"}
    BY <1>1, <1>3 DEF GetCount, Goto, TypeOK
  <2>6. Passed' /\ OnlyFitting'
    BY <2>4 DEF Passed, OnlyFitting
  <2>7. Refused'
    BY <2>2, <2>3, <2>4 DEF Refused
  <2> QED
    BY <2>3, <2>4, <2>5, <2>6, <2>7 DEF AtEnd
<1>4. ASSUME NEW r \in Rank, PutCount(r) PROVE Behind'
  <2>1. /\ itest[r] \in Test /\ pc[r] \in Holding
        /\ count[itest[r]] < Need[itest[r]] /\ Need[itest[r]] \in Nat /\ count[itest[r]] \in Int
    BY <1>1, <1>4, TestIndex DEF PutCount, TypeOK, Claiming, Holding
  <2>2. /\ \A t \in Test : t # itest[r] => count'[t] = count[t]
        /\ \A q \in Rank : q # r => pc'[q] = pc[q]
        /\ pc'[r] = "lock_list" /\ UNCHANGED <<itest, ran>>
    BY <1>1, <1>4 DEF PutCount, Goto, TypeOK
  <2>3. \A q \in Rank : q # r => pc[q] \notin Holding
    BY <1>1, <2>1 DEF Exclusion
  <2>4. \A q \in Rank : pc'[q] # "refused"
    BY <2>2, <2>3 DEF Holding
  <2>5. ~ (count[itest[r]] >= Need[itest[r]])
    BY <2>1
  <2>6. Passed'
    BY <2>2, <2>5 DEF Passed
  <2> QED
    BY <2>2, <2>4, <2>6 DEF Refused, AtEnd, OnlyFitting
<1>5. ASSUME NEW r \in Rank, UnlockRefused(r) PROVE Behind'
  <2>1. itest[r] \in Test
    BY <1>1, <1>5 DEF UnlockRefused, TypeOK
  <2>2. Passed'
    BY <1>1, <1>5, <2>1, NextTestPassed DEF UnlockRefused, Refused
  <2> QED
    BY <1>1, <1>5, <2>2 DEF UnlockRefused, NextTest, Goto, TypeOK, Refused, AtEnd, OnlyFitting
<1>6. ASSUME NEW r \in Rank, RunTest(r) PROVE Behind'
  <2>1. itest[r] \in Test /\ Need[itest[r]] <= NRank /\ count[itest[r]] = Need[itest[r]]
    BY <1>1, <1>6 DEF RunTest, TypeOK, Fits, Frozen, Complete
  <2>2. Passed'
    <3>1. count[itest[r]] >= Need[itest[r]]
      BY <2>1, TestIndex
    <3> QED
      BY <1>1, <1>6, <2>1, <3>1, NextTestPassed DEF RunTest
  <2>3. OnlyFitting'
    <3>1. ~ (Need[itest[r]] > NRank)
      BY <2>1, TestIndex, ConstAssumption
    <3> QED
      BY <1>1, <1>6, <3>1 DEF RunTest, TypeOK, OnlyFitting
  <2> QED
    BY <1>1, <1>6, <2>2, <2>3 DEF RunTest, NextTest, Goto, TypeOK, Refused, AtEnd
<1>7. ASSUME NEW r \in Rank,
             \/ LockCount(r) \/ LockList(r) \/ PutList(r) \/ UnlockClaimed(r) \/ LockShared(r)
             \/ PollCount(r) \/ LockListForRead(r) \/ GetList(r) \/ EnterCreateGroup(r)
             \/ LeaveCreateGroup(r) \/ EnterWinFree(r) \/ LeaveWinFree(r)
      PROVE Behind'
  <2>1. UNCHANGED <<count, itest, ran>>
    BY <1>7 DEF LockCount, LockList, PutList, UnlockClaimed, LockShared, PollCount,
                LockListForRead, GetList, EnterCreateGroup, LeaveCreateGroup, EnterWinFree,
                LeaveWinFree
  <2>2. \A q \in Rank : pc'[q] = "refused" => pc[q] = "refused"
    BY <1>1, <1>7 DEF LockCount, LockList, PutList, UnlockClaimed, LockShared, PollCount,
                LockListForRead, GetList, EnterCreateGroup, LeaveCreateGroup, EnterWinFree,
                LeaveWinFree, Goto, TypeOK
  <2>3. \A q \in Rank : pc'[q] \in {"win_free", "done"} =>
          pc[q] \in {"win_free", "done"} \/ itest[q] = NTest
    BY <1>1, <1>7 DEF LockCount, LockList, PutList, UnlockClaimed, LockShared, PollCount,
                LockListForRead, GetList, EnterCreateGroup, LeaveCreateGroup, EnterWinFree,
                LeaveWinFree, Goto, TypeOK
  <2> QED
    BY <2>1, <2>2, <2>3 DEF Passed, Refused, AtEnd, OnlyFitting
<1>8. CASE UNCHANGED vars
  BY <1>8 DEF vars, Passed, Refused, AtEnd, OnlyFitting
<1> QED
  BY <1>2, <1>3, <1>4, <1>5, <1>6, <1>7, <1>8 DEF Next, RankStep, Terminated

\* The ranks whose number is written in the list of t are as many as the places
\* written since the allocation.
LEMMA PlacedCount ==
  ASSUME IndInv, NEW t \in Test
  PROVE  /\ Written(t) \in Int /\ start[t] \in Nat /\ Written(t) - start[t] \in Nat
         /\ IsFiniteSet({r \in Rank : Placed(r, t)})
         /\ Cardinality({r \in Rank : Placed(r, t)}) = Written(t) - start[t]
<1> DEFINE P == {r \in Rank : Placed(r, t)}
           s0 == start[t]
           n == Written(t) - s0
           f == [k \in 1 .. n |-> list[t][s0 + k]]
<1>0. count[t] \in Int /\ s0 \in Nat /\ count[t] >= s0 /\ Need[t] \in Nat
  BY TestIndex DEF IndInv, TypeOK, CountBound
<1>1. Written(t) \in Int /\ n \in Nat
  <2>1. ASSUME NEW r \in Rank, itest[r] = t, pc[r] \in Writing PROVE count[t] \in s0 + 1 .. Need[t]
    BY <2>1 DEF IndInv, Claiming
  <2> QED
    BY <1>0, <2>1 DEF Written
<1>2. /\ \A k \in 1 .. n : s0 + k \in Filled(t)
      /\ \A k \in Filled(t) : k - s0 \in 1 .. n /\ s0 + (k - s0) = k
  BY <1>0, <1>1 DEF Filled
<1>3. f \in [1 .. n -> P] /\ \A j, k \in 1 .. n : f[j] = f[k] => j = k
  <2>1. \A k \in 1 .. n : f[k] \in P
    BY <1>2 DEF IndInv, Listing
  <2>2. \A j, k \in 1 .. n : f[j] = f[k] => s0 + j = s0 + k
    BY <1>2 DEF IndInv, Distinct
  <2>3. \A j, k \in 1 .. n : s0 + j = s0 + k => j = k
    BY <1>0, <1>1
  <2> HIDE DEF P, n
  <2> QED
    BY <2>1, <2>2, <2>3
<1>4. \A r \in P : \E k \in 1 .. n : f[k] = r
  <2> SUFFICES ASSUME NEW r \in P PROVE \E k \in 1 .. n : f[k] = r
    OBVIOUS
  <2>1. PICK k \in Filled(t) : list[t][k] = r
    BY DEF IndInv, Listed
  <2>2. f[k - s0] = r
    BY <1>2, <2>1
  <2> QED
    BY <1>2, <2>2
<1> HIDE DEF f, P, n
<1>5. IsFiniteSet(1 .. n) /\ Cardinality(1 .. n) = n
  BY <1>1, FS_Interval
<1>6. f \in Bijection(1 .. n, P)
  BY <1>3, <1>4 DEF Bijection, Injection, Surjection, IsInjective
<1>7. ExistsBijection(1 .. n, P)
  BY <1>6 DEF ExistsBijection
<1>8. IsFiniteSet(P) /\ Cardinality(P) = n
  BY <1>5, <1>7, FS_Bijection
<1> QED
  BY <1>0, <1>1, <1>8 DEF P, n

\* The count of a test has grown by the number of ranks that took a place in it.
LEMMA CountIsClaimants == IndInv => CountsRanks
<1> SUFFICES ASSUME IndInv, NEW t \in Test PROVE count[t] = start[t] + Cardinality(Claimants(t))
  BY DEF CountsRanks
<1> DEFINE P == {r \in Rank : Placed(r, t)}
<1>1. /\ Written(t) \in Int /\ start[t] \in Nat
      /\ IsFiniteSet(P) /\ Cardinality(P) = Written(t) - start[t]
  BY PlacedCount
<1>2. ran[t] \subseteq Rank /\ count[t] \in Int
  BY DEF IndInv, TypeOK
<1>3. CASE \E r \in Rank : itest[r] = t /\ pc[r] \in Writing
  <2>1. PICK w \in Rank : itest[w] = t /\ pc[w] \in Writing
    BY <1>3
  <2>2. \A q \in Rank : pc[q] \in Writing => q = w
    BY <2>1, OneWriter DEF IndInv, Writing, Holding
  <2>3. ~ Placed(w, t)
    <3>1. w \notin ran[t]
      BY <2>1, ConstAssumption DEF IndInv, Past, Test
    <3> QED
      BY <2>1, <3>1 DEF Placed, Writing, Waiting, Complete
  <2>4. Claimants(t) = P \cup {w}
    BY <1>2, <2>1, <2>2 DEF Claimants, Placed
  <2>5. Cardinality(P \cup {w}) = Cardinality(P) + 1
    BY <1>1, <2>3, FS_AddElement
  <2>6. Written(t) = count[t] - 1
    BY <1>3 DEF Written
  <2> QED
    BY <1>1, <1>2, <2>4, <2>5, <2>6
<1>4. CASE ~ \E r \in Rank : itest[r] = t /\ pc[r] \in Writing
  <2>1. Claimants(t) = P
    BY <1>2, <1>4 DEF Claimants, Placed
  <2>2. Written(t) = count[t]
    BY <1>4 DEF Written
  <2> QED
    BY <1>1, <1>2, <2>1, <2>2
<1> QED
  BY <1>3, <1>4

\* Once every rank has left the loop, the claimants of a test are those that ran it.
LEMMA EndIsStaffed == IndInv /\ Behind => AllStaffed
<1> SUFFICES ASSUME IndInv, Behind, Finished, NEW t \in Test
             PROVE  Cardinality(ran[t]) = IF Need[t] <= NRank /\ start[t] = 0 THEN Need[t] ELSE 0
  BY DEF AllStaffed
<1>1. PICK r \in Rank : TRUE
  <2>1. 0 \in Rank
    BY ConstAssumption DEF Rank
  <2> QED
    BY <2>1
<1>2. itest[r] = NTest /\ t < itest[r]
  BY ConstAssumption DEF Finished, Behind, AtEnd, Test
<1>3. Claimants(t) = ran[t]
  BY DEF Claimants, Finished, Writing, Waiting, Complete
<1>4. /\ count[t] = start[t] + Cardinality(ran[t])
      /\ start[t] \in Nat /\ Need[t] \in Nat /\ count[t] \in Int
      /\ count[t] <= Need[t] \/ count[t] = start[t]
      /\ ran[t] \subseteq Rank
  BY <1>3, CountIsClaimants, TestIndex DEF CountsRanks, IndInv, TypeOK, CountBound
<1>5. Cardinality(ran[t]) \in Nat
  <2>1. IsFiniteSet(Rank)
    BY ConstAssumption, FS_Interval DEF Rank
  <2> QED
    BY <1>4, <2>1, FS_Subset, FS_CardinalityType
<1>6. CASE Need[t] <= NRank /\ start[t] = 0
  <2>1. count[t] >= Need[t]
    BY <1>2, <1>6 DEF Behind, Passed
  <2> QED
    BY <1>4, <1>5, <1>6, <2>1
<1>7. CASE Need[t] <= NRank /\ start[t] # 0
  <2>1. ran[t] = {}
    BY <1>7 DEF IndInv, Whole
  <2> QED
    BY <1>7, <2>1, FS_EmptySet
<1>8. CASE ~ (Need[t] <= NRank)
  <2>1. Need[t] > NRank
    BY <1>8, TestIndex, ConstAssumption
  <2>2. ran[t] = {}
    BY <2>1 DEF Behind, OnlyFitting
  <2> QED
    BY <1>8, <2>2, FS_EmptySet
<1> QED
  BY <1>6, <1>7, <1>8

\* Whatever the suite, the communicator and the windows at first,
\* update_window_to_match_test neither loses a claim nor counts one twice, and when the
\* windows are freed every test that fits and whose count started at zero has been run
\* by exactly the ranks it asked for, the others by none.
THEOREM TestsAreStaffed == Spec => []TestsStaffed
<1>1. Init => Behind
  <2> SUFFICES ASSUME Init PROVE Behind
    OBVIOUS
  <2>1. \A t \in Test : ~ (t < 0)
    BY ConstAssumption DEF Test
  <2> QED
    BY <2>1 DEF Init, Behind, Passed, Refused, AtEnd, OnlyFitting
<1>2. IndInv /\ Behind /\ [Next]_vars => Behind'
  BY BehindStep
<1>3. IndInv /\ Behind => TestsStaffed
  BY CountIsClaimants, EndIsStaffed DEF TestsStaffed
<1> QED
  BY <1>1, <1>2, <1>3, SchedulerInvariant, PTL DEF Spec

-----------------------------------------------------------------------------
(***************************************************************************)
(* Refinement                                                              *)
(***************************************************************************)

\* Steps that write neither window and move no rank between writing and not writing
\* leave the mapped rosters as they are.
LEMMA RosterUnchanged ==
  ASSUME UNCHANGED <<count, start, list>>,
         \A q \in Rank : /\ pc'[q] \in Writing <=> pc[q] \in Writing
                         /\ pc[q] \in Writing => itest'[q] = itest[q]
  PROVE  RosterOf' = RosterOf
<1>1. \A t \in Test : Written(t)' = Written(t)
  BY DEF Written
<1> QED
  BY <1>1 DEF RosterOf

\* Taking a place is invisible until the rank is in the list.
LEMMA PutCountStutters ==
  ASSUME IndInv, NEW r \in Rank, PutCount(r)
  PROVE  RosterOf' = RosterOf
<1> DEFINE t0 == itest[r]
<1>1. pc[r] = "put_count" /\ pc[r] \in Holding
  BY DEF PutCount, Holding
<1>2. t0 \in Test /\ remote[r] = count[t0] /\ count[t0] \in Int
  BY <1>1 DEF IndInv, TypeOK, Claiming
<1>3. /\ \A q \in Rank : pc'[q] = IF q = r THEN "lock_list" ELSE pc[q]
      /\ \A t \in Test : count'[t] = IF t = t0 THEN count[t0] + 1 ELSE count[t]
      /\ UNCHANGED <<start, list, itest>>
  BY <1>2 DEF PutCount, Goto, IndInv, TypeOK
<1>4. \A q \in Rank : pc[q] \notin Writing
  BY <1>1, OneWriter DEF Writing, IndInv
<1>5. \A t \in Test : Written(t) = count[t]
  BY <1>4 DEF Written
<1>6. ASSUME NEW t \in Test PROVE Written(t)' = Written(t)
  <2>1. CASE t = t0
    <3>1. Written(t)' = count'[t] - 1
      BY <1>3, <2>1 DEF Written, Writing
    <3> QED
      BY <1>2, <1>3, <1>5, <2>1, <3>1
  <2>2. CASE t # t0
    <3>1. \A q \in Rank : ~ (itest'[q] = t /\ pc'[q] \in Writing)
      BY <1>3, <1>4, <2>2
    <3> QED
      BY <1>3, <1>5, <2>2, <3>1 DEF Written
  <2> QED
    BY <2>1, <2>2
<1> QED
  BY <1>3, <1>6 DEF RosterOf

\* A sequence is a function on its indices.
LEMMA SeqIsFunction ==
  ASSUME NEW s \in Seq(Int), NEW n \in Nat, Len(s) = n
  PROVE  s \in [1 .. n -> Int]
OBVIOUS

\* Append, as a function.
LEMMA AppendIs ==
  ASSUME NEW s \in Seq(Int), NEW e \in Int, NEW n \in Nat, Len(s) = n - 1
  PROVE  Append(s, e) = [k \in 1 .. n |-> IF k = n THEN e ELSE s[k]]
<1> DEFINE f == [k \in 1 .. n |-> IF k = n THEN e ELSE s[k]]
           a == Append(s, e)
<1>1. a \in Seq(Int) /\ Len(a) = n
  OBVIOUS
<1>2. \A k \in 1 .. n : a[k] = f[k]
  OBVIOUS
<1>3. f \in [1 .. n -> Int]
  OBVIOUS
<1> HIDE DEF f, a
<1>4. a \in [1 .. n -> Int]
  BY <1>1, SeqIsFunction
<1>5. a = f
  BY <1>2, <1>3, <1>4
<1> QED
  BY <1>5 DEF a, f

\* The Put of the rank enlists it.
LEMMA PutListEnlists ==
  ASSUME IndInv, NEW r \in Rank, PutList(r)
  PROVE  Teams!Enlist(r, itest[r])
<1> DEFINE t0 == itest[r]
           n0 == count[itest[r]]
           s0 == start[itest[r]]
<1>1. pc[r] = "put_list" /\ pc[r] \in Holding /\ pc[r] \in Writing
  BY DEF PutList, Holding, Writing
<1>2. /\ t0 \in Test /\ remote[r] = n0 /\ n0 \in s0 + 1 .. Need[t0] /\ Need[t0] \in Nat
      /\ s0 \in Nat /\ list[t0] \in [1 .. Need[t0] -> Int] /\ Need[t0] <= NRank
  BY <1>1, TestIndex DEF IndInv, TypeOK, Claiming, Place, Fits
<1>3. /\ \A q \in Rank : pc'[q] = IF q = r THEN "claimed" ELSE pc[q]
      /\ UNCHANGED <<count, start, itest, ran>>
  BY DEF PutList, Goto, IndInv, TypeOK
<1>4. /\ \A t \in Test : t # t0 => list'[t] = list[t]
      /\ list'[t0][n0] = r
      /\ \A k \in 1 .. Need[t0] : k # n0 => list'[t0][k] = list[t0][k]
  BY <1>2 DEF PutList, IndInv, TypeOK
<1>5. \A q \in Rank : pc[q] \in Writing => q = r
  BY <1>1, OneWriter DEF IndInv
<1>6. \A t \in Test : Written(t)' = count[t]
  BY <1>3, <1>5 DEF Written, Writing
<1>7. Written(t0) = n0 - 1 /\ \A t \in Test : t # t0 => Written(t) = count[t]
  BY <1>1, <1>2, <1>5 DEF Written
<1>8. RosterOf[t0] = [k \in 1 .. n0 - 1 - s0 |-> list[t0][s0 + k]]
  BY <1>2, <1>7 DEF RosterOf
<1>9. RosterOf[t0] \in Seq(Int) /\ Len(RosterOf[t0]) = n0 - 1 - s0
  <2>1. n0 - 1 - s0 \in Nat /\ \A k \in 1 .. n0 - 1 - s0 : list[t0][s0 + k] \in Int
    <3>1. n0 - 1 - s0 \in Nat /\ \A k \in 1 .. n0 - 1 - s0 : s0 + k \in 1 .. Need[t0]
      BY <1>2
    <3> QED
      BY <1>2, <3>1
  <2> QED
    BY <1>8, <2>1
<1>10. Append(RosterOf[t0], r) = [k \in 1 .. n0 - s0 |-> list'[t0][s0 + k]]
  <2> DEFINE m == n0 - s0
  <2>1. m \in Nat /\ n0 - 1 - s0 = m - 1 /\ s0 + m = n0 /\ m >= 1
    BY <1>2
  <2>2. Append(RosterOf[t0], r) = [k \in 1 .. m |-> IF k = m THEN r ELSE RosterOf[t0][k]]
    <3>1. r \in Int
      BY ConstAssumption DEF Rank
    <3> HIDE DEF n0, t0, s0, m
    <3> QED
      BY <1>9, <2>1, <3>1, AppendIs
  <2>3. ASSUME NEW k \in 1 .. m
        PROVE  (IF k = m THEN r ELSE RosterOf[t0][k]) = list'[t0][s0 + k]
    <3>1. CASE k = m
      BY <1>4, <2>1, <3>1
    <3>2. CASE k # m
      <4>1. k \in 1 .. n0 - 1 - s0 /\ s0 + k \in 1 .. Need[t0] /\ s0 + k # n0
        BY <1>2, <2>1, <3>2
      <4> QED
        BY <1>4, <1>8, <3>2, <4>1
    <3> QED
      BY <3>1, <3>2
  <2> QED
    BY <2>1, <2>2, <2>3
<1>11. RosterOf' = [RosterOf EXCEPT ![t0] = Append(RosterOf[t0], r)]
  <2>1. RosterOf' = [t \in Test |-> [k \in 1 .. count[t] - start[t] |-> list'[t][start[t] + k]]]
    BY <1>3, <1>6 DEF RosterOf
  <2>2. ASSUME NEW t \in Test
        PROVE  [k \in 1 .. count[t] - start[t] |-> list'[t][start[t] + k]]
                 = IF t = t0 THEN Append(RosterOf[t0], r) ELSE RosterOf[t]
    <3>1. CASE t = t0
      BY <1>10, <3>1
    <3>2. CASE t # t0
      BY <1>4, <1>7, <3>2 DEF RosterOf
    <3> QED
      BY <3>1, <3>2
  <2>3. RosterOf = [t \in Test |-> RosterOf[t]]
    BY DEF RosterOf
  <2> HIDE DEF t0, n0, s0
  <2> QED
    BY <2>1, <2>2, <2>3
<1>12. \A u \in Test : Teams!Listed(r, u) => r \in ran[u]
  <2> SUFFICES ASSUME NEW u \in Test, NEW k \in DOMAIN RosterOf[u], RosterOf[u][k] = r
               PROVE  r \in ran[u]
    BY DEF Teams!Listed
  <2>1. k \in 1 .. Written(u) - start[u] /\ list[u][start[u] + k] = r
    BY DEF RosterOf
  <2>2. start[u] + k \in Filled(u)
    <3>1. Written(u) \in Int /\ start[u] \in Nat
      BY PlacedCount
    <3> QED
      BY <2>1, <3>1 DEF Filled
  <2>3. Placed(r, u)
    BY <2>1, <2>2 DEF IndInv, Listing
  <2> QED
    BY <1>1, <2>3 DEF Placed, Waiting, Complete
<1>13. ~ Teams!Listed(r, t0)
  <2>1. t0 \in Int /\ ~ (t0 < itest[r])
    BY <1>2, ConstAssumption DEF Test
  <2>2. r \notin ran[t0]
    BY <1>2, <2>1 DEF IndInv, Past
  <2> QED
    BY <1>2, <1>12, <2>2
<1>14. start[t0] + Len(RosterOf[t0]) < Need[t0]
  BY <1>2, <1>9
<1> QED
  BY <1>2, <1>3, <1>11, <1>12, <1>13, <1>14 DEF Teams!Enlist, Teams!Test, Test

\* Running the test executes the roster, which is complete.
LEMMA RunTestExecutes ==
  ASSUME IndInv, NEW r \in Rank, RunTest(r)
  PROVE  Teams!Execute(r, itest[r])
<1> DEFINE t0 == itest[r]
<1>1. pc[r] = "run" /\ pc[r] \in Grouped
  BY DEF RunTest, Grouped
<1>2. /\ t0 \in Test /\ Written(t0) = Need[t0] /\ Need[t0] \in Nat
      /\ \E k \in Place(t0) : list[t0][k] = r
      /\ list[t0] \in [1 .. Need[t0] -> Int] /\ start[t0] = 0
  BY <1>1, MemberOfGroup, TestIndex DEF IndInv, TypeOK, Place, Whole
<1>3. RosterOf[t0] = [k \in 1 .. Need[t0] |-> list[t0][k]]
  BY <1>2 DEF RosterOf
<1>4. Len(RosterOf[t0]) = Need[t0]
  BY <1>2, <1>3
<1>5. Teams!Listed(r, t0)
  BY <1>2, <1>3 DEF Teams!Listed, Place
<1>6. r \notin ran[t0]
  <2>1. t0 \in Int /\ ~ (t0 < itest[r])
    BY <1>2, ConstAssumption DEF Test
  <2> QED
    BY <1>2, <2>1 DEF IndInv, Past
<1>7. RosterOf' = RosterOf
  BY <1>1, RosterUnchanged DEF RunTest, NextTest, Goto, winVars, IndInv, TypeOK, Writing
<1> QED
  BY <1>4, <1>5, <1>6, <1>7 DEF Teams!Execute, RunTest, winVars

\* Whatever the suite, the communicator and the windows at first, run_scheduler_old
\* implements TestTeams.
THEOREM SchedulerImplementsTeams == Spec => ImplementsTeams
<1>1. Init => Teams!TeamInit
  <2> SUFFICES ASSUME Init PROVE Teams!TeamInit
    OBVIOUS
  <2>0. start \in [Test -> Nat]
    BY FreshAssumption DEF Init
  <2>1. \A t \in Test : Written(t) - start[t] = 0
    BY <2>0 DEF Init, Written, Writing
  <2>2. RosterOf = [t \in Test |-> << >>]
    <3>1. ASSUME NEW t \in Test
          PROVE  [k \in 1 .. Written(t) - start[t] |-> list[t][start[t] + k]] = << >>
      BY <2>1
    <3> QED
      BY <3>1 DEF RosterOf
  <2> QED
    BY <2>0, <2>2 DEF Init, Teams!TeamInit, Teams!Test, Test
<1>2. IndInv /\ [Next]_vars => [Teams!TeamNext]_Teams!teamVars
  <2> SUFFICES ASSUME IndInv, [Next]_vars PROVE [Teams!TeamNext]_Teams!teamVars
    OBVIOUS
  <2>1. Teams!Rank = Rank /\ Teams!Test = Test
    BY DEF Teams!Rank, Teams!Test, Rank, Test
  <2>2. ASSUME NEW r \in Rank, PutList(r) PROVE Teams!TeamNext
    <3>1. itest[r] \in Test
      BY <2>2 DEF PutList, IndInv, TypeOK
    <3> QED
      BY <2>1, <2>2, <3>1, PutListEnlists DEF Teams!TeamNext
  <2>3. ASSUME NEW r \in Rank, RunTest(r) PROVE Teams!TeamNext
    <3>1. itest[r] \in Test
      BY <2>3 DEF RunTest, IndInv, TypeOK
    <3> QED
      BY <2>1, <2>3, <3>1, RunTestExecutes DEF Teams!TeamNext
  <2>4. ASSUME NEW r \in Rank, PutCount(r) PROVE UNCHANGED <<start, RosterOf, ran>>
    BY <2>4, PutCountStutters DEF PutCount
  <2>5. ASSUME NEW r \in Rank,
               \/ SkipTest(r) \/ LockCount(r) \/ GetCount(r) \/ LockList(r)
               \/ UnlockClaimed(r) \/ UnlockRefused(r) \/ LockShared(r)
        PROVE UNCHANGED <<start, RosterOf, ran>>
    BY <2>5, RosterUnchanged
       DEF SkipTest, LockCount, GetCount, LockList, UnlockClaimed, UnlockRefused, LockShared,
           NextTest, Goto, winVars, IndInv, TypeOK, Writing
  <2>6. ASSUME NEW r \in Rank,
               \/ PollCount(r) \/ LockListForRead(r) \/ GetList(r) \/ EnterCreateGroup(r)
               \/ LeaveCreateGroup(r) \/ EnterWinFree(r) \/ LeaveWinFree(r)
        PROVE UNCHANGED <<start, RosterOf, ran>>
    BY <2>6, RosterUnchanged
       DEF PollCount, LockListForRead, GetList, EnterCreateGroup, LeaveCreateGroup,
           EnterWinFree, LeaveWinFree, Goto, winVars, IndInv, TypeOK, Writing
  <2>7. CASE UNCHANGED vars
    BY <2>7, RosterUnchanged DEF vars, Teams!teamVars
  <2> QED
    BY <2>2, <2>3, <2>4, <2>5, <2>6, <2>7
       DEF Next, RankStep, Terminated, Teams!teamVars
<1> QED
  BY <1>1, <1>2, SchedulerInvariant, PTL DEF Spec, ImplementsTeams, Teams!TeamSpec
=============================================================================
