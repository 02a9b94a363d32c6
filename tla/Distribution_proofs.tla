------------------------- MODULE Distribution_proofs -------------------------
(***************************************************************************)
(* Facts about the distributions of any array over any number of ranks.    *)
(***************************************************************************)
EXTENDS Distribution, InductionFacts, TLAPS

\* The bounds of interval i of a uniform cut, without the nested conditions.
LEMMA UniformBounds ==
  ASSUME NEW n \in Nat, NEW r \in Rank
  PROVE  LET step == n \div NRank
             rem == n % NRank
         IN  /\ step \in Nat /\ rem \in 0 .. NRank - 1 /\ n = NRank * step + rem
             /\ uniform_distribution(n)[r] =
                  <<r * step + MinOf(r, rem), (r + 1) * step + MinOf(r + 1, rem), n>>
<1> DEFINE step == n \div NRank
           rem == n % NRank
<1>1. step \in Nat /\ rem \in 0 .. NRank - 1 /\ n = NRank * step + rem
  BY NRankAssumption
<1> HIDE DEF step, rem
<1>2. (r + 1) * step = r * step + step /\ r * (step + 1) = r * step + r
  BY <1>1, NRankAssumption DEF Rank
<1>3. r \in Nat /\ r * step \in Nat
  BY <1>1, NRankAssumption DEF Rank
<1>4. uniform_distribution(n)[r] =
        <<IF r < rem THEN r * (step + 1) ELSE r * step + rem,
          (IF r < rem THEN r * (step + 1) ELSE r * step + rem)
             + step + (IF r < rem THEN 1 ELSE 0), n>>
  BY DEF uniform_distribution, uniform_distribution_at, step, rem
<1>5. CASE r < rem
  BY <1>1, <1>2, <1>3, <1>4, <1>5 DEF MinOf, step, rem
<1>6. CASE ~(r < rem)
  BY <1>1, <1>2, <1>3, <1>4, <1>6 DEF MinOf, step, rem
<1> QED BY <1>5, <1>6

\* uniform_distribution cuts any array over any number of ranks into blocks that follow
\* each other from 0 to its size.
THEOREM UniformTiles == \A n \in Nat : Tiles(uniform_distribution(n), n)
<1> TAKE n \in Nat
<1> DEFINE step == n \div NRank
           rem == n % NRank
           u == uniform_distribution(n)
<1>1. step \in Nat /\ rem \in 0 .. NRank - 1 /\ n = NRank * step + rem
  BY NRankAssumption
<1>2. \A r \in Rank :
        u[r] = <<r * step + MinOf(r, rem), (r + 1) * step + MinOf(r + 1, rem), n>>
  BY UniformBounds
<1> HIDE DEF step, rem, u
<1>3. \A r \in Rank : r \in Nat /\ r * step \in Nat /\ (r + 1) * step = r * step + step
  BY <1>1, NRankAssumption DEF Rank
<1>4. u[0][1] = 0
  BY <1>1, <1>2, NRankAssumption DEF Rank, MinOf
<1>5. u[NRank - 1][2] = n
  BY <1>1, <1>2, NRankAssumption DEF Rank, MinOf
<1>6. \A r \in Rank : u[r][1] <= u[r][2] /\ u[r][3] = n
  BY <1>1, <1>2, <1>3 DEF MinOf
<1>7. \A r \in Rank \ {0} : u[r][1] = u[r - 1][2]
  <2> TAKE r \in Rank \ {0}
  <2>1. r - 1 \in Rank /\ (r - 1) + 1 = r
    BY NRankAssumption DEF Rank
  <2> QED BY <1>2, <2>1
<1> QED BY <1>4, <1>5, <1>6, <1>7 DEF Tiles, u

\* Two blocks of a uniform cut differ by one entry at most.
THEOREM UniformIsBalanced ==
  \A n \in Nat : \A q, r \in Rank :
    LET u == uniform_distribution(n)
    IN  u[q][2] - u[q][1] <= u[r][2] - u[r][1] + 1
<1> TAKE n \in Nat
<1> TAKE q, r \in Rank
<1> DEFINE step == n \div NRank
           rem == n % NRank
           u == uniform_distribution(n)
<1>1. step \in Nat /\ rem \in 0 .. NRank - 1
  BY NRankAssumption
<1>2. /\ u[q] = <<q * step + MinOf(q, rem), (q + 1) * step + MinOf(q + 1, rem), n>>
      /\ u[r] = <<r * step + MinOf(r, rem), (r + 1) * step + MinOf(r + 1, rem), n>>
  BY UniformBounds
<1> HIDE DEF step, rem, u
<1>3. /\ q \in Nat /\ q * step \in Nat /\ (q + 1) * step = q * step + step
      /\ r \in Nat /\ r * step \in Nat /\ (r + 1) * step = r * step + step
  BY <1>1, NRankAssumption DEF Rank
<1>4. u[q][2] - u[q][1] <= step + 1 /\ u[r][2] - u[r][1] >= step
  BY <1>1, <1>2, <1>3 DEF MinOf
<1>5. u[q][2] - u[q][1] \in Int /\ u[r][2] - u[r][1] \in Int
  BY <1>1, <1>2, <1>3 DEF MinOf
<1> QED BY <1>1, <1>4, <1>5 DEF u

\* gathering_distribution: one rank owns everything and the others empty intervals at the
\* end that keeps the blocks consecutive.
THEOREM GatheringTiles ==
  \A i \in Rank, n \in Nat : Tiles(gathering_distribution(i, n), n)
<1> TAKE i \in Rank, n \in Nat
<1> DEFINE g == gathering_distribution(i, n)
<1>1. \A r \in Rank : g[r] = <<IF r <= i THEN 0 ELSE n, IF r < i THEN 0 ELSE n, n>>
  BY DEF gathering_distribution
<1> HIDE DEF g
<1>2. \A r \in Rank : r \in 0 .. NRank - 1
  BY DEF Rank
<1>3. 0 \in Rank /\ NRank - 1 \in Rank /\ \A r \in Rank \ {0} : r - 1 \in Rank
  BY NRankAssumption DEF Rank
<1>4. \A r \in Rank : /\ g[r][1] = (IF r <= i THEN 0 ELSE n)
                      /\ g[r][2] = (IF r < i THEN 0 ELSE n) /\ g[r][3] = n
  BY <1>1
<1> QED BY <1>2, <1>3, <1>4, NRankAssumption DEF Tiles, g

\* Every policy of redistribute_tree yields a distribution.
THEOREM PoliciesTile == \A p \in Policy, n \in Nat : Tiles(interpret_policy(p, n), n)
<1> TAKE p \in Policy, n \in Nat
<1>1. CASE p.type = "uniform"
  BY <1>1, UniformTiles DEF interpret_policy
<1>2. CASE p.type # "uniform"
  <2>1. p.rank \in Rank
    BY <1>2 DEF Policy
  <2> QED BY <1>2, <2>1, GatheringTiles DEF interpret_policy
<1> QED BY <1>1, <1>2

\* What r sends to i in a BlockToBlock exchange is what i expects from r: the counts that
\* the two ranks compute on their own agree, for any pair of distributions.
THEOREM CountsAgree ==
  ASSUME NEW din \in [0 .. NRank -> Int], NEW dout \in [0 .. NRank -> Int],
         NEW r \in Rank, NEW i \in Rank
  PROVE  send_counts(din, dout, r)[i] = recv_counts(din, dout, i)[r]
<1>1. din[r] \in Int /\ din[r + 1] \in Int /\ dout[i] \in Int /\ dout[i + 1] \in Int
  BY NRankAssumption DEF Rank
<1> QED BY <1>1 DEF send_counts, recv_counts, _overlap_size, MinOf, MaxOf

\* The corner case of auto_expand_distri: on two ranks the partial distribution of rank 0
\* is broadcast as if it were full, and its three entries are the bounds of both ranks.
THEOREM TwoRanksExpand ==
  ASSUME NRank = 2, NEW n \in Nat, NEW partial \in [Rank -> Seq(Nat)],
         Tiles(partial, n), NEW r \in Rank
  PROVE  /\ auto_expand_distri(partial)[r] = partial[r][1]
         /\ auto_expand_distri(partial)[r + 1] = partial[r][2]
<1>1. Rank = {0, 1}
  BY DEF Rank
<1>2. /\ auto_expand_distri(partial)[0] = partial[0][1]
      /\ auto_expand_distri(partial)[1] = partial[0][2]
      /\ auto_expand_distri(partial)[2] = partial[0][3]
  BY DEF auto_expand_distri
<1>3. partial[1][1] = partial[0][2] /\ partial[0][3] = n /\ partial[1][2] = n
  BY <1>1 DEF Tiles
<1>4. CASE r = 0
  BY <1>2, <1>4
<1>5. CASE r = 1
  BY <1>2, <1>3, <1>5
<1> QED BY <1>1, <1>4, <1>5
-----------------------------------------------------------------------------
(***************************************************************************)
(* Block to block exchanges.  Rank r of a distribution cuts its block at   *)
(* the bounds of another distribution, brought back into the block.        *)
(***************************************************************************)
FullDistribution(d, n) ==
  /\ d \in [0 .. NRank -> Int]
  /\ d[0] = 0 /\ d[NRank] = n /\ \A r \in Rank : d[r] <= d[r + 1]

CutAt(from, to, r, i) == MaxOf(from[r], MinOf(to[i], from[r + 1]))

\* The blocks B[a][b] of a global array of n entries, S being the items and W[a] the
\* number of items of the first a entries.
IsBlocks(B, W, S, n) ==
  /\ W \in [0 .. n -> Int]
  /\ \A a, b \in 0 .. n : a <= b => B[a][b] \in Seq(S) /\ Len(B[a][b]) = W[b] - W[a]
  /\ \A a, b, c \in 0 .. n : a <= b /\ b <= c => B[a][c] = B[a][b] \o B[b][c]

\* The items rank r has for each interval of the other distribution.
CutItems(W, from, to, r) ==
  [i \in Rank |-> W[CutAt(from, to, r, i + 1)] - W[CutAt(from, to, r, i)]]

\* The blocks rank r has for each interval of the other distribution.
CutBlocks(B, from, to, r) ==
  [i \in 1 .. NRank |-> B[CutAt(from, to, r, i - 1)][CutAt(from, to, r, i)]]

\* The ranks and their successors are indices of the bounds.
LEMMA RankIndex ==
  /\ NRank \in Nat /\ 0 \in 0 .. NRank /\ NRank \in 0 .. NRank
  /\ \A r \in Rank : r \in 0 .. NRank /\ r + 1 \in 0 .. NRank /\ r \in 0 .. NRank - 1
  /\ \A i \in 0 .. NRank - 1 : i \in Rank
  /\ \A i \in 1 .. NRank : i - 1 \in Rank /\ (i - 1) + 1 = i
BY NRankAssumption DEF Rank

\* gather_and_shift: the cumulated sums of the gathered values.
LEMMA GatherAndShift ==
  ASSUME NEW value \in [Rank -> Int]
  PROVE  /\ gather_and_shift(value) \in [0 .. NRank -> Int]
         /\ gather_and_shift(value)[0] = 0
         /\ \A i \in Rank :
              gather_and_shift(value)[i + 1] = gather_and_shift(value)[i] + value[i]
<1> DEFINE f == [i \in 1 .. NRank |-> value[i - 1]]
           IsShifted(c) == c = [i \in 0 .. NRank |-> IF i = 0 THEN 0 ELSE c[i - 1] + value[i - 1]]
           s == gather_and_shift(value)
<1>1. NRank \in Nat /\ AllInt(f, NRank) /\ \A i \in 1 .. NRank : f[i] = value[i - 1]
  BY RankIndex DEF AllInt
<1> HIDE DEF f
<1>2. ASSUME NEW c PROVE IsSum(c, f, NRank) <=> IsShifted(c)
  <2>1. \A i \in 0 .. NRank : i # 0 => f[i] = value[i - 1]
    BY <1>1
  <2> QED
    BY <2>1 DEF IsSum
<1>3. \E c : IsShifted(c)
  BY <1>1, <1>2, SumExists
<1>4. IsShifted(s)
  <2>1. s = CHOOSE c : IsShifted(c)
    BY DEF gather_and_shift
  <2> QED
    BY <1>3, <2>1
<1>5. s \in [0 .. NRank -> Int] /\ s[0] = 0 /\ \A i \in 0 .. NRank - 1 : s[i + 1] = s[i] + f[i + 1]
  <2>1. IsSum(s, f, NRank)
    BY <1>2, <1>4
  <2>2. SumSteps(s, f, NRank) /\ \A i \in 0 .. NRank : s[i] \in Int
    BY <1>1, <2>1, SumFacts
  <2> QED
    BY <1>4, <2>2 DEF SumSteps
<1> HIDE DEF s
<1>6. \A i \in Rank : s[i + 1] = s[i] + value[i]
  <2> TAKE i \in Rank
  <2>1. i \in 0 .. NRank - 1 /\ i + 1 \in 1 .. NRank /\ (i + 1) - 1 = i
    BY NRankAssumption DEF Rank
  <2>2. f[i + 1] = value[(i + 1) - 1]
    BY <1>1, <2>1
  <2>3. f[i + 1] = value[i]
    BY <2>1, <2>2
  <2> QED
    BY <1>5, <2>1, <2>3
<1> QED
  BY <1>5, <1>6 DEF s

\* A full distribution increases from 0 to the size of the array.
LEMMA BoundsInRange ==
  ASSUME NEW n \in Nat, NEW d, FullDistribution(d, n)
  PROVE  \A i \in 0 .. NRank : d[i] \in 0 .. n
<1>1. \A i \in 0 .. NRank : d[i] \in Int
  BY DEF FullDistribution
<1>2. \A i \in 0 .. NRank : 0 <= d[i]
  <2> DEFINE T == {i \in 0 .. NRank : 0 <= d[i]}
  <2>1. 0 \in T
    BY RankIndex DEF FullDistribution
  <2>2. ASSUME NEW i \in 0 .. NRank - 1, i \in T PROVE i + 1 \in T
    <3>1. i \in Rank /\ i + 1 \in 0 .. NRank /\ i \in 0 .. NRank
      BY RankIndex
    <3>2. d[i] <= d[i + 1] /\ d[i] \in Int /\ d[i + 1] \in Int
      BY <1>1, <3>1 DEF FullDistribution
    <3> QED
      BY <2>2, <3>1, <3>2
  <2> HIDE DEF T
  <2>3. \A i \in 0 .. NRank : i \in T
    BY <2>1, <2>2, RankIndex, IntervalInduction
  <2> QED
    BY <2>3 DEF T
<1>3. \A i \in 0 .. NRank : d[i] <= n
  <2> DEFINE T == {i \in 0 .. NRank : d[NRank - i] <= n}
  <2>1. 0 \in T
    BY RankIndex DEF FullDistribution
  <2>2. ASSUME NEW i \in 0 .. NRank - 1, i \in T PROVE i + 1 \in T
    <3>1. /\ NRank - (i + 1) \in Rank /\ NRank - (i + 1) + 1 = NRank - i
          /\ i + 1 \in 0 .. NRank /\ NRank - i \in 0 .. NRank /\ NRank - (i + 1) \in 0 .. NRank
      BY RankIndex DEF Rank
    <3>2. /\ d[NRank - (i + 1)] <= d[NRank - i]
          /\ d[NRank - i] \in Int /\ d[NRank - (i + 1)] \in Int
      BY <1>1, <3>1 DEF FullDistribution
    <3> QED
      BY <2>2, <3>1, <3>2
  <2> HIDE DEF T
  <2>3. \A i \in 0 .. NRank : i \in T
    BY <2>1, <2>2, RankIndex, IntervalInduction
  <2>4. \A i \in 0 .. NRank : NRank - i \in 0 .. NRank /\ NRank - (NRank - i) = i
    BY RankIndex
  <2> QED
    BY <2>3, <2>4 DEF T
<1> QED
  BY <1>1, <1>2, <1>3

\* The cuts of a block go from its start to its end and do not decrease.
LEMMA CutBounds ==
  ASSUME NEW n \in Nat, NEW from, NEW to, FullDistribution(from, n), FullDistribution(to, n),
         NEW r \in Rank
  PROVE  /\ \A i \in 0 .. NRank : CutAt(from, to, r, i) \in from[r] .. from[r + 1]
         /\ \A i \in 0 .. NRank : CutAt(from, to, r, i) \in 0 .. n
         /\ CutAt(from, to, r, 0) = from[r] /\ CutAt(from, to, r, NRank) = from[r + 1]
         /\ \A i \in Rank : CutAt(from, to, r, i) <= CutAt(from, to, r, i + 1)
<1>1. /\ \A i \in 0 .. NRank : from[i] \in 0 .. n /\ to[i] \in 0 .. n
      /\ \A i \in Rank : from[i] <= from[i + 1] /\ to[i] <= to[i + 1]
      /\ from[0] = 0 /\ to[0] = 0 /\ from[NRank] = n /\ to[NRank] = n
  BY BoundsInRange DEF FullDistribution
<1>2. from[r] \in 0 .. n /\ from[r + 1] \in 0 .. n /\ from[r] <= from[r + 1]
  BY <1>1, RankIndex
<1>3. ASSUME NEW i \in 0 .. NRank PROVE CutAt(from, to, r, i) \in from[r] .. from[r + 1]
  <2>1. to[i] \in 0 .. n
    BY <1>1
  <2> QED
    BY <1>2, <2>1 DEF CutAt, MinOf, MaxOf
<1>4. \A i \in 0 .. NRank : CutAt(from, to, r, i) \in 0 .. n
  BY <1>2, <1>3
<1>5. CutAt(from, to, r, 0) = from[r] /\ CutAt(from, to, r, NRank) = from[r + 1]
  BY <1>1, <1>2 DEF CutAt, MinOf, MaxOf
<1>6. ASSUME NEW i \in Rank PROVE CutAt(from, to, r, i) <= CutAt(from, to, r, i + 1)
  <2>1. to[i] \in 0 .. n /\ to[i + 1] \in 0 .. n /\ to[i] <= to[i + 1]
    BY <1>1, RankIndex
  <2> QED
    BY <1>2, <2>1 DEF CutAt, MinOf, MaxOf
<1> QED
  BY <1>3, <1>4, <1>5, <1>6

\* The counts of _overlap_size are the distances between the cuts.
LEMMA OverlapIsCut ==
  ASSUME NEW n \in Nat, NEW from, NEW to, FullDistribution(from, n), FullDistribution(to, n),
         NEW r \in Rank, NEW i \in Rank
  PROVE  send_counts(from, to, r)[i] = CutAt(from, to, r, i + 1) - CutAt(from, to, r, i)
<1>1. /\ from[r] \in 0 .. n /\ from[r + 1] \in 0 .. n /\ from[r] <= from[r + 1]
      /\ to[i] \in 0 .. n /\ to[i + 1] \in 0 .. n /\ to[i] <= to[i + 1]
  BY BoundsInRange, RankIndex DEF FullDistribution
<1>2. send_counts(from, to, r)[i] = _overlap_size(from[r], from[r + 1], to[i], to[i + 1])
  BY DEF send_counts
<1> QED
  BY <1>1, <1>2 DEF CutAt, _overlap_size, MinOf, MaxOf

\* With one item per entry, the counts are those of _overlap_size.
LEMMA EntryCounts ==
  ASSUME NEW n \in Nat, NEW from, NEW to, FullDistribution(from, n), FullDistribution(to, n),
         NEW r \in Rank
  PROVE  send_counts(from, to, r) = CutItems([a \in 0 .. n |-> a], from, to, r)
<1> DEFINE W == [a \in 0 .. n |-> a]
<1>1. send_counts(from, to, r) = [i \in Rank |-> send_counts(from, to, r)[i]]
  BY DEF send_counts
<1>2. ASSUME NEW i \in Rank
      PROVE  send_counts(from, to, r)[i] = W[CutAt(from, to, r, i + 1)] - W[CutAt(from, to, r, i)]
  <2>1. i \in 0 .. NRank /\ i + 1 \in 0 .. NRank
    BY RankIndex
  <2>2. CutAt(from, to, r, i) \in 0 .. n /\ CutAt(from, to, r, i + 1) \in 0 .. n
    BY <2>1, CutBounds
  <2>3. send_counts(from, to, r)[i] = CutAt(from, to, r, i + 1) - CutAt(from, to, r, i)
    BY OverlapIsCut
  <2> QED
    BY <2>2, <2>3
<1> HIDE DEF W
<1>3. send_counts(from, to, r) = CutItems(W, from, to, r)
  BY <1>1, <1>2 DEF CutItems
<1> QED
  BY <1>3 DEF W

\* Counts of items laid out one after the other reach the items of the cuts.
LEMMA DisplacementsAreCuts ==
  ASSUME NEW n \in Nat, NEW from, NEW to, FullDistribution(from, n), FullDistribution(to, n),
         NEW r \in Rank, NEW W \in [0 .. n -> Int]
  PROVE  \A i \in 0 .. NRank :
           gather_and_shift(CutItems(W, from, to, r))[i] = W[CutAt(from, to, r, i)] - W[from[r]]
<1> DEFINE counts == CutItems(W, from, to, r)
           at == gather_and_shift(counts)
           cut(i) == CutAt(from, to, r, i)
           T == {i \in 0 .. NRank : at[i] = W[cut(i)] - W[from[r]]}
<1>1. /\ \A i \in 0 .. NRank : W[cut(i)] \in Int
      /\ cut(0) = from[r] /\ W[from[r]] \in Int
  <2>1. /\ \A i \in 0 .. NRank : cut(i) \in 0 .. n
        /\ cut(0) = from[r]
    BY CutBounds
  <2>2. \A x \in 0 .. n : W[x] \in Int
    OBVIOUS
  <2>3. 0 \in 0 .. NRank
    BY RankIndex
  <2> HIDE DEF cut
  <2> QED
    BY <2>1, <2>2, <2>3
<1>2. \A i \in Rank : counts[i] = W[cut(i + 1)] - W[cut(i)]
  BY DEF CutItems
<1>3. counts \in [Rank -> Int]
  <2>1. \A i \in Rank : W[cut(i + 1)] \in Int /\ W[cut(i)] \in Int
    BY <1>1, RankIndex
  <2>2. \A i \in Rank : W[cut(i + 1)] - W[cut(i)] \in Int
    BY <2>1
  <2> QED
    BY <2>2 DEF CutItems
<1>4. at[0] = 0 /\ \A i \in Rank : at[i + 1] = at[i] + counts[i]
  BY <1>3, GatherAndShift
<1> HIDE DEF at, cut, counts
<1>5. 0 \in T
  <2>1. at[0] = W[cut(0)] - W[from[r]]
    BY <1>1, <1>4
  <2> QED
    BY <2>1, RankIndex
<1>6. ASSUME NEW i \in 0 .. NRank - 1, i \in T PROVE i + 1 \in T
  <2>1. i \in Rank /\ i + 1 \in 0 .. NRank /\ i \in 0 .. NRank
    BY RankIndex
  <2>2. at[i + 1] = at[i] + (W[cut(i + 1)] - W[cut(i)]) /\ at[i] = W[cut(i)] - W[from[r]]
    BY <1>2, <1>4, <1>6, <2>1
  <2>3. at[i + 1] = W[cut(i + 1)] - W[from[r]]
    BY <1>1, <2>1, <2>2
  <2> QED
    BY <2>1, <2>3
<1> HIDE DEF T
<1>7. \A i \in 0 .. NRank : i \in T
  BY <1>5, <1>6, RankIndex, IntervalInduction
<1> QED
  BY <1>7 DEF T, at, cut, counts

\* The chunk for rank i of the block of rank r is the block between two cuts.
LEMMA ChunkIsBlock ==
  ASSUME NEW n \in Nat, NEW from, NEW to, FullDistribution(from, n), FullDistribution(to, n),
         NEW S, NEW B, NEW W, IsBlocks(B, W, S, n), NEW r \in Rank, NEW i \in Rank
  PROVE  Chunk(B[from[r]][from[r + 1]], CutItems(W, from, to, r), i)
           = B[CutAt(from, to, r, i)][CutAt(from, to, r, i + 1)]
<1> DEFINE a == from[r]
           lo == CutAt(from, to, r, i)
           hi == CutAt(from, to, r, i + 1)
           b == from[r + 1]
           counts == CutItems(W, from, to, r)
<1>1. /\ a \in 0 .. n /\ lo \in 0 .. n /\ hi \in 0 .. n /\ b \in 0 .. n
      /\ a <= lo /\ lo <= hi /\ hi <= b
  <2>1. /\ i \in 0 .. NRank /\ i + 1 \in 0 .. NRank
        /\ r \in 0 .. NRank /\ r + 1 \in 0 .. NRank
    BY RankIndex
  <2>2. a \in 0 .. n /\ b \in 0 .. n
    BY <2>1, BoundsInRange
  <2>3. /\ lo \in a .. b /\ hi \in a .. b /\ lo \in 0 .. n /\ hi \in 0 .. n
        /\ lo <= hi
    BY <2>1, CutBounds
  <2> HIDE DEF a, b, lo, hi
  <2> QED
    BY <2>2, <2>3
<1>2. /\ gather_and_shift(counts)[i] = W[lo] - W[a]
      /\ gather_and_shift(counts)[i + 1] = W[hi] - W[a]
  <2>1. i \in 0 .. NRank /\ i + 1 \in 0 .. NRank /\ W \in [0 .. n -> Int]
    BY RankIndex DEF IsBlocks
  <2> QED
    BY <2>1, DisplacementsAreCuts
<1>3. Chunk(B[a][b], counts, i) = SubSeq(B[a][b], (W[lo] - W[a]) + 1, W[hi] - W[a])
  BY <1>2 DEF Chunk
<1> HIDE DEF a, b, lo, hi
<1>4. /\ B[a][lo] \in Seq(S) /\ Len(B[a][lo]) = W[lo] - W[a]
      /\ B[lo][hi] \in Seq(S) /\ Len(B[lo][hi]) = W[hi] - W[lo]
      /\ B[hi][b] \in Seq(S)
      /\ W[a] \in Int /\ W[lo] \in Int /\ W[hi] \in Int
  BY <1>1 DEF IsBlocks
<1>5. B[a][b] = B[a][lo] \o (B[lo][hi] \o B[hi][b])
  <2>1. lo <= b
    BY <1>1
  <2>2. B[a][b] = B[a][lo] \o B[lo][b] /\ B[lo][b] = B[lo][hi] \o B[hi][b]
    BY <1>1, <2>1 DEF IsBlocks
  <2> QED
    BY <2>2
<1>6. W[hi] - W[a] = Len(B[a][lo]) + Len(B[lo][hi])
  BY <1>4
<1>7. SubSeq(B[a][b], Len(B[a][lo]) + 1, Len(B[a][lo]) + Len(B[lo][hi])) = B[lo][hi]
  <2>1. SubSeq(B[a][lo] \o (B[lo][hi] \o B[hi][b]), Len(B[a][lo]) + 1, Len(B[a][lo]) + Len(B[lo][hi]))
          = B[lo][hi]
    BY <1>4, MiddleOfCat, Zenon
  <2> QED
    BY <1>5, <2>1
<1>8. Chunk(B[a][b], counts, i) = B[lo][hi]
  BY <1>3, <1>4, <1>6, <1>7
<1> QED
  BY <1>8 DEF a, b, lo, hi

\* A block between equal bounds is empty.
LEMMA NoBlock ==
  ASSUME NEW n \in Nat, NEW S, NEW B, NEW W, IsBlocks(B, W, S, n), NEW a \in 0 .. n
  PROVE  B[a][a] = << >>
<1>1. W[a] \in Int /\ B[a][a] \in Seq(S) /\ Len(B[a][a]) = W[a] - W[a]
  BY DEF IsBlocks
<1> QED
  BY <1>1, NoElement

\* The cuts the sender and the receiver of a message compute on their own: those of a
\* message with entries are the same.
LEMMA CutsAgree ==
  ASSUME NEW n \in Nat, NEW din, NEW dout, FullDistribution(din, n), FullDistribution(dout, n),
         NEW s \in Rank, NEW d \in Rank
  PROVE  \/ /\ CutAt(din, dout, s, d) = CutAt(dout, din, d, s)
            /\ CutAt(din, dout, s, d + 1) = CutAt(dout, din, d, s + 1)
         \/ /\ CutAt(din, dout, s, d) = CutAt(din, dout, s, d + 1)
            /\ CutAt(dout, din, d, s) = CutAt(dout, din, d, s + 1)
<1>1. /\ din[s] \in 0 .. n /\ din[s + 1] \in 0 .. n /\ din[s] <= din[s + 1]
      /\ dout[d] \in 0 .. n /\ dout[d + 1] \in 0 .. n /\ dout[d] <= dout[d + 1]
  BY BoundsInRange, RankIndex DEF FullDistribution
<1> QED
  BY <1>1 DEF CutAt, MinOf, MaxOf

\* The message from s to d is the same block from both ends.
LEMMA MessageIsBlock ==
  ASSUME NEW n \in Nat, NEW din, NEW dout, FullDistribution(din, n), FullDistribution(dout, n),
         NEW S, NEW B, NEW W, IsBlocks(B, W, S, n), NEW s \in Rank, NEW d \in Rank
  PROVE  /\ B[CutAt(din, dout, s, d)][CutAt(din, dout, s, d + 1)]
              = B[CutAt(dout, din, d, s)][CutAt(dout, din, d, s + 1)]
         /\ B[CutAt(din, dout, s, d)][CutAt(din, dout, s, d + 1)] \in Seq(S)
         /\ Len(B[CutAt(din, dout, s, d)][CutAt(din, dout, s, d + 1)])
              = W[CutAt(dout, din, d, s + 1)] - W[CutAt(dout, din, d, s)]
<1> DEFINE a == CutAt(din, dout, s, d)
           b == CutAt(din, dout, s, d + 1)
           e == CutAt(dout, din, d, s)
           f == CutAt(dout, din, d, s + 1)
<1>1. a \in 0 .. n /\ b \in 0 .. n /\ e \in 0 .. n /\ f \in 0 .. n /\ a <= b /\ e <= f
  BY CutBounds, RankIndex
<1>2. (a = e /\ b = f) \/ (a = b /\ e = f)
  BY CutsAgree
<1> HIDE DEF a, b, e, f
<1>3. B[a][b] = B[e][f]
  <2>1. CASE a = b /\ e = f
    <3>1. B[a][a] = << >> /\ B[e][e] = << >>
      BY <1>1, NoBlock
    <3> QED
      BY <2>1, <3>1
  <2> QED
    BY <1>2, <2>1
<1>4. B[e][f] \in Seq(S) /\ Len(B[e][f]) = W[f] - W[e]
  BY <1>1 DEF IsBlocks
<1> QED
  BY <1>3, <1>4 DEF a, b, e, f

\* The blocks between consecutive cuts, one after the other, make the block of the rank.
LEMMA BlocksConcatenate ==
  ASSUME NEW n \in Nat, NEW from, NEW to, FullDistribution(from, n), FullDistribution(to, n),
         NEW S, NEW B, NEW W, IsBlocks(B, W, S, n), NEW r \in Rank, NEW g,
         IsCat(g, CutBlocks(B, from, to, r), NRank)
  PROVE  g[NRank] = B[from[r]][from[r + 1]]
<1> DEFINE cut(i) == CutAt(from, to, r, i)
           T == {i \in 0 .. NRank : g[i] = B[from[r]][cut(i)]}
<1>1. /\ \A i \in 0 .. NRank : cut(i) \in 0 .. n /\ cut(i) \in from[r] .. from[r + 1]
      /\ \A i \in Rank : cut(i) <= cut(i + 1)
      /\ cut(0) = from[r] /\ cut(NRank) = from[r + 1]
  BY CutBounds
<1>2. from[r] \in 0 .. n /\ from[r + 1] \in 0 .. n
  BY BoundsInRange, RankIndex
<1>3. g[0] = << >> /\ \A i \in Rank : g[i + 1] = g[i] \o B[cut(i)][cut(i + 1)]
  <2> DEFINE f == CutBlocks(B, from, to, r)
  <2>1. \A i \in 1 .. NRank : f[i] = B[cut(i - 1)][cut(i)]
    BY DEF CutBlocks
  <2> HIDE DEF cut, f
  <2>2. AllSeq(f, NRank, S)
    <3> SUFFICES ASSUME NEW i \in 1 .. NRank PROVE f[i] \in Seq(S)
      BY DEF AllSeq
    <3> DEFINE j == i - 1
    <3>1. j \in Rank /\ j \in 0 .. NRank /\ i \in 0 .. NRank /\ i = j + 1
      BY RankIndex
    <3> HIDE DEF j
    <3>2. cut(j) \in 0 .. n /\ cut(i) \in 0 .. n /\ cut(j) <= cut(i)
      BY <1>1, <3>1
    <3>3. B[cut(j)][cut(i)] \in Seq(S)
      BY <3>2 DEF IsBlocks
    <3> QED
      BY <2>1, <3>3 DEF j
  <2>3. CatSteps(g, f, NRank)
    BY <2>2, CatFacts, RankIndex DEF f
  <2>4. ASSUME NEW i \in Rank PROVE g[i + 1] = g[i] \o B[cut(i)][cut(i + 1)]
    <3> DEFINE j == i + 1
    <3>1. j \in 1 .. NRank /\ j - 1 = i /\ i \in 0 .. NRank - 1
      BY NRankAssumption DEF Rank
    <3>2. g[j] = g[i] \o f[j]
      BY <2>3, <3>1 DEF CatSteps
    <3> HIDE DEF j
    <3>3. f[j] = B[cut(j - 1)][cut(j)]
      BY <2>1, <3>1
    <3>4. f[j] = B[cut(i)][cut(j)]
      BY <3>1, <3>3
    <3>5. g[j] = g[i] \o B[cut(i)][cut(j)]
      BY <3>2, <3>4
    <3> QED
      BY <3>5 DEF j
  <2> QED
    BY <2>3, <2>4 DEF CatSteps
<1> HIDE DEF cut
<1>4. 0 \in T
  <2>1. B[from[r]][from[r]] = << >>
    BY <1>2, NoBlock
  <2> QED
    BY <1>1, <1>3, <2>1, RankIndex
<1>5. ASSUME NEW i \in 0 .. NRank - 1, i \in T PROVE i + 1 \in T
  <2>1. i \in Rank /\ i \in 0 .. NRank /\ i + 1 \in 0 .. NRank
    BY RankIndex
  <2>2. g[i + 1] = B[from[r]][cut(i)] \o B[cut(i)][cut(i + 1)]
    BY <1>3, <1>5, <2>1
  <2>3. /\ cut(i) \in 0 .. n /\ cut(i + 1) \in 0 .. n
        /\ from[r] <= cut(i) /\ cut(i) <= cut(i + 1)
    BY <1>1, <1>2, <2>1
  <2>4. B[from[r]][cut(i + 1)] = B[from[r]][cut(i)] \o B[cut(i)][cut(i + 1)]
    BY <1>2, <2>3 DEF IsBlocks
  <2>5. g[i + 1] = B[from[r]][cut(i + 1)]
    BY <2>2, <2>4
  <2> QED
    BY <2>1, <2>5
<1> HIDE DEF T
<1>6. \A i \in 0 .. NRank : i \in T
  BY <1>4, <1>5, RankIndex, IntervalInduction
<1>7. g[NRank] = B[from[r]][cut(NRank)]
  BY <1>6, RankIndex DEF T
<1> QED
  BY <1>1, <1>7

\* The parts of a global array are blocks of one item per entry.
LEMMA EntriesAreBlocks ==
  ASSUME NEW n \in Nat, NEW S, NEW global \in Seq(S), Len(global) = n
  PROVE  IsBlocks([a \in 0 .. n |-> [b \in 0 .. n |-> SubSeq(global, a + 1, b)]],
                  [a \in 0 .. n |-> a], S, n)
<1> DEFINE B == [a \in 0 .. n |-> [b \in 0 .. n |-> SubSeq(global, a + 1, b)]]
           W == [a \in 0 .. n |-> a]
<1>1. \A a, b \in 0 .. n : B[a][b] = SubSeq(global, a + 1, b)
  OBVIOUS
<1>2. W \in [0 .. n -> Int] /\ \A a \in 0 .. n : W[a] = a
  OBVIOUS
<1> HIDE DEF B, W
<1>3. ASSUME NEW a \in 0 .. n, NEW b \in 0 .. n, a <= b
      PROVE  B[a][b] \in Seq(S) /\ Len(B[a][b]) = W[b] - W[a]
  <2>1. a + 1 \in Int /\ b \in Int
    OBVIOUS
  <2>2. \A i \in a + 1 .. b : global[i] \in S
    <3>1. \A i \in a + 1 .. b : i \in 1 .. Len(global)
      OBVIOUS
    <3> QED
      BY <3>1, ElementOfSeq
  <2>3. /\ SubSeq(global, a + 1, b) \in Seq(S)
        /\ Len(SubSeq(global, a + 1, b)) = IF a + 1 <= b THEN (b - (a + 1)) + 1 ELSE 0
    BY <2>1, <2>2, SubSeqProperties
  <2>4. Len(SubSeq(global, a + 1, b)) = b - a
    BY <1>3, <2>3
  <2> QED
    BY <1>1, <1>2, <2>3, <2>4
<1>4. \A a, b, c \in 0 .. n : a <= b /\ b <= c => B[a][c] = B[a][b] \o B[b][c]
  <2> TAKE a, b, c \in 0 .. n
  <2> HAVE a <= b /\ b <= c
  <2> DEFINE m == a + 1
  <2>1. m \in 1 .. Len(global) + 1 /\ b \in m - 1 .. Len(global) /\ c \in b .. Len(global)
    OBVIOUS
  <2> HIDE DEF m
  <2>2. SubSeq(global, m, b) \o SubSeq(global, b + 1, c) = SubSeq(global, m, c)
    BY <2>1, ConcatAdjacentSubSeq
  <2> QED
    BY <1>1, <2>2 DEF m
<1>5. \A a, b \in 0 .. n : a <= b => B[a][b] \in Seq(S) /\ Len(B[a][b]) = W[b] - W[a]
  BY <1>3
<1>6. IsBlocks(B, W, S, n)
  BY <1>2, <1>4, <1>5 DEF IsBlocks
<1> QED
  BY <1>6 DEF B, W

\* The full distribution that auto_expand_distri makes of a partial one has its bounds,
\* through the corner case of two ranks and through the gathered sizes.
LEMMA ExpandIsFull ==
  ASSUME NEW n \in Nat, NEW partial \in [Rank -> Nat \X Nat \X Nat], Tiles(partial, n)
  PROVE  /\ FullDistribution(auto_expand_distri(partial), n)
         /\ \A r \in Rank : /\ auto_expand_distri(partial)[r] = partial[r][1]
                            /\ auto_expand_distri(partial)[r + 1] = partial[r][2]
<1> DEFINE d == auto_expand_distri(partial)
           lo(r) == partial[r][1]
           hi(r) == partial[r][2]
<1>1. \A r \in Rank : lo(r) \in Nat /\ hi(r) \in Nat /\ partial[r][3] \in Nat
  OBVIOUS
<1>2. /\ lo(0) = 0 /\ hi(NRank - 1) = n /\ \A r \in Rank : lo(r) <= hi(r)
      /\ \A r \in Rank \ {0} : lo(r) = hi(r - 1)
      /\ \A r \in Rank : partial[r][3] = n
  BY DEF Tiles
<1>3. 0 \in Rank /\ NRank - 1 \in Rank /\ NRank \in Nat /\ (NRank - 1) + 1 = NRank
  BY NRankAssumption DEF Rank
<1>4. d \in [0 .. NRank -> Int] /\ \A r \in Rank : d[r] = lo(r) /\ d[r + 1] = hi(r)
  <2>1. CASE NRank = 2
    <3>1. Rank = {0, 1}
      BY <2>1 DEF Rank
    <3>2. d = [i \in 0 .. 2 |-> partial[0][i + 1]]
      BY <2>1 DEF auto_expand_distri
    <3>3. d[0] = lo(0) /\ d[1] = hi(0) /\ d[2] = partial[0][3]
      BY <3>2
    <3>4. partial[0][3] = n /\ lo(1) = hi(0) /\ hi(1) = n
      BY <1>2, <2>1, <3>1
    <3>5. 0 .. NRank = {0, 1, 2}
      BY <2>1
    <3>6. \A i \in {0, 1, 2} : d[i] \in Int
      BY <1>1, <3>1, <3>3, <3>4
    <3>7. d \in [0 .. NRank -> Int]
      BY <2>1, <3>2, <3>5, <3>6
    <3> HIDE DEF d, lo, hi
    <3> QED
      BY <3>1, <3>3, <3>4, <3>7
  <2>2. CASE NRank # 2
    <3> DEFINE value == [r \in Rank |-> hi(r) - lo(r)]
               T == {i \in 0 .. NRank - 1 : d[i] = lo(i)}
    <3>1. d = gather_and_shift(value)
      BY <2>2 DEF auto_expand_distri, partial_to_full_distribution
    <3>2. value \in [Rank -> Int] /\ \A r \in Rank : value[r] = hi(r) - lo(r)
      BY <1>1
    <3> HIDE DEF value, d, lo, hi
    <3>3. /\ d \in [0 .. NRank -> Int] /\ d[0] = 0
          /\ \A i \in Rank : d[i + 1] = d[i] + value[i]
      BY <3>1, <3>2, GatherAndShift
    <3>4. \A i \in Rank : d[i] = lo(i) => d[i + 1] = hi(i)
      BY <1>1, <3>2, <3>3
    <3>5. 0 \in T
      <4>1. d[0] = lo(0) /\ 0 \in 0 .. NRank - 1
        BY <1>2, <1>3, <3>3 DEF Rank
      <4> QED
        BY <4>1
    <3>6. ASSUME NEW i \in 0 .. (NRank - 1) - 1, i \in T PROVE i + 1 \in T
      <4>1. i \in Rank /\ i + 1 \in Rank \ {0} /\ (i + 1) - 1 = i /\ i + 1 \in 0 .. NRank - 1
        BY <1>3 DEF Rank
      <4>2. d[i + 1] = hi(i)
        BY <3>4, <3>6, <4>1
      <4>3. lo(i + 1) = hi((i + 1) - 1)
        BY <1>2, <4>1
      <4>4. lo(i + 1) = hi(i)
        BY <4>1, <4>3
      <4> QED
        BY <4>1, <4>2, <4>4
    <3> HIDE DEF T
    <3>7. \A i \in 0 .. NRank - 1 : i \in T
      <4>1. NRank - 1 \in Nat
        BY <1>3, NRankAssumption
      <4> QED
        BY <3>5, <3>6, <4>1, IntervalInduction
    <3>8. \A i \in Rank : d[i] = lo(i)
      BY <3>7 DEF T, Rank
    <3> QED
      BY <3>3, <3>4, <3>8
  <2> QED
    BY <2>1, <2>2
<1> HIDE DEF d, lo, hi
<1>5. d[0] = 0
  BY <1>2, <1>3, <1>4
<1>6. d[NRank] = n
  <2> DEFINE m == NRank - 1
  <2>1. m \in Rank /\ m + 1 = NRank /\ hi(m) = n
    BY <1>2, <1>3
  <2> HIDE DEF m
  <2>2. d[m + 1] = hi(m)
    BY <1>4, <2>1
  <2> QED
    BY <2>1, <2>2
<1>7. FullDistribution(d, n)
  BY <1>2, <1>4, <1>5, <1>6 DEF FullDistribution
<1> QED
  BY <1>4, <1>7 DEF d, lo, hi

\* block_to_block moves an array exactly: whatever the number of ranks, the array and the
\* two distributions, empty blocks included, each rank ends with the block that the output
\* distribution gives it.
THEOREM BlockToBlockExact ==
  ASSUME NEW n \in Nat, NEW S, NEW global \in Seq(S), Len(global) = n,
         NEW distri_in \in [Rank -> Nat \X Nat \X Nat], Tiles(distri_in, n),
         NEW distri_out \in [Rank -> Nat \X Nat \X Nat], Tiles(distri_out, n)
  PROVE  block_to_block([r \in Rank |-> BlockOf(global, distri_in, r)], distri_in, distri_out)
           = [r \in Rank |-> BlockOf(global, distri_out, r)]
<1> DEFINE din == auto_expand_distri(distri_in)
           dout == auto_expand_distri(distri_out)
           data == [r \in Rank |-> BlockOf(global, distri_in, r)]
           B == [a \in 0 .. n |-> [b \in 0 .. n |-> SubSeq(global, a + 1, b)]]
           W == [a \in 0 .. n |-> a]
           counts == [i \in Rank |-> send_counts(din, dout, i)]
<1>0. \A r \in Rank : /\ din[r] = distri_in[r][1] /\ din[r + 1] = distri_in[r][2]
                      /\ dout[r] = distri_out[r][1] /\ dout[r + 1] = distri_out[r][2]
  BY ExpandIsFull
<1>1. FullDistribution(din, n) /\ FullDistribution(dout, n)
  BY ExpandIsFull
<1>2. IsBlocks(B, W, S, n)
  BY EntriesAreBlocks
<1>3. \A a, b \in 0 .. n : B[a][b] = SubSeq(global, a + 1, b)
  OBVIOUS
<1>4. \A a \in 0 .. n : W[a] = a
  OBVIOUS
<1>5. \A i \in Rank : counts[i] = send_counts(din, dout, i)
  OBVIOUS
<1>6. block_to_block(data, distri_in, distri_out)
        = IF din = dout THEN data ELSE [r \in Rank |-> Alltoallv(data, counts, r)]
  BY DEF block_to_block
<1> HIDE DEF B, W, din, dout, counts
<1>7. \A r \in Rank : /\ din[r] \in 0 .. n /\ din[r + 1] \in 0 .. n
                      /\ dout[r] \in 0 .. n /\ dout[r + 1] \in 0 .. n
  BY <1>1, BoundsInRange, RankIndex
<1>8. \A r \in Rank : /\ data[r] = B[din[r]][din[r + 1]]
                      /\ BlockOf(global, distri_out, r) = B[dout[r]][dout[r + 1]]
  <2> TAKE r \in Rank
  <2>1. /\ data[r] = SubSeq(global, distri_in[r][1] + 1, distri_in[r][2])
        /\ BlockOf(global, distri_out, r) = SubSeq(global, distri_out[r][1] + 1, distri_out[r][2])
    BY DEF BlockOf
  <2>2. /\ data[r] = SubSeq(global, din[r] + 1, din[r + 1])
        /\ BlockOf(global, distri_out, r) = SubSeq(global, dout[r] + 1, dout[r + 1])
    BY <1>0, <2>1, Zenon
  <2> HIDE DEF data
  <2> QED
    BY <1>3, <1>7, <2>2
<1> HIDE DEF data
<1>9. ASSUME NEW s \in Rank, NEW r \in Rank
      PROVE  /\ Chunk(data[s], counts[s], r) = B[CutAt(dout, din, r, s)][CutAt(dout, din, r, s + 1)]
             /\ Chunk(data[s], counts[s], r) \in Seq(S)
  <2>1. counts[s] = CutItems(W, din, dout, s)
    BY <1>1, <1>5, EntryCounts DEF W
  <2>2. Chunk(B[din[s]][din[s + 1]], CutItems(W, din, dout, s), r)
          = B[CutAt(din, dout, s, r)][CutAt(din, dout, s, r + 1)]
    BY <1>1, <1>2, ChunkIsBlock
  <2>3. /\ B[CutAt(din, dout, s, r)][CutAt(din, dout, s, r + 1)]
             = B[CutAt(dout, din, r, s)][CutAt(dout, din, r, s + 1)]
        /\ B[CutAt(din, dout, s, r)][CutAt(din, dout, s, r + 1)] \in Seq(S)
    BY <1>1, <1>2, MessageIsBlock
  <2>4. data[s] = B[din[s]][din[s + 1]]
    BY <1>8
  <2> QED
    BY <2>1, <2>2, <2>3, <2>4
<1>10. ASSUME NEW r \in Rank
       PROVE  Alltoallv(data, counts, r) = B[dout[r]][dout[r + 1]]
  <2> DEFINE f == [i \in 1 .. NRank |-> Chunk(data[i - 1], counts[i - 1], r)]
             IsBuffer(u) ==
               u = [i \in 0 .. NRank |->
                      IF i = 0 THEN << >> ELSE u[i - 1] \o Chunk(data[i - 1], counts[i - 1], r)]
             u == CHOOSE u : IsBuffer(u)
  <2>1. NRank \in Nat /\ AllSeq(f, NRank, S)
    BY <1>9, RankIndex DEF AllSeq
  <2>2. ASSUME NEW v PROVE IsCat(v, f, NRank) <=> IsBuffer(v)
    <3>1. \A i \in 0 .. NRank : i # 0 => f[i] = Chunk(data[i - 1], counts[i - 1], r)
      BY <2>1
    <3> HIDE DEF f
    <3> QED
      BY <3>1 DEF IsCat
  <2>3. f = CutBlocks(B, dout, din, r)
    <3>1. ASSUME NEW i \in 1 .. NRank
          PROVE  Chunk(data[i - 1], counts[i - 1], r) = B[CutAt(dout, din, r, i - 1)][CutAt(dout, din, r, i)]
      <4> DEFINE j == i - 1
      <4>1. j \in Rank /\ i = j + 1
        BY RankIndex
      <4> HIDE DEF j
      <4>2. Chunk(data[j], counts[j], r) = B[CutAt(dout, din, r, j)][CutAt(dout, din, r, j + 1)]
        BY <1>9, <4>1
      <4>3. Chunk(data[j], counts[j], r) = B[CutAt(dout, din, r, j)][CutAt(dout, din, r, i)]
        BY <4>1, <4>2
      <4> QED
        BY <4>3 DEF j
    <3> QED
      BY <3>1 DEF CutBlocks
  <2>4. Alltoallv(data, counts, r) = u[NRank]
    BY DEF Alltoallv
  <2> HIDE DEF f
  <2>5. \E v : IsBuffer(v)
    BY <2>1, <2>2, CatExists
  <2>6. IsBuffer(u)
    BY <2>5
  <2> HIDE DEF u
  <2>7. IsCat(u, f, NRank)
    BY <2>2, <2>6
  <2>8. u[NRank] = B[dout[r]][dout[r + 1]]
    BY <1>1, <1>2, <2>3, <2>7, BlocksConcatenate
  <2> QED
    BY <2>4, <2>8
<1>11. CASE din = dout
  BY <1>6, <1>8, <1>11 DEF data
<1>12. CASE din # dout
  <2>1. \A r \in Rank : Alltoallv(data, counts, r) = BlockOf(global, distri_out, r)
    BY <1>8, <1>10
  <2>2. [r \in Rank |-> Alltoallv(data, counts, r)] = [r \in Rank |-> BlockOf(global, distri_out, r)]
    BY <2>1
  <2> QED
    BY <1>6, <1>12, <2>2 DEF data
<1> QED
  BY <1>11, <1>12 DEF data
=============================================================================
