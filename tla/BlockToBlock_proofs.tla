------------------------ MODULE BlockToBlock_proofs -------------------------
(***************************************************************************)
(* The exchange of BlockToBlock, for every number of ranks, every pair of  *)
(* distributions, every array and every stride.                            *)
(***************************************************************************)
EXTENDS BlockToBlock, Distribution_proofs, TLAPS

\* The message of s to d, cut by d out of its own block.
StrideMsg(s, d) == StrideBlock(CutAt(dout, din, d, s), CutAt(dout, din, d, s + 1))
DataMsg(s, d) == DataBlock(CutAt(dout, din, d, s), CutAt(dout, din, d, s + 1))

StrideSent == {"recv_stride", "post_data", "recv_data", "done"}
StrideRead == {"post_data", "recv_data", "done"}
DataSent == {"recv_data", "done"}

\* The ends of a channel tell what is in it.
StrideQueued(s, d) == din # dout /\ variable /\ pc[s] \in StrideSent /\ pc[d] \notin StrideRead
DataQueued(s, d) == din # dout /\ pc[s] \in DataSent /\ pc[d] # "done"

InTransit(s, d) ==
  CASE StrideQueued(s, d) /\ DataQueued(s, d) -> <<StrideMsg(s, d), DataMsg(s, d)>>
    [] StrideQueued(s, d) /\ ~ DataQueued(s, d) -> <<StrideMsg(s, d)>>
    [] ~ StrideQueued(s, d) /\ DataQueued(s, d) -> <<DataMsg(s, d)>>
    [] ~ StrideQueued(s, d) /\ ~ DataQueued(s, d) -> << >>

Channels == chan = [s \in Rank |-> [d \in Rank |-> InTransit(s, d)]]

\* The arguments of the exchange.
Arguments ==
  /\ Size \in Nat /\ FullDistribution(din, Size) /\ FullDistribution(dout, Size)
  /\ variable \in BOOLEAN
  /\ stride \in [1 .. Size -> Nat]
  /\ ~ variable => \A g \in 1 .. Size : stride[g] = stride[1]

\* Where a rank can be.
Located ==
  /\ pc \in [Rank -> {"create", "post_stride", "recv_stride", "post_data", "recv_data", "done"}]
  /\ \A r \in Rank : ~ variable => pc[r] \notin {"post_stride", "recv_stride"}
  /\ \A r \in Rank : din = dout => pc[r] \in {"create", "done"}

\* An Alltoallv completes on a rank only after every rank has posted it.
Handshake ==
  din # dout => \A r, s \in Rank :
    /\ variable /\ pc[r] \in StrideRead => pc[s] \in StrideSent
    /\ pc[r] = "done" => pc[s] \in DataSent

StrideKept ==
  /\ stride_out \in [Rank -> Seq(Nat)]
  /\ \A r \in Rank :
       variable /\ pc[r] \in StrideRead => stride_out[r] = StrideBlock(dout[r], dout[r + 1])

DataKept ==
  /\ data_out \in [Rank -> Seq(Nat \X Nat)]
  /\ \A r \in Rank : pc[r] = "done" => data_out[r] = DataBlock(dout[r], dout[r + 1])

ExchangeInv == Arguments /\ Located /\ Handshake /\ Channels /\ StrideKept /\ DataKept
-----------------------------------------------------------------------------
(***************************************************************************)
(* Sums and concatenations                                                 *)
(***************************************************************************)
\* Sums with the same terms are equal.
LEMMA SumUnique ==
  ASSUME NEW n \in Nat, NEW f, NEW u, NEW v, SumSteps(u, f, n), SumSteps(v, f, n)
  PROVE  \A i \in 0 .. n : u[i] = v[i]
<1> DEFINE T == {i \in 0 .. n : u[i] = v[i]}
<1>1. 0 \in T
  BY DEF SumSteps
<1>2. ASSUME NEW i \in 0 .. n - 1, i \in T PROVE i + 1 \in T
  <2>1. u[i + 1] = u[i] + f[i + 1] /\ v[i + 1] = v[i] + f[i + 1]
    BY DEF SumSteps
  <2>2. u[i] = v[i] /\ i + 1 \in 0 .. n
    BY <1>2
  <2> QED
    BY <2>1, <2>2
<1> HIDE DEF T
<1>3. \A i \in 0 .. n : i \in T
  BY <1>1, <1>2, IntervalInduction
<1> QED
  BY <1>3 DEF T

\* Concatenations of the same sequences are equal.
LEMMA CatUnique ==
  ASSUME NEW n \in Nat, NEW f, NEW u, NEW v, CatSteps(u, f, n), CatSteps(v, f, n)
  PROVE  \A i \in 0 .. n : u[i] = v[i]
<1> DEFINE T == {i \in 0 .. n : u[i] = v[i]}
<1>1. 0 \in T
  BY DEF CatSteps
<1>2. ASSUME NEW i \in 0 .. n - 1, i \in T PROVE i + 1 \in T
  <2>1. u[i + 1] = u[i] \o f[i + 1] /\ v[i + 1] = v[i] \o f[i + 1]
    BY DEF CatSteps
  <2>2. u[i] = v[i] /\ i + 1 \in 0 .. n
    BY <1>2
  <2>3. u[i + 1] = v[i + 1]
    BY <2>1, <2>2
  <2> QED
    BY <2>2, <2>3
<1> HIDE DEF T
<1>3. \A i \in 0 .. n : i \in T
  BY <1>1, <1>2, IntervalInduction
<1> QED
  BY <1>3 DEF T

\* SumTo computes the last of the sums.
LEMMA SumToIs ==
  ASSUME NEW n \in Nat, NEW f, AllInt(f, n), NEW u, SumSteps(u, f, n)
  PROVE  SumTo(f, n) = u[n] /\ SumTo(f, n) \in Int
<1> DEFINE v == CHOOSE v : IsSum(v, f, n)
<1>1. SumTo(f, n) = v[n]
  BY DEF SumTo, IsSum
<1>2. IsSum(v, f, n)
  BY SumExists
<1> HIDE DEF v
<1>3. SumSteps(v, f, n) /\ \A i \in 0 .. n : v[i] \in Int
  BY <1>2, SumFacts
<1>4. n \in 0 .. n
  OBVIOUS
<1>5. u[n] = v[n]
  BY <1>3, <1>4, SumUnique
<1> QED
  BY <1>1, <1>3, <1>4, <1>5

\* Concat computes the last of the concatenations.
LEMMA ConcatIs ==
  ASSUME NEW n \in Nat, NEW A, NEW f, AllSeq(f, n, A)
  PROVE  \E u : /\ IsCat(u, f, n) /\ Concat(f, n) = u[n]
                /\ CatSteps(u, f, n) /\ \A i \in 0 .. n : u[i] \in Seq(A)
<1> DEFINE v == CHOOSE v : IsCat(v, f, n)
<1>1. Concat(f, n) = v[n]
  BY DEF Concat, IsCat
<1>2. IsCat(v, f, n)
  BY CatExists
<1> HIDE DEF v
<1>3. CatSteps(v, f, n) /\ \A i \in 0 .. n : v[i] \in Seq(A)
  BY <1>2, CatFacts
<1> QED
  BY <1>1, <1>2, <1>3

\* The items of the first a entries.
ItemsBefore(f, n) == [a \in 0 .. n |-> SumTo(f, a)]

\* The sums of the strides, one entry after the other.
LEMMA ItemsBeforeSteps ==
  ASSUME NEW n \in Nat, NEW f, AllInt(f, n)
  PROVE  SumSteps(ItemsBefore(f, n), f, n) /\ ItemsBefore(f, n) \in [0 .. n -> Int]
<1>1. PICK u : IsSum(u, f, n)
  BY SumExists
<1>2. SumSteps(u, f, n) /\ \A i \in 0 .. n : u[i] \in Int
  BY <1>1, SumFacts
<1>3. ASSUME NEW a \in 0 .. n PROVE SumTo(f, a) = u[a] /\ SumTo(f, a) \in Int
  <2>1. a \in Nat /\ AllInt(f, a) /\ SumSteps(u, f, a)
    BY <1>2 DEF AllInt, SumSteps
  <2> QED
    BY <2>1, SumToIs
<1>4. \A a \in 0 .. n : ItemsBefore(f, n)[a] = u[a]
  BY <1>3 DEF ItemsBefore
<1>5. SumSteps(ItemsBefore(f, n), f, n)
  <2>1. 0 \in 0 .. n /\ \A i \in 0 .. n - 1 : i \in 0 .. n /\ i + 1 \in 0 .. n
    OBVIOUS
  <2> QED
    BY <1>2, <1>4, <2>1 DEF SumSteps
<1>6. ItemsBefore(f, n) \in [0 .. n -> Int]
  BY <1>3 DEF ItemsBefore
<1> QED
  BY <1>5, <1>6

\* The sum of consecutive terms is a difference of sums.
LEMMA SumOfRange ==
  ASSUME NEW n \in Nat, NEW f, AllInt(f, n), NEW a \in 0 .. n, NEW m \in 0 .. n - a,
         NEW g, \A k \in 1 .. m : g[k] = f[a + k]
  PROVE  SumTo(g, m) = ItemsBefore(f, n)[a + m] - ItemsBefore(f, n)[a]
<1> DEFINE W == ItemsBefore(f, n)
           u == [i \in 0 .. m |-> W[a + i] - W[a]]
<1>1. SumSteps(W, f, n) /\ W \in [0 .. n -> Int]
  BY ItemsBeforeSteps
<1> HIDE DEF W
<1>2. AllInt(g, m)
  <2> SUFFICES ASSUME NEW k \in 1 .. m PROVE g[k] \in Int
    BY DEF AllInt
  <2>1. a + k \in 1 .. n
    OBVIOUS
  <2> QED
    BY <2>1 DEF AllInt
<1>3. \A i \in 0 .. m : a + i \in 0 .. n /\ u[i] = W[a + i] - W[a]
  OBVIOUS
<1>4. u[0] = 0
  BY <1>1, <1>3
<1>5. ASSUME NEW i \in 0 .. m - 1 PROVE u[i + 1] = u[i] + g[i + 1]
  <2> DEFINE j == a + i
  <2>1. j \in 0 .. n - 1 /\ j \in 0 .. n /\ j + 1 \in 0 .. n /\ a + (i + 1) = j + 1
    OBVIOUS
  <2>2. i \in 0 .. m /\ i + 1 \in 0 .. m /\ i + 1 \in 1 .. m
    OBVIOUS
  <2>3. g[i + 1] = f[a + (i + 1)] /\ u[i] = W[j] - W[a] /\ u[i + 1] = W[a + (i + 1)] - W[a]
    BY <1>3, <2>2
  <2> HIDE DEF j, u
  <2>4. W[j + 1] = W[j] + f[j + 1] /\ W[j] \in Int /\ W[a] \in Int /\ W[j + 1] \in Int
    BY <1>1, <2>1 DEF SumSteps
  <2>5. g[i + 1] = f[j + 1] /\ u[i + 1] = W[j + 1] - W[a]
    BY <2>1, <2>3
  <2>6. f[j + 1] \in Int
    BY <2>1 DEF AllInt
  <2> QED
    BY <2>3, <2>4, <2>5, <2>6
<1> HIDE DEF u
<1>6. SumSteps(u, g, m)
  BY <1>4, <1>5 DEF SumSteps
<1>7. SumTo(g, m) = u[m]
  <2>1. m \in Nat
    OBVIOUS
  <2> QED
    BY <1>2, <1>6, <2>1, SumToIs
<1>8. m \in 0 .. m
  OBVIOUS
<1> QED
  BY <1>3, <1>7, <1>8 DEF W

\* The concatenation of sequences a + 1 to b.
CatRange(f, a, b) == Concat([k \in 1 .. b - a |-> f[a + k]], b - a)

\* A range grows by one sequence.
LEMMA CatRangeStep ==
  ASSUME NEW n \in Nat, NEW A, NEW f, AllSeq(f, n, A), NEW a \in 0 .. n, NEW b \in a .. n - 1
  PROVE  /\ CatRange(f, a, b + 1) = CatRange(f, a, b) \o f[b + 1]
         /\ CatRange(f, a, b) \in Seq(A) /\ CatRange(f, a, b + 1) \in Seq(A)
<1> DEFINE m == b - a
           g == [k \in 1 .. m |-> f[a + k]]
           h == [k \in 1 .. m + 1 |-> f[a + k]]
<1>1. m \in Nat /\ m + 1 \in Nat /\ (b + 1) - a = m + 1 /\ a + (m + 1) = b + 1
  OBVIOUS
<1>2. CatRange(f, a, b) = Concat(g, m) /\ CatRange(f, a, b + 1) = Concat(h, m + 1)
  BY <1>1 DEF CatRange
<1>3. \A k \in 1 .. m + 1 : a + k \in 1 .. n /\ h[k] = f[a + k]
  OBVIOUS
<1>4. \A k \in 1 .. m : g[k] = h[k] /\ k \in 1 .. m + 1
  OBVIOUS
<1> HIDE DEF g, h, m
<1>5. AllSeq(h, m + 1, A) /\ AllSeq(g, m, A)
  BY <1>3, <1>4 DEF AllSeq
<1>6. PICK u : Concat(h, m + 1) = u[m + 1] /\ CatSteps(u, h, m + 1) /\ \A i \in 0 .. m + 1 : u[i] \in Seq(A)
  BY <1>1, <1>5, ConcatIs
<1>7. PICK v : Concat(g, m) = v[m] /\ CatSteps(v, g, m) /\ \A i \in 0 .. m : v[i] \in Seq(A)
  BY <1>1, <1>5, ConcatIs
<1>8. CatSteps(u, g, m)
  <2>1. u[0] = << >>
    BY <1>6 DEF CatSteps
  <2>2. ASSUME NEW i \in 0 .. m - 1 PROVE u[i + 1] = u[i] \o g[i + 1]
    <3>1. i \in 0 .. (m + 1) - 1 /\ i + 1 \in 1 .. m
      BY <1>1
    <3>2. u[i + 1] = u[i] \o h[i + 1]
      BY <1>6, <3>1 DEF CatSteps
    <3>3. g[i + 1] = h[i + 1]
      BY <1>4, <3>1
    <3> QED
      BY <3>2, <3>3
  <2> QED
    BY <2>1, <2>2 DEF CatSteps
<1>9. u[m] = v[m]
  <2>1. m \in 0 .. m
    BY <1>1
  <2> QED
    BY <1>1, <1>7, <1>8, <2>1, CatUnique
<1>10. u[m + 1] = u[m] \o h[m + 1]
  <2>1. m \in 0 .. (m + 1) - 1
    BY <1>1
  <2> QED
    BY <1>6, <2>1 DEF CatSteps
<1>11. h[m + 1] = f[b + 1]
  <2>1. m + 1 \in 1 .. m + 1
    BY <1>1
  <2>2. h[m + 1] = f[a + (m + 1)]
    BY <1>3, <2>1
  <2> QED
    BY <1>1, <2>2
<1>12. m \in 0 .. m /\ m + 1 \in 0 .. m + 1
  BY <1>1
<1>13. CatRange(f, a, b + 1) = CatRange(f, a, b) \o f[b + 1]
  BY <1>2, <1>6, <1>7, <1>9, <1>10, <1>11
<1> QED
  BY <1>2, <1>6, <1>7, <1>12, <1>13

\* An empty range.
LEMMA CatRangeEmpty ==
  ASSUME NEW f, NEW a \in Nat
  PROVE  CatRange(f, a, a) = << >>
<1> DEFINE g == [k \in 1 .. 0 |-> f[a + k]]
<1>1. a - a = 0
  OBVIOUS
<1>2. CatRange(f, a, a) = Concat(g, 0)
  BY <1>1 DEF CatRange
<1> HIDE DEF g
<1>3. AllSeq(g, 0, {}) /\ 0 \in Nat
  BY DEF AllSeq
<1>4. PICK u : Concat(g, 0) = u[0] /\ CatSteps(u, g, 0)
  BY <1>3, ConcatIs
<1> QED
  BY <1>2, <1>4 DEF CatSteps

\* The ranges of a list of sequences are blocks, the items of an entry being its length.
LEMMA RangesAreBlocks ==
  ASSUME NEW n \in Nat, NEW A, NEW f, AllSeq(f, n, A),
         NEW w, AllInt(w, n), \A i \in 1 .. n : Len(f[i]) = w[i]
  PROVE  IsBlocks([a \in 0 .. n |-> [b \in 0 .. n |-> CatRange(f, a, b)]], ItemsBefore(w, n), A, n)
<1> DEFINE W == ItemsBefore(w, n)
           B == [a \in 0 .. n |-> [b \in 0 .. n |-> CatRange(f, a, b)]]
<1>1. SumSteps(W, w, n) /\ W \in [0 .. n -> Int]
  BY ItemsBeforeSteps
<1>2. \A a, b \in 0 .. n : B[a][b] = CatRange(f, a, b)
  OBVIOUS
<1> HIDE DEF W, B
<1>3. ASSUME NEW a \in 0 .. n
      PROVE  \A i \in 0 .. n - a : /\ CatRange(f, a, a + i) \in Seq(A)
                                   /\ Len(CatRange(f, a, a + i)) = W[a + i] - W[a]
  <2> DEFINE T == {i \in 0 .. n - a : /\ CatRange(f, a, a + i) \in Seq(A)
                                      /\ Len(CatRange(f, a, a + i)) = W[a + i] - W[a]}
  <2>1. 0 \in T
    <3>1. CatRange(f, a, a) = << >>
      BY CatRangeEmpty
    <3>2. W[a] \in Int /\ a + 0 = a /\ 0 \in 0 .. n - a
      BY <1>1
    <3>3. << >> \in Seq(A) /\ Len(<< >>) = 0
      BY EmptySeq
    <3> QED
      BY <3>1, <3>2, <3>3
  <2>2. ASSUME NEW i \in 0 .. (n - a) - 1, i \in T PROVE i + 1 \in T
    <3> DEFINE b == a + i
    <3>1. b \in a .. n - 1 /\ b \in 0 .. n - 1 /\ b \in 0 .. n /\ b + 1 \in 0 .. n /\ b + 1 \in 1 .. n
      OBVIOUS
    <3>2. a + (i + 1) = b + 1 /\ i + 1 \in 0 .. n - a
      OBVIOUS
    <3>3. Len(CatRange(f, a, b)) = W[b] - W[a]
      BY <2>2
    <3> HIDE DEF b
    <3>4. /\ CatRange(f, a, b + 1) = CatRange(f, a, b) \o f[b + 1]
          /\ CatRange(f, a, b) \in Seq(A) /\ CatRange(f, a, b + 1) \in Seq(A)
      BY <3>1, CatRangeStep
    <3>5. f[b + 1] \in Seq(A) /\ Len(f[b + 1]) = w[b + 1] /\ w[b + 1] \in Int
      BY <3>1 DEF AllSeq, AllInt
    <3>6. Len(CatRange(f, a, b + 1)) = Len(CatRange(f, a, b)) + Len(f[b + 1])
      BY <3>4, <3>5, ConcatProperties
    <3>7. W[b + 1] = W[b] + w[b + 1] /\ W[b] \in Int /\ W[a] \in Int
      BY <1>1, <3>1 DEF SumSteps
    <3>8. Len(CatRange(f, a, b + 1)) = W[b + 1] - W[a]
      BY <3>3, <3>5, <3>6, <3>7
    <3> QED
      BY <3>2, <3>4, <3>8
  <2> HIDE DEF T
  <2>3. \A i \in 0 .. n - a : i \in T
    <3>1. n - a \in Nat
      OBVIOUS
    <3> QED
      BY <2>1, <2>2, <3>1, IntervalInduction
  <2> QED
    BY <2>3 DEF T
<1>4. \A a, b \in 0 .. n : a <= b => B[a][b] \in Seq(A) /\ Len(B[a][b]) = W[b] - W[a]
  <2> TAKE a, b \in 0 .. n
  <2> HAVE a <= b
  <2> DEFINE i == b - a
  <2>1. i \in 0 .. n - a /\ a + i = b
    OBVIOUS
  <2> HIDE DEF i
  <2>2. CatRange(f, a, a + i) \in Seq(A) /\ Len(CatRange(f, a, a + i)) = W[a + i] - W[a]
    BY <1>3, <2>1
  <2> QED
    BY <1>2, <2>1, <2>2
<1>5. ASSUME NEW a \in 0 .. n, NEW b \in 0 .. n, a <= b
      PROVE  \A i \in 0 .. n - b : B[a][b + i] = B[a][b] \o B[b][b + i]
  <2> DEFINE T == {i \in 0 .. n - b : B[a][b + i] = B[a][b] \o B[b][b + i]}
  <2>1. 0 \in T
    <3>1. b + 0 = b /\ 0 \in 0 .. n - b
      OBVIOUS
    <3>2. B[b][b] = << >>
      BY <1>2, CatRangeEmpty
    <3>3. B[a][b] \in Seq(A)
      BY <1>4, <1>5
    <3>4. B[a][b] = B[a][b] \o B[b][b]
      BY <3>2, <3>3, ConcatEmptySeq
    <3> QED
      BY <3>1, <3>4
  <2>2. ASSUME NEW i \in 0 .. (n - b) - 1, i \in T PROVE i + 1 \in T
    <3> DEFINE c == b + i
    <3>1. /\ c \in a .. n - 1 /\ c \in b .. n - 1 /\ c \in 0 .. n /\ c + 1 \in 0 .. n /\ c + 1 \in 1 .. n
          /\ b <= c /\ a <= c
      BY <1>5
    <3>2. b + (i + 1) = c + 1 /\ i + 1 \in 0 .. n - b
      OBVIOUS
    <3>3. B[a][c] = B[a][b] \o B[b][c]
      BY <2>2
    <3> HIDE DEF c
    <3>4. B[a][c + 1] = B[a][c] \o f[c + 1] /\ B[b][c + 1] = B[b][c] \o f[c + 1]
      <4>1. CatRange(f, a, c + 1) = CatRange(f, a, c) \o f[c + 1]
        BY <3>1, CatRangeStep
      <4>2. CatRange(f, b, c + 1) = CatRange(f, b, c) \o f[c + 1]
        BY <3>1, CatRangeStep
      <4>3. /\ B[a][c] = CatRange(f, a, c) /\ B[a][c + 1] = CatRange(f, a, c + 1)
            /\ B[b][c] = CatRange(f, b, c) /\ B[b][c + 1] = CatRange(f, b, c + 1)
        BY <1>2, <3>1
      <4> QED
        BY <4>1, <4>2, <4>3
    <3>5. B[a][b] \in Seq(A) /\ B[b][c] \in Seq(A) /\ f[c + 1] \in Seq(A)
      BY <1>4, <1>5, <3>1 DEF AllSeq
    <3>6. (B[a][b] \o B[b][c]) \o f[c + 1] = B[a][b] \o (B[b][c] \o f[c + 1])
      <4> DEFINE x == B[a][b]
                 y == B[b][c]
                 z == f[c + 1]
      <4>1. x \in Seq(A) /\ y \in Seq(A) /\ z \in Seq(A)
        BY <3>5
      <4> HIDE DEF x, y, z
      <4>2. (x \o y) \o z = x \o (y \o z)
        BY <4>1, ConcatAssociative
      <4> QED
        BY <4>2 DEF x, y, z
    <3>7. B[a][c + 1] = B[a][b] \o B[b][c + 1]
      BY <3>3, <3>4, <3>6
    <3> QED
      BY <3>2, <3>7
  <2> HIDE DEF T
  <2>3. \A i \in 0 .. n - b : i \in T
    <3>1. n - b \in Nat
      OBVIOUS
    <3> QED
      BY <2>1, <2>2, <3>1, IntervalInduction
  <2> QED
    BY <2>3 DEF T
<1>6. \A a, b, c \in 0 .. n : a <= b /\ b <= c => B[a][c] = B[a][b] \o B[b][c]
  <2> TAKE a, b, c \in 0 .. n
  <2> HAVE a <= b /\ b <= c
  <2> DEFINE i == c - b
  <2>1. i \in 0 .. n - b /\ b + i = c
    OBVIOUS
  <2> HIDE DEF i
  <2>2. B[a][b + i] = B[a][b] \o B[b][b + i]
    BY <1>5, <2>1
  <2> QED
    BY <2>1, <2>2
<1>7. IsBlocks(B, W, A, n)
  BY <1>1, <1>4, <1>6 DEF IsBlocks
<1> QED
  BY <1>7 DEF W, B

-----------------------------------------------------------------------------
(***************************************************************************)
(* The messages                                                            *)
(***************************************************************************)
StrideBlocks == [a \in 0 .. Size |-> [b \in 0 .. Size |-> StrideBlock(a, b)]]
DataBlocks == [a \in 0 .. Size |-> [b \in 0 .. Size |-> DataBlock(a, b)]]
Entries == [a \in 0 .. Size |-> a]
ItemsOf == ItemsBefore(stride, Size)

\* The blocks of strides: one stride per entry.
LEMMA StridesAreBlocks == Arguments => IsBlocks(StrideBlocks, Entries, Nat, Size)
<1> SUFFICES ASSUME Arguments PROVE IsBlocks(StrideBlocks, Entries, Nat, Size)
  OBVIOUS
<1> DEFINE n == Size
<1>1. n \in Nat /\ stride \in [1 .. n -> Nat]
  BY DEF Arguments
<1> HIDE DEF n
<1>2. stride \in Seq(Nat) /\ Len(stride) = n
  BY <1>1
<1>3. IsBlocks([a \in 0 .. n |-> [b \in 0 .. n |-> SubSeq(stride, a + 1, b)]],
               [a \in 0 .. n |-> a], Nat, n)
  BY <1>1, <1>2, EntriesAreBlocks
<1> QED
  BY <1>3 DEF StrideBlocks, StrideBlock, Entries, n

\* The blocks of data: the items of an entry are as many as its stride.
LEMMA DataAreBlocks == Arguments => IsBlocks(DataBlocks, ItemsOf, Nat \X Nat, Size)
<1> SUFFICES ASSUME Arguments PROVE IsBlocks(DataBlocks, ItemsOf, Nat \X Nat, Size)
  OBVIOUS
<1> DEFINE n == Size
           A == Nat \X Nat
           f == [g \in 1 .. n |-> Items(g)]
<1>1. n \in Nat /\ stride \in [1 .. n -> Nat]
  BY DEF Arguments
<1>2. ASSUME NEW g \in 1 .. n PROVE Items(g) \in Seq(A) /\ Len(Items(g)) = stride[g]
  <2>1. stride[g] \in Nat /\ g \in Nat
    BY <1>1
  <2>2. \A k \in 1 .. stride[g] : <<g, k>> \in A
    BY <2>1
  <2> HIDE DEF A
  <2> QED
    BY <2>1, <2>2 DEF Items
<1> HIDE DEF n, A
<1>3. AllSeq(f, n, A) /\ AllInt(stride, n) /\ \A g \in 1 .. n : Len(f[g]) = stride[g] /\ f[g] = Items(g)
  BY <1>1, <1>2 DEF AllSeq, AllInt
<1> HIDE DEF f
<1>4. IsBlocks([a \in 0 .. n |-> [b \in 0 .. n |-> CatRange(f, a, b)]], ItemsBefore(stride, n), A, n)
  BY <1>1, <1>3, RangesAreBlocks
<1>5. ASSUME NEW a \in 0 .. n, NEW b \in 0 .. n PROVE DataBlock(a, b) = CatRange(f, a, b)
  <2>1. ASSUME NEW k \in 1 .. b - a PROVE Items(a + k) = f[a + k]
    <3>1. a + k \in 1 .. n
      BY <1>1
    <3> QED
      BY <1>3, <3>1
  <2>2. [k \in 1 .. b - a |-> Items(a + k)] = [k \in 1 .. b - a |-> f[a + k]]
    BY <2>1
  <2> QED
    BY <2>2 DEF DataBlock, CatRange
<1>6. [a \in 0 .. n |-> [b \in 0 .. n |-> DataBlock(a, b)]]
        = [a \in 0 .. n |-> [b \in 0 .. n |-> CatRange(f, a, b)]]
  BY <1>5
<1>7. IsBlocks([a \in 0 .. n |-> [b \in 0 .. n |-> DataBlock(a, b)]], ItemsBefore(stride, n), A, n)
  BY <1>4, <1>6
<1> QED
  BY <1>7 DEF DataBlocks, ItemsOf, n, A

\* Both distributions cut the array of the exchange.
LEMMA ArgumentFacts ==
  ASSUME Arguments
  PROVE  /\ Size \in Nat /\ FullDistribution(din, Size) /\ FullDistribution(dout, Size)
         /\ stride \in [1 .. Size -> Nat] /\ AllInt(stride, Size)
         /\ \A i \in 0 .. NRank : din[i] \in 0 .. Size /\ dout[i] \in 0 .. Size
<1> DEFINE n == Size
<1>1. /\ n \in Nat /\ FullDistribution(din, n) /\ FullDistribution(dout, n)
      /\ stride \in [1 .. n -> Nat]
  BY DEF Arguments
<1> HIDE DEF n
<1>2. AllInt(stride, n)
  BY <1>1 DEF AllInt
<1>3. \A i \in 0 .. NRank : din[i] \in 0 .. n /\ dout[i] \in 0 .. n
  BY <1>1, BoundsInRange
<1> QED
  BY <1>1, <1>2, <1>3 DEF n

\* The counts of entries laid out one after the other cover the block of the rank: the
\* assertions of BlockToBlock.__init__.
LEMMA TotalOfCounts ==
  ASSUME NEW n \in Nat, NEW from, NEW to, FullDistribution(from, n), FullDistribution(to, n),
         NEW r \in Rank
  PROVE  Total(send_counts(from, to, r)) = from[r + 1] - from[r]
<1> DEFINE W == [a \in 0 .. n |-> a]
<1>1. W \in [0 .. n -> Int] /\ \A a \in 0 .. n : W[a] = a
  OBVIOUS
<1>2. send_counts(from, to, r) = CutItems(W, from, to, r)
  BY EntryCounts
<1> HIDE DEF W
<1>3. gather_and_shift(CutItems(W, from, to, r))[NRank] = W[CutAt(from, to, r, NRank)] - W[from[r]]
  <2>1. \A i \in 0 .. NRank :
          gather_and_shift(CutItems(W, from, to, r))[i] = W[CutAt(from, to, r, i)] - W[from[r]]
    BY <1>1, DisplacementsAreCuts
  <2> QED
    BY <2>1, RankIndex
<1>4. CutAt(from, to, r, NRank) = from[r + 1]
  BY CutBounds
<1>5. from[r] \in 0 .. n /\ from[r + 1] \in 0 .. n
  BY BoundsInRange, RankIndex
<1> QED
  BY <1>1, <1>2, <1>3, <1>4, <1>5 DEF Total

\* The sums of the strides that a rank has for each interval of the other distribution are
\* the items of the cuts of its block.
LEMMA ItemCountsAreCuts ==
  ASSUME Arguments, NEW from, NEW to, FullDistribution(from, Size), FullDistribution(to, Size),
         NEW r \in Rank
  PROVE  ItemCounts(StrideBlock(from[r], from[r + 1]), send_counts(from, to, r))
           = CutItems(ItemsOf, from, to, r)
<1> DEFINE n == Size
           W == [a \in 0 .. n |-> a]
           counts == send_counts(from, to, r)
           strides == StrideBlock(from[r], from[r + 1])
           at == gather_and_shift(counts)
<1>1. /\ n \in Nat /\ FullDistribution(from, n) /\ FullDistribution(to, n)
      /\ stride \in [1 .. n -> Nat] /\ AllInt(stride, n)
  BY ArgumentFacts
<1>2. ItemsOf = ItemsBefore(stride, n)
  BY DEF ItemsOf
<1>3. ItemCounts(strides, counts) =
        [i \in Rank |-> SumTo([k \in 1 .. counts[i] |-> strides[at[i] + k]], counts[i])]
  BY DEF ItemCounts
<1> HIDE DEF n
<1>4. from[r] \in 0 .. n /\ from[r + 1] \in 0 .. n /\ from[r] <= from[r + 1]
  BY <1>1, BoundsInRange, RankIndex DEF FullDistribution
<1>5. ASSUME NEW j \in 1 .. from[r + 1] - from[r] PROVE strides[j] = stride[from[r] + j]
  <2>1. stride \in Seq(Nat) /\ Len(stride) = n
    BY <1>1
  <2>2. strides = SubSeq(stride, from[r] + 1, from[r + 1])
    BY DEF StrideBlock
  <2> DEFINE a == from[r]
             b == from[r + 1]
  <2> HIDE DEF strides
  <2>3. a \in Int /\ b \in Int /\ j \in Int /\ a \in 0 .. n /\ b \in 0 .. n /\ a <= b /\ j \in 1 .. b - a
    BY <1>4
  <2>4. strides = SubSeq(stride, a + 1, b)
    BY <2>2
  <2> HIDE DEF a, b
  <2>5. SubSeq(stride, a + 1, b) = [i \in 1 .. b - a |-> stride[a + i]]
    BY <1>1, <2>1, <2>3
  <2>6. strides[j] = stride[a + j]
    BY <2>3, <2>4, <2>5
  <2> QED
    BY <2>6 DEF a
<1>6. ASSUME NEW i \in Rank
      PROVE  SumTo([k \in 1 .. counts[i] |-> strides[at[i] + k]], counts[i])
               = ItemsOf[CutAt(from, to, r, i + 1)] - ItemsOf[CutAt(from, to, r, i)]
  <2> DEFINE lo == CutAt(from, to, r, i)
             hi == CutAt(from, to, r, i + 1)
             m == hi - lo
             a == from[r]
             g == [k \in 1 .. m |-> strides[(lo - a) + k]]
  <2>1. /\ lo \in 0 .. n /\ hi \in 0 .. n /\ lo \in a .. from[r + 1] /\ hi \in a .. from[r + 1]
        /\ lo <= hi
    BY <1>1, CutBounds, RankIndex
  <2>2. counts[i] = m
    BY <1>1, OverlapIsCut
  <2>3. at[i] = lo - a
    <3>1. counts = CutItems(W, from, to, r)
      BY <1>1, EntryCounts
    <3>2. W \in [0 .. n -> Int] /\ \A x \in 0 .. n : W[x] = x
      OBVIOUS
    <3> HIDE DEF W, counts
    <3>3. gather_and_shift(CutItems(W, from, to, r))[i] = W[CutAt(from, to, r, i)] - W[from[r]]
      <4>1. \A j \in 0 .. NRank :
              gather_and_shift(CutItems(W, from, to, r))[j] = W[CutAt(from, to, r, j)] - W[from[r]]
        BY <1>1, <3>2, DisplacementsAreCuts
      <4> QED
        BY <4>1, RankIndex
    <3>4. at[i] = W[lo] - W[a]
      BY <3>1, <3>3
    <3> HIDE DEF lo, hi, a, at
    <3> QED
      BY <1>4, <2>1, <3>2, <3>4 DEF a
  <2>4. SumTo([k \in 1 .. counts[i] |-> strides[at[i] + k]], counts[i]) = SumTo(g, m)
    BY <2>2, <2>3
  <2>5. lo \in 0 .. n /\ m \in 0 .. n - lo /\ lo + m = hi
    <3> HIDE DEF lo, hi
    <3> QED
      BY <1>1, <2>1
  <2>6. \A k \in 1 .. m : g[k] = strides[(lo - a) + k]
    OBVIOUS
  <2>7. a \in 0 .. n /\ from[r + 1] \in 0 .. n
    BY <1>4
  <2>8. \A j \in 1 .. from[r + 1] - a : strides[j] = stride[a + j]
    BY <1>5
  <2>9. hi \in a .. from[r + 1] /\ lo \in a .. from[r + 1]
    BY <2>1
  <2> HIDE DEF lo, hi, g, m, strides, a
  <2>10. \A k \in 1 .. m : g[k] = stride[lo + k]
    <3> TAKE k \in 1 .. m
    <3>1. m \in Int /\ lo \in Int /\ a \in Int /\ k \in Int /\ hi \in Int /\ from[r + 1] \in Int
      BY <1>1, <2>5, <2>7
    <3>2. (lo - a) + k \in 1 .. from[r + 1] - a /\ a + ((lo - a) + k) = lo + k
      BY <2>5, <2>9, <3>1
    <3> QED
      BY <2>6, <2>8, <3>2
  <2>11. SumTo(g, m) = ItemsBefore(stride, n)[lo + m] - ItemsBefore(stride, n)[lo]
    BY <1>1, <2>5, <2>10, SumOfRange
  <2>12. SumTo(g, m) = ItemsOf[hi] - ItemsOf[lo]
    BY <1>2, <2>5, <2>11
  <2> QED
    BY <2>4, <2>12 DEF lo, hi
<1> HIDE DEF counts, strides, at
<1>7. ItemCounts(strides, counts) = CutItems(ItemsOf, from, to, r)
  BY <1>3, <1>6 DEF CutItems
<1> QED
  BY <1>7 DEF counts, strides

\* With a constant stride, the first a entries have a times as many items.
LEMMA ConstantItems ==
  ASSUME Arguments, ~ variable
  PROVE  ConstantStride \in Nat /\ \A a \in 0 .. Size : ItemsOf[a] = ConstantStride * a
<1> DEFINE n == Size
           c == ConstantStride
           W == ItemsOf
           T == {a \in 0 .. n : W[a] = c * a}
<1>1. n \in Nat /\ AllInt(stride, n) /\ stride \in [1 .. n -> Nat]
  BY ArgumentFacts
<1>2. \A g \in 1 .. n : stride[g] = stride[1]
  BY DEF Arguments
<1>3. W = ItemsBefore(stride, n) /\ c = IF n = 0 THEN 1 ELSE stride[1]
  BY DEF ItemsOf, ConstantStride
<1> HIDE DEF n, c, W
<1>4. c \in Nat /\ \A g \in 1 .. n : stride[g] = c
  BY <1>1, <1>2, <1>3
<1>5. SumSteps(W, stride, n) /\ W \in [0 .. n -> Int]
  BY <1>1, <1>3, ItemsBeforeSteps
<1>6. 0 \in T
  <2>1. W[0] = 0 /\ c * 0 = 0 /\ 0 \in 0 .. n
    BY <1>1, <1>4, <1>5 DEF SumSteps
  <2> QED
    BY <2>1
<1>7. ASSUME NEW a \in 0 .. n - 1, a \in T PROVE a + 1 \in T
  <2>1. W[a + 1] = W[a] + stride[a + 1] /\ W[a] = c * a
    BY <1>5, <1>7 DEF SumSteps
  <2>2. a + 1 \in 1 .. n /\ a + 1 \in 0 .. n /\ a \in Int
    BY <1>1
  <2>3. stride[a + 1] = c
    BY <1>4, <2>2
  <2>4. c * (a + 1) = c * a + c
    BY <1>4, <2>2
  <2> QED
    BY <2>1, <2>2, <2>3, <2>4
<1> HIDE DEF T
<1>8. \A a \in 0 .. n : a \in T
  BY <1>1, <1>6, <1>7, IntervalInduction
<1> QED
  BY <1>4, <1>8 DEF T, n, c, W

\* With a constant stride, the counts of items are those of the cuts too.
LEMMA ConstantCountsAreCuts ==
  ASSUME Arguments, ~ variable, NEW from, NEW to,
         FullDistribution(from, Size), FullDistribution(to, Size), NEW r \in Rank
  PROVE  [i \in Rank |-> ConstantStride * send_counts(from, to, r)[i]] = CutItems(ItemsOf, from, to, r)
<1> DEFINE n == Size
           c == ConstantStride
           W == ItemsOf
<1>1. n \in Nat /\ FullDistribution(from, n) /\ FullDistribution(to, n)
  BY ArgumentFacts
<1>2. c \in Nat /\ \A a \in 0 .. n : W[a] = c * a
  BY ConstantItems
<1> HIDE DEF n, c, W
<1>3. ASSUME NEW i \in Rank
      PROVE  c * send_counts(from, to, r)[i] = W[CutAt(from, to, r, i + 1)] - W[CutAt(from, to, r, i)]
  <2> DEFINE lo == CutAt(from, to, r, i)
             hi == CutAt(from, to, r, i + 1)
  <2>1. lo \in 0 .. n /\ hi \in 0 .. n
    BY <1>1, CutBounds, RankIndex
  <2>2. send_counts(from, to, r)[i] = hi - lo
    BY <1>1, OverlapIsCut
  <2> HIDE DEF lo, hi
  <2>3. W[lo] = c * lo /\ W[hi] = c * hi
    BY <1>2, <2>1
  <2>4. lo \in Int /\ hi \in Int /\ c \in Int
    BY <1>1, <1>2, <2>1
  <2>5. c * (hi - lo) = c * hi - c * lo
    BY <2>4
  <2>6. c * send_counts(from, to, r)[i] = W[hi] - W[lo]
    BY <2>2, <2>3, <2>5
  <2> QED
    BY <2>6 DEF lo, hi
<1>4. [i \in Rank |-> c * send_counts(from, to, r)[i]] = CutItems(W, from, to, r)
  BY <1>3 DEF CutItems
<1> QED
  BY <1>4 DEF c, W

\* What a rank receives is counted as what it would send back.
LEMMA RecvIsSend == \A r : recv_counts(din, dout, r) = send_counts(dout, din, r)
BY DEF recv_counts, send_counts

\* The counts of items of the sender.
LEMMA SendCountsAreCuts ==
  ASSUME Arguments, NEW r \in Rank
  PROVE  data_send_counts(r) = CutItems(ItemsOf, din, dout, r)
<1>1. FullDistribution(din, Size) /\ FullDistribution(dout, Size)
  BY ArgumentFacts
<1>2. CASE variable
  <2>1. data_send_counts(r) = ItemCounts(StrideBlock(din[r], din[r + 1]), send_counts(din, dout, r))
    BY <1>2 DEF data_send_counts, stride_in
  <2> QED
    BY <1>1, <2>1, ItemCountsAreCuts
<1>3. CASE ~ variable
  <2>1. data_send_counts(r) = [i \in Rank |-> ConstantStride * send_counts(din, dout, r)[i]]
    BY <1>3 DEF data_send_counts
  <2> QED
    BY <1>1, <1>3, <2>1, ConstantCountsAreCuts
<1> QED
  BY <1>2, <1>3

\* The counts of items of the receiver, once it has the strides.
LEMMA RecvCountsAreCuts ==
  ASSUME Arguments, NEW r \in Rank, variable => stride_out[r] = StrideBlock(dout[r], dout[r + 1])
  PROVE  data_recv_counts(r) = CutItems(ItemsOf, dout, din, r)
<1>1. FullDistribution(din, Size) /\ FullDistribution(dout, Size)
  BY ArgumentFacts
<1>2. CASE variable
  <2>1. data_recv_counts(r) = ItemCounts(StrideBlock(dout[r], dout[r + 1]), send_counts(dout, din, r))
    BY <1>2, RecvIsSend DEF data_recv_counts
  <2> QED
    BY <1>1, <2>1, ItemCountsAreCuts
<1>3. CASE ~ variable
  <2>1. data_recv_counts(r) = [i \in Rank |-> ConstantStride * send_counts(dout, din, r)[i]]
    BY <1>3, RecvIsSend DEF data_recv_counts
  <2> QED
    BY <1>1, <1>3, <2>1, ConstantCountsAreCuts
<1> QED
  BY <1>2, <1>3

\* The blocks of the global array that the messages are.
LEMMA MessagesAreBlocks ==
  ASSUME Arguments, NEW s \in Rank, NEW d \in Rank
  PROVE  /\ StrideMsg(s, d) = StrideBlocks[CutAt(dout, din, d, s)][CutAt(dout, din, d, s + 1)]
         /\ DataMsg(s, d) = DataBlocks[CutAt(dout, din, d, s)][CutAt(dout, din, d, s + 1)]
<1> DEFINE n == Size
           lo == CutAt(dout, din, d, s)
           hi == CutAt(dout, din, d, s + 1)
<1>1. n \in Nat /\ FullDistribution(din, n) /\ FullDistribution(dout, n)
  BY ArgumentFacts
<1> HIDE DEF n
<1>2. lo \in 0 .. n /\ hi \in 0 .. n
  BY <1>1, CutBounds, RankIndex
<1> HIDE DEF lo, hi
<1>3. StrideBlocks[lo][hi] = StrideBlock(lo, hi) /\ DataBlocks[lo][hi] = DataBlock(lo, hi)
  BY <1>2 DEF StrideBlocks, DataBlocks, n
<1> QED
  BY <1>3 DEF lo, hi, StrideMsg, DataMsg

\* The blocks of the ranks are blocks of the global array.
LEMMA RankBlocks ==
  ASSUME Arguments, NEW r \in Rank
  PROVE  /\ stride_in(r) = StrideBlocks[din[r]][din[r + 1]]
         /\ data_in(r) = DataBlocks[din[r]][din[r + 1]]
         /\ StrideBlock(dout[r], dout[r + 1]) = StrideBlocks[dout[r]][dout[r + 1]]
         /\ DataBlock(dout[r], dout[r + 1]) = DataBlocks[dout[r]][dout[r + 1]]
         /\ StrideBlock(dout[r], dout[r + 1]) \in Seq(Nat)
         /\ DataBlock(dout[r], dout[r + 1]) \in Seq(Nat \X Nat)
<1> DEFINE n == Size
           a == dout[r]
           b == dout[r + 1]
           S == StrideBlocks
           D == DataBlocks
           A == Nat \X Nat
<1>1. n \in Nat /\ \A i \in 0 .. NRank : din[i] \in 0 .. n /\ dout[i] \in 0 .. n
  BY ArgumentFacts
<1>2. r \in 0 .. NRank /\ r + 1 \in 0 .. NRank
  BY RankIndex
<1>3. \A x, y \in 0 .. n : S[x][y] = StrideBlock(x, y) /\ D[x][y] = DataBlock(x, y)
  BY DEF StrideBlocks, DataBlocks
<1>4. IsBlocks(S, Entries, Nat, n) /\ IsBlocks(D, ItemsOf, A, n)
  BY StridesAreBlocks, DataAreBlocks
<1>5. a <= b
  BY ArgumentFacts DEF FullDistribution
<1>6. a \in 0 .. n /\ b \in 0 .. n /\ din[r] \in 0 .. n /\ din[r + 1] \in 0 .. n
  BY <1>1, <1>2
<1> HIDE DEF n, a, b, S, D, A
<1>7. S[a][b] \in Seq(Nat) /\ D[a][b] \in Seq(A)
  BY <1>4, <1>5, <1>6 DEF IsBlocks
<1>8. /\ StrideBlock(a, b) = S[a][b] /\ DataBlock(a, b) = D[a][b]
      /\ StrideBlock(din[r], din[r + 1]) = S[din[r]][din[r + 1]]
      /\ DataBlock(din[r], din[r + 1]) = D[din[r]][din[r + 1]]
  BY <1>3, <1>6
<1>9. StrideBlock(a, b) \in Seq(Nat) /\ DataBlock(a, b) \in Seq(A)
  BY <1>7, <1>8
<1> QED
  BY <1>8, <1>9 DEF stride_in, data_in, a, b, S, D, A

\* What a rank posts to another in the Alltoallv of the strides.
LEMMA StrideChunk ==
  ASSUME Arguments, NEW r \in Rank, NEW d \in Rank
  PROVE  Chunk(stride_in(r), send_counts(din, dout, r), d) = StrideMsg(r, d)
<1> DEFINE n == Size
           B == StrideBlocks
           W == Entries
<1>1. n \in Nat /\ FullDistribution(din, n) /\ FullDistribution(dout, n)
  BY ArgumentFacts
<1>2. IsBlocks(B, W, Nat, n)
  BY StridesAreBlocks
<1>3. send_counts(din, dout, r) = CutItems(W, din, dout, r)
  BY <1>1, EntryCounts DEF Entries
<1>4. stride_in(r) = B[din[r]][din[r + 1]]
  BY RankBlocks
<1>5. StrideMsg(r, d) = B[CutAt(dout, din, d, r)][CutAt(dout, din, d, r + 1)]
  BY MessagesAreBlocks
<1> HIDE DEF n, B, W
<1>6. Chunk(B[din[r]][din[r + 1]], CutItems(W, din, dout, r), d)
        = B[CutAt(din, dout, r, d)][CutAt(din, dout, r, d + 1)]
  BY <1>1, <1>2, ChunkIsBlock
<1>7. B[CutAt(din, dout, r, d)][CutAt(din, dout, r, d + 1)]
        = B[CutAt(dout, din, d, r)][CutAt(dout, din, d, r + 1)]
  BY <1>1, <1>2, MessageIsBlock
<1> QED
  BY <1>3, <1>4, <1>5, <1>6, <1>7

\* What a rank posts to another in the Alltoallv of the data.
LEMMA DataChunk ==
  ASSUME Arguments, NEW r \in Rank, NEW d \in Rank
  PROVE  Chunk(data_in(r), data_send_counts(r), d) = DataMsg(r, d)
<1> DEFINE n == Size
           B == DataBlocks
           W == ItemsOf
           A == Nat \X Nat
<1>1. n \in Nat /\ FullDistribution(din, n) /\ FullDistribution(dout, n)
  BY ArgumentFacts
<1>2. IsBlocks(B, W, A, n)
  BY DataAreBlocks
<1>3. data_send_counts(r) = CutItems(W, din, dout, r)
  BY SendCountsAreCuts
<1>4. data_in(r) = B[din[r]][din[r + 1]]
  BY RankBlocks
<1>5. DataMsg(r, d) = B[CutAt(dout, din, d, r)][CutAt(dout, din, d, r + 1)]
  BY MessagesAreBlocks
<1> HIDE DEF n, B, W, A
<1>6. Chunk(B[din[r]][din[r + 1]], CutItems(W, din, dout, r), d)
        = B[CutAt(din, dout, r, d)][CutAt(din, dout, r, d + 1)]
  BY <1>1, <1>2, ChunkIsBlock
<1>7. B[CutAt(din, dout, r, d)][CutAt(din, dout, r, d + 1)]
        = B[CutAt(dout, din, d, r)][CutAt(dout, din, d, r + 1)]
  BY <1>1, <1>2, MessageIsBlock
<1> QED
  BY <1>3, <1>4, <1>5, <1>6, <1>7

\* Messages that are the blocks of the cuts of d make its whole block, and have the
\* sizes that d computed.
LEMMA ReceptionIsBlock ==
  ASSUME NEW n \in Nat, FullDistribution(din, n), FullDistribution(dout, n),
         NEW A, NEW B, NEW W, IsBlocks(B, W, A, n), NEW r \in Rank,
         \A s \in Rank : Head(chan[s][r]) = B[CutAt(dout, din, r, s)][CutAt(dout, din, r, s + 1)]
  PROVE  Received(r) = B[dout[r]][dout[r + 1]] /\ Fits(r, CutItems(W, dout, din, r))
<1> DEFINE f == [i \in 1 .. NRank |-> Head(chan[i - 1][r])]
           F == CutBlocks(B, dout, din, r)
<1>1. ASSUME NEW i \in 1 .. NRank
      PROVE  Head(chan[i - 1][r]) = B[CutAt(dout, din, r, i - 1)][CutAt(dout, din, r, i)]
  <2> DEFINE s == i - 1
  <2>1. s \in Rank /\ s + 1 = i
    BY RankIndex
  <2> HIDE DEF s
  <2>2. Head(chan[s][r]) = B[CutAt(dout, din, r, s)][CutAt(dout, din, r, s + 1)]
    BY <2>1
  <2>3. Head(chan[s][r]) = B[CutAt(dout, din, r, s)][CutAt(dout, din, r, i)]
    BY <2>1, <2>2
  <2> QED
    BY <2>3 DEF s
<1>2. f = F
  BY <1>1 DEF CutBlocks
<1>3. ASSUME NEW s \in Rank
      PROVE  /\ Head(chan[s][r]) \in Seq(A)
             /\ Len(Head(chan[s][r])) = W[CutAt(dout, din, r, s + 1)] - W[CutAt(dout, din, r, s)]
  <2>1. Head(chan[s][r]) = B[CutAt(dout, din, r, s)][CutAt(dout, din, r, s + 1)]
    OBVIOUS
  <2>2. /\ B[CutAt(din, dout, s, r)][CutAt(din, dout, s, r + 1)]
             = B[CutAt(dout, din, r, s)][CutAt(dout, din, r, s + 1)]
        /\ B[CutAt(din, dout, s, r)][CutAt(din, dout, s, r + 1)] \in Seq(A)
        /\ Len(B[CutAt(din, dout, s, r)][CutAt(din, dout, s, r + 1)])
             = W[CutAt(dout, din, r, s + 1)] - W[CutAt(dout, din, r, s)]
    BY MessageIsBlock
  <2> QED
    BY <2>1, <2>2
<1>4. Fits(r, CutItems(W, dout, din, r))
  BY <1>3 DEF Fits, CutItems
<1>5. AllSeq(f, NRank, A)
  <2> SUFFICES ASSUME NEW i \in 1 .. NRank PROVE f[i] \in Seq(A)
    BY DEF AllSeq
  <2>1. i - 1 \in Rank
    BY RankIndex
  <2>2. f[i] = Head(chan[i - 1][r])
    OBVIOUS
  <2> QED
    BY <1>3, <2>1, <2>2
<1>6. Received(r) = Concat(f, NRank)
  BY DEF Received
<1> HIDE DEF f, F
<1>7. PICK u : IsCat(u, f, NRank) /\ Concat(f, NRank) = u[NRank]
  BY <1>5, ConcatIs, RankIndex
<1>8. IsCat(u, CutBlocks(B, dout, din, r), NRank)
  BY <1>2, <1>7 DEF F
<1>9. u[NRank] = B[dout[r]][dout[r + 1]]
  BY <1>8, BlocksConcatenate
<1> QED
  BY <1>4, <1>6, <1>7, <1>9

\* The reception of the strides.
LEMMA StrideReceived ==
  ASSUME Arguments, NEW r \in Rank, \A s \in Rank : Head(chan[s][r]) = StrideMsg(s, r)
  PROVE  /\ Received(r) = StrideBlock(dout[r], dout[r + 1])
         /\ Fits(r, recv_counts(din, dout, r))
<1> DEFINE n == Size
           B == StrideBlocks
           W == Entries
<1>1. n \in Nat /\ FullDistribution(din, n) /\ FullDistribution(dout, n)
  BY ArgumentFacts
<1>2. IsBlocks(B, W, Nat, n)
  BY StridesAreBlocks
<1>3. send_counts(dout, din, r) = CutItems(W, dout, din, r)
  BY <1>1, EntryCounts DEF Entries
<1>4. StrideBlock(dout[r], dout[r + 1]) = B[dout[r]][dout[r + 1]]
  BY RankBlocks
<1>5. \A s \in Rank : Head(chan[s][r]) = B[CutAt(dout, din, r, s)][CutAt(dout, din, r, s + 1)]
  BY MessagesAreBlocks
<1> HIDE DEF n, B, W
<1>6. Received(r) = B[dout[r]][dout[r + 1]] /\ Fits(r, CutItems(W, dout, din, r))
  BY <1>1, <1>2, <1>5, ReceptionIsBlock
<1> QED
  BY <1>3, <1>4, <1>6, RecvIsSend

\* The reception of the data.
LEMMA DataReceived ==
  ASSUME Arguments, NEW r \in Rank, \A s \in Rank : Head(chan[s][r]) = DataMsg(s, r),
         variable => stride_out[r] = StrideBlock(dout[r], dout[r + 1])
  PROVE  /\ Received(r) = DataBlock(dout[r], dout[r + 1])
         /\ Fits(r, data_recv_counts(r))
<1> DEFINE n == Size
           B == DataBlocks
           W == ItemsOf
           A == Nat \X Nat
<1>1. n \in Nat /\ FullDistribution(din, n) /\ FullDistribution(dout, n)
  BY ArgumentFacts
<1>2. IsBlocks(B, W, A, n)
  BY DataAreBlocks
<1>3. data_recv_counts(r) = CutItems(W, dout, din, r)
  BY RecvCountsAreCuts
<1>4. DataBlock(dout[r], dout[r + 1]) = B[dout[r]][dout[r + 1]]
  BY RankBlocks
<1>5. \A s \in Rank : Head(chan[s][r]) = B[CutAt(dout, din, r, s)][CutAt(dout, din, r, s + 1)]
  BY MessagesAreBlocks
<1> HIDE DEF n, B, W, A
<1>6. Received(r) = B[dout[r]][dout[r + 1]] /\ Fits(r, CutItems(W, dout, din, r))
  BY <1>1, <1>2, <1>5, ReceptionIsBlock
<1> QED
  BY <1>3, <1>4, <1>6

-----------------------------------------------------------------------------
(***************************************************************************)
(* The invariant                                                           *)
(***************************************************************************)
\* What is in a channel, case by case, before and after a step.
LEMMA TransitIs ==
  ASSUME NEW s, NEW d
  PROVE  /\ StrideQueued(s, d) /\ DataQueued(s, d) => InTransit(s, d) = <<StrideMsg(s, d), DataMsg(s, d)>>
         /\ StrideQueued(s, d) /\ ~ DataQueued(s, d) => InTransit(s, d) = <<StrideMsg(s, d)>>
         /\ ~ StrideQueued(s, d) /\ DataQueued(s, d) => InTransit(s, d) = <<DataMsg(s, d)>>
         /\ ~ StrideQueued(s, d) /\ ~ DataQueued(s, d) => InTransit(s, d) = << >>
BY DEF InTransit

\* The same after a step.
LEMMA TransitIsNext ==
  ASSUME NEW s, NEW d
  PROVE  /\ StrideQueued(s, d)' /\ DataQueued(s, d)' =>
              InTransit(s, d)' = <<StrideMsg(s, d)', DataMsg(s, d)'>>
         /\ StrideQueued(s, d)' /\ ~ DataQueued(s, d)' => InTransit(s, d)' = <<StrideMsg(s, d)'>>
         /\ ~ StrideQueued(s, d)' /\ DataQueued(s, d)' => InTransit(s, d)' = <<DataMsg(s, d)'>>
         /\ ~ StrideQueued(s, d)' /\ ~ DataQueued(s, d)' => InTransit(s, d)' = << >>
BY DEF InTransit

\* The channels, one by one.
LEMMA ChannelIs ==
  ASSUME Channels, NEW s \in Rank, NEW d \in Rank
  PROVE  chan[s][d] = InTransit(s, d)
BY DEF Channels

\* The exchange starts within the invariant.
LEMMA ExchangeInit == Init => ExchangeInv
<1> SUFFICES ASSUME Init PROVE ExchangeInv
  OBVIOUS
<1>1. PICK n \in 0 .. MaxSize :
        /\ din \in FullDistributions(n) /\ dout \in FullDistributions(n)
        /\ variable \in BOOLEAN
        /\ stride \in IF variable THEN [1 .. n -> 0 .. MaxStride]
                      ELSE {[g \in 1 .. n |-> s] : s \in 1 .. MaxStride}
  BY DEF Init
<1>2. n \in Nat /\ Size = n
  BY <1>1, BoundAssumption DEF FullDistributions, Size
<1>3. ASSUME NEW d \in FullDistributions(n) PROVE FullDistribution(d, n)
  <2>1. d \in [0 .. NRank -> 0 .. n] /\ \A x \in 0 .. n : x \in Int
    BY DEF FullDistributions
  <2>2. d \in [0 .. NRank -> Int]
    BY <2>1
  <2> QED
    BY <2>2 DEF FullDistributions, FullDistribution
<1>4. /\ stride \in [1 .. n -> Nat]
      /\ ~ variable => \A g \in 1 .. n : stride[g] = stride[1]
  <2>1. CASE variable
    <3>1. stride \in [1 .. n -> 0 .. MaxStride] /\ \A x \in 0 .. MaxStride : x \in Nat
      BY <1>1, <2>1, BoundAssumption
    <3> QED
      BY <2>1, <3>1
  <2>2. CASE ~ variable
    <3>1. PICK s \in 1 .. MaxStride : stride = [g \in 1 .. n |-> s]
      BY <1>1, <2>2
    <3>2. s \in Nat /\ \A g \in 1 .. n : 1 \in 1 .. n
      BY <1>2, BoundAssumption
    <3> QED
      BY <3>1, <3>2
  <2> QED
    BY <2>1, <2>2
<1>5. Arguments
  BY <1>1, <1>2, <1>3, <1>4 DEF Arguments
<1>6. /\ pc = [r \in Rank |-> "create"] /\ stride_out = [r \in Rank |-> << >>]
      /\ data_out = [r \in Rank |-> << >>]
      /\ chan = [s \in Rank |-> [d \in Rank |-> << >>]]
  BY DEF Init
<1>7. Located /\ Handshake
  BY <1>6 DEF Located, Handshake, StrideRead
<1>8. Channels
  <2>1. ASSUME NEW s \in Rank, NEW d \in Rank PROVE InTransit(s, d) = << >>
    <3>1. ~ StrideQueued(s, d) /\ ~ DataQueued(s, d)
      BY <1>6 DEF StrideQueued, DataQueued, StrideSent, DataSent
    <3> QED
      BY <3>1, TransitIs
  <2> QED
    BY <1>6, <2>1 DEF Channels
<1>9. StrideKept /\ DataKept
  <2>1. << >> \in Seq(Nat) /\ << >> \in Seq(Nat \X Nat)
    BY EmptySeq
  <2>2. stride_out \in [Rank -> Seq(Nat)] /\ data_out \in [Rank -> Seq(Nat \X Nat)]
    BY <1>6, <2>1
  <2> QED
    BY <1>6, <2>2 DEF StrideKept, DataKept, StrideRead
<1> QED
  BY <1>5, <1>7, <1>8, <1>9 DEF ExchangeInv

\* The inputs, the blocks and the messages cut out of them do not change.
LEMMA InputsKept ==
  ASSUME Arguments, UNCHANGED inputs
  PROVE  /\ Arguments' /\ Size' = Size
         /\ din' = din /\ dout' = dout /\ variable' = variable /\ stride' = stride
         /\ \A s, d : StrideMsg(s, d)' = StrideMsg(s, d) /\ DataMsg(s, d)' = DataMsg(s, d)
         /\ \A r : /\ StrideBlock(dout[r], dout[r + 1])' = StrideBlock(dout[r], dout[r + 1])
                   /\ DataBlock(dout[r], dout[r + 1])' = DataBlock(dout[r], dout[r + 1])
<1>1. din' = din /\ dout' = dout /\ variable' = variable /\ stride' = stride
  BY DEF inputs
<1>2. Size' = Size
  BY <1>1 DEF Size
<1>3. Arguments'
  BY <1>1, <1>2 DEF Arguments, FullDistribution
<1>4. \A s, d : StrideMsg(s, d)' = StrideMsg(s, d) /\ DataMsg(s, d)' = DataMsg(s, d)
  BY <1>1 DEF StrideMsg, DataMsg, StrideBlock, DataBlock, Items, CutAt
<1>5. \A r : /\ StrideBlock(dout[r], dout[r + 1])' = StrideBlock(dout[r], dout[r + 1])
             /\ DataBlock(dout[r], dout[r + 1])' = DataBlock(dout[r], dout[r + 1])
  BY <1>1 DEF StrideBlock, DataBlock, Items
<1> QED
  BY <1>1, <1>2, <1>3, <1>4, <1>5

\* A channel holds the same messages when its ends stay on the same side of the posts and
\* receptions.
LEMMA TransitKept ==
  ASSUME Arguments, UNCHANGED inputs, NEW s, NEW d,
         StrideQueued(s, d)' <=> StrideQueued(s, d), DataQueued(s, d)' <=> DataQueued(s, d)
  PROVE  InTransit(s, d)' = InTransit(s, d)
<1>1. StrideMsg(s, d)' = StrideMsg(s, d) /\ DataMsg(s, d)' = DataMsg(s, d)
  BY InputsKept
<1> QED
  BY <1>1, TransitIs, TransitIsNext

\* A post adds the message of r at the end of the channels it leaves by.
LEMMA PostedChannels ==
  ASSUME Channels, NEW r \in Rank, NEW buffer, NEW counts, Post(r, buffer, counts),
         \A d \in Rank : InTransit(r, d)' = Append(InTransit(r, d), Chunk(buffer, counts, d)),
         \A s, d \in Rank : s # r => InTransit(s, d)' = InTransit(s, d)
  PROVE  Channels'
<1>1. chan = [s \in Rank |-> [d \in Rank |-> InTransit(s, d)]]
  BY DEF Channels
<1>2. chan' = [s \in Rank |-> IF s = r THEN [d \in Rank |-> Append(chan[r][d], Chunk(buffer, counts, d))]
                              ELSE chan[s]]
  BY <1>1 DEF Post
<1>3. [d \in Rank |-> Append(chan[r][d], Chunk(buffer, counts, d))] = [d \in Rank |-> InTransit(r, d)']
  BY ChannelIs
<1>4. ASSUME NEW s \in Rank, s # r PROVE chan[s] = [d \in Rank |-> InTransit(s, d)']
  <2>1. chan[s] = [d \in Rank |-> InTransit(s, d)]
    BY <1>1
  <2> QED
    BY <1>4, <2>1
<1>5. chan' = [s \in Rank |-> [d \in Rank |-> InTransit(s, d)']]
  BY <1>2, <1>3, <1>4
<1> QED
  BY <1>5 DEF Channels

\* A reception removes the oldest message of each channel that reaches r.
LEMMA ConsumedChannels ==
  ASSUME Channels, NEW r \in Rank, Consume(r),
         \A s \in Rank : InTransit(s, r)' = Tail(InTransit(s, r)),
         \A s, d \in Rank : d # r => InTransit(s, d)' = InTransit(s, d)
  PROVE  Channels'
<1>1. chan = [s \in Rank |-> [d \in Rank |-> InTransit(s, d)]]
  BY DEF Channels
<1>2. ASSUME NEW s \in Rank
      PROVE  [chan[s] EXCEPT ![r] = Tail(@)] = [d \in Rank |-> InTransit(s, d)']
  <2>1. chan[s] = [d \in Rank |-> InTransit(s, d)]
    BY <1>1
  <2>2. chan[s][r] = InTransit(s, r)
    BY ChannelIs
  <2> QED
    BY <2>1, <2>2
<1>3. chan' = [s \in Rank |-> [d \in Rank |-> InTransit(s, d)']]
  BY <1>2 DEF Consume
<1> QED
  BY <1>3 DEF Channels

\* The arguments hold after the step of a rank, and its place is the only one to change.
LEMMA StepFrame ==
  ASSUME ExchangeInv, NEW r \in Rank, NEW l, Goto(r, l), UNCHANGED inputs
  PROVE  /\ Arguments' /\ din' = din /\ dout' = dout /\ variable' = variable
         /\ pc' \in [Rank -> {pc[s] : s \in Rank} \cup {l}]
         /\ pc'[r] = l /\ \A s \in Rank : s # r => pc'[s] = pc[s]
<1>1. Arguments /\ pc \in [Rank -> {pc[s] : s \in Rank}]
  BY DEF ExchangeInv, Located
<1>2. pc' = [pc EXCEPT ![r] = l]
  BY DEF Goto
<1>3. pc' \in [Rank -> {pc[s] : s \in Rank} \cup {l}]
  BY <1>1, <1>2
<1>4. pc'[r] = l /\ \A s \in Rank : s # r => pc'[s] = pc[s]
  BY <1>1, <1>2
<1> QED
  BY <1>1, <1>3, <1>4, InputsKept

\* A rank that stays on the same side of the posts and receptions moves no message.
LEMMA SilentStep ==
  ASSUME ExchangeInv, NEW r \in Rank, UNCHANGED <<inputs, chan>>,
         \A s \in Rank : s # r => pc'[s] = pc[s],
         din # dout /\ variable => (pc'[r] \in StrideSent <=> pc[r] \in StrideSent),
         din # dout /\ variable => (pc'[r] \in StrideRead <=> pc[r] \in StrideRead),
         din # dout => (pc'[r] \in DataSent <=> pc[r] \in DataSent),
         din # dout => (pc'[r] = "done" <=> pc[r] = "done")
  PROVE  Channels'
<1>1. Arguments /\ Channels /\ chan' = chan
  BY DEF ExchangeInv
<1>2. din' = din /\ dout' = dout /\ variable' = variable
  BY <1>1, InputsKept
<1>3. ASSUME NEW s \in Rank, NEW d \in Rank PROVE InTransit(s, d)' = InTransit(s, d)
  <2>1. StrideQueued(s, d)' <=> StrideQueued(s, d)
    BY <1>2 DEF StrideQueued
  <2>2. DataQueued(s, d)' <=> DataQueued(s, d)
    BY <1>2 DEF DataQueued
  <2> QED
    BY <1>1, <2>1, <2>2, TransitKept
<1>4. chan' = [s \in Rank |-> [d \in Rank |-> InTransit(s, d)']]
  BY <1>1, <1>3 DEF Channels
<1> QED
  BY <1>4 DEF Channels

\* Equal distributions: a copy is the block.
LEMMA SerialCopyStep ==
  ASSUME ExchangeInv, NEW r \in Rank, SerialCopy(r)
  PROVE  ExchangeInv'
<1>1. /\ pc[r] = "create" /\ din = dout /\ Goto(r, "done") /\ UNCHANGED <<inputs, chan>>
      /\ stride_out' = [stride_out EXCEPT ![r] = IF variable THEN stride_in(r) ELSE << >>]
      /\ data_out' = [data_out EXCEPT ![r] = data_in(r)]
  BY DEF SerialCopy
<1>2. UNCHANGED inputs
  BY <1>1
<1>3. /\ Arguments' /\ din' = din /\ dout' = dout /\ variable' = variable
      /\ pc'[r] = "done" /\ \A s \in Rank : s # r => pc'[s] = pc[s]
      /\ pc' = [pc EXCEPT ![r] = "done"]
  BY <1>1, <1>2, StepFrame DEF Goto
<1>4. Arguments /\ Located /\ StrideKept /\ DataKept
  BY DEF ExchangeInv
<1>5. Located'
  BY <1>1, <1>3, <1>4 DEF Located
<1>6. Handshake'
  BY <1>1, <1>3 DEF Handshake
<1>7. Channels'
  BY <1>1, <1>3, SilentStep
<1>8. /\ \A s : /\ StrideBlock(dout[s], dout[s + 1])' = StrideBlock(dout[s], dout[s + 1])
                /\ DataBlock(dout[s], dout[s + 1])' = DataBlock(dout[s], dout[s + 1])
  BY <1>2, <1>4, InputsKept
<1>9. /\ stride_in(r) = StrideBlock(dout[r], dout[r + 1]) /\ data_in(r) = DataBlock(dout[r], dout[r + 1])
      /\ stride_in(r) \in Seq(Nat) /\ data_in(r) \in Seq(Nat \X Nat) /\ << >> \in Seq(Nat)
  <2>1. /\ stride_in(r) = StrideBlock(dout[r], dout[r + 1])
        /\ data_in(r) = DataBlock(dout[r], dout[r + 1])
    BY <1>1 DEF stride_in, data_in
  <2>2. /\ StrideBlock(dout[r], dout[r + 1]) \in Seq(Nat)
        /\ DataBlock(dout[r], dout[r + 1]) \in Seq(Nat \X Nat)
    BY <1>4, RankBlocks
  <2>3. << >> \in Seq(Nat)
    BY EmptySeq
  <2> QED
    BY <2>1, <2>2, <2>3
<1>10. StrideKept'
  <2>1. stride_out' \in [Rank -> Seq(Nat)]
    BY <1>1, <1>4, <1>9 DEF StrideKept
  <2>2. ASSUME NEW s \in Rank, variable, pc'[s] \in StrideRead
        PROVE  stride_out'[s] = StrideBlock(dout[s], dout[s + 1])
    BY <1>1, <1>3, <1>4, <1>9, <2>2 DEF StrideKept
  <2> QED
    BY <1>3, <1>8, <2>1, <2>2 DEF StrideKept
<1>11. DataKept'
  <2>1. data_out' \in [Rank -> Seq(Nat \X Nat)]
    BY <1>1, <1>4, <1>9 DEF DataKept
  <2>2. ASSUME NEW s \in Rank, pc'[s] = "done"
        PROVE  data_out'[s] = DataBlock(dout[s], dout[s + 1])
    BY <1>1, <1>3, <1>4, <1>9, <2>2 DEF DataKept
  <2> QED
    BY <1>3, <1>8, <2>1, <2>2 DEF DataKept
<1> QED
  BY <1>3, <1>5, <1>6, <1>7, <1>10, <1>11 DEF ExchangeInv

\* The received arrays keep what they hold when a step neither writes them nor completes
\* their reception.
LEMMA ArraysKept ==
  ASSUME ExchangeInv, UNCHANGED inputs
  PROVE  /\ (/\ stride_out' = stride_out
             /\ \A r \in Rank : variable /\ pc'[r] \in StrideRead => pc[r] \in StrideRead)
              => StrideKept'
         /\ (/\ data_out' = data_out
             /\ \A r \in Rank : pc'[r] = "done" => pc[r] = "done")
              => DataKept'
<1>1. Arguments /\ StrideKept /\ DataKept
  BY DEF ExchangeInv
<1>2. /\ variable' = variable
      /\ \A r : /\ StrideBlock(dout[r], dout[r + 1])' = StrideBlock(dout[r], dout[r + 1])
                /\ DataBlock(dout[r], dout[r + 1])' = DataBlock(dout[r], dout[r + 1])
  BY <1>1, InputsKept
<1>3. ASSUME stride_out' = stride_out,
             \A r \in Rank : variable /\ pc'[r] \in StrideRead => pc[r] \in StrideRead
      PROVE  StrideKept'
  BY <1>1, <1>2, <1>3 DEF StrideKept
<1>4. ASSUME data_out' = data_out, \A r \in Rank : pc'[r] = "done" => pc[r] = "done"
      PROVE  DataKept'
  BY <1>1, <1>2, <1>4 DEF DataKept
<1> QED
  BY <1>3, <1>4

\* The assertions of the constructor hold, and no message moves.
LEMMA CreateStep ==
  ASSUME ExchangeInv, NEW r \in Rank, Create(r)
  PROVE  ExchangeInv'
<1> DEFINE l == IF variable THEN "post_stride" ELSE "post_data"
<1>1. pc[r] = "create" /\ din # dout /\ UNCHANGED <<inputs, chan, stride_out, data_out>>
  BY DEF Create
<1>2. Arguments /\ Located /\ Handshake
  BY DEF ExchangeInv
<1>3. Goto(r, l)
  <2>1. Size \in Nat /\ FullDistribution(din, Size) /\ FullDistribution(dout, Size)
    BY <1>2, ArgumentFacts
  <2>2. Total(send_counts(din, dout, r)) = din[r + 1] - din[r]
    BY <2>1, TotalOfCounts
  <2>3. Total(send_counts(dout, din, r)) = dout[r + 1] - dout[r]
    BY <2>1, TotalOfCounts
  <2>4. Total(recv_counts(din, dout, r)) = dout[r + 1] - dout[r]
    BY <2>3, RecvIsSend
  <2> QED
    BY <2>2, <2>4 DEF Create
<1>4. UNCHANGED inputs /\ variable \in BOOLEAN
  BY <1>1, <1>2 DEF Arguments
<1> HIDE DEF l
<1>5. /\ Arguments' /\ din' = din /\ dout' = dout /\ variable' = variable
      /\ pc'[r] = l /\ \A s \in Rank : s # r => pc'[s] = pc[s]
      /\ pc' = [pc EXCEPT ![r] = l]
  BY <1>3, <1>4, StepFrame DEF Goto
<1>6. Located'
  BY <1>1, <1>2, <1>5 DEF Located, l
<1>7. Handshake'
  BY <1>1, <1>2, <1>5 DEF Handshake, l, StrideRead, StrideSent, DataSent
<1>8. /\ variable => (pc'[r] \notin StrideSent /\ pc'[r] \notin StrideRead)
      /\ pc[r] \notin StrideSent /\ pc[r] \notin StrideRead
      /\ pc'[r] \notin DataSent /\ pc[r] \notin DataSent /\ pc'[r] # "done" /\ pc[r] # "done"
  BY <1>1, <1>5 DEF l, StrideSent, StrideRead, DataSent
<1>9. Channels'
  BY <1>1, <1>5, <1>8, SilentStep
<1>10. StrideKept' /\ DataKept'
  BY <1>1, <1>4, <1>5, <1>8, ArraysKept
<1> QED
  BY <1>5, <1>6, <1>7, <1>9, <1>10 DEF ExchangeInv

\* The post of the strides.
LEMMA PostStrideStep ==
  ASSUME ExchangeInv, NEW r \in Rank, PostStride(r)
  PROVE  ExchangeInv'
<1>1. /\ pc[r] = "post_stride" /\ Goto(r, "recv_stride")
      /\ Post(r, stride_in(r), send_counts(din, dout, r))
      /\ UNCHANGED inputs /\ stride_out' = stride_out /\ data_out' = data_out
  BY DEF PostStride
<1>2. Arguments /\ Located /\ Handshake /\ Channels
  BY DEF ExchangeInv
<1>3. /\ Arguments' /\ din' = din /\ dout' = dout /\ variable' = variable
      /\ pc'[r] = "recv_stride" /\ \A s \in Rank : s # r => pc'[s] = pc[s]
      /\ pc' = [pc EXCEPT ![r] = "recv_stride"]
  BY <1>1, StepFrame DEF Goto
<1>4. variable /\ din # dout
  BY <1>1, <1>2 DEF Located
<1>5. Located'
  BY <1>2, <1>3, <1>4 DEF Located
<1>6. Handshake'
  BY <1>1, <1>2, <1>3, <1>4 DEF Handshake, StrideRead, StrideSent, DataSent
<1>7. ASSUME NEW d \in Rank
      PROVE  InTransit(r, d)' = Append(InTransit(r, d), Chunk(stride_in(r), send_counts(din, dout, r), d))
  <2>1. pc[d] \notin StrideRead
    BY <1>1, <1>2, <1>4 DEF Handshake, StrideSent
  <2>2. pc'[d] \notin StrideRead
    BY <1>3, <2>1 DEF StrideRead
  <2>3. /\ ~ StrideQueued(r, d) /\ ~ DataQueued(r, d)
        /\ StrideQueued(r, d)' /\ ~ DataQueued(r, d)'
    BY <1>1, <1>3, <1>4, <2>2 DEF StrideQueued, DataQueued, StrideSent, DataSent
  <2>4. InTransit(r, d) = << >> /\ InTransit(r, d)' = <<StrideMsg(r, d)'>>
    BY <2>3, TransitIs, TransitIsNext
  <2>5. StrideMsg(r, d)' = StrideMsg(r, d)
    BY <1>1, <1>2, InputsKept
  <2>6. Chunk(stride_in(r), send_counts(din, dout, r), d) = StrideMsg(r, d)
    BY <1>2, StrideChunk
  <2> QED
    BY <2>4, <2>5, <2>6
<1>8. ASSUME NEW s \in Rank, NEW d \in Rank, s # r PROVE InTransit(s, d)' = InTransit(s, d)
  <2>1. StrideQueued(s, d)' <=> StrideQueued(s, d)
    BY <1>1, <1>3, <1>8 DEF StrideQueued, StrideRead
  <2>2. DataQueued(s, d)' <=> DataQueued(s, d)
    BY <1>1, <1>3, <1>8 DEF DataQueued
  <2> QED
    BY <1>1, <1>2, <2>1, <2>2, TransitKept
<1>9. Channels'
  <2> DEFINE buffer == stride_in(r)
             counts == send_counts(din, dout, r)
  <2>1. Post(r, buffer, counts)
    BY <1>1
  <2>2. \A d \in Rank : InTransit(r, d)' = Append(InTransit(r, d), Chunk(buffer, counts, d))
    BY <1>7
  <2> HIDE DEF buffer, counts
  <2> QED
    BY <1>2, <1>8, <2>1, <2>2, PostedChannels
<1>10. StrideKept' /\ DataKept'
  BY <1>1, <1>3, ArraysKept DEF StrideRead
<1> QED
  BY <1>3, <1>5, <1>6, <1>9, <1>10 DEF ExchangeInv

\* The reception of the strides: they have arrived from all the ranks.
LEMMA RecvStrideStep ==
  ASSUME ExchangeInv, NEW r \in Rank, RecvStride(r)
  PROVE  ExchangeInv'
<1>1. /\ pc[r] = "recv_stride" /\ Arrived(r) /\ Consume(r)
      /\ UNCHANGED inputs /\ data_out' = data_out
      /\ stride_out' = [stride_out EXCEPT ![r] = Received(r)]
      /\ Goto(r, IF Fits(r, recv_counts(din, dout, r)) THEN "post_data" ELSE "mpi_error")
  BY DEF RecvStride
<1>2. Arguments /\ Located /\ Handshake /\ Channels /\ StrideKept
  BY DEF ExchangeInv
<1>3. variable /\ din # dout
  BY <1>1, <1>2 DEF Located
<1>4. ASSUME NEW s \in Rank
      PROVE  /\ pc[s] \in StrideSent /\ StrideQueued(s, r)
             /\ Head(chan[s][r]) = StrideMsg(s, r)
  <2>1. chan[s][r] = InTransit(s, r) /\ InTransit(s, r) # << >>
    BY <1>1, <1>2, ChannelIs DEF Arrived
  <2>2. StrideQueued(s, r) \/ DataQueued(s, r)
    BY <2>1, TransitIs
  <2>3. pc[s] \in StrideSent /\ StrideQueued(s, r)
    BY <1>1, <1>3, <2>2 DEF StrideQueued, DataQueued, StrideSent, DataSent, StrideRead
  <2>4. InTransit(s, r) = <<StrideMsg(s, r), DataMsg(s, r)>> \/ InTransit(s, r) = <<StrideMsg(s, r)>>
    BY <2>3, TransitIs
  <2> QED
    BY <2>1, <2>3, <2>4
<1>5. Received(r) = StrideBlock(dout[r], dout[r + 1]) /\ Fits(r, recv_counts(din, dout, r))
  BY <1>2, <1>4, StrideReceived
<1>6. Goto(r, "post_data")
  BY <1>1, <1>5
<1>7. /\ Arguments' /\ din' = din /\ dout' = dout /\ variable' = variable
      /\ pc'[r] = "post_data" /\ \A s \in Rank : s # r => pc'[s] = pc[s]
      /\ pc' = [pc EXCEPT ![r] = "post_data"]
  BY <1>1, <1>6, StepFrame DEF Goto
<1>8. Located'
  BY <1>2, <1>3, <1>7 DEF Located
<1>9. Handshake'
  BY <1>1, <1>2, <1>3, <1>4, <1>7 DEF Handshake, StrideRead, StrideSent, DataSent
<1>10. ASSUME NEW s \in Rank PROVE InTransit(s, r)' = Tail(InTransit(s, r))
  <2>1. DataQueued(s, r)' <=> DataQueued(s, r)
    BY <1>1, <1>7 DEF DataQueued, DataSent
  <2>2. StrideQueued(s, r) /\ ~ StrideQueued(s, r)'
    BY <1>4, <1>7 DEF StrideQueued, StrideRead
  <2>3. DataMsg(s, r)' = DataMsg(s, r)
    BY <1>1, <1>2, InputsKept
  <2>4. CASE DataQueued(s, r)
    <3>1. InTransit(s, r) = <<StrideMsg(s, r), DataMsg(s, r)>> /\ InTransit(s, r)' = <<DataMsg(s, r)>>
      BY <2>1, <2>2, <2>3, <2>4, TransitIs, TransitIsNext
    <3> QED
      BY <3>1
  <2>5. CASE ~ DataQueued(s, r)
    <3>1. InTransit(s, r) = <<StrideMsg(s, r)>> /\ InTransit(s, r)' = << >>
      BY <2>1, <2>2, <2>5, TransitIs, TransitIsNext
    <3> QED
      BY <3>1
  <2> QED
    BY <2>4, <2>5
<1>11. ASSUME NEW s \in Rank, NEW d \in Rank, d # r PROVE InTransit(s, d)' = InTransit(s, d)
  <2>1. StrideQueued(s, d)' <=> StrideQueued(s, d)
    BY <1>1, <1>7, <1>11 DEF StrideQueued, StrideSent
  <2>2. DataQueued(s, d)' <=> DataQueued(s, d)
    BY <1>1, <1>7, <1>11 DEF DataQueued, DataSent
  <2> QED
    BY <1>1, <1>2, <2>1, <2>2, TransitKept
<1>12. Channels'
  BY <1>1, <1>2, <1>10, <1>11, ConsumedChannels
<1>13. DataKept'
  BY <1>1, <1>7, ArraysKept
<1>14. StrideKept'
  <2>1. StrideBlock(dout[r], dout[r + 1]) \in Seq(Nat)
    BY <1>2, RankBlocks
  <2>2. \A s : StrideBlock(dout[s], dout[s + 1])' = StrideBlock(dout[s], dout[s + 1])
    BY <1>1, <1>2, InputsKept
  <2>3. stride_out' \in [Rank -> Seq(Nat)]
    BY <1>1, <1>2, <1>5, <2>1 DEF StrideKept
  <2>4. ASSUME NEW s \in Rank, pc'[s] \in StrideRead
        PROVE  stride_out'[s] = StrideBlock(dout[s], dout[s + 1])
    BY <1>1, <1>2, <1>3, <1>5, <1>7, <2>4 DEF StrideKept
  <2> QED
    BY <2>2, <2>3, <2>4 DEF StrideKept
<1> QED
  BY <1>7, <1>8, <1>9, <1>12, <1>13, <1>14 DEF ExchangeInv

\* The post of the data, behind the strides that are still in the channels.
LEMMA PostDataStep ==
  ASSUME ExchangeInv, NEW r \in Rank, PostData(r)
  PROVE  ExchangeInv'
<1>1. /\ pc[r] = "post_data" /\ Goto(r, "recv_data")
      /\ Post(r, data_in(r), data_send_counts(r))
      /\ UNCHANGED inputs /\ stride_out' = stride_out /\ data_out' = data_out
  BY DEF PostData
<1>2. Arguments /\ Located /\ Handshake /\ Channels
  BY DEF ExchangeInv
<1>3. /\ Arguments' /\ din' = din /\ dout' = dout /\ variable' = variable
      /\ pc'[r] = "recv_data" /\ \A s \in Rank : s # r => pc'[s] = pc[s]
      /\ pc' = [pc EXCEPT ![r] = "recv_data"]
  BY <1>1, StepFrame DEF Goto
<1>4. din # dout
  BY <1>1, <1>2 DEF Located
<1>5. Located'
  BY <1>2, <1>3, <1>4 DEF Located
<1>6. Handshake'
  BY <1>1, <1>2, <1>3, <1>4 DEF Handshake, StrideRead, StrideSent, DataSent
<1>7. ASSUME NEW d \in Rank
      PROVE  InTransit(r, d)' = Append(InTransit(r, d), Chunk(data_in(r), data_send_counts(r), d))
  <2>1. pc[d] # "done" /\ pc'[d] # "done"
    BY <1>1, <1>2, <1>3, <1>4 DEF Handshake, DataSent
  <2>2. ~ DataQueued(r, d) /\ DataQueued(r, d)'
    BY <1>1, <1>3, <1>4, <2>1 DEF DataQueued, DataSent
  <2>3. StrideQueued(r, d)' <=> StrideQueued(r, d)
    BY <1>1, <1>3 DEF StrideQueued, StrideSent, StrideRead
  <2>4. StrideMsg(r, d)' = StrideMsg(r, d) /\ DataMsg(r, d)' = DataMsg(r, d)
    BY <1>1, <1>2, InputsKept
  <2>5. Chunk(data_in(r), data_send_counts(r), d) = DataMsg(r, d)
    BY <1>2, DataChunk
  <2>6. CASE StrideQueued(r, d)
    <3>1. /\ InTransit(r, d) = <<StrideMsg(r, d)>>
          /\ InTransit(r, d)' = <<StrideMsg(r, d), DataMsg(r, d)>>
      BY <2>2, <2>3, <2>4, <2>6, TransitIs, TransitIsNext
    <3> QED
      BY <2>5, <3>1
  <2>7. CASE ~ StrideQueued(r, d)
    <3>1. InTransit(r, d) = << >> /\ InTransit(r, d)' = <<DataMsg(r, d)>>
      BY <2>2, <2>3, <2>4, <2>7, TransitIs, TransitIsNext
    <3> QED
      BY <2>5, <3>1
  <2> QED
    BY <2>6, <2>7
<1>8. ASSUME NEW s \in Rank, NEW d \in Rank, s # r PROVE InTransit(s, d)' = InTransit(s, d)
  <2>1. StrideQueued(s, d)' <=> StrideQueued(s, d)
    BY <1>1, <1>3, <1>8 DEF StrideQueued, StrideRead
  <2>2. DataQueued(s, d)' <=> DataQueued(s, d)
    BY <1>1, <1>3, <1>8 DEF DataQueued
  <2> QED
    BY <1>1, <1>2, <2>1, <2>2, TransitKept
<1>9. Channels'
  <2> DEFINE buffer == data_in(r)
             counts == data_send_counts(r)
  <2>1. Post(r, buffer, counts)
    BY <1>1
  <2>2. \A d \in Rank : InTransit(r, d)' = Append(InTransit(r, d), Chunk(buffer, counts, d))
    BY <1>7
  <2> HIDE DEF buffer, counts
  <2> QED
    BY <1>2, <1>8, <2>1, <2>2, PostedChannels
<1>10. StrideKept' /\ DataKept'
  BY <1>1, <1>3, ArraysKept DEF StrideRead
<1> QED
  BY <1>3, <1>5, <1>6, <1>9, <1>10 DEF ExchangeInv

\* The reception of the data ends the exchange of the rank.
LEMMA RecvDataStep ==
  ASSUME ExchangeInv, NEW r \in Rank, RecvData(r)
  PROVE  ExchangeInv'
<1>1. /\ pc[r] = "recv_data" /\ Arrived(r) /\ Consume(r)
      /\ UNCHANGED inputs /\ stride_out' = stride_out
      /\ data_out' = [data_out EXCEPT ![r] = Received(r)]
      /\ Goto(r, IF Fits(r, data_recv_counts(r)) THEN "done" ELSE "mpi_error")
  BY DEF RecvData
<1>2. Arguments /\ Located /\ Handshake /\ Channels /\ StrideKept /\ DataKept
  BY DEF ExchangeInv
<1>3. din # dout
  BY <1>1, <1>2 DEF Located
<1>4. ASSUME NEW s \in Rank
      PROVE  /\ pc[s] \in DataSent /\ InTransit(s, r) = <<DataMsg(s, r)>>
             /\ Head(chan[s][r]) = DataMsg(s, r)
  <2>1. chan[s][r] = InTransit(s, r) /\ InTransit(s, r) # << >>
    BY <1>1, <1>2, ChannelIs DEF Arrived
  <2>2. ~ StrideQueued(s, r)
    BY <1>1 DEF StrideQueued, StrideRead
  <2>3. DataQueued(s, r)
    BY <2>1, <2>2, TransitIs
  <2>4. pc[s] \in DataSent /\ InTransit(s, r) = <<DataMsg(s, r)>>
    BY <2>2, <2>3, TransitIs DEF DataQueued
  <2> QED
    BY <2>1, <2>4
<1>5. variable => stride_out[r] = StrideBlock(dout[r], dout[r + 1])
  BY <1>1, <1>2 DEF StrideKept, StrideRead
<1>6. Received(r) = DataBlock(dout[r], dout[r + 1]) /\ Fits(r, data_recv_counts(r))
  BY <1>2, <1>4, <1>5, DataReceived
<1>7. Goto(r, "done")
  BY <1>1, <1>6
<1>8. /\ Arguments' /\ din' = din /\ dout' = dout /\ variable' = variable
      /\ pc'[r] = "done" /\ \A s \in Rank : s # r => pc'[s] = pc[s]
      /\ pc' = [pc EXCEPT ![r] = "done"]
  BY <1>1, <1>7, StepFrame DEF Goto
<1>9. Located'
  BY <1>2, <1>3, <1>8 DEF Located
<1>10. Handshake'
  BY <1>1, <1>2, <1>3, <1>4, <1>8 DEF Handshake, StrideRead, StrideSent, DataSent
<1>11. ASSUME NEW s \in Rank PROVE InTransit(s, r)' = Tail(InTransit(s, r))
  <2>1. ~ StrideQueued(s, r)' /\ ~ DataQueued(s, r)'
    BY <1>8 DEF StrideQueued, DataQueued, StrideRead
  <2>2. InTransit(s, r)' = << >> /\ InTransit(s, r) = <<DataMsg(s, r)>>
    BY <1>4, <2>1, TransitIsNext
  <2> QED
    BY <2>2
<1>12. ASSUME NEW s \in Rank, NEW d \in Rank, d # r PROVE InTransit(s, d)' = InTransit(s, d)
  <2>1. StrideQueued(s, d)' <=> StrideQueued(s, d)
    BY <1>1, <1>8, <1>12 DEF StrideQueued, StrideSent
  <2>2. DataQueued(s, d)' <=> DataQueued(s, d)
    BY <1>1, <1>8, <1>12 DEF DataQueued, DataSent
  <2> QED
    BY <1>1, <1>2, <2>1, <2>2, TransitKept
<1>13. Channels'
  BY <1>1, <1>2, <1>11, <1>12, ConsumedChannels
<1>14. StrideKept'
  BY <1>1, <1>8, ArraysKept DEF StrideRead
<1>15. DataKept'
  <2>1. DataBlock(dout[r], dout[r + 1]) \in Seq(Nat \X Nat)
    BY <1>2, RankBlocks
  <2>2. \A s : DataBlock(dout[s], dout[s + 1])' = DataBlock(dout[s], dout[s + 1])
    BY <1>1, <1>2, InputsKept
  <2>3. data_out' \in [Rank -> Seq(Nat \X Nat)]
    BY <1>1, <1>2, <1>6, <2>1 DEF DataKept
  <2>4. ASSUME NEW s \in Rank, pc'[s] = "done"
        PROVE  data_out'[s] = DataBlock(dout[s], dout[s + 1])
    BY <1>1, <1>2, <1>6, <1>8, <2>4 DEF DataKept
  <2> QED
    BY <2>2, <2>3, <2>4 DEF DataKept
<1> QED
  BY <1>8, <1>9, <1>10, <1>13, <1>14, <1>15 DEF ExchangeInv

\* The invariant holds after any step.
LEMMA ExchangeStep == ExchangeInv /\ [Next]_vars => ExchangeInv'
<1> SUFFICES ASSUME ExchangeInv, [Next]_vars PROVE ExchangeInv'
  OBVIOUS
<1>1. CASE \E r \in Rank : RankStep(r)
  <2>1. PICK r \in Rank : RankStep(r)
    BY <1>1
  <2> QED
    BY <2>1, SerialCopyStep, CreateStep, PostStrideStep, RecvStrideStep, PostDataStep, RecvDataStep
    DEF RankStep
<1>2. CASE Terminated \/ UNCHANGED vars
  <2>1. /\ UNCHANGED inputs /\ chan' = chan /\ pc' = pc
        /\ stride_out' = stride_out /\ data_out' = data_out
    BY <1>2 DEF Terminated, vars, inputs
  <2>2. Arguments /\ Located /\ Handshake
    BY DEF ExchangeInv
  <2>3. Arguments' /\ din' = din /\ dout' = dout /\ variable' = variable
    BY <2>1, <2>2, InputsKept
  <2>4. Located' /\ Handshake'
    BY <2>1, <2>2, <2>3 DEF Located, Handshake
  <2>5. StrideKept' /\ DataKept'
    BY <2>1, ArraysKept
  <2>6. Channels'
    <3>1. 0 \in Rank
      BY NRankAssumption DEF Rank
    <3> QED
      BY <2>1, <3>1, SilentStep
  <2> QED
    BY <2>3, <2>4, <2>5, <2>6 DEF ExchangeInv
<1> QED
  BY <1>1, <1>2 DEF Next

\* The invariant says what the exchange promises.
LEMMA ExchangePromise == ExchangeInv => ExchangeExact
<1> SUFFICES ASSUME ExchangeInv PROVE ExchangeExact
  OBVIOUS
<1>1. Arguments /\ Located /\ Channels /\ StrideKept /\ DataKept
  BY DEF ExchangeInv
<1>2. NoFailure
  BY <1>1 DEF Located, NoFailure
<1>3. Delivered
  BY <1>1 DEF Delivered, StrideKept, DataKept, StrideRead
<1>4. ChannelsDrained
  <2> SUFFICES ASSUME Finished, NEW s \in Rank, NEW d \in Rank PROVE chan[s][d] = << >>
    BY DEF ChannelsDrained
  <2>1. ~ StrideQueued(s, d) /\ ~ DataQueued(s, d)
    BY DEF Finished, StrideQueued, DataQueued, StrideRead
  <2> QED
    BY <1>1, <2>1, ChannelIs, TransitIs
<1>5. TypeOK
  <2>1. din \in [0 .. NRank -> Nat] /\ dout \in [0 .. NRank -> Nat]
    <3>1. \A i \in 0 .. NRank : din[i] \in 0 .. Size /\ dout[i] \in 0 .. Size
      BY <1>1, ArgumentFacts
    <3>2. din \in [0 .. NRank -> Int] /\ dout \in [0 .. NRank -> Int]
      BY <1>1 DEF Arguments, FullDistribution
    <3>3. \A i \in 0 .. NRank : din[i] \in Nat /\ dout[i] \in Nat
      <4>1. \A x \in 0 .. Size : x \in Nat
        OBVIOUS
      <4> QED
        BY <3>1, <4>1
    <3> QED
      BY <3>2, <3>3
  <2>2. ASSUME NEW s \in Rank, NEW d \in Rank PROVE Len(chan[s][d]) <= 2
    <3>1. chan[s][d] = InTransit(s, d)
      BY <1>1, ChannelIs
    <3>2. \/ InTransit(s, d) = <<StrideMsg(s, d), DataMsg(s, d)>>
          \/ InTransit(s, d) = <<StrideMsg(s, d)>>
          \/ InTransit(s, d) = <<DataMsg(s, d)>>
          \/ InTransit(s, d) = << >>
      BY TransitIs
    <3>3. \A x, y : Len(<<x, y>>) = 2 /\ Len(<<x>>) = 1 /\ Len(<< >>) = 0
      OBVIOUS
    <3>4. Len(InTransit(s, d)) \in {0, 1, 2}
      BY <3>2, <3>3
    <3>5. \A x \in {0, 1, 2} : x <= 2
      OBVIOUS
    <3>6. Len(InTransit(s, d)) <= 2
      BY <3>4, <3>5
    <3> QED
      BY <3>1, <3>6, Zenon
  <2>3. \A r \in Rank : stride_out[r] \in Seq(Nat)
    BY <1>1 DEF StrideKept
  <2>4. /\ variable \in BOOLEAN
        /\ pc \in [Rank -> {"create", "post_stride", "recv_stride", "post_data", "recv_data",
                            "done", "assert_failed", "mpi_error"}]
    BY <1>1 DEF Arguments, Located
  <2> QED
    BY <2>1, <2>2, <2>3, <2>4 DEF TypeOK
<1> QED
  BY <1>2, <1>3, <1>4, <1>5 DEF ExchangeExact

\* An exchange between any two distributions of any array, over any number of ranks, with
\* any strides and in any interleaving of posts and receptions: the assertions of
\* BlockToBlock.__init__ hold, every message has the size its receiver computed on its own,
\* a rank that is done holds exactly its block of the output distribution, in global
\* order, and no message is left when all are done.
THEOREM ExchangeIsExact == Spec => []ExchangeExact
<1>1. Init => ExchangeInv
  BY ExchangeInit
<1>2. ExchangeInv /\ [Next]_vars => ExchangeInv'
  BY ExchangeStep
<1>3. ExchangeInv => ExchangeExact
  BY ExchangePromise
<1> QED
  BY <1>1, <1>2, <1>3, PTL DEF Spec
=============================================================================
