--------------------------- MODULE InductionFacts ---------------------------
(***************************************************************************)
(* Induction and recursion over an interval, and concatenation, in the     *)
(* first-order form in which the other proof modules cite them: the        *)
(* predicate of an induction is the set of the indices that satisfy it,    *)
(* the step of a recursion is a function.  Then finite total orders, sums  *)
(* over finite sets, and what the search of a subset (SubsetSum) returns,  *)
(* for every array and every target.                                       *)
(***************************************************************************)
EXTENDS SubsetSum, SequenceTheorems, FiniteSetTheorems, WellFoundedInduction, TLAPS

\* A non-empty set of natural numbers has a least element.
LEMMA LeastNat ==
  ASSUME NEW T \in SUBSET Nat, T # {}
  PROVE  \E x \in T : \A y \in T : x <= y
<1>1. IsWellFoundedOn(OpToRel(<,Nat), Nat)
  BY NatLessThanWellFounded
<1>2. PICK x \in T : \A y \in T : ~ (<<y, x>> \in OpToRel(<,Nat))
  BY <1>1, WFMin
<1>3. \A y \in T : ~ (y < x)
  BY <1>2 DEF OpToRel
<1> QED
  BY <1>3

\* Induction over 0 .. n: a set with 0 and the successor of each of its elements below n.
LEMMA IntervalInduction ==
  ASSUME NEW n \in Nat, NEW T, 0 \in T, \A i \in 0 .. n - 1 : i \in T => i + 1 \in T
  PROVE  \A i \in 0 .. n : i \in T
<1> DEFINE bad == {i \in 0 .. n : i \notin T}
<1> SUFFICES ASSUME bad # {} PROVE FALSE
  OBVIOUS
<1>1. PICK m \in bad : \A y \in bad : m <= y
  <2>1. bad \in SUBSET Nat
    OBVIOUS
  <2> HIDE DEF bad
  <2> QED
    BY <2>1, LeastNat
<1>2. m \in 1 .. n /\ m - 1 \in 0 .. n - 1 /\ m - 1 \in 0 .. n
  OBVIOUS
<1>3. m - 1 \in T
  BY <1>1, <1>2
<1> QED
  BY <1>2, <1>3

\* The function g on 0 .. n starts at e and goes on by the given steps.
Recursive(g, e, step, n) == g[0] = e /\ \A i \in 1 .. n : g[i] = step[i][g[i - 1]]

\* A recursive function on 0 .. n with values in S exists.
LEMMA RecursionExists ==
  ASSUME NEW n \in Nat, NEW S, NEW e \in S, NEW step \in [1 .. n -> [S -> S]]
  PROVE  \E g \in [0 .. n -> S] : Recursive(g, e, step, n)
<1> DEFINE Upto(g, m) == g[0] = e /\ \A i \in 1 .. m : g[i] = step[i][g[i - 1]]
           T == {m \in 0 .. n : \E g \in [0 .. m -> S] : Upto(g, m)}
<1>1. 0 \in T
  <2> DEFINE g == [i \in 0 .. 0 |-> e]
  <2>1. g \in [0 .. 0 -> S] /\ Upto(g, 0)
    OBVIOUS
  <2>2. 0 \in 0 .. n
    OBVIOUS
  <2> QED
    BY <2>1, <2>2
<1>2. ASSUME NEW m \in 0 .. n - 1, m \in T PROVE m + 1 \in T
  <2>1. PICK g \in [0 .. m -> S] : Upto(g, m)
    BY <1>2
  <2> DEFINE v == step[m + 1][g[m]]
             h == [i \in 0 .. m + 1 |-> IF i = m + 1 THEN v ELSE g[i]]
  <2>2. v \in S
    <3>1. m + 1 \in 1 .. n /\ g[m] \in S
      OBVIOUS
    <3>2. \A i \in 1 .. n, x \in S : step[i][x] \in S
      OBVIOUS
    <3> QED
      BY <3>1, <3>2
  <2> HIDE DEF v
  <2>3. h \in [0 .. m + 1 -> S]
    BY <2>2
  <2>4. h[0] = e
    <3>1. h[0] = g[0]
      OBVIOUS
    <3> QED
      BY <2>1, <3>1, Zenon
  <2>5. ASSUME NEW i \in 1 .. m + 1 PROVE h[i] = step[i][h[i - 1]]
    <3>1. CASE i = m + 1
      <4>1. h[i] = v /\ h[i - 1] = g[m]
        BY <3>1
      <4> QED
        BY <3>1, <4>1 DEF v
    <3>2. CASE i # m + 1
      <4>1. i \in 1 .. m /\ h[i] = g[i] /\ h[i - 1] = g[i - 1]
        BY <3>2
      <4> HIDE DEF h
      <4> QED
        BY <2>1, <4>1
    <3> QED
      BY <3>1, <3>2
  <2> HIDE DEF h
  <2>6. \E f \in [0 .. m + 1 -> S] : Upto(f, m + 1)
    BY <2>3, <2>4, <2>5
  <2>7. m + 1 \in 0 .. n
    OBVIOUS
  <2> QED
    BY <2>6, <2>7
<1> HIDE DEF T
<1>3. \A i \in 0 .. n : i \in T
  BY <1>1, <1>2, IntervalInduction
<1>4. n \in T
  BY <1>3
<1> QED
  BY <1>4 DEF T, Recursive

-----------------------------------------------------------------------------
\* The middle one of three sequences, as a part of their concatenation.
LEMMA MiddleOfCat ==
  ASSUME NEW S, NEW a \in Seq(S), NEW b \in Seq(S), NEW c \in Seq(S)
  PROVE  SubSeq(a \o (b \o c), Len(a) + 1, Len(a) + Len(b)) = b
<1> DEFINE s == a \o (b \o c)
           p == SubSeq(s, Len(a) + 1, Len(a) + Len(b))
<1>1. /\ Len(a) \in Nat /\ Len(b) \in Nat /\ Len(c) \in Nat
      /\ b \o c \in Seq(S) /\ Len(b \o c) = Len(b) + Len(c)
      /\ \A i \in 1 .. Len(b) : (b \o c)[i] = b[i]
  BY ConcatProperties, LenProperties
<1>2. s \in Seq(S) /\ Len(s) = Len(a) + (Len(b) + Len(c))
  BY <1>1, ConcatProperties
<1>3. \A i \in Len(a) + 1 .. Len(a) + Len(b) : s[i] \in S /\ s[i] = (b \o c)[i - Len(a)]
  <2> TAKE i \in Len(a) + 1 .. Len(a) + Len(b)
  <2>1. i \in 1 .. Len(s) /\ ~ (i <= Len(a)) /\ i \in 1 .. Len(a) + Len(b \o c)
    BY <1>1, <1>2
  <2> QED
    BY <1>1, <1>2, <2>1, ConcatProperties, ElementOfSeq
<1> HIDE DEF s
<1>4. /\ p \in Seq(S) /\ Len(p) = Len(b)
      /\ \A i \in 1 .. Len(b) : p[i] = s[Len(a) + i]
  <2>1. Len(a) + 1 \in Int /\ Len(a) + Len(b) \in Int
    BY <1>1
  <2>2. /\ p \in Seq(S)
        /\ Len(p) = IF Len(a) + 1 <= Len(a) + Len(b) THEN Len(a) + Len(b) - (Len(a) + 1) + 1 ELSE 0
        /\ \A i \in 1 .. Len(a) + Len(b) - (Len(a) + 1) + 1 : p[i] = s[Len(a) + 1 + i - 1]
    BY <1>3, <2>1, SubSeqProperties
  <2> HIDE DEF p
  <2>3. Len(a) + Len(b) - (Len(a) + 1) + 1 = Len(b)
    BY <1>1
  <2>4. Len(p) = Len(b)
    BY <1>1, <2>2
  <2>5. \A i \in 1 .. Len(b) : Len(a) + 1 + i - 1 = Len(a) + i
    BY <1>1
  <2> QED
    BY <2>2, <2>3, <2>4, <2>5
<1> HIDE DEF p
<1>5. \A i \in 1 .. Len(b) : p[i] = b[i]
  <2> TAKE i \in 1 .. Len(b)
  <2>1. Len(a) + i \in Len(a) + 1 .. Len(a) + Len(b) /\ Len(a) + i - Len(a) = i
    BY <1>1
  <2>2. p[i] = s[Len(a) + i]
    BY <1>4
  <2>3. s[Len(a) + i] = (b \o c)[Len(a) + i - Len(a)]
    BY <1>3, <2>1
  <2> QED
    BY <1>1, <2>1, <2>2, <2>3
<1>6. p = b
  BY <1>4, <1>5, SeqEqual
<1> QED
  BY <1>6 DEF p, s

\* A sequence without elements.
LEMMA NoElement ==
  ASSUME NEW S, NEW s \in Seq(S), Len(s) = 0
  PROVE  s = << >>
BY EmptySeq
-----------------------------------------------------------------------------
\* u[i] is the sum of the first i values of f.
IsSum(u, f, n) == u = [i \in 0 .. n |-> IF i = 0 THEN 0 ELSE u[i - 1] + f[i]]

\* u[i] is the concatenation of the first i sequences of f.
IsCat(u, f, n) == u = [i \in 0 .. n |-> IF i = 0 THEN << >> ELSE u[i - 1] \o f[i]]

\* The arguments and the steps of sums and concatenations, named to be cited whole.
AllInt(f, n) == \A i \in 1 .. n : f[i] \in Int
AllSeq(f, n, A) == \A i \in 1 .. n : f[i] \in Seq(A)
SumSteps(u, f, n) == u[0] = 0 /\ \A i \in 0 .. n - 1 : u[i + 1] = u[i] + f[i + 1]
CatSteps(u, f, n) == u[0] = << >> /\ \A i \in 0 .. n - 1 : u[i + 1] = u[i] \o f[i + 1]

\* The sums exist.
LEMMA SumExists ==
  ASSUME NEW n \in Nat, NEW f, AllInt(f, n)
  PROVE  \E u : IsSum(u, f, n)
<1> DEFINE S == Int
           e == 0
           step == [i \in 1 .. n |-> [x \in S |-> x + f[i]]]
<1>1. e \in S /\ step \in [1 .. n -> [S -> S]]
  BY DEF AllInt
<1>2. \A i \in 1 .. n, x \in S : step[i][x] = x + f[i]
  OBVIOUS
<1> HIDE DEF S, e, step
<1>3. PICK g \in [0 .. n -> S] : Recursive(g, e, step, n)
  BY <1>1, RecursionExists
<1>4. \A i \in 1 .. n : g[i] = g[i - 1] + f[i]
  <2> TAKE i \in 1 .. n
  <2>1. i - 1 \in 0 .. n
    OBVIOUS
  <2>2. g[i - 1] \in S
    BY <2>1
  <2>3. g[i] = step[i][g[i - 1]]
    BY <1>3 DEF Recursive
  <2> QED
    BY <1>2, <2>2, <2>3
<1>5. g[0] = 0
  BY <1>3 DEF Recursive, e
<1>6. IsSum(g, f, n)
  BY <1>4, <1>5 DEF IsSum
<1> QED
  BY <1>6

\* The sums are integers, one value more at each index.
LEMMA SumFacts ==
  ASSUME NEW n \in Nat, NEW f, AllInt(f, n), NEW u, IsSum(u, f, n)
  PROVE  SumSteps(u, f, n) /\ \A i \in 0 .. n : u[i] \in Int
<1>1. u[0] = 0
  BY DEF IsSum
<1>2. \A i \in 0 .. n - 1 : u[i + 1] = u[i] + f[i + 1]
  <2> TAKE i \in 0 .. n - 1
  <2> DEFINE j == i + 1
  <2>1. j \in 0 .. n /\ j # 0 /\ j - 1 = i
    OBVIOUS
  <2> HIDE DEF j
  <2>2. u[j] = u[j - 1] + f[j]
    BY <2>1 DEF IsSum
  <2>3. u[j] = u[i] + f[j]
    BY <2>1, <2>2
  <2> QED
    BY <2>3 DEF j
<1>3. \A i \in 0 .. n : u[i] \in Int
  <2> DEFINE T == {i \in 0 .. n : u[i] \in Int}
  <2>1. 0 \in T
    BY <1>1
  <2>2. ASSUME NEW i \in 0 .. n - 1, i \in T PROVE i + 1 \in T
    <3>1. i + 1 \in 1 .. n /\ i + 1 \in 0 .. n
      OBVIOUS
    <3>2. f[i + 1] \in Int /\ u[i] \in Int /\ u[i + 1] = u[i] + f[i + 1]
      BY <1>2, <2>2, <3>1 DEF AllInt
    <3> QED
      BY <3>1, <3>2
  <2> HIDE DEF T
  <2>3. \A i \in 0 .. n : i \in T
    BY <2>1, <2>2, IntervalInduction
  <2> QED
    BY <2>3 DEF T
<1> QED
  BY <1>1, <1>2, <1>3 DEF SumSteps

\* The concatenations exist.
LEMMA CatExists ==
  ASSUME NEW n \in Nat, NEW A, NEW f, AllSeq(f, n, A)
  PROVE  \E u : IsCat(u, f, n)
<1> DEFINE S == Seq(A)
           e == << >>
           step == [i \in 1 .. n |-> [x \in S |-> x \o f[i]]]
<1>1. e \in S /\ step \in [1 .. n -> [S -> S]]
  <2>1. e \in S
    BY EmptySeq
  <2>2. \A i \in 1 .. n, x \in S : x \o f[i] \in S
    BY ConcatProperties DEF AllSeq
  <2> HIDE DEF S, e
  <2> QED
    BY <2>1, <2>2
<1>2. \A i \in 1 .. n, x \in S : step[i][x] = x \o f[i]
  <2> HIDE DEF S
  <2> QED
    OBVIOUS
<1> HIDE DEF S, e, step
<1>3. PICK g \in [0 .. n -> S] : Recursive(g, e, step, n)
  BY <1>1, RecursionExists
<1>4. \A i \in 1 .. n : g[i] = g[i - 1] \o f[i]
  <2> TAKE i \in 1 .. n
  <2>1. i - 1 \in 0 .. n
    OBVIOUS
  <2>2. g[i - 1] \in S
    BY <2>1
  <2>3. g[i] = step[i][g[i - 1]]
    BY <1>3 DEF Recursive
  <2> QED
    BY <1>2, <2>2, <2>3
<1>5. g[0] = << >>
  BY <1>3 DEF Recursive, e
<1>6. IsCat(g, f, n)
  <2> DEFINE c(i) == IF i = 0 THEN << >> ELSE g[i - 1] \o f[i]
  <2>1. ASSUME NEW i \in 0 .. n PROVE g[i] = c(i)
    <3>1. CASE i = 0
      BY <1>5, <3>1
    <3>2. CASE i # 0
      <4>1. i \in 1 .. n
        BY <3>2
      <4> QED
        BY <1>4, <3>2, <4>1
    <3> QED
      BY <3>1, <3>2
  <2> HIDE DEF c
  <2>2. g = [i \in 0 .. n |-> c(i)]
    BY <2>1
  <2> QED
    BY <2>2 DEF IsCat, c
<1> QED
  BY <1>6

\* The concatenations are sequences, one sequence more at each index.
LEMMA CatFacts ==
  ASSUME NEW n \in Nat, NEW A, NEW f, AllSeq(f, n, A), NEW u, IsCat(u, f, n)
  PROVE  CatSteps(u, f, n) /\ \A i \in 0 .. n : u[i] \in Seq(A)
<1>1. u[0] = << >>
  BY DEF IsCat
<1>2. \A i \in 0 .. n - 1 : u[i + 1] = u[i] \o f[i + 1]
  <2> TAKE i \in 0 .. n - 1
  <2> DEFINE j == i + 1
  <2>1. j \in 0 .. n /\ j # 0 /\ j - 1 = i
    OBVIOUS
  <2> HIDE DEF j
  <2>2. u[j] = u[j - 1] \o f[j]
    BY <2>1 DEF IsCat
  <2>3. u[j] = u[i] \o f[j]
    BY <2>1, <2>2
  <2> QED
    BY <2>3 DEF j
<1>3. \A i \in 0 .. n : u[i] \in Seq(A)
  <2> DEFINE T == {i \in 0 .. n : u[i] \in Seq(A)}
  <2>1. 0 \in T
    <3>1. u[0] \in Seq(A) /\ 0 \in 0 .. n
      BY <1>1, EmptySeq
    <3> QED
      BY <3>1
  <2>2. ASSUME NEW i \in 0 .. n - 1, i \in T PROVE i + 1 \in T
    <3>1. i + 1 \in 1 .. n /\ i + 1 \in 0 .. n
      OBVIOUS
    <3>2. f[i + 1] \in Seq(A) /\ u[i] \in Seq(A) /\ u[i + 1] = u[i] \o f[i + 1]
      BY <1>2, <2>2, <3>1 DEF AllSeq
    <3>3. u[i + 1] \in Seq(A)
      BY <3>2, ConcatProperties
    <3> QED
      BY <3>1, <3>3
  <2> HIDE DEF T
  <2>3. \A i \in 0 .. n : i \in T
    BY <2>1, <2>2, IntervalInduction
  <2> QED
    BY <2>3 DEF T
<1> QED
  BY <1>1, <1>2, <1>3 DEF CatSteps

-----------------------------------------------------------------------------
(***************************************************************************)
(* Orders                                                                  *)
(***************************************************************************)
\* R is a total order on S, as a set of pairs.
TotalOrder(R, S) ==
  /\ \A a, b \in S : <<a, b>> \in R \/ <<b, a>> \in R
  /\ \A a, b \in S : <<a, b>> \in R /\ <<b, a>> \in R => a = b
  /\ \A a, b, c \in S : <<a, b>> \in R /\ <<b, c>> \in R => <<a, c>> \in R

\* The elements up to z.
UpTo(R, S, z) == {y \in S : <<y, z>> \in R}

\* Every rank of a finite total order is the one of an element, and of no other.
LEMMA RankIsOnto ==
  ASSUME NEW S, IsFiniteSet(S), NEW R, TotalOrder(R, S)
  PROVE  /\ \A a \in 1 .. Cardinality(S) : \E z \in S : Cardinality(UpTo(R, S, z)) = a
         /\ \A z \in S : Cardinality(UpTo(R, S, z)) \in 1 .. Cardinality(S)
         /\ \A y, z \in S : Cardinality(UpTo(R, S, y)) = Cardinality(UpTo(R, S, z)) => y = z
<1> DEFINE n == Cardinality(S)
           rank == [z \in S |-> Cardinality(UpTo(R, S, z))]
<1>1. n \in Nat
  BY FS_CardinalityType
<1>2. ASSUME NEW z \in S
      PROVE  /\ UpTo(R, S, z) \in SUBSET S /\ IsFiniteSet(UpTo(R, S, z)) /\ z \in UpTo(R, S, z)
             /\ Cardinality(UpTo(R, S, z)) \in 1 .. n
  <2>1. UpTo(R, S, z) \in SUBSET S /\ z \in UpTo(R, S, z)
    BY DEF UpTo, TotalOrder
  <2>2. IsFiniteSet(UpTo(R, S, z)) /\ Cardinality(UpTo(R, S, z)) <= n
    BY <2>1, FS_Subset
  <2>3. Cardinality(UpTo(R, S, z)) \in Nat
    BY <2>2, FS_CardinalityType
  <2>4. Cardinality(UpTo(R, S, z)) # 0
    BY <2>1, <2>2, FS_EmptySet
  <2> QED
    BY <1>1, <2>1, <2>2, <2>3, <2>4
<1>3. ASSUME NEW y \in S, NEW z \in S, rank[y] = rank[z], <<y, z>> \in R PROVE y = z
  <2>1. UpTo(R, S, y) \in SUBSET UpTo(R, S, z)
    BY <1>3 DEF UpTo, TotalOrder
  <2>2. UpTo(R, S, y) = UpTo(R, S, z)
    BY <1>2, <1>3, <2>1, FS_Subset
  <2>3. <<z, y>> \in R
    BY <1>2, <2>2 DEF UpTo
  <2> QED
    BY <1>3, <2>3 DEF TotalOrder
<1>4. rank \in [S -> 1 .. n]
  BY <1>2
<1>5. IsInjective(rank)
  <2> SUFFICES ASSUME NEW y \in S, NEW z \in S, rank[y] = rank[z] PROVE y = z
    BY DEF IsInjective
  <2>1. CASE <<y, z>> \in R
    BY <1>3, <2>1
  <2>2. CASE <<z, y>> \in R
    BY <1>3, <2>2
  <2> QED
    BY <2>1, <2>2 DEF TotalOrder
<1>6. rank \in Injection(S, 1 .. n)
  BY <1>4, <1>5 DEF Injection
<1>7. IsFiniteSet(1 .. n) /\ Cardinality(1 .. n) = n
  BY <1>1, FS_Interval
<1> HIDE DEF n
<1>8. rank \in Surjection(S, 1 .. n)
  <2> HIDE DEF rank
  <2>1. Cardinality(S) = Cardinality(1 .. n) <=> rank \in Surjection(S, 1 .. n)
    BY <1>6, <1>7, FS_Injection
  <2> QED
    BY <1>7, <2>1 DEF n
<1>9. \A a \in 1 .. n : \E z \in S : rank[z] = a
  BY <1>8 DEF Surjection
<1>10. \A y, z \in S : Cardinality(UpTo(R, S, y)) = Cardinality(UpTo(R, S, z)) => y = z
  BY <1>5 DEF IsInjective
<1> QED
  BY <1>2, <1>9, <1>10 DEF n

\* A finite set that is not empty has a first element.
LEMMA FirstExists ==
  ASSUME NEW S, IsFiniteSet(S), S # {}, NEW R, TotalOrder(R, S)
  PROVE  \E z \in S : \A y \in S : <<z, y>> \in R
<1>1. Cardinality(S) \in Nat /\ Cardinality(S) # 0
  BY FS_CardinalityType, FS_EmptySet
<1>2. PICK z \in S : Cardinality(UpTo(R, S, z)) = 1
  BY <1>1, RankIsOnto
<1>3. UpTo(R, S, z) = {z}
  <2>1. IsFiniteSet(UpTo(R, S, z))
    BY FS_Subset DEF UpTo
  <2>2. PICK e : UpTo(R, S, z) = {e}
    BY <1>2, <2>1, FS_Singleton
  <2>3. z \in UpTo(R, S, z)
    BY DEF UpTo, TotalOrder
  <2> QED
    BY <2>2, <2>3
<1>4. ASSUME NEW y \in S PROVE <<z, y>> \in R
  <2>1. CASE y = z
    BY <2>1 DEF TotalOrder
  <2>2. CASE y # z
    <3>1. y \notin UpTo(R, S, z)
      BY <1>3, <2>2
    <3> QED
      BY <3>1 DEF UpTo, TotalOrder
  <2> QED
    BY <2>1, <2>2
<1> QED
  BY <1>4


-----------------------------------------------------------------------------
(***************************************************************************)
(* Sums                                                                    *)
(***************************************************************************)
\* Induction over the subsets of a finite set: F has a set as soon as it has what is left
\* of it without any one of its elements.
LEMMA SubsetInduction ==
  ASSUME NEW S, IsFiniteSet(S), NEW F,
         \A R \in SUBSET S : (\A a \in R : R \ {a} \in F) => R \in F
  PROVE  (\A R \in SUBSET S : R \in F) /\ S \in F
<1> DEFINE n == Cardinality(S)
           T == {m \in 0 .. n : \A R \in SUBSET S : Cardinality(R) = m => R \in F}
<1>1. n \in Nat /\ \A R \in SUBSET S : IsFiniteSet(R) /\ Cardinality(R) \in 0 .. n
  <2>1. ASSUME NEW R \in SUBSET S PROVE IsFiniteSet(R) /\ Cardinality(R) <= n
    BY <2>1, FS_Subset
  <2>2. \A R \in SUBSET S : Cardinality(R) \in Nat
    BY <2>1, FS_CardinalityType
  <2> QED
    BY <2>1, <2>2, FS_CardinalityType
<1>2. 0 \in T
  <2>1. \A R \in SUBSET S : Cardinality(R) = 0 => R = {}
    BY <1>1, FS_EmptySet
  <2>2. {} \in F
    OBVIOUS
  <2>3. 0 \in 0 .. n
    BY <1>1
  <2> QED
    BY <2>1, <2>2, <2>3
<1>3. ASSUME NEW m \in 0 .. n - 1, m \in T PROVE m + 1 \in T
  <2>1. m + 1 \in 0 .. n /\ (m + 1) - 1 = m
    BY <1>1
  <2>2. ASSUME NEW R \in SUBSET S, Cardinality(R) = m + 1 PROVE R \in F
    <3>1. ASSUME NEW a \in R PROVE R \ {a} \in F
      <4>1. Cardinality(R \ {a}) = Cardinality(R) - 1
        BY <1>1, FS_RemoveElement
      <4>2. Cardinality(R \ {a}) = m
        BY <2>1, <2>2, <4>1
      <4>3. R \ {a} \in SUBSET S
        OBVIOUS
      <4> QED
        BY <1>3, <4>2, <4>3
    <3> QED
      BY <3>1
  <2> QED
    BY <2>1, <2>2
<1> HIDE DEF T
<1>4. \A m \in 0 .. n : m \in T
  BY <1>1, <1>2, <1>3, IntervalInduction
<1>5. \A R \in SUBSET S : R \in F
  BY <1>1, <1>4 DEF T
<1> QED
  BY <1>5

\* The element that a sum takes next.
Picked(R) == CHOOSE a \in R : TRUE

\* The value of the sum of R from the sums of smaller sets.
SumOf(u, x, R) == IF R = {} THEN 0 ELSE x[Picked(R)] + u[R \ {Picked(R)}]
SumStep(u, x, S) == u = [R \in SUBSET S |-> SumOf(u, x, R)]

\* What SumAt is.
LEMMA SumIs == \A x, S : SumAt(x, S) = (CHOOSE u : SumStep(u, x, S))[S]
BY DEF SumAt, MapThenSumSet, MapThenFoldSet, SumStep, SumOf, Picked

\* The element taken is one of the set.
LEMMA PickedIn == \A R : R # {} => Picked(R) \in R
BY DEF Picked

\* The table of the sums of all the subsets exists.
LEMMA SumTable ==
  ASSUME NEW S, IsFiniteSet(S), NEW x, \A a \in S : x[a] \in Int
  PROVE  \E u \in [SUBSET S -> Int] : SumStep(u, x, S)
<1> DEFINE n == Cardinality(S)
           T == {m \in 0 .. n : \E u \in [SUBSET S -> Int] :
                   \A R \in SUBSET S : Cardinality(R) <= m => u[R] = SumOf(u, x, R)}
<1>1. n \in Nat /\ \A R \in SUBSET S : IsFiniteSet(R) /\ Cardinality(R) \in 0 .. n
  <2>1. ASSUME NEW R \in SUBSET S PROVE IsFiniteSet(R) /\ Cardinality(R) <= n
    BY <2>1, FS_Subset
  <2>2. \A R \in SUBSET S : Cardinality(R) \in Nat
    BY <2>1, FS_CardinalityType
  <2> QED
    BY <2>1, <2>2, FS_CardinalityType
<1>2. 0 \in T
  <2> DEFINE u == [R \in SUBSET S |-> 0]
  <2>1. u \in [SUBSET S -> Int]
    OBVIOUS
  <2>2. ASSUME NEW R \in SUBSET S, Cardinality(R) <= 0 PROVE u[R] = SumOf(u, x, R)
    <3>1. R = {}
      BY <1>1, <2>2, FS_EmptySet
    <3> QED
      BY <3>1 DEF SumOf
  <2>3. 0 \in 0 .. n
    BY <1>1
  <2> QED
    BY <2>1, <2>2, <2>3
<1>3. ASSUME NEW m \in 0 .. n - 1, m \in T PROVE m + 1 \in T
  <2>1. PICK u \in [SUBSET S -> Int] :
               \A R \in SUBSET S : Cardinality(R) <= m => u[R] = SumOf(u, x, R)
    BY <1>3
  <2> DEFINE v == [R \in SUBSET S |-> SumOf(u, x, R)]
  <2>2. ASSUME NEW R \in SUBSET S PROVE SumOf(u, x, R) \in Int
    <3>1. CASE R # {}
      <4>1. Picked(R) \in S /\ R \ {Picked(R)} \in SUBSET S
        BY <3>1, PickedIn
      <4>2. x[Picked(R)] \in Int /\ u[R \ {Picked(R)}] \in Int
        BY <4>1
      <4> QED
        BY <4>2 DEF SumOf
    <3> QED
      BY <3>1 DEF SumOf
  <2>3. v \in [SUBSET S -> Int]
    BY <2>2
  <2>4. ASSUME NEW R \in SUBSET S, Cardinality(R) <= m + 1 PROVE v[R] = SumOf(v, x, R)
    <3>1. CASE R = {}
      BY <3>1 DEF SumOf
    <3>2. CASE R # {}
      <4> DEFINE Q == R \ {Picked(R)}
      <4>1. Q \in SUBSET S /\ Cardinality(Q) = Cardinality(R) - 1
        BY <1>1, <3>2, PickedIn, FS_RemoveElement
      <4>2. Cardinality(Q) <= m
        BY <1>1, <2>4, <4>1
      <4>3. v[Q] = u[Q]
        BY <2>1, <4>1, <4>2
      <4>4. v[R] = x[Picked(R)] + u[Q]
        BY <3>2 DEF SumOf
      <4> HIDE DEF v, Q
      <4> QED
        BY <3>2, <4>3, <4>4 DEF SumOf, Q
    <3> QED
      BY <3>1, <3>2
  <2>5. m + 1 \in 0 .. n
    BY <1>1
  <2> HIDE DEF v
  <2> QED
    BY <2>3, <2>4, <2>5
<1> HIDE DEF T
<1>4. n \in T
  <2>1. \A m \in 0 .. n : m \in T
    BY <1>1, <1>2, <1>3, IntervalInduction
  <2> QED
    BY <1>1, <2>1
<1>5. PICK u \in [SUBSET S -> Int] :
             \A R \in SUBSET S : Cardinality(R) <= n => u[R] = SumOf(u, x, R)
  BY <1>4 DEF T
<1>6. \A R \in SUBSET S : u[R] = SumOf(u, x, R)
  BY <1>1, <1>5
<1>7. u = [R \in SUBSET S |-> SumOf(u, x, R)]
  BY <1>6
<1> QED
  BY <1>7 DEF SumStep

\* The table of a set has the sums of its subsets.
LEMMA SumEntry ==
  ASSUME NEW S, IsFiniteSet(S), NEW x, \A a \in S : x[a] \in Int, NEW u, SumStep(u, x, S),
         NEW R \in SUBSET S
  PROVE  u[R] = SumAt(x, R)
<1> DEFINE v == CHOOSE v : SumStep(v, x, R)
           F == {Q \in SUBSET R : u[Q] = v[Q]}
<1>1. IsFiniteSet(R) /\ \A a \in R : x[a] \in Int
  BY FS_Subset
<1>2. \E w : SumStep(w, x, R)
  BY <1>1, SumTable
<1>3. SumStep(v, x, R)
  BY <1>2
<1>4. SumAt(x, R) = v[R]
  BY SumIs
<1> HIDE DEF v
<1>5. ASSUME NEW Q \in SUBSET R, \A a \in Q : Q \ {a} \in F PROVE Q \in F
  <2>1. u[Q] = SumOf(u, x, Q)
    BY DEF SumStep
  <2>2. v[Q] = SumOf(v, x, Q)
    BY <1>3 DEF SumStep
  <2>3. CASE Q = {}
    BY <2>1, <2>2, <2>3 DEF SumOf
  <2>4. CASE Q # {}
    <3>1. u[Q \ {Picked(Q)}] = v[Q \ {Picked(Q)}]
      BY <1>5, <2>4, PickedIn
    <3> QED
      BY <2>1, <2>2, <3>1 DEF SumOf
  <2> QED
    BY <2>3, <2>4
<1> HIDE DEF F
<1>6. \A Q \in SUBSET R : Q \in F
  BY <1>1, <1>5, SubsetInduction
<1> QED
  BY <1>4, <1>6 DEF F

\* The sum of no entry is 0; a sum is the one of the set without an element, whichever, and
\* the entry of that element.
LEMMA SumTake ==
  ASSUME NEW S, IsFiniteSet(S), NEW x, \A a \in S : x[a] \in Int
  PROVE  /\ SumAt(x, S) \in Int
         /\ S = {} => SumAt(x, S) = 0
         /\ \A a \in S : SumAt(x, S) = x[a] + SumAt(x, S \ {a})
<1>1. PICK u \in [SUBSET S -> Int] : SumStep(u, x, S)
  BY SumTable
<1>2. \A R \in SUBSET S : u[R] = SumAt(x, R)
  BY <1>1, SumEntry
<1>3. \A R \in SUBSET S : u[R] = SumOf(u, x, R) /\ u[R] \in Int
  BY <1>1 DEF SumStep
<1> DEFINE F == {R \in SUBSET S : \A a \in R : u[R] = x[a] + u[R \ {a}]}
<1>4. ASSUME NEW R \in SUBSET S, \A a \in R : R \ {a} \in F PROVE R \in F
  <2> SUFFICES ASSUME NEW a \in R PROVE u[R] = x[a] + u[R \ {a}]
    OBVIOUS
  <2> DEFINE c == Picked(R)
             Q == R \ {c}
             P == R \ {a}
             O == Q \ {a}
  <2>1. c \in R /\ u[R] = x[c] + u[Q]
    BY <1>3, PickedIn DEF SumOf
  <2>2. CASE a = c
    BY <2>1, <2>2
  <2>3. CASE a # c
    <3>1. a \in Q /\ c \in P /\ P \ {c} = O
      BY <2>1, <2>3
    <3>2. u[Q] = x[a] + u[O]
      BY <1>4, <2>1, <3>1
    <3>3. u[P] = x[c] + u[O]
      BY <1>4, <3>1
    <3>4. x[a] \in Int /\ x[c] \in Int /\ u[O] \in Int
      BY <1>3, <2>1
    <3> HIDE DEF c, Q, P, O
    <3>5. u[R] = x[a] + u[P]
      BY <2>1, <3>2, <3>3, <3>4
    <3> QED
      BY <3>5 DEF P
  <2> QED
    BY <2>2, <2>3
<1> HIDE DEF F
<1>5. S \in F
  <2>1. \A R \in SUBSET S : R \in F
    BY <1>4, SubsetInduction
  <2> QED
    BY <2>1
<1>6. \A a \in S : u[S] = x[a] + u[S \ {a}]
  BY <1>5 DEF F
<1>7. S = {} => u[S] = 0
  BY <1>3 DEF SumOf
<1> QED
  BY <1>2, <1>3, <1>6, <1>7

\* The sum with one element more.
LEMMA SumAdd ==
  ASSUME NEW S, IsFiniteSet(S), NEW x, \A i \in S : x[i] \in Int, NEW a, a \notin S, x[a] \in Int
  PROVE  SumAt(x, S \cup {a}) = SumAt(x, S) + x[a]
<1> DEFINE U == S \cup {a}
<1>1. IsFiniteSet(U) /\ \A i \in U : x[i] \in Int
  BY FS_AddElement
<1>2. U \ {a} = S /\ a \in U
  OBVIOUS
<1> HIDE DEF U
<1>3. SumAt(x, U) = x[a] + SumAt(x, U \ {a})
  BY <1>1, <1>2, SumTake
<1>4. SumAt(x, S) \in Int
  BY SumTake
<1>5. SumAt(x, U) = x[a] + SumAt(x, S)
  BY <1>2, <1>3, Zenon
<1>6. SumAt(x, U) = SumAt(x, S) + x[a]
  BY <1>4, <1>5
<1> QED
  BY <1>6 DEF U

\* A sum of natural numbers is one.
LEMMA SumNat ==
  ASSUME NEW S, IsFiniteSet(S), NEW x, \A a \in S : x[a] \in Nat
  PROVE  SumAt(x, S) \in Nat
<1> DEFINE F == {R \in SUBSET S : SumAt(x, R) \in Nat}
<1>1. ASSUME NEW R \in SUBSET S, \A a \in R : R \ {a} \in F PROVE R \in F
  <2>1. IsFiniteSet(R) /\ \A a \in R : x[a] \in Int
    BY FS_Subset
  <2>2. CASE R = {}
    BY <2>1, <2>2, SumTake
  <2>3. CASE R # {}
    <3>1. PICK a \in R : TRUE
      BY <2>3
    <3>2. SumAt(x, R) = x[a] + SumAt(x, R \ {a})
      BY <2>1, SumTake
    <3>3. SumAt(x, R \ {a}) \in Nat /\ x[a] \in Nat
      BY <1>1
    <3>4. x[a] + SumAt(x, R \ {a}) \in Nat
      BY <3>3
    <3> QED
      BY <3>2, <3>4
  <2> QED
    BY <2>2, <2>3
<1> HIDE DEF F
<1>2. S \in F
  BY <1>1, SubsetInduction
<1> QED
  BY <1>2 DEF F

\* The sum of sums.
LEMMA SumPlus ==
  ASSUME NEW S, IsFiniteSet(S), NEW x, NEW y, NEW z, \A a \in S : x[a] \in Int /\ y[a] \in Int,
         \A a \in S : z[a] = x[a] + y[a]
  PROVE  SumAt(z, S) = SumAt(x, S) + SumAt(y, S)
<1> DEFINE F == {R \in SUBSET S : SumAt(z, R) = SumAt(x, R) + SumAt(y, R)}
<1>1. ASSUME NEW R \in SUBSET S, \A a \in R : R \ {a} \in F PROVE R \in F
  <2>1. IsFiniteSet(R) /\ \A a \in R : x[a] \in Int /\ y[a] \in Int /\ z[a] \in Int
    BY FS_Subset
  <2>2. CASE R = {}
    <3>1. SumAt(x, R) = 0 /\ SumAt(y, R) = 0 /\ SumAt(z, R) = 0
      BY <2>1, <2>2, SumTake
    <3> QED
      BY <3>1
  <2>3. CASE R # {}
    <3>1. PICK a \in R : TRUE
      BY <2>3
    <3> DEFINE Q == R \ {a}
    <3>2. /\ SumAt(x, R) = x[a] + SumAt(x, Q) /\ SumAt(y, R) = y[a] + SumAt(y, Q)
          /\ SumAt(z, R) = z[a] + SumAt(z, Q)
      BY <2>1, SumTake
    <3>3. IsFiniteSet(Q) /\ \A i \in Q : x[i] \in Int /\ y[i] \in Int
      BY <2>1, FS_Subset
    <3>4. SumAt(z, Q) = SumAt(x, Q) + SumAt(y, Q)
      BY <1>1
    <3> HIDE DEF Q
    <3>5. SumAt(x, Q) \in Int /\ SumAt(y, Q) \in Int
      BY <3>3, SumTake
    <3>6. x[a] \in Int /\ y[a] \in Int /\ z[a] = x[a] + y[a]
      BY <2>1
    <3>7. SumAt(z, R) = SumAt(x, R) + SumAt(y, R)
      BY <3>2, <3>4, <3>5, <3>6
    <3> QED
      BY <3>7
  <2> QED
    BY <2>2, <2>3
<1> HIDE DEF F
<1>2. S \in F
  BY <1>1, SubsetInduction
<1> QED
  BY <1>2 DEF F

\* Entries 0 add nothing.
LEMMA SumZero ==
  ASSUME NEW S, IsFiniteSet(S), NEW x, \A a \in S : x[a] = 0
  PROVE  SumAt(x, S) = 0
<1> DEFINE F == {R \in SUBSET S : SumAt(x, R) = 0}
<1>1. ASSUME NEW R \in SUBSET S, \A a \in R : R \ {a} \in F PROVE R \in F
  <2>1. IsFiniteSet(R) /\ \A a \in R : x[a] \in Int
    BY FS_Subset
  <2>2. CASE R = {}
    BY <2>1, <2>2, SumTake
  <2>3. CASE R # {}
    <3>1. PICK a \in R : TRUE
      BY <2>3
    <3>2. SumAt(x, R) = x[a] + SumAt(x, R \ {a})
      BY <2>1, SumTake
    <3>3. SumAt(x, R \ {a}) = 0 /\ x[a] = 0
      BY <1>1
    <3>4. SumAt(x, R) = 0
      BY <3>2, <3>3
    <3> QED
      BY <3>4
  <2> QED
    BY <2>2, <2>3
<1> HIDE DEF F
<1>2. S \in F
  BY <1>1, SubsetInduction
<1> QED
  BY <1>2 DEF F

\* The sum only depends on the entries of the set.
LEMMA SumSame ==
  ASSUME NEW S, IsFiniteSet(S), NEW x, NEW y, \A a \in S : x[a] \in Int /\ y[a] = x[a]
  PROVE  SumAt(y, S) = SumAt(x, S)
<1> DEFINE z == [a \in S |-> 0]
<1>1. \A a \in S : x[a] \in Int /\ z[a] \in Int /\ y[a] = x[a] + z[a]
  OBVIOUS
<1>2. \A a \in S : z[a] = 0
  OBVIOUS
<1> HIDE DEF z
<1>3. SumAt(y, S) = SumAt(x, S) + SumAt(z, S)
  BY <1>1, SumPlus
<1>4. SumAt(z, S) = 0 /\ SumAt(x, S) \in Int
  BY <1>1, <1>2, SumZero, SumTake
<1> QED
  BY <1>3, <1>4

\* Entries that are 0 outside of a subset.
LEMMA SumWithin ==
  ASSUME NEW S, IsFiniteSet(S), NEW R \in SUBSET S, NEW x, \A a \in S : x[a] \in Int,
         \A a \in S \ R : x[a] = 0
  PROVE  SumAt(x, S) = SumAt(x, R)
<1> DEFINE F == {Q \in SUBSET S : SumAt(x, Q) = SumAt(x, Q \cap R)}
<1>1. ASSUME NEW Q \in SUBSET S, \A a \in Q : Q \ {a} \in F PROVE Q \in F
  <2>1. IsFiniteSet(Q) /\ \A a \in Q : x[a] \in Int
    BY FS_Subset
  <2>2. CASE Q \subseteq R
    <3>1. Q \cap R = Q
      BY <2>2
    <3> QED
      BY <3>1
  <2>3. CASE ~ (Q \subseteq R)
    <3>1. PICK a \in Q : a \notin R
      BY <2>3
    <3>2. SumAt(x, Q) = x[a] + SumAt(x, Q \ {a}) /\ x[a] = 0
      BY <2>1, <3>1, SumTake
    <3>3. SumAt(x, Q \ {a}) = SumAt(x, (Q \ {a}) \cap R)
      BY <1>1
    <3>4. (Q \ {a}) \cap R = Q \cap R
      BY <3>1
    <3>5. SumAt(x, Q \ {a}) \in Int
      <4>1. IsFiniteSet(Q \ {a}) /\ \A i \in Q \ {a} : x[i] \in Int
        BY <2>1, FS_RemoveElement
      <4> QED
        BY <4>1, SumTake
    <3>6. SumAt(x, Q) = SumAt(x, Q \ {a})
      BY <3>2, <3>5
    <3>7. SumAt(x, Q) = SumAt(x, Q \cap R)
      BY <3>3, <3>4, <3>6
    <3> QED
      BY <3>7
  <2> QED
    BY <2>2, <2>3
<1> HIDE DEF F
<1>2. S \in F
  BY <1>1, SubsetInduction
<1>3. S \cap R = R
  OBVIOUS
<1> QED
  BY <1>2, <1>3 DEF F

\* The entries of the images under f, which repeats none.
LEMMA SumImage ==
  ASSUME NEW S, IsFiniteSet(S), NEW x, \A i \in S : x[i] \in Int, NEW y, NEW f,
         \A i \in S : y[f[i]] = x[i], \A i, j \in S : f[i] = f[j] => i = j
  PROVE  SumAt(y, {f[i] : i \in S}) = SumAt(x, S)
<1> DEFINE Im(R) == {f[i] : i \in R}
           F == {R \in SUBSET S : IsFiniteSet(Im(R)) /\ SumAt(y, Im(R)) = SumAt(x, R)}
<1>1. ASSUME NEW R \in SUBSET S, \A a \in R : R \ {a} \in F PROVE R \in F
  <2>1. IsFiniteSet(R) /\ \A a \in R : x[a] \in Int
    BY FS_Subset
  <2>2. CASE R = {}
    <3>1. Im(R) = {} /\ IsFiniteSet({})
      BY <2>2, FS_EmptySet
    <3>2. SumAt(x, {}) = 0 /\ SumAt(y, {}) = 0
      BY <3>1, SumTake
    <3> QED
      BY <2>2, <3>1, <3>2
  <2>3. CASE R # {}
    <3>1. PICK a \in R : TRUE
      BY <2>3
    <3> DEFINE Q == R \ {a}
    <3>2. SumAt(x, R) = x[a] + SumAt(x, Q)
      BY <2>1, SumTake
    <3>3. IsFiniteSet(Im(Q)) /\ SumAt(y, Im(Q)) = SumAt(x, Q)
      BY <1>1
    <3>4. Im(R) = Im(Q) \cup {f[a]} /\ f[a] \notin Im(Q)
      OBVIOUS
    <3>5. \A b \in Im(Q) : y[b] \in Int
      OBVIOUS
    <3>6. y[f[a]] = x[a] /\ x[a] \in Int
      OBVIOUS
    <3>7. IsFiniteSet(Q) /\ \A i \in Q : x[i] \in Int
      BY <2>1, FS_RemoveElement
    <3> HIDE DEF Q, Im
    <3>8. SumAt(x, Q) \in Int
      BY <3>7, SumTake
    <3>9. SumAt(y, Im(R)) = SumAt(y, Im(Q)) + y[f[a]]
      BY <3>3, <3>4, <3>5, <3>6, SumAdd
    <3>10. IsFiniteSet(Im(R))
      BY <3>3, <3>4, FS_AddElement
    <3>11. SumAt(y, Im(R)) = SumAt(x, R)
      BY <3>2, <3>3, <3>6, <3>8, <3>9
    <3> QED
      BY <3>10, <3>11
  <2> QED
    BY <2>2, <2>3
<1> HIDE DEF F
<1>2. S \in F
  BY <1>1, SubsetInduction
<1> QED
  BY <1>2 DEF F

-----------------------------------------------------------------------------
(***************************************************************************)
(* The search as a function                                                *)
(***************************************************************************)
\* The end of the path from a through nxt, if it has one.
PathTo(o, k, a, w, stop, nxt) ==
  /\ o[0] = a /\ o[k] = w /\ w \in stop
  /\ \A i \in 0 .. k - 1 : o[i] \notin stop /\ o[i + 1] = nxt[o[i]]
Ends(A, stop, nxt, a) == {w \in A : \E k \in Nat : \E o \in [Nat -> A] : PathTo(o, k, a, w, stop, nxt)}

\* u is v at the elements of stop, and elsewhere what it is at the next element.
TailRecursive(u, A, stop, nxt, v) == u = [a \in A |-> IF a \in stop THEN v[a] ELSE u[nxt[a]]]

\* There is such a function, whether or not all the paths end.
LEMMA TailRecursion ==
  ASSUME NEW A, NEW stop \in SUBSET A, NEW nxt, NEW v, \A a \in A \ stop : nxt[a] \in A
  PROVE  \E u : TailRecursive(u, A, stop, nxt, v)
<1> DEFINE E(a) == Ends(A, stop, nxt, a)
           end(X) == v[CHOOSE w : w \in X]
           u == [a \in A |-> end(E(a))]
<1>1. ASSUME NEW a \in stop PROVE E(a) = {a}
  <2>1. ASSUME NEW w \in E(a) PROVE w = a
    <3>1. PICK k \in Nat, o \in [Nat -> A] : PathTo(o, k, a, w, stop, nxt)
      BY <2>1 DEF Ends
    <3>2. k = 0
      <4>1. 0 \in 0 .. k - 1 => o[0] \notin stop
        BY <3>1 DEF PathTo
      <4>2. o[0] = a
        BY <3>1 DEF PathTo
      <4> QED
        BY <1>1, <4>1, <4>2
    <3> QED
      BY <3>1, <3>2 DEF PathTo
  <2>2. a \in E(a)
    <3> DEFINE o == [i \in Nat |-> a]
    <3>1. o \in [Nat -> A] /\ PathTo(o, 0, a, a, stop, nxt)
      BY DEF PathTo
    <3> QED
      BY <3>1 DEF Ends
  <2> QED
    BY <2>1, <2>2
<1>2. ASSUME NEW a \in A \ stop PROVE E(a) = E(nxt[a])
  <2>1. ASSUME NEW w \in E(a) PROVE w \in E(nxt[a])
    <3>1. PICK k \in Nat, o \in [Nat -> A] : PathTo(o, k, a, w, stop, nxt)
      BY <2>1 DEF Ends
    <3> DEFINE q == [i \in Nat |-> o[i + 1]]
    <3>2. k # 0 /\ k - 1 \in Nat
      BY <3>1, <1>2 DEF PathTo
    <3>3. q \in [Nat -> A]
      OBVIOUS
    <3>4. PathTo(q, k - 1, nxt[a], w, stop, nxt)
      <4>1. q[0] = nxt[a]
        BY <3>1, <3>2 DEF PathTo
      <4>2. q[k - 1] = w /\ w \in stop
        BY <3>1, <3>2 DEF PathTo
      <4>3. ASSUME NEW i \in 0 .. (k - 1) - 1 PROVE q[i] \notin stop /\ q[i + 1] = nxt[q[i]]
        <5>1. i + 1 \in 0 .. k - 1 /\ q[i] = o[i + 1] /\ q[i + 1] = o[(i + 1) + 1]
          BY <3>2
        <5> QED
          BY <3>1, <5>1 DEF PathTo
      <4> QED
        BY <4>1, <4>2, <4>3 DEF PathTo
    <3> HIDE DEF q
    <3> QED
      BY <3>2, <3>3, <3>4 DEF Ends
  <2>2. ASSUME NEW w \in E(nxt[a]) PROVE w \in E(a)
    <3>1. PICK k \in Nat, o \in [Nat -> A] : PathTo(o, k, nxt[a], w, stop, nxt)
      BY <2>2 DEF Ends
    <3> DEFINE q == [i \in Nat |-> IF i = 0 THEN a ELSE o[i - 1]]
    <3>2. q \in [Nat -> A]
      OBVIOUS
    <3>3. PathTo(q, k + 1, a, w, stop, nxt)
      <4>1. q[0] = a
        OBVIOUS
      <4>2. q[k + 1] = w /\ w \in stop
        <5>1. q[k + 1] = o[k]
          OBVIOUS
        <5> QED
          BY <3>1, <5>1 DEF PathTo
      <4>3. ASSUME NEW i \in 0 .. (k + 1) - 1 PROVE q[i] \notin stop /\ q[i + 1] = nxt[q[i]]
        <5>1. CASE i = 0
          <6>1. q[i] = a /\ q[i + 1] = o[0]
            BY <5>1
          <6> QED
            BY <1>2, <3>1, <6>1 DEF PathTo
        <5>2. CASE i # 0
          <6>1. i - 1 \in 0 .. k - 1 /\ q[i] = o[i - 1] /\ q[i + 1] = o[(i - 1) + 1]
            BY <5>2
          <6> QED
            BY <3>1, <6>1 DEF PathTo
        <5> QED
          BY <5>1, <5>2
      <4> QED
        BY <4>1, <4>2, <4>3 DEF PathTo
    <3>4. k + 1 \in Nat
      OBVIOUS
    <3> HIDE DEF q
    <3> QED
      BY <3>2, <3>3, <3>4 DEF Ends
  <2> QED
    BY <2>1, <2>2 DEF Ends
<1>3. ASSUME NEW a \in stop PROVE end(E(a)) = v[a]
  <2>1. (CHOOSE w : w \in {a}) = a
    OBVIOUS
  <2> QED
    BY <1>1, <1>3, <2>1
<1>4. ASSUME NEW a \in A \ stop PROVE end(E(a)) = u[nxt[a]]
  <2>1. nxt[a] \in A
    OBVIOUS
  <2>2. u[nxt[a]] = end(E(nxt[a]))
    BY <2>1
  <2> QED
    BY <1>2, <1>4, <2>2
<1>5. \A a \in A : end(E(a)) = IF a \in stop THEN v[a] ELSE u[nxt[a]]
  BY <1>3, <1>4
<1>6. u = [a \in A |-> IF a \in stop THEN v[a] ELSE u[nxt[a]]]
  <2>1. u = [a \in A |-> u[a]] /\ \A a \in A : u[a] = end(E(a))
    OBVIOUS
  <2> HIDE DEF u, E, end
  <2> QED
    BY <1>5, <2>1
<1> HIDE DEF u
<1>7. TailRecursive(u, A, stop, nxt, v)
  BY <1>6 DEF TailRecursive
<1> QED
  BY <1>7

\* Where the search can be: the next position and the candidates.
SearchPlaces(n) == (1 .. n + 1) \X SUBSET (1 .. n)

\* Where it ends, with what, and where it goes on otherwise.
Stops(x, n, target, p) ==
  IF p[1] = n + 1 THEN p[2] = {} \/ Max(p[2]) = n ELSE SumAt(x, p[2]) + x[p[1]] = target
SearchAnswer(n, p) == IF p[1] = n + 1 THEN {} ELSE p[2] \cup {p[1]}
SearchAfter(x, n, target, p) ==
  IF p[1] = n + 1 THEN <<Max(p[2]) + 1, p[2] \ {Max(p[2])}>>
  ELSE IF SumAt(x, p[2]) + x[p[1]] < target THEN <<p[1] + 1, p[2] \cup {p[1]}>>
  ELSE <<p[1] + 1, p[2]>>

\* One step of the search, as the code writes it.
SearchBody(u, x, n, target, p) ==
  IF p[1] = n + 1
  THEN IF p[2] = {} \/ Max(p[2]) = n THEN {} ELSE u[<<Max(p[2]) + 1, p[2] \ {Max(p[2])}>>]
  ELSE IF SumAt(x, p[2]) + x[p[1]] = target THEN p[2] \cup {p[1]}
  ELSE IF SumAt(x, p[2]) + x[p[1]] < target THEN u[<<p[1] + 1, p[2] \cup {p[1]}>>]
  ELSE u[<<p[1] + 1, p[2]>>]
SearchStep(u, x, n, target) == u = [p \in SearchPlaces(n) |-> SearchBody(u, x, n, target, p)]

\* What the search returns, in these terms.
LEMMA PositionsAre ==
  \A x, n, target : subset_sum_positions(x, n, target) =
    IF target = 0 \/ SumAt(x, 1 .. n) < target THEN {}
    ELSE (CHOOSE u : SearchStep(u, x, n, target))[<<1, {}>>]
BY DEF subset_sum_positions, SearchStep, SearchBody, SearchPlaces

\* The largest position of a set of positions.
LEMMA MaxIs ==
  ASSUME NEW n \in Nat, NEW C \in SUBSET (1 .. n), C # {}
  PROVE  Max(C) \in C /\ \A y \in C : y <= Max(C)
<1> DEFINE D == {n - y : y \in C}
<1>1. D \in SUBSET Nat /\ D # {}
  OBVIOUS
<1> HIDE DEF D
<1>2. PICK d \in D : \A e \in D : d <= e
  BY <1>1, LeastNat
<1>3. PICK m \in C : d = n - m
  BY <1>2 DEF D
<1>4. \A y \in C : n - y \in D
  BY DEF D
<1>5. \A y \in C : m >= y
  BY <1>2, <1>3, <1>4
<1>6. Max(C) \in C /\ \A y \in C : Max(C) >= y
  BY <1>5 DEF Max
<1> QED
  BY <1>6

\* The search goes on at a place.
LEMMA AfterIsPlace ==
  ASSUME NEW x, NEW n \in Nat, NEW target, NEW p \in SearchPlaces(n), ~ Stops(x, n, target, p)
  PROVE  SearchAfter(x, n, target, p) \in SearchPlaces(n)
<1>1. p[1] \in 1 .. n + 1 /\ p[2] \in SUBSET (1 .. n)
  BY DEF SearchPlaces
<1> DEFINE C == p[2]
<1>2. CASE p[1] = n + 1
  <2>1. C # {} /\ Max(C) # n
    BY <1>2 DEF Stops
  <2>2. Max(C) \in 1 .. n
    BY <1>1, <2>1, MaxIs
  <2>3. Max(C) + 1 \in 1 .. n + 1 /\ C \ {Max(C)} \in SUBSET (1 .. n)
    BY <1>1, <2>2
  <2> QED
    BY <1>2, <2>3 DEF SearchAfter, SearchPlaces
<1>3. CASE p[1] # n + 1
  <2>1. p[1] + 1 \in 1 .. n + 1 /\ C \cup {p[1]} \in SUBSET (1 .. n)
    BY <1>1, <1>3
  <2> QED
    BY <1>1, <1>3, <2>1 DEF SearchAfter, SearchPlaces
<1> QED
  BY <1>2, <1>3

\* A step in the form of a tail recursion.
LEMMA BodyIs ==
  ASSUME NEW u, NEW x, NEW n, NEW target, NEW p
  PROVE  SearchBody(u, x, n, target, p)
           = IF Stops(x, n, target, p) THEN SearchAnswer(n, p) ELSE u[SearchAfter(x, n, target, p)]
BY DEF SearchBody, Stops, SearchAnswer, SearchAfter

\* The function that the search is defined by exists.
LEMMA SearchExists ==
  ASSUME NEW x, NEW n \in Nat, NEW target
  PROVE  \E u : SearchStep(u, x, n, target)
<1> DEFINE A == SearchPlaces(n)
           stop == {p \in A : Stops(x, n, target, p)}
           nxt == [p \in A |-> SearchAfter(x, n, target, p)]
           v == [p \in A |-> SearchAnswer(n, p)]
<1>1. stop \in SUBSET A /\ \A p \in A \ stop : nxt[p] \in A
  BY AfterIsPlace
<1>2. \A p \in A : v[p] = SearchAnswer(n, p) /\ nxt[p] = SearchAfter(x, n, target, p)
  OBVIOUS
<1>3. \A p \in A : p \in stop <=> Stops(x, n, target, p)
  OBVIOUS
<1> HIDE DEF A, stop, nxt, v
<1>4. PICK u : TailRecursive(u, A, stop, nxt, v)
  BY <1>1, TailRecursion
<1>5. ASSUME NEW p \in A
      PROVE  (IF p \in stop THEN v[p] ELSE u[nxt[p]]) = SearchBody(u, x, n, target, p)
  BY <1>2, <1>3, BodyIs
<1>6. u = [p \in A |-> SearchBody(u, x, n, target, p)]
  BY <1>4, <1>5 DEF TailRecursive
<1> QED
  BY <1>6 DEF SearchStep, A

\* At the end of the array the last candidate is given up; nothing is after the last entry.
GivesUp(u, n, C) ==
  u[<<n + 1, C>>] = IF C = {} \/ Max(C) = n THEN {} ELSE u[<<Max(C) + 1, C \ {Max(C)}>>]

\* Before it the entry ends the search, becomes a candidate or is passed over.
GoesOn(u, x, target, f, C) ==
  u[<<f, C>>] = IF SumAt(x, C) + x[f] = target THEN C \cup {f}
                ELSE IF SumAt(x, C) + x[f] < target THEN u[<<f + 1, C \cup {f}>>]
                ELSE u[<<f + 1, C>>]

\* A step of the search at the end of the array.
LEMMA SearchGivesUp ==
  ASSUME NEW u, NEW x, NEW n \in Nat, NEW target, SearchStep(u, x, n, target),
         NEW C \in SUBSET (1 .. n)
  PROVE  GivesUp(u, n, C)
<1> DEFINE e == n + 1
           p == <<e, C>>
<1>0. e \in 1 .. n + 1 /\ e = n + 1
  OBVIOUS
<1> HIDE DEF e
<1>4. p \in SearchPlaces(n) /\ p[1] = e /\ p[2] = C
  BY <1>0 DEF SearchPlaces
<1>1. p \in SearchPlaces(n) /\ p[1] = n + 1 /\ p[2] = C
  BY <1>0, <1>4
<1> HIDE DEF p
<1>2. u[p] = SearchBody(u, x, n, target, p)
  BY <1>1 DEF SearchStep
<1>3. u[p] = IF C = {} \/ Max(C) = n THEN {} ELSE u[<<Max(C) + 1, C \ {Max(C)}>>]
  BY <1>1, <1>2 DEF SearchBody
<1> QED
  BY <1>0, <1>3 DEF p, GivesUp

\* A step of the search before it.
LEMMA SearchGoesOn ==
  ASSUME NEW u, NEW x, NEW n \in Nat, NEW target, SearchStep(u, x, n, target),
         NEW f \in 1 .. n, NEW C \in SUBSET (1 .. n)
  PROVE  GoesOn(u, x, target, f, C)
<1> DEFINE p == <<f, C>>
<1>0. f \in 1 .. n + 1 /\ f # n + 1
  OBVIOUS
<1>1. p \in SearchPlaces(n) /\ p[1] = f /\ p[2] = C /\ f # n + 1
  BY <1>0 DEF SearchPlaces
<1> HIDE DEF p
<1>2. u[p] = SearchBody(u, x, n, target, p)
  BY <1>1 DEF SearchStep
<1>3. u[p] = IF SumAt(x, C) + x[f] = target THEN C \cup {f}
             ELSE IF SumAt(x, C) + x[f] < target THEN u[<<f + 1, C \cup {f}>>]
             ELSE u[<<f + 1, C>>]
  BY <1>1, <1>2 DEF SearchBody
<1> QED
  BY <1>3 DEF p, GoesOn


\* What the search may return: nothing, or positions of which the entries have the sum.
Exact(x, n, target, R) == R \in SUBSET (1 .. n) /\ (R = {} \/ SumAt(x, R) = target)

\* Whatever it goes through, the search returns such positions.  By induction on the
\* positions that are still free, from the last one: if the search is right when it gives
\* up with the candidates D, it is right with D and any of the free positions.
LEMMA SearchIsSound ==
  ASSUME NEW n \in Nat, NEW x, \A i \in 1 .. n : x[i] \in Int, NEW target, NEW u,
         SearchStep(u, x, n, target)
  PROVE  Exact(x, n, target, u[<<1, {}>>])
<1> DEFINE OK(f, C) == Exact(x, n, target, u[<<f, C>>])
           Q(b) == \A D \in SUBSET (1 .. b - 1) : OK(n + 1, D) =>
                     \A f \in b .. n + 1 : \A E \in SUBSET (b .. f - 1) : OK(f, D \cup E)
           T == {i \in 0 .. n : Q((n + 1) - i)}
<1>1. Exact(x, n, target, {})
  BY DEF Exact
<1>2. Q(n + 1)
  <2> SUFFICES ASSUME NEW D \in SUBSET (1 .. (n + 1) - 1), OK(n + 1, D),
                      NEW f \in (n + 1) .. n + 1, NEW E \in SUBSET ((n + 1) .. f - 1)
               PROVE  OK(f, D \cup E)
    OBVIOUS
  <2>1. f = n + 1
    OBVIOUS
  <2>2. (n + 1) .. f - 1 = {}
    BY <2>1
  <2>3. D \cup E = D
    BY <2>2
  <2> HIDE DEF OK
  <2> QED
    BY <2>1, <2>3
<1>3. ASSUME NEW b \in 1 .. n, Q(b + 1) PROVE Q(b)
  <2> SUFFICES ASSUME NEW D \in SUBSET (1 .. b - 1), OK(n + 1, D)
               PROVE  \A f \in b .. n + 1 : \A E \in SUBSET (b .. f - 1) : OK(f, D \cup E)
    OBVIOUS
  <2> DEFINE B == D \cup {b}
  <2>0. /\ D \in SUBSET (1 .. n) /\ B \in SUBSET (1 .. n) /\ b \notin D
        /\ D \in SUBSET (1 .. (b + 1) - 1) /\ B \in SUBSET (1 .. (b + 1) - 1)
        /\ b + 1 \in 1 .. n + 1 /\ n + 1 \in 1 .. n + 1 /\ b \in 1 .. n + 1 /\ b # n + 1
    OBVIOUS
  <2>1. \A f \in b + 1 .. n + 1 : \A E \in SUBSET (b + 1 .. f - 1) : OK(f, D \cup E)
    BY <1>3, <2>0
  <2>2. OK(b + 1, D)
    <3>1. b + 1 \in b + 1 .. n + 1 /\ {} \in SUBSET (b + 1 .. (b + 1) - 1) /\ D \cup {} = D
      OBVIOUS
    <3> HIDE DEF OK
    <3>2. OK(b + 1, D \cup {})
      BY <2>1, <3>1
    <3> QED
      BY <3>1, <3>2
  <2>3. OK(n + 1, B)
    <3>1. Max(B) = b
      <4>1. Max(B) \in B /\ \A y \in B : y <= Max(B)
        BY <2>0, MaxIs
      <4>2. \A y \in B : y <= b /\ y \in Int
        OBVIOUS
      <4>3. b \in B
        OBVIOUS
      <4> HIDE DEF B
      <4> DEFINE m == Max(B)
      <4>4. m \in B /\ (\A y \in B : y <= m)
        BY <4>1
      <4> HIDE DEF m
      <4>5. m <= b /\ b <= m /\ m \in Int
        BY <4>2, <4>3, <4>4
      <4>6. m = b
        BY <4>5
      <4> QED
        BY <4>6 DEF m
    <3>2. B # {} /\ B \ {b} = D
      OBVIOUS
    <3> HIDE DEF B
    <3>4. u[<<n + 1, B>>] = IF Max(B) = n THEN {} ELSE u[<<Max(B) + 1, B \ {Max(B)}>>]
      <4>1. GivesUp(u, n, B)
        BY <2>0, SearchGivesUp
      <4> QED
        BY <3>2, <4>1 DEF GivesUp
    <3>3. u[<<n + 1, B>>] = IF b = n THEN {} ELSE u[<<b + 1, D>>]
      BY <3>1, <3>2, <3>4
    <3> QED
      BY <1>1, <2>2, <3>3
  <2>4. \A f \in b + 1 .. n + 1 : \A E \in SUBSET (b + 1 .. f - 1) : OK(f, B \cup E)
    <3> HIDE DEF B, OK
    <3> QED
      BY <1>3, <2>0, <2>3
  <2>5. OK(b + 1, B)
    <3>1. b + 1 \in b + 1 .. n + 1 /\ {} \in SUBSET (b + 1 .. (b + 1) - 1) /\ B \cup {} = B
      OBVIOUS
    <3> HIDE DEF OK, B
    <3>2. OK(b + 1, B \cup {})
      BY <2>4, <3>1
    <3> QED
      BY <3>1, <3>2
  <2>6. OK(b, D)
    <3>1. u[<<b, D>>] = IF SumAt(x, D) + x[b] = target THEN B
                        ELSE IF SumAt(x, D) + x[b] < target THEN u[<<b + 1, B>>]
                        ELSE u[<<b + 1, D>>]
      <4>1. GoesOn(u, x, target, b, D)
        BY <2>0, SearchGoesOn
      <4> QED
        BY <4>1 DEF GoesOn
    <3>2. SumAt(x, B) = SumAt(x, D) + x[b]
      <4>1. IsFiniteSet(D)
        <5>1. IsFiniteSet(1 .. n)
          BY FS_Interval
        <5> QED
          BY <2>0, <5>1, FS_Subset
      <4>2. (\A i \in D : x[i] \in Int) /\ x[b] \in Int /\ b \notin D
        BY <2>0
      <4> QED
        BY <4>1, <4>2, SumAdd
    <3> HIDE DEF B
    <3>3. CASE SumAt(x, D) + x[b] = target
      BY <2>0, <3>1, <3>2, <3>3 DEF Exact
    <3>4. CASE SumAt(x, D) + x[b] # target
      BY <2>2, <2>5, <3>1, <3>4
    <3> QED
      BY <3>3, <3>4
  <2>7. ASSUME NEW f \in b .. n + 1, NEW E \in SUBSET (b .. f - 1) PROVE OK(f, D \cup E)
    <3>1. CASE f = b
      <4>0. b .. f - 1 = {}
        BY <3>1
      <4>1. D \cup E = D
        BY <4>0
      <4> HIDE DEF OK
      <4> QED
        BY <2>6, <3>1, <4>1
    <3>2. CASE f # b /\ b \notin E
      <4>1. f \in b + 1 .. n + 1 /\ E \in SUBSET (b + 1 .. f - 1)
        BY <3>2
      <4> HIDE DEF OK
      <4> QED
        BY <2>1, <4>1
    <3>3. CASE f # b /\ b \in E
      <4> DEFINE G == E \ {b}
      <4>1. f \in b + 1 .. n + 1 /\ G \in SUBSET (b + 1 .. f - 1) /\ D \cup E = B \cup G
        BY <3>3
      <4> HIDE DEF OK, B, G
      <4>2. OK(f, B \cup G)
        BY <2>4, <4>1
      <4> QED
        BY <4>1, <4>2
    <3> QED
      BY <3>1, <3>2, <3>3
  <2> QED
    BY <2>7
<1> HIDE DEF Q
<1>4. 0 \in T
  <2>1. (n + 1) - 0 = n + 1 /\ 0 \in 0 .. n
    OBVIOUS
  <2> QED
    BY <1>2, <2>1
<1>5. ASSUME NEW i \in 0 .. n - 1, i \in T PROVE i + 1 \in T
  <2> DEFINE b == (n + 1) - (i + 1)
  <2>1. b \in 1 .. n /\ b + 1 = (n + 1) - i /\ i + 1 \in 0 .. n
    OBVIOUS
  <2>2. Q((n + 1) - i)
    BY <1>5
  <2> HIDE DEF b
  <2>3. Q(b)
    BY <1>3, <2>1, <2>2
  <2> QED
    BY <2>1, <2>3 DEF b
<1> HIDE DEF T
<1>6. \A i \in 0 .. n : i \in T
  BY <1>4, <1>5, IntervalInduction
<1>7. Q(1)
  <2>1. n \in T
    BY <1>6
  <2>2. Q((n + 1) - n)
    BY <2>1 DEF T
  <2>3. (n + 1) - n = 1
    OBVIOUS
  <2> QED
    BY <2>2, <2>3
<1>8. OK(n + 1, {})
  <2>1. {} \in SUBSET (1 .. n)
    OBVIOUS
  <2>2. GivesUp(u, n, {})
    BY <2>1, SearchGivesUp
  <2>3. u[<<n + 1, {}>>] = {}
    BY <2>2 DEF GivesUp
  <2> QED
    BY <1>1, <2>3
<1>9. OK(1, {} \cup {})
  <2>1. {} \in SUBSET (1 .. 1 - 1) /\ 1 \in 1 .. n + 1
    OBVIOUS
  <2> HIDE DEF OK
  <2> QED
    BY <1>7, <1>8, <2>1 DEF Q
<1>10. {} \cup {} = {}
  OBVIOUS
<1> QED
  BY <1>9, <1>10

\* subset_sum_positions returns positions of the array of which the entries add up to the
\* target, or none.
THEOREM PositionsHaveSum ==
  ASSUME NEW n \in Nat, NEW x, \A i \in 1 .. n : x[i] \in Int, NEW target
  PROVE  Exact(x, n, target, subset_sum_positions(x, n, target))
<1> DEFINE u == CHOOSE u : SearchStep(u, x, n, target)
<1>1. SearchStep(u, x, n, target)
  BY SearchExists
<1>2. subset_sum_positions(x, n, target) =
        IF target = 0 \/ SumAt(x, 1 .. n) < target THEN {} ELSE u[<<1, {}>>]
  BY PositionsAre
<1> HIDE DEF u
<1>3. Exact(x, n, target, u[<<1, {}>>])
  BY <1>1, SearchIsSound
<1>4. Exact(x, n, target, {})
  BY DEF Exact
<1> QED
  BY <1>2, <1>3, <1>4

\* search_subset_match finds indices of the array of which the entries add up to the
\* target, or none: what the balancing gives to a rank has exactly the wanted number of
\* cells, whichever candidates the search has taken and given up before.
THEOREM MatchHasSum ==
  ASSUME NEW x \in Seq(Nat), NEW target \in Nat
  PROVE  LET R == search_subset_match(x, target)
         IN  R \in SUBSET (DOMAIN x) /\ (R = {} \/ SumAt(x, R) = target)
<1> DEFINE I == {i \in DOMAIN x : x[i] <= target}
           n == Cardinality(I)
           R == search_subset_match(x, target)
<1>1. DOMAIN x = 1 .. Len(x) /\ Len(x) \in Nat /\ \A i \in 1 .. Len(x) : x[i] \in Nat
  OBVIOUS
<1>2. n \in Nat /\ n <= Len(x)
  <2>1. IsFiniteSet(1 .. Len(x)) /\ Cardinality(1 .. Len(x)) = Len(x)
    BY <1>1, FS_Interval
  <2>2. I \in SUBSET (1 .. Len(x))
    BY <1>1
  <2> HIDE DEF I
  <2>3. IsFiniteSet(I) /\ Cardinality(I) <= Len(x)
    BY <2>1, <2>2, FS_Subset
  <2> QED
    BY <2>3, FS_CardinalityType
<1>3. R = IF n > 0 /\ isSubsetSum(x, n, target) THEN subset_sum_positions(x, n, target) ELSE {}
  BY DEF search_subset_match
<1> HIDE DEF n, R
<1>4. \A i \in 1 .. n : x[i] \in Int
  BY <1>1, <1>2
<1>5. Exact(x, n, target, subset_sum_positions(x, n, target)) /\ Exact(x, n, target, {})
  BY <1>2, <1>4, PositionsHaveSum DEF Exact
<1>6. Exact(x, n, target, R)
  BY <1>3, <1>5
<1>7. R \in SUBSET (DOMAIN x) /\ (R = {} \/ SumAt(x, R) = target)
  BY <1>1, <1>2, <1>6 DEF Exact
<1> QED
  BY <1>7 DEF R
=============================================================================
