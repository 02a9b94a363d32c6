------------------------- MODULE LoadBalancing_proofs -------------------------
(***************************************************************************)
(* The balancings of several zones keep their accounts: what is given of a *)
(* zone and what is left of it make it up, and the loads on which the      *)
(* choices rest are the ones of the repartition, for any zones and ranks.  *)
(***************************************************************************)
EXTENDS LoadBalancing, InductionFacts

\* Adding to one entry adds to the sum.
LEMMA SumExcept ==
  ASSUME NEW S, IsFiniteSet(S), NEW f, \A a \in S : f[a] \in Int, NEW b \in S, NEW d \in Int,
         NEW g, g[b] = f[b] + d, \A a \in S \ {b} : g[a] = f[a]
  PROVE  SumAt(g, S) = SumAt(f, S) + d
<1>1. IsFiniteSet(S \ {b}) /\ \A a \in S \ {b} : f[a] \in Int /\ g[a] = f[a]
  BY FS_Subset
<1>2. SumAt(g, S \ {b}) = SumAt(f, S \ {b}) /\ SumAt(f, S \ {b}) \in Int
  BY <1>1, SumSame, SumTake
<1>3. \A a \in S : g[a] \in Int
  OBVIOUS
<1>4. SumAt(f, S) = f[b] + SumAt(f, S \ {b}) /\ SumAt(g, S) = g[b] + SumAt(g, S \ {b})
  BY <1>3, SumTake
<1> QED
  BY <1>2, <1>4

-----------------------------------------------------------------------------
\* The two methods use the same operators.
LEMMA NonUniformUses ==
  /\ NU!Rank = Rank /\ NU!Zone = Zone
  /\ \A x, S : NU!SumAt(x, S) = SumAt(x, S)
  /\ \A S : NU!Cardinality(S) = Cardinality(S)
  /\ \A x, t : NU!search_subset_match(x, t) = search_subset_match(x, t)
<1>1. NU!Rank = Rank /\ NU!Zone = Zone
  BY DEF Rank, NU!Rank, Zone, NU!Zone
<1>2. \A x, S : NU!SumAt(x, S) = SumAt(x, S)
  BY DEF SumAt, NU!SumAt, MapThenSumSet, NU!MapThenSumSet, MapThenFoldSet, NU!MapThenFoldSet
<1>3. \A S : NU!Cardinality(S) = Cardinality(S)
  BY DEF NU!Cardinality, Cardinality
<1>4. \A x, n, t : NU!isSubsetSum(x, n, t) = isSubsetSum(x, n, t)
  BY DEF NU!isSubsetSum, isSubsetSum
<1>5. \A x, n, t : NU!subset_sum_positions(x, n, t) = subset_sum_positions(x, n, t)
  BY DEF NU!subset_sum_positions, subset_sum_positions, NU!Max, Max, SumAt, NU!SumAt,
         MapThenSumSet, NU!MapThenSumSet, MapThenFoldSet, NU!MapThenFoldSet
<1>6. \A x, t : NU!search_subset_match(x, t) = search_subset_match(x, t)
  BY <1>3, <1>4, <1>5 DEF NU!search_subset_match, search_subset_match
<1> QED
  BY <1>1, <1>2, <1>3, <1>6

\* The same of balance_with_uniform_weights.
LEMMA UniformUses ==
  /\ U!Rank = Rank /\ U!Zone = Zone
  /\ \A x, S : U!SumAt(x, S) = SumAt(x, S)
  /\ \A S : U!Cardinality(S) = Cardinality(S)
<1>1. U!Rank = Rank /\ U!Zone = Zone
  BY DEF Rank, U!Rank, Zone, U!Zone
<1>2. \A x, S : U!SumAt(x, S) = SumAt(x, S)
  BY DEF SumAt, U!SumAt, MapThenSumSet, U!MapThenSumSet, MapThenFoldSet, U!MapThenFoldSet
<1>3. \A S : U!Cardinality(S) = Cardinality(S)
  BY DEF U!Cardinality, Cardinality
<1> QED
  BY <1>1, <1>2, <1>3

\* The ranks.
LEMMA RankFacts ==
  /\ NRank \in Nat /\ NRank # 0 /\ Rank \in SUBSET Nat /\ Rank # {} /\ IsFiniteSet(Rank)
  /\ \A p : p \in Rank <=> p \in Nat /\ p < NRank
<1>1. NRank \in Nat /\ NRank # 0
  BY BalanceAssumption
<1>2. IsFiniteSet(0 .. NRank - 1)
  BY <1>1, FS_Interval
<1>3. \A p : p \in 0 .. NRank - 1 <=> p \in Nat /\ p < NRank
  BY <1>1
<1>4. 0 \in 0 .. NRank - 1
  BY <1>1
<1> QED
  BY <1>1, <1>2, <1>3, <1>4 DEF Rank

-----------------------------------------------------------------------------
\* Every zone has cells, or vertices if some zone has no cell.
SizesOK == size \in Seq(Nat \ {0}) /\ Len(size) \in Nat /\ Len(size) # 0

\* What the other proofs use of it.
LEMMA ZoneFacts ==
  ASSUME SizesOK
  PROVE  /\ Zone = 1 .. Len(size) /\ Zone \in SUBSET Nat /\ IsFiniteSet(Zone) /\ 1 \in Zone
         /\ \A z \in Zone : size[z] \in Nat /\ size[z] > 0
<1>1. Len(size) \in Nat /\ Len(size) # 0 /\ size \in Seq(Nat \ {0})
  BY DEF SizesOK
<1>2. Zone = 1 .. Len(size) /\ \A z \in 1 .. Len(size) : size[z] \in Nat \ {0}
  BY <1>1 DEF Zone
<1>3. IsFiniteSet(1 .. Len(size))
  BY <1>1, FS_Interval
<1> QED
  BY <1>1, <1>2, <1>3

\* A sorted sequence has the values of the sequence.
LEMMA SortedIs ==
  ASSUME NEW s \in Seq(Nat \ {0}), Len(s) # 0
  PROVE  Sorted(s) \in Seq(Nat \ {0}) /\ Len(Sorted(s)) \in Nat /\ Len(Sorted(s)) # 0
<1> DEFINE D == DOMAIN s
           R == {e \in D \X D : Precedes(s, e[1], e[2])}
<1>1. Len(s) \in Nat /\ D = 1 .. Len(s) /\ \A z \in D : s[z] \in Nat /\ s[z] # 0
  OBVIOUS
<1>2. \A y, z \in D : <<y, z>> \in R <=> Precedes(s, y, z)
  OBVIOUS
<1>3. IsFiniteSet(D) /\ Cardinality(D) = Len(s)
  BY <1>1, FS_Interval
<1> HIDE DEF D, R
<1>4. TotalOrder(R, D)
  <2>1. \A y, z \in D : Precedes(s, y, z) \/ Precedes(s, z, y)
    BY <1>1 DEF Precedes
  <2>2. \A y, z \in D : Precedes(s, y, z) /\ Precedes(s, z, y) => y = z
    BY <1>1 DEF Precedes
  <2>3. \A x, y, z \in D : Precedes(s, x, y) /\ Precedes(s, y, z) => Precedes(s, x, z)
    BY <1>1 DEF Precedes
  <2> QED
    BY <1>2, <2>1, <2>2, <2>3 DEF TotalOrder
<1> DEFINE At(a) == CHOOSE z \in D : Cardinality({y \in D : Precedes(s, y, z)}) = a
<1>5. ASSUME NEW a \in D PROVE At(a) \in D
  <2>1. PICK z \in D : Cardinality(UpTo(R, D, z)) = a
    BY <1>1, <1>3, <1>4, RankIsOnto
  <2>2. UpTo(R, D, z) = {y \in D : Precedes(s, y, z)}
    BY <1>2 DEF UpTo
  <2> QED
    BY <2>1, <2>2
<1> HIDE DEF At
<1> DEFINE q == [a \in D |-> s[At(a)]]
<1>6. Sorted(s) = q
  BY DEF Sorted, At, D
<1>7. q \in [1 .. Len(s) -> Nat \ {0}]
  BY <1>1, <1>5
<1> HIDE DEF q
<1>8. q \in Seq(Nat \ {0}) /\ Len(q) = Len(s)
  BY <1>1, <1>7
<1> QED
  BY <1>1, <1>6, <1>8

\* The sizes that the functions start from.
LEMMA InitSizes == Init => SizesOK
<1> SUFFICES ASSUME Init PROVE SizesOK
  OBVIOUS
<1>1. PICK t \in Trees : size = Sorted(nb_elmt_per_zone(t))
  BY DEF Init
<1> DEFINE s == nb_elmt_per_zone(t)
<1>2. /\ t.n_cell \in Seq(Nat) /\ t.n_cell # << >> /\ t.n_vtx \in Seq(Nat \ {0})
      /\ Len(t.n_vtx) = Len(t.n_cell)
  BY TreesAssumption
<1>3. s \in Seq(Nat \ {0}) /\ Len(s) # 0
  <2>1. CASE \E z \in DOMAIN t.n_cell : t.n_cell[z] = 0
    <3>1. s = t.n_vtx
      BY <2>1 DEF nb_elmt_per_zone
    <3> QED
      BY <1>2, <3>1
  <2>2. CASE ~ \E z \in DOMAIN t.n_cell : t.n_cell[z] = 0
    <3>1. s = t.n_cell
      BY <2>2 DEF nb_elmt_per_zone
    <3>2. \A z \in 1 .. Len(t.n_cell) : t.n_cell[z] \in Nat \ {0}
      BY <1>2, <2>2
    <3>3. t.n_cell \in [1 .. Len(t.n_cell) -> Nat \ {0}] /\ Len(t.n_cell) \in Nat
      BY <1>2, <3>2
    <3> DEFINE c == t.n_cell
    <3>4. c \in [1 .. Len(c) -> Nat \ {0}] /\ Len(c) \in Nat /\ c # << >> /\ c \in Seq(Nat)
      BY <1>2, <3>3
    <3> HIDE DEF c
    <3>5. c \in Seq(Nat \ {0})
      BY <3>4
    <3>6. Len(c) # 0
      BY <3>4, NoElement
    <3> QED
      BY <3>1, <3>5, <3>6 DEF c
  <2> QED
    BY <2>1, <2>2
<1> HIDE DEF s
<1> QED
  BY <1>1, <1>3, SortedIs DEF SizesOK, s

-----------------------------------------------------------------------------
\* What is given of a zone and what is left of it make it up; the load of a rank is what it
\* is given.
Accounted(rp, ld, lf) ==
  /\ lf \in [Zone -> Nat] /\ rp \in [Zone -> [Rank -> Nat]] /\ ld \in [Rank -> Nat]
  /\ \A z \in Zone : SumAt(rp[z], Rank) + lf[z] = size[z]
  /\ \A p \in Rank : ld[p] = SumAt([z \in Zone |-> rp[z][p]], Zone)

\* The accounts when n[z] cells of each zone z are given to rank p.
Given(rp, p, n) == [z \in Zone |-> [rp[z] EXCEPT ![p] = @ + n[z]]]
Loaded(ld, p, n) == [ld EXCEPT ![p] = @ + SumAt(n, Zone)]
Lowered(lf, n) == [z \in Zone |-> lf[z] - n[z]]

\* Giving cells to a rank keeps the accounts.
LEMMA GivingKeeps ==
  ASSUME SizesOK, NEW rp, NEW ld, NEW lf, Accounted(rp, ld, lf), NEW p \in Rank,
         NEW n \in [Zone -> Nat], \A z \in Zone : n[z] <= lf[z]
  PROVE  /\ Accounted(Given(rp, p, n), Loaded(ld, p, n), Lowered(lf, n))
         /\ SumAt(n, Zone) \in Nat
<1> DEFINE rq == Given(rp, p, n)
           lq == Loaded(ld, p, n)
           fq == Lowered(lf, n)
<1>1. /\ lf \in [Zone -> Nat] /\ rp \in [Zone -> [Rank -> Nat]] /\ ld \in [Rank -> Nat]
      /\ \A z \in Zone : SumAt(rp[z], Rank) + lf[z] = size[z]
      /\ \A a \in Rank : ld[a] = SumAt([z \in Zone |-> rp[z][a]], Zone)
  BY DEF Accounted
<1>2. IsFiniteSet(Zone) /\ IsFiniteSet(Rank) /\ \A z \in Zone : n[z] \in Nat
  BY ZoneFacts, RankFacts
<1>3. SumAt(n, Zone) \in Nat
  BY <1>2, SumNat
<1>4. fq \in [Zone -> Nat] /\ \A z \in Zone : fq[z] = lf[z] - n[z]
  BY <1>1 DEF Lowered
<1>5. /\ rq \in [Zone -> [Rank -> Nat]]
      /\ \A z \in Zone : rq[z][p] = rp[z][p] + n[z] /\ \A a \in Rank \ {p} : rq[z][a] = rp[z][a]
  BY <1>1 DEF Given
<1>6. lq \in [Rank -> Nat] /\ lq[p] = ld[p] + SumAt(n, Zone) /\ \A a \in Rank \ {p} : lq[a] = ld[a]
  BY <1>1, <1>3 DEF Loaded
<1> HIDE DEF rq, lq, fq
<1>7. ASSUME NEW z \in Zone PROVE SumAt(rq[z], Rank) + fq[z] = size[z]
  <2> DEFINE f == rp[z]
             g == rq[z]
  <2>1. /\ \A a \in Rank : f[a] \in Int
        /\ g[p] = f[p] + n[z] /\ (\A a \in Rank \ {p} : g[a] = f[a]) /\ n[z] \in Int
    BY <1>1, <1>2, <1>5
  <2> HIDE DEF f, g
  <2>2. SumAt(g, Rank) = SumAt(f, Rank) + n[z]
    BY <1>2, <2>1, SumExcept
  <2>3. SumAt(f, Rank) \in Int
    BY <1>2, <2>1, SumTake
  <2>4. SumAt(f, Rank) + lf[z] = size[z] /\ fq[z] = lf[z] - n[z] /\ lf[z] \in Int
    BY <1>1, <1>4 DEF f
  <2>5. SumAt(g, Rank) + fq[z] = size[z]
    BY <2>1, <2>2, <2>3, <2>4
  <2> QED
    BY <2>5 DEF g
<1>8. ASSUME NEW a \in Rank PROVE lq[a] = SumAt([z \in Zone |-> rq[z][a]], Zone)
  <2> DEFINE f == [z \in Zone |-> rp[z][a]]
             g == [z \in Zone |-> rq[z][a]]
  <2>1. \A z \in Zone : f[z] \in Int /\ f[z] = rp[z][a] /\ g[z] = rq[z][a]
    BY <1>1
  <2>2. ld[a] = SumAt(f, Zone)
    BY <1>1
  <2> HIDE DEF f, g
  <2>3. CASE a = p
    <3>1. \A z \in Zone : f[z] \in Int /\ n[z] \in Int /\ g[z] = f[z] + n[z]
      BY <1>2, <1>5, <2>1, <2>3
    <3>2. SumAt(g, Zone) = SumAt(f, Zone) + SumAt(n, Zone)
      BY <1>2, <3>1, SumPlus
    <3> QED
      BY <1>6, <2>2, <2>3, <3>2 DEF g
  <2>4. CASE a # p
    <3>1. \A z \in Zone : f[z] \in Int /\ g[z] = f[z]
      BY <1>5, <2>1, <2>4
    <3>2. SumAt(g, Zone) = SumAt(f, Zone)
      BY <1>2, <3>1, SumSame
    <3>3. lq[a] = ld[a]
      BY <1>6, <2>4
    <3> QED
      BY <2>2, <3>2, <3>3 DEF g
  <2> QED
    BY <2>3, <2>4
<1>9. Accounted(rq, lq, fq)
  BY <1>4, <1>5, <1>6, <1>7, <1>8 DEF Accounted
<1> QED
  BY <1>3, <1>9 DEF rq, lq, fq

\* The cells given of one zone only.
LEMMA CellsOfOne ==
  ASSUME SizesOK, NEW z \in Zone, NEW n \in Nat
  PROVE  NU!Cells(z, n) \in [Zone -> Nat] /\ SumAt(NU!Cells(z, n), Zone) = n
<1> DEFINE c == NU!Cells(z, n)
<1>1. c = [y \in Zone |-> IF y = z THEN n ELSE 0]
  BY NonUniformUses DEF NU!Cells
<1>2. c \in [Zone -> Nat] /\ c[z] = n /\ \A y \in Zone \ {z} : c[y] = 0
  BY <1>1
<1> HIDE DEF c
<1>3. IsFiniteSet(Zone) /\ IsFiniteSet({z}) /\ {z} \in SUBSET Zone /\ IsFiniteSet({})
  BY ZoneFacts, FS_Singleton, FS_EmptySet
<1>4. SumAt(c, Zone) = SumAt(c, {z})
  BY <1>2, <1>3, SumWithin
<1>5. SumAt(c, {z}) = c[z] + SumAt(c, {z} \ {z})
  BY <1>2, <1>3, SumTake
<1>6. SumAt(c, {z} \ {z}) = 0
  <2>1. {z} \ {z} = {}
    OBVIOUS
  <2>2. \A y \in {} : c[y] \in Int
    OBVIOUS
  <2>3. SumAt(c, {}) = 0
    BY <1>3, <2>2, SumTake
  <2> QED
    BY <2>1, <2>3
<1> QED
  BY <1>2, <1>4, <1>5, <1>6 DEF c

-----------------------------------------------------------------------------
\* The zones that are left.
LEMMA TodoIs ==
  ASSUME SizesOK, left \in [Zone -> Nat]
  PROVE  /\ NU!Todo \in SUBSET Zone /\ IsFiniteSet(NU!Todo)
         /\ \A z \in Zone : z \in NU!Todo <=> left[z] > 0
<1>1. NU!Todo = {z \in Zone : left[z] > 0}
  BY NonUniformUses DEF NU!Todo
<1>2. IsFiniteSet(Zone)
  BY ZoneFacts
<1>3. NU!Todo \in SUBSET Zone
  BY <1>1
<1>4. IsFiniteSet(NU!Todo)
  BY <1>2, <1>3, FS_Subset
<1> QED
  BY <1>1, <1>3, <1>4

\* Step 0: the zones that are found are left whole, and have together the wanted load.
LEMMA FoundIs ==
  ASSUME SizesOK, left \in [Zone -> Nat], NEW t \in Nat, t = mean - k
  PROVE  /\ NU!Found \in SUBSET NU!Todo
         /\ NU!Found = {} \/ SumAt(left, NU!Found) = t
<1> DEFINE T == NU!Todo
           R == {e \in T \X T : e[1] <= e[2]}
           m == Cardinality(T)
           At(a) == CHOOSE z \in T : Cardinality({y \in T : y <= z}) = a
           zones == [a \in 1 .. m |-> At(a)]
           x == [a \in DOMAIN zones |-> left[zones[a]]]
           M == search_subset_match(x, t)
<1>1. T \in SUBSET Zone /\ T \in SUBSET Nat /\ IsFiniteSet(T)
  BY TodoIs, ZoneFacts
<1>2. NU!Found = {zones[a] : a \in M}
  <2>1. NU!Found = {zones[a] : a \in NU!search_subset_match(x, mean - k)}
    BY DEF NU!Found, NU!Cardinality, Cardinality
  <2> HIDE DEF zones, x
  <2>2. NU!search_subset_match(x, mean - k) = M
    BY NonUniformUses
  <2> QED
    BY <2>1, <2>2
<1>3. m \in Nat
  BY <1>1, FS_CardinalityType
<1>4. \A y, z \in T : <<y, z>> \in R <=> y <= z
  OBVIOUS
<1> HIDE DEF T, R
<1>5. TotalOrder(R, T)
  BY <1>1, <1>4 DEF TotalOrder
<1>6. ASSUME NEW a \in 1 .. m PROVE At(a) \in T /\ Cardinality({y \in T : y <= At(a)}) = a
  <2>3. \A b \in 1 .. Cardinality(T) : \E z \in T : Cardinality(UpTo(R, T, z)) = b
    <3>1. IsFiniteSet(T)
      BY <1>1
    <3>2. /\ \A b \in 1 .. Cardinality(T) : \E z \in T : Cardinality(UpTo(R, T, z)) = b
          /\ \A z \in T : Cardinality(UpTo(R, T, z)) \in 1 .. Cardinality(T)
          /\ \A y, z \in T : Cardinality(UpTo(R, T, y)) = Cardinality(UpTo(R, T, z)) => y = z
      BY <1>5, <3>1, RankIsOnto, Zenon
    <3> QED
      BY <3>2
  <2>1. PICK z \in T : Cardinality(UpTo(R, T, z)) = a
    BY <2>3
  <2>2. UpTo(R, T, z) = {y \in T : y <= z}
    BY <1>4 DEF UpTo
  <2> QED
    BY <2>1, <2>2
<1> HIDE DEF m, At
<1>7. /\ DOMAIN zones = 1 .. m /\ \A a \in 1 .. m : zones[a] = At(a) /\ zones[a] \in T
  BY <1>6
<1>8. \A a, b \in 1 .. m : zones[a] = zones[b] => a = b
  BY <1>6, <1>7
<1> HIDE DEF zones
<1>9. x \in Seq(Nat) /\ DOMAIN x = 1 .. m /\ \A a \in 1 .. m : x[a] = left[zones[a]] /\ x[a] \in Nat
  <2>1. x \in [1 .. m -> Nat] /\ \A a \in 1 .. m : x[a] = left[zones[a]]
    BY <1>1, <1>7
  <2> HIDE DEF x
  <2>2. x \in Seq(Nat)
    BY <1>3, <2>1
  <2> QED
    BY <2>1, <2>2
<1> HIDE DEF x
<1>10. M \in SUBSET (DOMAIN x) /\ (M = {} \/ SumAt(x, M) = t)
  BY <1>9, MatchHasSum
<1> HIDE DEF M
<1>11. NU!Found \in SUBSET T
  BY <1>2, <1>7, <1>9, <1>10
<1>12. M = {} => NU!Found = {}
  BY <1>2
<1>13. SumAt(left, {zones[a] : a \in M}) = SumAt(x, M)
  <2>1. IsFiniteSet(1 .. m) /\ M \in SUBSET (1 .. m)
    BY <1>3, <1>9, <1>10, FS_Interval
  <2>2. IsFiniteSet(M)
    BY <2>1, FS_Subset
  <2>3. \A a \in M : x[a] \in Int /\ left[zones[a]] = x[a]
    BY <1>9, <2>1
  <2>4. \A a, b \in M : zones[a] = zones[b] => a = b
    BY <1>8, <2>1
  <2> QED
    BY <2>2, <2>3, <2>4, SumImage
<1> QED
  BY <1>2, <1>10, <1>11, <1>12, <1>13 DEF T

\* Their cells, given to a rank, are its load.
LEMMA FoundCells ==
  ASSUME SizesOK, left \in [Zone -> Nat], NEW t \in Nat, t = mean - k, NU!Found # {}
  PROVE  LET n == [z \in Zone |-> IF z \in NU!Found THEN left[z] ELSE 0]
         IN  n \in [Zone -> Nat] /\ (\A z \in Zone : n[z] <= left[z]) /\ SumAt(n, Zone) = t
<1> DEFINE F == NU!Found
           n == [z \in Zone |-> IF z \in F THEN left[z] ELSE 0]
<1>1. F \in SUBSET NU!Todo /\ SumAt(left, F) = t
  BY FoundIs
<1>2. F \in SUBSET Zone /\ IsFiniteSet(Zone)
  BY <1>1, TodoIs, ZoneFacts
<1> HIDE DEF F
<1>3. /\ n \in [Zone -> Nat] /\ (\A z \in Zone : n[z] <= left[z] /\ n[z] \in Int)
      /\ (\A z \in F : n[z] = left[z] /\ left[z] \in Int) /\ \A z \in Zone \ F : n[z] = 0
  BY <1>2
<1> HIDE DEF n
<1>4. IsFiniteSet(F)
  BY <1>2, FS_Subset
<1>5. SumAt(n, Zone) = SumAt(n, F)
  BY <1>2, <1>3, SumWithin
<1>6. SumAt(n, F) = SumAt(left, F)
  BY <1>3, <1>4, SumSame
<1> QED
  BY <1>1, <1>3, <1>5, <1>6 DEF n, F

-----------------------------------------------------------------------------
\* The least loaded rank, and the most loaded one.
LEMMA ArgIs ==
  ASSUME NEW S \in SUBSET Rank, S # {}, NEW ld \in [Rank -> Nat]
  PROVE  NU!argmin(S, ld) \in S /\ NU!argmax(S, ld) \in S
<1>1. IsFiniteSet(S) /\ \A p \in S : p \in Nat /\ ld[p] \in Nat
  BY RankFacts, FS_Subset
<1> DEFINE A == {e \in S \X S : ld[e[1]] < ld[e[2]] \/ (ld[e[1]] = ld[e[2]] /\ e[1] <= e[2])}
           B == {e \in S \X S : ld[e[1]] > ld[e[2]] \/ (ld[e[1]] = ld[e[2]] /\ e[1] <= e[2])}
<1>2. \A p, q \in S : /\ <<p, q>> \in A <=> ld[p] < ld[q] \/ (ld[p] = ld[q] /\ p <= q)
                      /\ <<p, q>> \in B <=> ld[p] > ld[q] \/ (ld[p] = ld[q] /\ p <= q)
  OBVIOUS
<1> HIDE DEF A, B
<1>3. TotalOrder(A, S)
  BY <1>1, <1>2 DEF TotalOrder
<1>4. TotalOrder(B, S)
  BY <1>1, <1>2 DEF TotalOrder
<1>5. PICK a \in S : \A q \in S : <<a, q>> \in A
  BY <1>1, <1>3, FirstExists
<1>6. PICK b \in S : \A q \in S : <<b, q>> \in B
  BY <1>1, <1>4, FirstExists
<1>7. NU!argmin(S, ld) \in S
  BY <1>2, <1>5 DEF NU!argmin
<1>8. NU!argmax(S, ld) \in S
  BY <1>2, <1>6 DEF NU!argmax
<1> QED
  BY <1>7, <1>8

\* The first rank of a cut.
LEMMA FirstOfIs ==
  ASSUME NEW S \in SUBSET Rank, S # {}, load \in [Rank -> Nat]
  PROVE  NU!FirstOf(S) \in S
<1>1. IsFiniteSet(S) /\ \A p \in S : p \in Nat /\ load[p] \in Nat
  BY RankFacts, FS_Subset
<1> DEFINE A == {e \in S \X S : e[1] = e[2] \/ NU!Before(e[1], e[2])}
<1>2. \A p, q \in S : <<p, q>> \in A <=>
        p = q \/ load[p] > load[q] \/ (load[p] = load[q] /\ p > q)
  BY DEF NU!Before
<1> HIDE DEF A
<1>3. TotalOrder(A, S)
  BY <1>1, <1>2 DEF TotalOrder
<1>4. PICK a \in S : \A q \in S : <<a, q>> \in A
  BY <1>1, <1>3, FirstExists
<1>5. \A q \in S \ {a} : NU!Before(a, q)
  BY <1>2, <1>4 DEF NU!Before
<1> QED
  BY <1>5 DEF NU!FirstOf

\* Some rank is nearest to the mean after a cut.
LEMMA NearestExists ==
  ASSUME NEW S \in SUBSET Rank, S # {}, NEW gap \in [Rank -> Nat]
  PROVE  \E p \in S : \A q \in S : gap[p] <= gap[q]
<1>1. {gap[p] : p \in S} \in SUBSET Nat /\ {gap[p] : p \in S} # {}
  OBVIOUS
<1>2. PICK d \in {gap[p] : p \in S} : \A e \in {gap[p] : p \in S} : d <= e
  BY <1>1, LeastNat
<1> QED
  BY <1>2

-----------------------------------------------------------------------------
\* The quotient and the remainder.
LEMMA Division ==
  ASSUME NEW a \in Nat, NEW b \in Nat, b # 0
  PROVE  a \div b \in Nat /\ a % b \in Nat /\ a % b < b /\ a = b * (a \div b) + (a % b)
OBVIOUS

\* The wanted load of a rank is positive, with and without tolerance.
LEMMA MeansArePositive ==
  ASSUME SizesOK, tol \in Nat
  PROVE  \A m \in NU!Means : m \in Nat /\ m >= 1
<1> DEFINE t == NU!Total
           g == NU!initial_mean_per_rank
<1>1. t \in Nat /\ t >= 1
  <2>1. IsFiniteSet(Zone) /\ 1 \in Zone /\ \A z \in Zone : size[z] \in Nat /\ size[z] > 0
    BY ZoneFacts
  <2>2. t = SumAt(size, Zone)
    BY NonUniformUses DEF NU!Total
  <2>3. IsFiniteSet(Zone \ {1}) /\ \A z \in Zone \ {1} : size[z] \in Nat
    BY <2>1, FS_Subset
  <2>4. SumAt(size, Zone \ {1}) \in Nat
    BY <2>3, SumNat
  <2>5. SumAt(size, Zone) = size[1] + SumAt(size, Zone \ {1})
    BY <2>1, SumTake
  <2> QED
    BY <2>1, <2>2, <2>4, <2>5
<1>2. NRank \in Nat /\ NRank # 0
  BY RankFacts
<1>3. g = t \div NRank + (IF t % NRank = 0 THEN 0 ELSE 1)
  BY DEF NU!initial_mean_per_rank
<1> HIDE DEF t, g
<1>4. /\ t \div NRank \in Nat /\ t % NRank \in Nat
      /\ t = NRank * (t \div NRank) + (t % NRank)
  BY <1>1, <1>2, Division
<1>5. g \in Nat /\ g >= 1
  <2> DEFINE q == t \div NRank
             m == t % NRank
  <2>1. q \in Nat /\ m \in Nat /\ t = NRank * q + m /\ g = q + (IF m = 0 THEN 0 ELSE 1)
    BY <1>3, <1>4
  <2> HIDE DEF q, m
  <2>2. q = 0 => t = m
    BY <1>2, <2>1
  <2> QED
    BY <1>1, <2>1, <2>2
<1> DEFINE e == g * (100 + tol)
<1>6. e \in Nat /\ e >= 100 + tol
  <2>1. PICK d \in Nat : g = d + 1
    BY <1>5
  <2>2. e = d * (100 + tol) + (100 + tol) /\ d * (100 + tol) \in Nat
    BY <2>1
  <2> QED
    BY <2>2
<1>7. NU!Means = IF e % 100 = 0 /\ tol > 0 THEN {e \div 100, e \div 100 - 1} ELSE {e \div 100}
  BY DEF NU!Means, g
<1> HIDE DEF e
<1>8. e \div 100 \in Nat /\ e \div 100 >= 1 /\ (e % 100 = 0 /\ tol > 0 => e \div 100 >= 2)
  BY <1>6
<1> QED
  BY <1>7, <1>8

\* 75% of the mean is within it, and the chunks are not negative.
LEMMA AllowedIs ==
  ASSUME mean \in Nat, mean >= 1
  PROVE  /\ NU!allowed_load_ini \in Nat /\ NU!allowed_load_ini <= mean
         /\ NU!min_chunk_size \in Nat
BY DEF NU!allowed_load_ini, NU!min_chunk_size

\* The accounts of a round that starts.
LEMMA FreshAccounts ==
  ASSUME SizesOK
  PROVE  Accounted([z \in Zone |-> [p \in Rank |-> 0]], [p \in Rank |-> 0], size)
<1> DEFINE rp == [z \in Zone |-> [p \in Rank |-> 0]]
           ld == [p \in Rank |-> 0]
<1>1. IsFiniteSet(Zone) /\ IsFiniteSet(Rank) /\ \A z \in Zone : size[z] \in Nat
  BY ZoneFacts, RankFacts
<1>2. size \in [Zone -> Nat]
  <2>1. size \in Seq(Nat \ {0}) /\ Zone = DOMAIN size
    BY DEF SizesOK, Zone
  <2> QED
    BY <1>1, <2>1
<1>3. rp \in [Zone -> [Rank -> Nat]] /\ ld \in [Rank -> Nat]
  OBVIOUS
<1>4. ASSUME NEW z \in Zone PROVE SumAt(rp[z], Rank) + size[z] = size[z]
  <2> DEFINE f == rp[z]
  <2>1. \A p \in Rank : f[p] = 0
    OBVIOUS
  <2> HIDE DEF f
  <2>2. SumAt(f, Rank) = 0
    BY <1>1, <2>1, SumZero
  <2> QED
    BY <1>1, <2>2 DEF f
<1>5. ASSUME NEW p \in Rank PROVE ld[p] = SumAt([z \in Zone |-> rp[z][p]], Zone)
  <2> DEFINE f == [z \in Zone |-> rp[z][p]]
  <2>1. \A z \in Zone : f[z] = 0
    OBVIOUS
  <2> HIDE DEF f
  <2>2. SumAt(f, Zone) = 0
    BY <1>1, <2>1, SumZero
  <2>3. ld[p] = 0
    OBVIOUS
  <2> QED
    BY <2>2, <2>3 DEF f
<1> HIDE DEF rp, ld
<1>6. Accounted(rp, ld, size)
  BY <1>2, <1>3, <1>4, <1>5 DEF Accounted
<1> QED
  BY <1>6 DEF rp, ld

-----------------------------------------------------------------------------
\* The inductive invariant of balance_with_non_uniform_weights: the accounts are right at any
\* time, and up to the end of step 1 no rank has more than the mean, because the ranks that
\* step 0 has not reached have nothing; at the end nothing is left.
NonUniformInv ==
  /\ SizesOK
  /\ Accounted(rep, load, left)
  /\ cur \in 0 .. NRank /\ open \in SUBSET Rank /\ k \in {0, 1} /\ tol \in Nat /\ mean \in Nat
  /\ pc \in {"match", "fill"} => \A p \in Rank : load[p] <= mean
  /\ pc = "match" => \A p \in Rank : p >= cur => load[p] = 0
  /\ pc \in {"match", "fill", "treat"} => mean >= 1
  /\ pc \in {"done", "returned"} => \A z \in Zone : left[z] = 0

\* The invariant says what the runs check.
LEMMA NonUniformInvIs ==
  NonUniformInv => NU!TypeOK /\ NU!RepartConserved /\ NU!LoadsAgree /\ NU!FilledWithinMean
<1> SUFFICES ASSUME NonUniformInv
             PROVE  NU!TypeOK /\ NU!RepartConserved /\ NU!LoadsAgree /\ NU!FilledWithinMean
  OBVIOUS
<1>1. Accounted(rep, load, left)
  BY DEF NonUniformInv
<1>2. NU!TypeOK
  BY <1>1, NonUniformUses DEF NonUniformInv, Accounted, NU!TypeOK
<1>3. NU!RepartConserved
  BY <1>1, NonUniformUses DEF Accounted, NU!RepartConserved
<1>4. NU!LoadsAgree
  <2> SUFFICES ASSUME NEW p \in Rank
               PROVE  load[p] = NU!SumAt([z \in NU!Zone |-> rep[z][p]], NU!Zone)
    BY NonUniformUses DEF NU!LoadsAgree
  <2> DEFINE f == [z \in Zone |-> rep[z][p]]
  <2>1. load[p] = SumAt(f, Zone)
    BY <1>1 DEF Accounted
  <2>2. f = [z \in NU!Zone |-> rep[z][p]]
    BY NonUniformUses
  <2> HIDE DEF f
  <2>3. NU!SumAt(f, NU!Zone) = SumAt(f, Zone)
    BY NonUniformUses
  <2> QED
    BY <2>1, <2>2, <2>3
<1>5. NU!FilledWithinMean
  BY NonUniformUses DEF NonUniformInv, NU!FilledWithinMean
<1> QED
  BY <1>2, <1>3, <1>4, <1>5

\* A step that gives n[z] cells of each zone z to rank p keeps the accounts.
LEMMA AffectKeeps ==
  ASSUME NonUniformInv, NEW p \in Rank, NEW n \in [Zone -> Nat], \A z \in Zone : n[z] <= left[z],
         NU!Affect(p, n), size' = size
  PROVE  /\ SizesOK' /\ Accounted(rep, load, left)' /\ load' \in [Rank -> Nat]
         /\ load'[p] = load[p] + SumAt(n, Zone) /\ \A q \in Rank \ {p} : load'[q] = load[q]
<1>1. SizesOK /\ Accounted(rep, load, left) /\ load \in [Rank -> Nat]
  BY DEF NonUniformInv, Accounted
<1>2. rep' = Given(rep, p, n) /\ load' = Loaded(load, p, n) /\ left' = Lowered(left, n)
  BY NonUniformUses DEF NU!Affect, Given, Loaded, Lowered
<1>3. Zone' = Zone /\ SizesOK'
  BY <1>1 DEF Zone, SizesOK
<1>4. Accounted(rep', load', left')
  BY <1>1, <1>2, GivingKeeps
<1>5. Accounted(rep, load, left)'
  BY <1>3, <1>4 DEF Accounted
<1>6. load' \in [Rank -> Nat]
  BY <1>4 DEF Accounted
<1>7. load'[p] = load[p] + SumAt(n, Zone) /\ \A q \in Rank \ {p} : load'[q] = load[q]
  BY <1>1, <1>2 DEF Loaded
<1> QED
  BY <1>3, <1>5, <1>6, <1>7

\* A round starts again from nothing.
LEMMA StartKeeps == NonUniformInv /\ NU!Start => NonUniformInv'
<1> SUFFICES ASSUME NonUniformInv, NU!Start PROVE NonUniformInv'
  OBVIOUS
<1>1. /\ mean' \in NU!Means /\ left' = size /\ rep' = [z \in Zone |-> [p \in Rank |-> 0]]
      /\ load' = [p \in Rank |-> 0] /\ cur' = 0 /\ open' = Rank /\ k' = 0 /\ pc' = "match"
      /\ size' = size /\ tol' = tol
  BY NonUniformUses DEF NU!Start
<1>2. SizesOK /\ tol \in Nat
  BY DEF NonUniformInv
<1>3. Zone' = Zone /\ SizesOK'
  BY <1>1, <1>2 DEF Zone, SizesOK
<1>4. Accounted(rep', load', left')
  BY <1>1, <1>2, FreshAccounts
<1>5. Accounted(rep, load, left)'
  BY <1>1, <1>3, <1>4 DEF Accounted
<1>6. mean' \in Nat /\ mean' >= 1
  BY <1>1, <1>2, MeansArePositive
<1>7. \A p \in Rank : load'[p] = 0
  BY <1>1
<1>8. cur' \in 0 .. NRank
  BY <1>1, RankFacts
<1> QED
  BY <1>1, <1>2, <1>3, <1>5, <1>6, <1>7, <1>8 DEF NonUniformInv

\* Step 0: a rank gets the zones found.
LEMMA MatchKeeps == NonUniformInv /\ NU!Match => NonUniformInv'
<1> SUFFICES ASSUME NonUniformInv, NU!Match PROVE NonUniformInv'
  OBVIOUS
<1>1. /\ pc = "match" /\ NU!Found # {} /\ size' = size /\ tol' = tol /\ mean' = mean
      /\ open' = open /\ k' = k
  BY DEF NU!Match
<1>2. /\ SizesOK /\ Accounted(rep, load, left) /\ left \in [Zone -> Nat] /\ load \in [Rank -> Nat]
      /\ cur \in 0 .. NRank /\ open \in SUBSET Rank /\ k \in {0, 1} /\ tol \in Nat
      /\ mean \in Nat /\ mean >= 1 /\ (\A p \in Rank : load[p] <= mean)
      /\ \A p \in Rank : p >= cur => load[p] = 0
  BY <1>1 DEF NonUniformInv, Accounted
<1>3. CASE cur < NRank
  <2> DEFINE n == [z \in Zone |-> IF z \in NU!Found THEN left[z] ELSE 0]
             t == mean - k
  <2>1. NU!Affect(cur, n) /\ cur' = cur + 1 /\ pc' = pc
    BY <1>1, <1>3, NonUniformUses DEF NU!Match
  <2>2. t \in Nat /\ t <= mean
    BY <1>2
  <2>3. n \in [Zone -> Nat] /\ (\A z \in Zone : n[z] <= left[z]) /\ SumAt(n, Zone) = t
    BY <1>1, <1>2, <2>2, FoundCells
  <2>4. cur \in Rank /\ NRank \in Nat
    BY <1>2, <1>3, RankFacts
  <2> HIDE DEF n, t
  <2>5. /\ SizesOK' /\ Accounted(rep, load, left)' /\ load' \in [Rank -> Nat]
        /\ load'[cur] = load[cur] + SumAt(n, Zone) /\ \A q \in Rank \ {cur} : load'[q] = load[q]
    BY <1>1, <2>1, <2>3, <2>4, AffectKeeps
  <2>6. load'[cur] = t
    BY <1>2, <2>2, <2>3, <2>4, <2>5
  <2>7. ASSUME NEW p \in Rank PROVE load'[p] <= mean' /\ (p >= cur' => load'[p] = 0)
    <3>1. CASE p = cur
      BY <1>1, <1>2, <2>1, <2>2, <2>6, <3>1
    <3>2. CASE p # cur
      <4>1. load'[p] = load[p] /\ p \in Nat
        BY <2>5, <3>2, RankFacts
      <4> QED
        BY <1>1, <1>2, <2>1, <4>1
    <3> QED
      BY <3>1, <3>2
  <2>8. cur' \in 0 .. NRank
    BY <1>2, <1>3, <2>1, <2>4
  <2> QED
    BY <1>1, <1>2, <2>1, <2>5, <2>7, <2>8 DEF NonUniformInv
<1>4. CASE ~ (cur < NRank)
  <2>1. pc' = "raised" /\ rep' = rep /\ load' = load /\ left' = left /\ cur' = cur
    BY <1>1, <1>4 DEF NU!Match
  <2>2. Zone' = Zone /\ SizesOK'
    BY <1>1, <1>2 DEF Zone, SizesOK
  <2>3. Accounted(rep, load, left)'
    BY <1>1, <1>2, <2>1, <2>2 DEF Accounted
  <2> QED
    BY <1>1, <1>2, <2>1, <2>2, <2>3 DEF NonUniformInv
<1> QED
  BY <1>3, <1>4

\* The steps that only change where the rounds are.
LEMMA QuietKeeps ==
  ASSUME NonUniformInv, UNCHANGED <<size, tol, mean, left, rep, load, open>>,
         cur' \in 0 .. NRank, k' \in {0, 1},
         \/ pc' = "match" /\ pc = "match" /\ cur' = cur
         \/ pc' = "fill" /\ pc \in {"match", "fill"}
         \/ pc' = "treat" /\ pc \in {"fill", "treat"}
         \/ pc' = "raised"
         \/ pc' = "returned" /\ pc \in {"done", "returned"}
  PROVE  NonUniformInv'
<1>1. Zone' = Zone /\ SizesOK'
  BY DEF NonUniformInv, Zone, SizesOK
<1>2. Accounted(rep, load, left)'
  BY <1>1 DEF NonUniformInv, Accounted
<1> QED
  BY <1>1, <1>2 DEF NonUniformInv

\* The first zone that is left.
LEMMA SmallestIs ==
  ASSUME NonUniformInv, NU!Todo # {}
  PROVE  NU!Smallest \in Zone /\ NU!Smallest \in NU!Todo /\ NU!n_elem = left[NU!Smallest]
         /\ NU!n_elem \in Nat /\ NU!n_elem > 0
<1>1. SizesOK /\ left \in [Zone -> Nat]
  BY DEF NonUniformInv, Accounted
<1>2. NU!Todo \in SUBSET Zone /\ NU!Todo \in SUBSET Nat
  BY <1>1, TodoIs, ZoneFacts
<1>3. PICK z \in NU!Todo : \A y \in NU!Todo : z <= y
  BY <1>2, LeastNat
<1>4. NU!Smallest \in NU!Todo
  BY <1>3 DEF NU!Smallest, NU!Min
<1>5. NU!n_elem = left[NU!Smallest]
  BY DEF NU!n_elem
<1>6. NU!Smallest \in Zone /\ left[NU!Smallest] > 0
  BY <1>1, <1>2, <1>4, TodoIs
<1> QED
  BY <1>1, <1>4, <1>5, <1>6

\* A step that gives cells of this zone keeps the accounts.
LEMMA CellsKeep ==
  ASSUME NonUniformInv, NU!Todo # {}, NEW p \in Rank, NEW n \in Nat, n <= left[NU!Smallest],
         NU!Affect(p, NU!Cells(NU!Smallest, n)), size' = size
  PROVE  /\ SizesOK' /\ Accounted(rep, load, left)' /\ load' \in [Rank -> Nat]
         /\ load'[p] = load[p] + n /\ \A q \in Rank \ {p} : load'[q] = load[q]
<1> DEFINE z == NU!Smallest
           c == NU!Cells(z, n)
<1>1. z \in Zone /\ SizesOK /\ left \in [Zone -> Nat]
  BY SmallestIs DEF NonUniformInv, Accounted
<1>2. c = [y \in Zone |-> IF y = z THEN n ELSE 0]
  BY NonUniformUses DEF NU!Cells
<1> HIDE DEF z
<1>3. c \in [Zone -> Nat] /\ SumAt(c, Zone) = n
  BY <1>1, CellsOfOne
<1>4. \A y \in Zone : c[y] <= left[y]
  <2> TAKE y \in Zone
  <2>1. c[y] = IF y = z THEN n ELSE 0
    BY <1>2
  <2>2. left[y] \in Nat
    BY <1>1
  <2> QED
    BY <2>1, <2>2 DEF z
<1>5. NU!Affect(p, c)
  BY DEF z
<1> HIDE DEF c
<1> QED
  BY <1>3, <1>4, <1>5, AffectKeeps

\* Nothing is found: the other search, or step 1.
LEMMA NoMatchKeeps == NonUniformInv /\ NU!NoMatch => NonUniformInv'
<1> SUFFICES ASSUME NonUniformInv, NU!NoMatch PROVE NonUniformInv'
  OBVIOUS
<1>1. /\ pc = "match" /\ UNCHANGED <<size, tol, mean, left, rep, load, cur, open>>
      /\ (k' = 1 /\ pc' = pc) \/ (pc' = "fill" /\ k' = k)
  BY DEF NU!NoMatch
<1>2. cur' \in 0 .. NRank /\ k' \in {0, 1}
  BY <1>1 DEF NonUniformInv
<1> QED
  BY <1>1, <1>2, QuietKeeps

\* Step 1: a small zone goes to the current rank, up to 75% of the mean.
LEMMA FillKeeps == NonUniformInv /\ NU!Fill => NonUniformInv'
<1> SUFFICES ASSUME NonUniformInv, NU!Fill PROVE NonUniformInv'
  OBVIOUS
<1> DEFINE n == left[NU!Smallest]
<1>1. /\ pc = "fill" /\ NU!Todo # {} /\ cur < NRank /\ n <= NU!allowed_load_ini - load[cur]
      /\ NU!Affect(cur, NU!Cells(NU!Smallest, n))
      /\ UNCHANGED <<size, tol, mean, cur, open, k, pc>>
  BY DEF NU!Fill
<1>2. /\ load \in [Rank -> Nat] /\ cur \in 0 .. NRank /\ open \in SUBSET Rank /\ k \in {0, 1}
      /\ tol \in Nat /\ mean \in Nat /\ mean >= 1 /\ \A p \in Rank : load[p] <= mean
  BY <1>1 DEF NonUniformInv, Accounted
<1>3. n \in Nat /\ n <= left[NU!Smallest]
  BY <1>1, SmallestIs
<1>4. cur \in Rank
  BY <1>1, <1>2, RankFacts
<1> HIDE DEF n
<1>5. /\ SizesOK' /\ Accounted(rep, load, left)' /\ load' \in [Rank -> Nat]
      /\ load'[cur] = load[cur] + n /\ \A q \in Rank \ {cur} : load'[q] = load[q]
  BY <1>1, <1>3, <1>4, CellsKeep
<1>6. NU!allowed_load_ini \in Nat /\ NU!allowed_load_ini <= mean
  BY <1>2, AllowedIs
<1>7. load'[cur] <= mean
  BY <1>1, <1>2, <1>3, <1>4, <1>5, <1>6
<1>8. \A p \in Rank : load'[p] <= mean'
  BY <1>1, <1>2, <1>5, <1>7
<1> QED
  BY <1>1, <1>2, <1>5, <1>8 DEF NonUniformInv

\* The next rank is filled.
LEMMA NextProcKeeps == NonUniformInv /\ NU!NextProc => NonUniformInv'
<1> SUFFICES ASSUME NonUniformInv, NU!NextProc PROVE NonUniformInv'
  OBVIOUS
<1>1. /\ pc = "fill" /\ cur < NRank - 1 /\ cur' = cur + 1
      /\ UNCHANGED <<size, tol, mean, left, rep, load, open, k, pc>>
  BY DEF NU!NextProc
<1>2. cur' \in 0 .. NRank /\ k' \in {0, 1}
  BY <1>1, RankFacts DEF NonUniformInv
<1> QED
  BY <1>1, <1>2, QuietKeeps

\* Step 1 ends.
LEMMA EndFillKeeps == NonUniformInv /\ NU!EndFill => NonUniformInv'
<1> SUFFICES ASSUME NonUniformInv, NU!EndFill PROVE NonUniformInv'
  OBVIOUS
<1>1. /\ pc = "fill" /\ pc' \in {"treat", "raised"}
      /\ UNCHANGED <<size, tol, mean, left, rep, load, cur, open, k>>
  BY DEF NU!EndFill
<1>2. cur' \in 0 .. NRank /\ k' \in {0, 1}
  BY <1>1 DEF NonUniformInv
<1> QED
  BY <1>1, <1>2, QuietKeeps

\* No rank is left for a zone.
LEMMA NoneLeftKeeps == NonUniformInv /\ NU!NoneLeft => NonUniformInv'
<1> SUFFICES ASSUME NonUniformInv, NU!NoneLeft PROVE NonUniformInv'
  OBVIOUS
<1>1. pc' = "raised" /\ UNCHANGED <<size, tol, mean, left, rep, load, cur, open, k>>
  BY DEF NU!NoneLeft
<1>2. cur' \in 0 .. NRank /\ k' \in {0, 1}
  BY <1>1 DEF NonUniformInv
<1> QED
  BY <1>1, <1>2, QuietKeeps

\* The round is over.
LEMMA ConvergeKeeps == NonUniformInv /\ NU!Converge => NonUniformInv'
<1> SUFFICES ASSUME NonUniformInv, NU!Converge PROVE NonUniformInv'
  OBVIOUS
<1>1. /\ UNCHANGED <<size, mean, left, rep, load, cur, open, k>> /\ NU!Todo = {}
      /\ (pc' = "done" /\ tol' = tol) \/ (pc' = "start" /\ tol' = tol + 1)
  BY DEF NU!Converge
<1>2. Zone' = Zone /\ SizesOK'
  BY <1>1 DEF NonUniformInv, Zone, SizesOK
<1>3. Accounted(rep, load, left)'
  BY <1>1, <1>2 DEF NonUniformInv, Accounted
<1>4. tol' \in Nat
  BY <1>1 DEF NonUniformInv
<1>5. \A z \in Zone : left[z] = 0
  <2>1. SizesOK /\ left \in [Zone -> Nat]
    BY DEF NonUniformInv, Accounted
  <2> TAKE z \in Zone
  <2>2. ~ (left[z] > 0) /\ left[z] \in Nat
    BY <1>1, <2>1, TodoIs
  <2> QED
    BY <2>2
<1> QED
  BY <1>1, <1>2, <1>3, <1>4, <1>5 DEF NonUniformInv

\* What step 2 chooses from.
LEMMA TreatFacts ==
  ASSUME NonUniformInv, NU!Treating
  PROVE  /\ pc = "treat" /\ NU!Todo # {} /\ NU!not_full \in SUBSET Rank /\ NU!not_full # {}
         /\ (\A p \in NU!not_full : load[p] < mean - 1) /\ NU!min_loaded \in NU!not_full
         /\ load \in [Rank -> Nat] /\ mean \in Nat /\ mean >= 1
<1>1. pc = "treat" /\ NU!Todo # {} /\ NU!not_full # {}
  BY DEF NU!Treating
<1>2. load \in [Rank -> Nat] /\ mean \in Nat /\ mean >= 1
  BY <1>1 DEF NonUniformInv, Accounted
<1>3. NU!not_full \in SUBSET Rank /\ \A p \in NU!not_full : load[p] < mean - 1
  BY NonUniformUses DEF NU!not_full
<1>4. NU!min_loaded \in NU!not_full
  BY <1>1, <1>2, <1>3, ArgIs DEF NU!min_loaded
<1> QED
  BY <1>1, <1>2, <1>3, <1>4

\* A step of step 2 that keeps the accounts keeps the invariant.
LEMMA TreatKeeps ==
  ASSUME NonUniformInv, NU!Treating, SizesOK', Accounted(rep, load, left)', open' \in SUBSET Rank,
         UNCHANGED <<tol, mean, cur, k, pc>>
  PROVE  NonUniformInv'
<1>1. pc' = "treat" /\ mean' >= 1
  BY TreatFacts
<1> QED
  BY <1>1 DEF NonUniformInv

\* A whole zone is given.
LEMMA TreatWholeKeeps == NonUniformInv /\ NU!TreatWhole => NonUniformInv'
<1> SUFFICES ASSUME NonUniformInv, NU!TreatWhole PROVE NonUniformInv'
  OBVIOUS
<1> DEFINE p == IF NU!IsExact THEN NU!Min(NU!matching) ELSE NU!min_loaded
           n == NU!n_elem
<1>1. /\ NU!Treating /\ NU!Affect(p, NU!Cells(NU!Smallest, n))
      /\ UNCHANGED <<size, tol, mean, cur, open, k, pc>>
  BY DEF NU!TreatWhole
<1>2. n \in Nat /\ n <= left[NU!Smallest]
  BY <1>1, TreatFacts, SmallestIs
<1>3. p \in Rank
  <2>1. CASE NU!IsExact
    <3>1. NU!matching # {} /\ NU!matching \in SUBSET Rank
      BY <2>1, NonUniformUses DEF NU!IsExact, NU!matching
    <3>2. NU!matching \in SUBSET Nat
      BY <3>1, RankFacts
    <3>3. PICK a \in NU!matching : \A b \in NU!matching : a <= b
      BY <3>1, <3>2, LeastNat
    <3>4. NU!Min(NU!matching) \in NU!matching
      BY <3>3 DEF NU!Min
    <3> QED
      BY <2>1, <3>1, <3>4
  <2>2. CASE ~ NU!IsExact
    <3>1. NU!min_loaded \in Rank
      BY <1>1, TreatFacts
    <3> QED
      BY <2>2, <3>1
  <2> QED
    BY <2>1, <2>2
<1> HIDE DEF p, n
<1>4. SizesOK' /\ Accounted(rep, load, left)'
  BY <1>1, <1>2, <1>3, TreatFacts, CellsKeep
<1>5. open' \in SUBSET Rank
  BY <1>1 DEF NonUniformInv
<1> QED
  BY <1>1, <1>4, <1>5, TreatKeeps

\* The most loaded rank is completed.
LEMMA TreatCompleteKeeps == NonUniformInv /\ NU!TreatComplete => NonUniformInv'
<1> SUFFICES ASSUME NonUniformInv, NU!TreatComplete PROVE NonUniformInv'
  OBVIOUS
<1> DEFINE p == NU!max_loaded
           n == NU!available_on_max
<1>1. /\ NU!Treating /\ NU!IsComplete /\ NU!Affect(p, NU!Cells(NU!Smallest, n))
      /\ UNCHANGED <<size, tol, mean, cur, open, k, pc>>
  BY DEF NU!TreatComplete
<1>2. NU!fully_open # {} /\ n <= NU!n_elem - NU!min_chunk_size
  BY <1>1 DEF NU!IsComplete
<1>3. /\ NU!Todo # {} /\ load \in [Rank -> Nat] /\ mean \in Nat /\ mean >= 1
      /\ NU!not_full \in SUBSET Rank /\ \A q \in NU!not_full : load[q] < mean - 1
  BY <1>1, TreatFacts
<1>4. NU!fully_open \in SUBSET NU!not_full
  BY DEF NU!fully_open
<1>5. p \in NU!fully_open
  BY <1>2, <1>3, <1>4, ArgIs DEF NU!max_loaded
<1>6. p \in Rank /\ load[p] < mean - 1 /\ load[p] \in Nat
  BY <1>3, <1>4, <1>5
<1>7. n = mean - load[p]
  BY DEF NU!available_on_max
<1>8. NU!n_elem \in Nat /\ NU!n_elem = left[NU!Smallest] /\ NU!min_chunk_size \in Nat
  BY <1>3, SmallestIs, AllowedIs
<1> HIDE DEF p, n
<1>9. n \in Nat /\ n <= left[NU!Smallest]
  BY <1>2, <1>3, <1>6, <1>7, <1>8
<1>10. SizesOK' /\ Accounted(rep, load, left)'
  BY <1>1, <1>3, <1>6, <1>9, CellsKeep
<1>11. open' \in SUBSET Rank
  BY <1>1 DEF NonUniformInv
<1> QED
  BY <1>1, <1>10, <1>11, TreatKeeps

\* The zone is cut.
LEMMA TreatCutKeeps == NonUniformInv /\ NU!TreatCut => NonUniformInv'
<1> SUFFICES ASSUME NonUniformInv, NU!TreatCut PROVE NonUniformInv'
  OBVIOUS
<1> DEFINE n == NU!n_elem - NU!min_chunk_size
           fit == {p \in NU!not_full : NU!n_elem <= mean - load[p]}
           gap(p) == IF mean >= load[p] + n THEN mean - load[p] - n ELSE load[p] + n - mean
           nearest == {p \in NU!not_full : \A q \in NU!not_full : gap(p) <= gap(q)}
           a == IF fit # {} THEN NU!FirstOf(fit) ELSE NU!FirstOf(nearest)
<1>1. /\ NU!Treating /\ NU!IsCut /\ NU!Affect(a, NU!Cells(NU!Smallest, n))
      /\ open' = (IF fit # {} THEN open ELSE open \ {a})
      /\ UNCHANGED <<size, tol, mean, cur, k, pc>>
  BY DEF NU!TreatCut
<1>2. /\ NU!Todo # {} /\ load \in [Rank -> Nat] /\ mean \in Nat /\ mean >= 1
      /\ NU!not_full \in SUBSET Rank /\ NU!not_full # {}
  BY <1>1, TreatFacts
<1>3. NU!n_elem \in Nat /\ NU!n_elem = left[NU!Smallest] /\ NU!min_chunk_size \in Nat
  BY <1>2, SmallestIs, AllowedIs
<1>4. n \in Nat /\ n <= left[NU!Smallest]
  <2>1. NU!n_elem >= 2 * NU!min_chunk_size
    BY <1>1 DEF NU!IsCut
  <2> QED
    BY <1>3, <2>1
<1> HIDE DEF n
<1>5. a \in Rank
  <2>1. CASE fit # {}
    <3>1. fit \in SUBSET Rank
      BY <1>2
    <3>2. a = NU!FirstOf(fit)
      BY <2>1
    <3> HIDE DEF fit, a
    <3> QED
      BY <1>2, <2>1, <3>1, <3>2, FirstOfIs
  <2>2. CASE fit = {}
    <3> DEFINE g == [q \in Rank |-> gap(q)]
    <3>1. g \in [Rank -> Nat]
      BY <1>2, <1>4
    <3>2. \A q \in Rank : g[q] = gap(q)
      OBVIOUS
    <3> HIDE DEF g, gap
    <3>3. PICK p \in NU!not_full : \A q \in NU!not_full : g[p] <= g[q]
      BY <1>2, <3>1, NearestExists
    <3>4. nearest # {} /\ nearest \in SUBSET Rank
      BY <1>2, <3>2, <3>3
    <3>5. a = NU!FirstOf(nearest)
      BY <2>2
    <3> HIDE DEF nearest, a
    <3> QED
      BY <1>2, <3>4, <3>5, FirstOfIs
  <2> QED
    BY <2>1, <2>2
<1>6. open' \in SUBSET Rank
  <2>1. open \in SUBSET Rank
    BY DEF NonUniformInv
  <2> HIDE DEF fit, a
  <2> QED
    BY <1>1, <2>1
<1> HIDE DEF fit, nearest, a
<1>7. SizesOK' /\ Accounted(rep, load, left)'
  BY <1>1, <1>2, <1>4, <1>5, CellsKeep
<1> QED
  BY <1>1, <1>6, <1>7, TreatKeeps

\* The rest of a zone is given, in two halves or whole.
LEMMA TreatRestKeeps == NonUniformInv /\ NU!TreatRest => NonUniformInv'
<1> SUFFICES ASSUME NonUniformInv, NU!TreatRest PROVE NonUniformInv'
  OBVIOUS
<1> DEFINE halves == NU!Cardinality(NU!not_full) > 1 /\ NU!n_elem > 2 * AsyncMpi
           n1 == IF halves THEN NU!n_elem \div 2 ELSE NU!n_elem
           n2 == NU!n_elem - n1
           p1 == NU!min_loaded
           load1 == [load EXCEPT ![p1] = @ + n1]
           p2 == IF halves THEN NU!argmin(NU!Rank, load1) ELSE p1
           load2 == [load1 EXCEPT ![p2] = @ + n2]
           z == NU!Smallest
           closed == {p \in {p1} : mean - load1[p] < NU!min_chunk_size}
                       \cup {p \in {p2} : mean - load2[p] < NU!min_chunk_size}
<1>1. /\ NU!Treating
      /\ rep' = [rep EXCEPT ![z] = [q \in Rank |->
                   rep[z][q] + (IF q = p1 THEN n1 ELSE 0) + (IF q = p2 THEN n2 ELSE 0)]]
      /\ load' = load2 /\ left' = [left EXCEPT ![z] = 0] /\ open' = open \ closed
      /\ UNCHANGED <<size, tol, mean, cur, k, pc>>
  BY NonUniformUses DEF NU!TreatRest
<1>2. /\ NU!Todo # {} /\ load \in [Rank -> Nat] /\ p1 \in Rank
      /\ SizesOK /\ Accounted(rep, load, left)
  BY <1>1, TreatFacts DEF NonUniformInv
<1>3. left \in [Zone -> Nat] /\ rep \in [Zone -> [Rank -> Nat]]
  BY <1>2 DEF Accounted
<1>4. z \in Zone /\ NU!n_elem \in Nat /\ NU!n_elem = left[z]
  BY <1>2, SmallestIs
<1>5. n1 \in Nat /\ n2 \in Nat /\ n1 + n2 = left[z] /\ n1 <= left[z]
  <2> DEFINE e == NU!n_elem
             h == e \div 2
  <2>1. e \in Nat /\ e = left[z] /\ h \in Nat /\ h <= e
    BY <1>4
  <2>2. (n1 = e \/ n1 = h) /\ n2 = e - n1
    OBVIOUS
  <2> HIDE DEF e, h, n1, n2, z
  <2> QED
    BY <2>1, <2>2
<1>6. open' \in SUBSET Rank
  <2> HIDE DEF closed
  <2> QED
    BY <1>1 DEF NonUniformInv
<1> HIDE DEF z, n1, n2, halves, closed
<1>7. load1 \in [Rank -> Nat]
  BY <1>2, <1>5
<1>8. p2 \in Rank
  <2>1. NU!Rank = Rank /\ Rank \in SUBSET Rank /\ Rank # {}
    BY NonUniformUses, RankFacts
  <2> HIDE DEF load1, p1
  <2>2. NU!argmin(Rank, load1) \in Rank
    BY <1>7, <2>1, ArgIs
  <2> QED
    BY <1>2, <2>1, <2>2
<1> HIDE DEF p1, p2, load1
<1> DEFINE c1 == NU!Cells(z, n1)
           c2 == NU!Cells(z, n2)
<1>9. /\ c1 \in [Zone -> Nat] /\ SumAt(c1, Zone) = n1
      /\ c2 \in [Zone -> Nat] /\ SumAt(c2, Zone) = n2
  BY <1>2, <1>4, <1>5, CellsOfOne
<1>10. /\ c1[z] = n1 /\ c2[z] = n2
       /\ \A y \in Zone \ {z} : c1[y] = 0 /\ c2[y] = 0
  BY <1>4, NonUniformUses DEF NU!Cells
<1> HIDE DEF c1, c2
<1> DEFINE rp == Given(rep, p1, c1)
           lf == Lowered(left, c1)
<1>11. load1 = Loaded(load, p1, c1) /\ load2 = Loaded(load1, p2, c2)
  BY <1>9 DEF Loaded, load1
<1>12. \A y \in Zone : c1[y] <= left[y]
  BY <1>3, <1>5, <1>10
<1>13. Accounted(rp, load1, lf)
  BY <1>2, <1>9, <1>11, <1>12, GivingKeeps
<1>14. \A y \in Zone : lf[y] = left[y] - c1[y]
  BY DEF Lowered
<1>15. \A y \in Zone : c2[y] <= lf[y]
  BY <1>3, <1>4, <1>5, <1>10, <1>14
<1>16. Accounted(Given(rp, p2, c2), load2, Lowered(lf, c2))
  <2> HIDE DEF rp, lf, load2
  <2> QED
    BY <1>2, <1>8, <1>9, <1>11, <1>13, <1>15, GivingKeeps
<1>17. left' = Lowered(lf, c2)
  <2>1. \A y \in Zone : left'[y] = IF y = z THEN 0 ELSE left[y]
    BY <1>1, <1>3
  <2>2. \A y \in Zone : Lowered(lf, c2)[y] = (left[y] - c1[y]) - c2[y]
    BY <1>14 DEF Lowered
  <2>3. \A y \in Zone : left'[y] = Lowered(lf, c2)[y]
    BY <1>3, <1>4, <1>5, <1>10, <2>1, <2>2
  <2>4. DOMAIN left' = Zone /\ left' = [y \in DOMAIN left' |-> left'[y]]
    BY <1>1, <1>3
  <2> QED
    BY <2>3, <2>4 DEF Lowered
<1>18. rep' = Given(rp, p2, c2)
  <2> DEFINE new(y) == [[rep[y] EXCEPT ![p1] = @ + c1[y]] EXCEPT ![p2] = @ + c2[y]]
  <2>1. Given(rp, p2, c2) = [y \in Zone |-> new(y)]
    BY DEF Given
  <2>2. rep'[z] = new(z)
    <3> DEFINE f == rep[z]
    <3>1. f \in [Rank -> Nat]
      BY <1>3, <1>4
    <3>2. rep'[z] = [q \in Rank |-> f[q] + (IF q = p1 THEN n1 ELSE 0) + (IF q = p2 THEN n2 ELSE 0)]
      BY <1>1, <1>3, <1>4
    <3>3. new(z) = [[f EXCEPT ![p1] = @ + n1] EXCEPT ![p2] = @ + n2]
      BY <1>10
    <3> HIDE DEF f, new
    <3> DEFINE w == [[f EXCEPT ![p1] = @ + n1] EXCEPT ![p2] = @ + n2]
               v == [q \in Rank |-> f[q] + (IF q = p1 THEN n1 ELSE 0) + (IF q = p2 THEN n2 ELSE 0)]
    <3>4. ASSUME NEW q \in Rank PROVE v[q] = w[q]
      BY <1>2, <1>5, <1>8, <3>1
    <3>5. w = [q \in Rank |-> w[q]] /\ v = [q \in Rank |-> v[q]]
      BY <3>1
    <3> HIDE DEF v, w
    <3>6. v = w
      BY <3>4, <3>5
    <3> QED
      BY <3>2, <3>3, <3>6 DEF v, w
  <2>3. ASSUME NEW y \in Zone \ {z} PROVE rep'[y] = new(y)
    <3>1. rep'[y] = rep[y] /\ rep[y] \in [Rank -> Nat]
      BY <1>1, <1>3
    <3>2. c1[y] = 0 /\ c2[y] = 0
      BY <1>10
    <3>3. new(y) = [[rep[y] EXCEPT ![p1] = @ + 0] EXCEPT ![p2] = @ + 0]
      BY <3>2
    <3> DEFINE f == rep[y]
    <3>4. f \in [Rank -> Nat]
      BY <3>1
    <3> HIDE DEF f
    <3>5. [[f EXCEPT ![p1] = @ + 0] EXCEPT ![p2] = @ + 0] = f
      BY <3>4
    <3> QED
      BY <3>1, <3>3, <3>5 DEF f
  <2>4. DOMAIN rep' = Zone /\ rep' = [y \in DOMAIN rep' |-> rep'[y]]
    BY <1>1, <1>3
  <2> HIDE DEF new
  <2> QED
    BY <2>1, <2>2, <2>3, <2>4
<1>19. Accounted(rep', load', left')
  BY <1>1, <1>16, <1>17, <1>18
<1>20. Zone' = Zone /\ SizesOK'
  BY <1>1, <1>2 DEF Zone, SizesOK
<1>21. Accounted(rep, load, left)'
  BY <1>1, <1>19, <1>20 DEF Accounted
<1> QED
  BY <1>1, <1>6, <1>20, <1>21, TreatKeeps

\* Every step of the method keeps the invariant.
LEMMA NonUniformNext == NonUniformInv /\ NU!Next => NonUniformInv'
BY StartKeeps, MatchKeeps, NoMatchKeeps, FillKeeps, NextProcKeeps, EndFillKeeps, NoneLeftKeeps,
   TreatWholeKeeps, TreatCompleteKeeps, TreatCutKeeps, TreatRestKeeps, ConvergeKeeps
   DEF NU!Next

-----------------------------------------------------------------------------
\* The inductive invariant of balance_with_uniform_weights: no count goes below zero,
\* and the ranks that are shared are the ones of a zone.
UniformInv ==
  /\ SizesOK
  /\ procs \in [Zone -> Seq(Nat)] /\ cur \in Nat /\ r \in Nat /\ ii \in Nat
  /\ i \in 1 .. Len(size) + 1 /\ j \in 1 .. Len(size) + 1
  /\ load \in [Rank -> Nat] /\ rep \in [Zone -> [Rank -> Nat]]
  /\ pc = "share" => i \in Zone

\* The invariant says what the runs check.
LEMMA UniformInvIs == UniformInv => U!TypeOK
BY UniformUses DEF UniformInv, U!TypeOK

\* The ranks that a zone fills have at most its cells.
LEMMA FilledRanks ==
  ASSUME SizesOK, NEW z \in Zone
  PROVE  /\ U!mean_per_rank \in Nat /\ U!n_rank_zone(z) \in Nat /\ size[z] \in Nat
         /\ size[z] - U!n_rank_zone(z) * U!mean_per_rank \in Nat
<1> DEFINE m == U!mean_per_rank
           n == size[z]
           q == U!n_rank_zone(z)
<1>1. IsFiniteSet(Zone) /\ \A y \in Zone : size[y] \in Nat
  BY ZoneFacts
<1>2. SumAt(size, Zone) \in Nat
  BY <1>1, SumNat
<1>3. m = SumAt(size, Zone) \div NRank
  BY UniformUses DEF U!mean_per_rank
<1>4. m \in Nat
  BY <1>2, <1>3, RankFacts, Division
<1>5. n \in Nat
  BY <1>1
<1>6. q = IF m = 0 THEN 0 ELSE n \div m
  BY DEF U!n_rank_zone
<1> HIDE DEF m, n, q
<1>7. CASE m = 0
  BY <1>5, <1>6, <1>7 DEF m, n, q
<1>8. CASE m # 0
  <2>1. n \div m \in Nat /\ n % m \in Nat /\ n = m * (n \div m) + (n % m)
    BY <1>4, <1>5, <1>8, Division
  <2>2. q = n \div m
    BY <1>6, <1>8
  <2> DEFINE e == n % m
  <2>3. q \in Nat /\ e \in Nat /\ n = m * q + e
    BY <2>1, <2>2
  <2> HIDE DEF e
  <2>4. m * q = q * m /\ q * m \in Nat
    BY <1>4, <2>3
  <2>5. n - q * m = e
    BY <1>5, <2>3, <2>4
  <2> QED
    BY <1>4, <1>5, <2>3, <2>5 DEF m, n, q
<1> QED
  BY <1>7, <1>8

\* The factorial.
LEMMA UnitIs == U!Unit \in Nat
<1> DEFINE F(u) == u = [n \in 0 .. NRank |-> IF n = 0 THEN 1 ELSE n * u[n - 1]]
           S == Nat
           e == 1
           step == [n \in 1 .. NRank |-> [x \in S |-> n * x]]
<1>1. NRank \in Nat
  BY RankFacts
<1>2. e \in S /\ step \in [1 .. NRank -> [S -> S]]
  OBVIOUS
<1>3. \A n \in 1 .. NRank : \A x \in S : step[n][x] = n * x
  OBVIOUS
<1>4. e = 1 /\ S = Nat
  OBVIOUS
<1> HIDE DEF S, e, step
<1>5. PICK g \in [0 .. NRank -> S] : Recursive(g, e, step, NRank)
  BY <1>1, <1>2, RecursionExists
<1>6. F(g)
  <2>1. g[0] = 1
    BY <1>4, <1>5 DEF Recursive
  <2>2. ASSUME NEW n \in 1 .. NRank PROVE g[n] = n * g[n - 1]
    <3>1. n - 1 \in 0 .. NRank /\ g[n - 1] \in S
      BY <1>1, <1>5
    <3>2. g[n] = step[n][g[n - 1]]
      BY <1>5 DEF Recursive
    <3> QED
      BY <1>3, <3>1, <3>2
  <2>3. \A n \in 0 .. NRank : g[n] = IF n = 0 THEN 1 ELSE n * g[n - 1]
    BY <1>1, <2>1, <2>2
  <2> QED
    BY <1>5, <2>3
<1> DEFINE u == CHOOSE u : F(u)
<1>7. F(u)
  BY <1>6
<1>8. U!Unit = u[NRank]
  BY DEF U!Unit
<1> HIDE DEF u
<1>9. \A n \in 0 .. NRank : u[n] = IF n = 0 THEN 1 ELSE n * u[n - 1]
  BY <1>7
<1> HIDE DEF F
<1> DEFINE T == {n \in 0 .. NRank : u[n] \in Nat}
<1>10. 0 \in T
  BY <1>1, <1>9
<1>11. ASSUME NEW n \in 0 .. NRank - 1, n \in T PROVE n + 1 \in T
  <2>1. n + 1 \in 0 .. NRank /\ n + 1 # 0 /\ (n + 1) - 1 = n /\ n + 1 \in Nat
    BY <1>1
  <2>2. u[n + 1] = (n + 1) * u[n]
    BY <1>9, <2>1
  <2>3. u[n] \in Nat
    BY <1>11
  <2> QED
    BY <2>1, <2>2, <2>3
<1> HIDE DEF T
<1>12. \A n \in 0 .. NRank : n \in T
  BY <1>1, <1>10, <1>11, IntervalInduction
<1>13. NRank \in T
  BY <1>1, <1>12
<1> QED
  BY <1>8, <1>13 DEF T

\* A large zone takes the ranks it fills.
LEMMA GiveRanksKeeps == UniformInv /\ U!GiveRanks => UniformInv'
<1> SUFFICES ASSUME UniformInv, U!GiveRanks PROVE UniformInv'
  OBVIOUS
<1> DEFINE n == U!n_rank_zone(i)
           new == [p \in 1 .. n |-> cur + p - 1]
<1>1. /\ i \in Zone /\ procs' = [procs EXCEPT ![i] = @ \o new]
      /\ r' = size[i] - n * U!mean_per_rank /\ ii' = 0 /\ j' = 1
      /\ (pc' = "share" /\ i' = i) \/ (pc' = "start" /\ i' = i + 1)
      /\ size' = size /\ cur' = cur /\ load' = load /\ rep' = rep
  BY UniformUses DEF U!GiveRanks
<1>2. /\ SizesOK /\ procs \in [Zone -> Seq(Nat)] /\ cur \in Nat /\ load \in [Rank -> Nat]
      /\ rep \in [Zone -> [Rank -> Nat]] /\ i \in 1 .. Len(size) + 1
  BY DEF UniformInv
<1>3. n \in Nat /\ r' \in Nat
  BY <1>1, <1>2, FilledRanks
<1> HIDE DEF n
<1>4. new \in Seq(Nat)
  <2>1. new \in [1 .. n -> Nat]
    BY <1>2, <1>3
  <2> HIDE DEF new
  <2> QED
    BY <1>3, <2>1
<1> HIDE DEF new
<1>5. procs' \in [Zone -> Seq(Nat)]
  <2>1. procs[i] \o new \in Seq(Nat)
    BY <1>1, <1>2, <1>4
  <2> QED
    BY <1>1, <1>2, <2>1
<1>6. Zone' = Zone /\ SizesOK'
  BY <1>1, <1>2 DEF Zone, SizesOK
<1>7. i' \in 1 .. Len(size) + 1 /\ j' \in 1 .. Len(size) + 1
  <2>1. Zone = 1 .. Len(size) /\ Len(size) \in Nat
    BY <1>2, ZoneFacts DEF SizesOK
  <2> QED
    BY <1>1, <1>2, <2>1
<1> QED
  BY <1>1, <1>2, <1>3, <1>5, <1>6, <1>7 DEF UniformInv

\* A zone shares the ranks of a large one.
LEMMA ShareKeeps == UniformInv /\ U!Share => UniformInv'
<1> SUFFICES ASSUME UniformInv, U!Share PROVE UniformInv'
  OBVIOUS
<1> DEFINE fits == procs[j] = << >> /\ size[j] <= r
           next == IF ii > U!n_rank_zone(i) THEN 0 ELSE ii
<1>1. /\ j \in Zone /\ j' = j + 1 /\ pc = "share" /\ pc' = "share"
      /\ size' = size /\ cur' = cur /\ load' = load /\ rep' = rep /\ i' = i
      /\ fits => /\ procs' = [procs EXCEPT ![j] = Append(@, next + cur)]
                 /\ ii' = next + 1 /\ r' = r - size[j]
      /\ ~ fits => procs' = procs /\ ii' = ii /\ r' = r
  BY UniformUses DEF U!Share
<1>2. /\ SizesOK /\ procs \in [Zone -> Seq(Nat)] /\ cur \in Nat /\ r \in Nat /\ ii \in Nat
      /\ load \in [Rank -> Nat] /\ rep \in [Zone -> [Rank -> Nat]]
      /\ i \in 1 .. Len(size) + 1 /\ i \in Zone
  BY <1>1 DEF UniformInv
<1>3. Zone = 1 .. Len(size) /\ Len(size) \in Nat /\ size[j] \in Nat
  BY <1>1, <1>2, ZoneFacts DEF SizesOK
<1>4. next \in Nat
  BY <1>2
<1>5. fits => size[j] <= r
  OBVIOUS
<1> HIDE DEF next, fits
<1>6. procs' \in [Zone -> Seq(Nat)] /\ ii' \in Nat /\ r' \in Nat
  <2>1. CASE fits
    <3>1. Append(procs[j], next + cur) \in Seq(Nat)
      BY <1>1, <1>2, <1>4
    <3>2. procs' \in [Zone -> Seq(Nat)]
      BY <1>1, <1>2, <2>1, <3>1
    <3>3. ii' \in Nat /\ r' \in Nat
      BY <1>1, <1>2, <1>3, <1>4, <1>5, <2>1
    <3> QED
      BY <3>2, <3>3
  <2>2. CASE ~ fits
    BY <1>1, <1>2, <2>2
  <2> QED
    BY <2>1, <2>2
<1>7. Zone' = Zone /\ SizesOK'
  BY <1>1, <1>2 DEF Zone, SizesOK
<1>8. j' \in 1 .. Len(size) + 1
  BY <1>1, <1>3
<1> QED
  BY <1>1, <1>2, <1>6, <1>7, <1>8 DEF UniformInv

\* The ranks of the zone are behind.
LEMMA EndShareKeeps == UniformInv /\ U!EndShare => UniformInv'
<1> SUFFICES ASSUME UniformInv, U!EndShare PROVE UniformInv'
  OBVIOUS
<1>1. /\ cur' = cur + U!n_rank_zone(i) /\ i' = i + 1 /\ pc = "share" /\ pc' = "start"
      /\ UNCHANGED <<size, procs, j, r, ii, load, rep>>
  BY DEF U!EndShare
<1>2. SizesOK /\ cur \in Nat /\ i \in Zone
  BY <1>1 DEF UniformInv
<1>3. U!n_rank_zone(i) \in Nat /\ Zone = 1 .. Len(size) /\ Len(size) \in Nat
  BY <1>2, FilledRanks, ZoneFacts DEF SizesOK
<1>4. cur' \in Nat /\ i' \in 1 .. Len(size) + 1
  BY <1>1, <1>2, <1>3
<1>5. Zone' = Zone /\ SizesOK'
  BY <1>1, <1>2 DEF Zone, SizesOK
<1> QED
  BY <1>1, <1>4, <1>5 DEF UniformInv

\* The steps that give ranks to zones and change nothing else of the accounts.
LEMMA ProcsKeep ==
  ASSUME UniformInv, procs' \in [Zone -> Seq(Nat)], cur' \in Nat, load' \in [Rank -> Nat],
         rep' \in [Zone -> [Rank -> Nat]], UNCHANGED <<size, i, j, r, ii>>, pc' # "share"
  PROVE  UniformInv'
<1>1. Zone' = Zone /\ SizesOK'
  BY DEF UniformInv, Zone, SizesOK
<1> QED
  BY <1>1 DEF UniformInv

\* The types, for the steps below.
LEMMA UniformTypes ==
  ASSUME UniformInv
  PROVE  /\ SizesOK /\ procs \in [Zone -> Seq(Nat)] /\ cur \in Nat /\ load \in [Rank -> Nat]
         /\ rep \in [Zone -> [Rank -> Nat]]
BY DEF UniformInv

\* All the zones have been seen.
LEMMA EndZonesKeeps == UniformInv /\ U!EndZones => UniformInv'
<1> SUFFICES ASSUME UniformInv, U!EndZones PROVE UniformInv'
  OBVIOUS
<1>1. pc' \in {"load", "remain"} /\ UNCHANGED <<size, procs, cur, i, j, r, ii, load, rep>>
  BY DEF U!EndZones
<1> QED
  BY <1>1, UniformTypes, ProcsKeep

\* The next rank takes zones.
LEMMA TakeRemainKeeps == UniformInv /\ U!TakeRemain => UniformInv'
<1> SUFFICES ASSUME UniformInv, U!TakeRemain PROVE UniformInv'
  OBVIOUS
<1>1. /\ \E T : procs' = [z \in Zone |-> IF z \in T THEN <<cur>> ELSE procs[z]]
      /\ pc' \in {"load", "remain"} /\ cur' = cur + 1
      /\ UNCHANGED <<size, i, j, r, ii, load, rep>>
  BY UniformUses DEF U!TakeRemain
<1>2. PICK T : procs' = [z \in Zone |-> IF z \in T THEN <<cur>> ELSE procs[z]]
  BY <1>1
<1>3. <<cur>> \in Seq(Nat) /\ cur' \in Nat
  BY <1>1, UniformTypes
<1>4. procs' \in [Zone -> Seq(Nat)]
  BY <1>2, <1>3, UniformTypes
<1> QED
  BY <1>1, <1>3, <1>4, UniformTypes, ProcsKeep

\* The loads of the ranks, from the zones they have.
LEMMA ComputeLoadKeeps == UniformInv /\ U!ComputeLoad => UniformInv'
<1> SUFFICES ASSUME UniformInv, U!ComputeLoad PROVE UniformInv'
  OBVIOUS
<1> DEFINE share == [z \in Zone |-> (size[z] * U!Unit) \div Len(procs[z])]
           On(p) == {z \in Zone : p \in U!ToSet(procs[z])}
<1>1. /\ load' = [p \in Rank |-> SumAt(share, On(p))] \/ load' = load
      /\ pc' \in {"least", "raised"} /\ UNCHANGED <<size, procs, cur, i, j, r, ii, rep>>
  <2>1. /\ \/ load' = [p \in U!Rank |->
                        U!SumAt([z \in U!Zone |-> (size[z] * U!Unit) \div Len(procs[z])],
                                {z \in U!Zone : p \in U!ToSet(procs[z])})]
           \/ load' = load
        /\ pc' \in {"least", "raised"} /\ UNCHANGED <<size, procs, cur, i, j, r, ii, rep>>
    BY DEF U!ComputeLoad
  <2>2. U!Rank = Rank /\ U!Zone = Zone
    BY UniformUses
  <2>3. /\ load' = [p \in Rank |-> U!SumAt(share, On(p))] \/ load' = load
        /\ pc' \in {"least", "raised"} /\ UNCHANGED <<size, procs, cur, i, j, r, ii, rep>>
    BY <2>1, <2>2, Zenon
  <2> HIDE DEF share, On
  <2>4. [p \in Rank |-> U!SumAt(share, On(p))] = [p \in Rank |-> SumAt(share, On(p))]
    BY UniformUses
  <2> QED
    BY <2>3, <2>4
<1>2. SizesOK /\ procs \in [Zone -> Seq(Nat)] /\ load \in [Rank -> Nat]
  BY UniformTypes
<1>3. ASSUME NEW p \in Rank PROVE SumAt(share, On(p)) \in Nat
  <2>1. IsFiniteSet(Zone) /\ \A z \in Zone : size[z] \in Nat
    BY <1>2, ZoneFacts
  <2>2. IsFiniteSet(On(p))
    BY <2>1, FS_Subset
  <2>3. ASSUME NEW z \in On(p) PROVE share[z] \in Nat
    <3> DEFINE l == Len(procs[z])
               a == size[z] * U!Unit
    <3>1. z \in Zone /\ p \in U!ToSet(procs[z]) /\ procs[z] \in Seq(Nat)
      BY <1>2
    <3>2. l \in Nat /\ l # 0
      BY <3>1 DEF U!ToSet
    <3>3. a \in Nat
      BY <2>1, <3>1, UnitIs
    <3>4. share[z] = a \div l
      BY <3>1
    <3> HIDE DEF a, l, share
    <3>5. a \div l \in Nat
      BY <3>2, <3>3, Division
    <3> QED
      BY <3>4, <3>5
  <2> HIDE DEF share, On
  <2> QED
    BY <2>2, <2>3, SumNat
<1>4. load' \in [Rank -> Nat]
  <2> HIDE DEF share, On
  <2> QED
    BY <1>1, <1>2, <1>3
<1> QED
  BY <1>1, <1>4, UniformTypes, ProcsKeep

\* A zone without ranks goes to a least loaded one.
LEMMA AddToLeastKeeps == UniformInv /\ U!AddToLeast => UniformInv'
<1> SUFFICES ASSUME UniformInv, U!AddToLeast PROVE UniformInv'
  OBVIOUS
<1> DEFINE z == U!Min(U!Remain)
<1>1. PICK p \in Rank : /\ procs' = [procs EXCEPT ![z] = Append(@, p)]
                        /\ load' = [load EXCEPT ![p] = @ + size[z] * U!Unit]
  BY UniformUses DEF U!AddToLeast
<1>2. /\ pc = "least" /\ U!Remain # {} /\ UNCHANGED <<size, cur, i, j, r, ii, rep, pc>>
  BY DEF U!AddToLeast
<1>3. SizesOK /\ procs \in [Zone -> Seq(Nat)] /\ load \in [Rank -> Nat] /\ p \in Nat
  BY UniformTypes, RankFacts
<1>4. z \in Zone
  <2>1. U!Remain \in SUBSET Zone /\ Zone \in SUBSET Nat
    BY <1>3, UniformUses, ZoneFacts DEF U!Remain
  <2>2. PICK y \in U!Remain : \A b \in U!Remain : y <= b
    BY <1>2, <2>1, LeastNat
  <2>3. U!Min(U!Remain) \in U!Remain
    BY <2>2 DEF U!Min
  <2> QED
    BY <2>1, <2>3
<1> HIDE DEF z
<1>5. size[z] * U!Unit \in Nat
  <2>1. size[z] \in Nat
    BY <1>3, <1>4, ZoneFacts
  <2> QED
    BY <2>1, UnitIs
<1>6. load' \in [Rank -> Nat]
  BY <1>1, <1>3, <1>5
<1>7. procs' \in [Zone -> Seq(Nat)]
  <2>1. Append(procs[z], p) \in Seq(Nat)
    BY <1>3, <1>4
  <2> QED
    BY <1>1, <1>3, <2>1
<1> QED
  BY <1>2, <1>6, <1>7, UniformTypes, ProcsKeep

\* A rank that is left cuts a zone.
LEMMA CutMoreKeeps == UniformInv /\ U!CutMore => UniformInv'
<1> SUFFICES ASSUME UniformInv, U!CutMore PROVE UniformInv'
  OBVIOUS
<1> DEFINE z == U!maxZone
<1>1. /\ pc = "least" /\ procs' = [procs EXCEPT ![z] = Append(@, cur)] /\ cur' = cur + 1
      /\ UNCHANGED <<size, i, j, r, ii, load, rep, pc>>
  BY DEF U!CutMore
<1>2. procs \in [Zone -> Seq(Nat)] /\ cur \in Nat
  BY UniformTypes
<1> HIDE DEF z
<1>3. procs' \in [Zone -> Seq(Nat)]
  <2>1. z \in Zone => Append(procs[z], cur) \in Seq(Nat)
    BY <1>2
  <2> QED
    BY <1>1, <1>2, <2>1
<1>4. cur' \in Nat
  BY <1>1, <1>2
<1> QED
  BY <1>1, <1>3, <1>4, UniformTypes, ProcsKeep

\* The parts of the zones.
LEMMA FormatKeeps == UniformInv /\ U!Format => UniformInv'
<1> SUFFICES ASSUME UniformInv, U!Format PROVE UniformInv'
  OBVIOUS
<1> DEFINE P(z) == U!ToSet(procs[z])
           part(z, p) == IF p \in P(z)
                         THEN U!homogeneous_repart(size[z], Cardinality(P(z)),
                                                   Cardinality({q \in P(z) : q < p}))
                         ELSE 0
<1>1. /\ rep' = [z \in Zone |-> [p \in Rank |-> part(z, p)]]
      /\ pc' = "done" /\ UNCHANGED <<size, procs, cur, i, j, r, ii, load>>
  BY UniformUses DEF U!Format, U!Cardinality, Cardinality
<1>2. SizesOK /\ procs \in [Zone -> Seq(Nat)]
  BY UniformTypes
<1>3. ASSUME NEW z \in Zone, NEW p \in Rank PROVE part(z, p) \in Nat
  <2>1. CASE p \notin P(z)
    BY <2>1
  <2>2. CASE p \in P(z)
    <3> DEFINE m == Cardinality(P(z))
               n == size[z]
    <3>1. m \in Nat /\ m # 0
      <4> DEFINE s == procs[z]
      <4>1. s \in Seq(Nat)
        BY <1>2
      <4>2. DOMAIN s = 1 .. Len(s) /\ Len(s) \in Nat
        BY <4>1
      <4>3. IsFiniteSet(1 .. Len(s))
        BY <4>2, FS_Interval
      <4> DEFINE D == 1 .. Len(s)
                 f == [a \in D |-> s[a]]
      <4>4. P(z) = {s[a] : a \in D}
        BY <4>2 DEF U!ToSet
      <4>5. f \in Surjection(D, P(z))
        BY <4>4 DEF Surjection
      <4> HIDE DEF f, D, P
      <4>6. IsFiniteSet(P(z))
        BY <4>3, <4>5, FS_Surjection DEF D
      <4> QED
        BY <2>2, <4>6, FS_CardinalityType, FS_EmptySet
    <3>2. n \in Nat
      BY <1>2, ZoneFacts
    <3>3. part(z, p) = n \div m + (IF Cardinality({q \in P(z) : q < p}) < n % m THEN 1 ELSE 0)
      BY <2>2 DEF U!homogeneous_repart
    <3> HIDE DEF part, m, n
    <3>4. n \div m \in Nat
      BY <3>1, <3>2, Division
    <3> QED
      BY <3>3, <3>4
  <2> QED
    BY <2>1, <2>2
<1> HIDE DEF part
<1>4. rep' \in [Zone -> [Rank -> Nat]]
  BY <1>1, <1>3
<1> QED
  BY <1>1, <1>4, UniformTypes, ProcsKeep

\* Every step of the method keeps the invariant.
LEMMA UniformNext == UniformInv /\ U!Next => UniformInv'
BY GiveRanksKeeps, ShareKeeps, EndShareKeeps, EndZonesKeeps, TakeRemainKeeps, ComputeLoadKeeps,
   AddToLeastKeeps, CutMoreKeeps, FormatKeeps DEF U!Next

-----------------------------------------------------------------------------
\* The sum over two sets without common elements.
LEMMA SumUnion ==
  ASSUME NEW A, NEW B, IsFiniteSet(A), IsFiniteSet(B), A \cap B = {},
         NEW x, \A a \in A \cup B : x[a] \in Int
  PROVE  /\ SumAt(x, A \cup B) = SumAt(x, A) + SumAt(x, B)
         /\ SumAt(x, A) \in Int /\ SumAt(x, B) \in Int
<1> DEFINE S == A \cup B
           xa == [a \in S |-> IF a \in A THEN x[a] ELSE 0]
           xb == [a \in S |-> IF a \in A THEN 0 ELSE x[a]]
<1>1. IsFiniteSet(S) /\ A \in SUBSET S /\ B \in SUBSET S
  BY FS_Union
<1>2. \A a \in S : xa[a] \in Int /\ xb[a] \in Int /\ x[a] = xa[a] + xb[a]
  OBVIOUS
<1>3. (\A a \in S \ A : xa[a] = 0) /\ (\A a \in S \ B : xb[a] = 0)
  OBVIOUS
<1>4. (\A a \in A : xa[a] = x[a] /\ x[a] \in Int) /\ (\A a \in B : xb[a] = x[a] /\ x[a] \in Int)
  OBVIOUS
<1> HIDE DEF S, xa, xb
<1>5. SumAt(x, S) = SumAt(xa, S) + SumAt(xb, S)
  BY <1>1, <1>2, SumPlus
<1>6. SumAt(xa, S) = SumAt(xa, A) /\ SumAt(xb, S) = SumAt(xb, B)
  BY <1>1, <1>2, <1>3, SumWithin
<1>7. SumAt(xa, A) = SumAt(x, A) /\ SumAt(xb, B) = SumAt(x, B)
  BY <1>4, SumSame
<1>8. SumAt(x, A) \in Int /\ SumAt(x, B) \in Int
  BY <1>4, SumTake
<1> QED
  BY <1>5, <1>6, <1>7, <1>8 DEF S

\* The cells of the first a parts of n cells cut into m parts by homogeneous_repart.
FirstParts(n, m, a) == a * (n \div m) + (IF a < n % m THEN a ELSE n % m)

\* All the parts make up the cells.
LEMMA FirstPartsAre ==
  ASSUME NEW n \in Nat, NEW m \in Nat, m # 0
  PROVE  /\ FirstParts(n, m, 0) = 0 /\ FirstParts(n, m, m) = n
         /\ \A a \in Nat : /\ FirstParts(n, m, a) \in Nat /\ U!homogeneous_repart(n, m, a) \in Nat
                           /\ FirstParts(n, m, a + 1)
                                = FirstParts(n, m, a) + U!homogeneous_repart(n, m, a)
<1> DEFINE q == n \div m
           e == n % m
<1>1. q \in Nat /\ e \in Nat /\ e < m /\ n = m * q + e
  BY Division
<1>2. \A a : /\ FirstParts(n, m, a) = a * q + (IF a < e THEN a ELSE e)
             /\ U!homogeneous_repart(n, m, a) = q + (IF a < e THEN 1 ELSE 0)
  BY DEF FirstParts, U!homogeneous_repart
<1> HIDE DEF q, e
<1>3. 0 * q = 0
  BY <1>1
<1>4. FirstParts(n, m, 0) = 0 /\ FirstParts(n, m, m) = n
  BY <1>1, <1>2, <1>3
<1>5. ASSUME NEW a \in Nat
      PROVE  /\ FirstParts(n, m, a) \in Nat /\ U!homogeneous_repart(n, m, a) \in Nat
             /\ FirstParts(n, m, a + 1) = FirstParts(n, m, a) + U!homogeneous_repart(n, m, a)
  <2> DEFINE aq == a * q
  <2>1. aq \in Nat /\ (a + 1) * q = aq + q
    BY <1>1
  <2>2. /\ FirstParts(n, m, a) = aq + (IF a < e THEN a ELSE e)
        /\ FirstParts(n, m, a + 1) = (aq + q) + (IF a + 1 < e THEN a + 1 ELSE e)
        /\ U!homogeneous_repart(n, m, a) = q + (IF a < e THEN 1 ELSE 0)
    BY <1>2, <2>1
  <2> HIDE DEF aq
  <2> QED
    BY <1>1, <2>1, <2>2
<1> QED
  BY <1>4, <1>5

\* The parts from number b on, one after the other.
LEMMA PartsAddUp ==
  ASSUME NEW n \in Nat, NEW m \in Nat, m # 0, NEW b \in Nat, NEW l \in Nat, NEW f,
         \A a \in 1 .. l : f[a] = U!homogeneous_repart(n, m, b + a - 1)
  PROVE  SumAt(f, 1 .. l) = FirstParts(n, m, b + l) - FirstParts(n, m, b)
<1> DEFINE F(a) == FirstParts(n, m, a)
           H(a) == U!homogeneous_repart(n, m, a)
           T == {a \in 0 .. l : SumAt(f, 1 .. a) = F(b + a) - F(b)}
<1>1. \A a \in Nat : F(a) \in Nat /\ H(a) \in Nat /\ F(a + 1) = F(a) + H(a)
  BY FirstPartsAre
<1>2. \A a \in 1 .. l : f[a] = H(b + a - 1)
  OBVIOUS
<1> HIDE DEF F, H
<1>3. 0 \in T
  <2>1. 1 .. 0 = {} /\ IsFiniteSet({})
    BY FS_EmptySet
  <2>2. SumAt(f, {}) = 0
    BY <2>1, SumTake
  <2>3. b + 0 = b /\ F(b) - F(b) = 0
    BY <1>1
  <2> QED
    BY <2>1, <2>2, <2>3
<1>4. ASSUME NEW a \in 0 .. l - 1, a \in T PROVE a + 1 \in T
  <2>1. a + 1 \in 1 .. l /\ a + 1 \in 0 .. l /\ 1 .. a + 1 = (1 .. a) \cup {a + 1}
        /\ a + 1 \notin 1 .. a /\ \A c \in 1 .. a : c \in 1 .. l
    OBVIOUS
  <2>2. f[a + 1] = H(b + a)
    <3>1. f[a + 1] = H(b + (a + 1) - 1)
      BY <1>2, <2>1
    <3>2. b + (a + 1) - 1 = b + a
      OBVIOUS
    <3> QED
      BY <3>1, <3>2
  <2>3. \A c \in 1 .. a : f[c] \in Int
    <3> SUFFICES ASSUME NEW c \in 1 .. a PROVE f[c] \in Int
      OBVIOUS
    <3>1. b + c - 1 \in Nat /\ f[c] = H(b + c - 1)
      BY <1>2, <2>1
    <3> QED
      BY <1>1, <3>1
  <2>4. f[a + 1] \in Int /\ b + a \in Nat
    BY <1>1, <2>2
  <2>5. IsFiniteSet(1 .. a)
    BY FS_Interval
  <2>6. SumAt(f, (1 .. a) \cup {a + 1}) = SumAt(f, 1 .. a) + f[a + 1]
    <3> DEFINE S == 1 .. a
               e == a + 1
    <3>1. IsFiniteSet(S) /\ (\A c \in S : f[c] \in Int) /\ e \notin S /\ f[e] \in Int
      BY <2>1, <2>3, <2>4, <2>5
    <3> HIDE DEF S, e
    <3>2. SumAt(f, S \cup {e}) = SumAt(f, S) + f[e]
      BY <3>1, SumAdd
    <3> QED
      BY <3>2 DEF S, e
  <2>7. SumAt(f, 1 .. a) = F(b + a) - F(b)
    BY <1>4
  <2>8. F((b + a) + 1) = F(b + a) + H(b + a) /\ F(b + a) \in Nat /\ H(b + a) \in Nat /\ F(b) \in Nat
    BY <1>1, <2>4
  <2>9. b + (a + 1) = (b + a) + 1
    OBVIOUS
  <2>10. SumAt(f, 1 .. a + 1) = (F(b + a) - F(b)) + H(b + a)
    BY <2>1, <2>2, <2>6, <2>7
  <2>11. SumAt(f, 1 .. a + 1) = F(b + (a + 1)) - F(b)
    BY <2>8, <2>9, <2>10
  <2> QED
    BY <2>1, <2>11
<1> HIDE DEF T
<1>5. \A a \in 0 .. l : a \in T
  BY <1>3, <1>4, IntervalInduction
<1>6. l \in T
  BY <1>5
<1> QED
  BY <1>6 DEF T, F

\* The parts of the ranks of P, in the order of the ranks, make up the zone.
LEMMA PartsOfRanks ==
  ASSUME NEW n \in Nat, NEW P \in SUBSET Rank, P # {}, NEW f,
         \A p \in Rank : f[p] = IF p \in P
                                THEN U!homogeneous_repart(n, Cardinality(P),
                                                          Cardinality({q \in P : q < p}))
                                ELSE 0
  PROVE  SumAt(f, Rank) = n
<1> DEFINE m == Cardinality(P)
           R == {e \in P \X P : e[1] <= e[2]}
           rank == [p \in P |-> Cardinality(UpTo(R, P, p))]
           g == [a \in 1 .. m |-> U!homogeneous_repart(n, m, a - 1)]
<1>1. IsFiniteSet(P) /\ m \in Nat /\ m # 0 /\ P \in SUBSET Nat
  BY RankFacts, FS_Subset, FS_CardinalityType, FS_EmptySet
<1>2. TotalOrder(R, P)
  BY <1>1 DEF TotalOrder
<1>3. \A p \in P : UpTo(R, P, p) = {q \in P : q <= p}
  BY DEF UpTo
<1> HIDE DEF R
<1>4. /\ \A a \in 1 .. m : \E p \in P : rank[p] = a
      /\ \A p \in P : rank[p] \in 1 .. m
      /\ \A p, q \in P : rank[p] = rank[q] => p = q
  BY <1>1, <1>2, RankIsOnto
<1>5. ASSUME NEW p \in P PROVE Cardinality({q \in P : q < p}) = rank[p] - 1
  <2> DEFINE A == {q \in P : q <= p}
  <2>1. {q \in P : q < p} = A \ {p} /\ p \in A
    <3>1. p \in Nat /\ \A q \in P : q \in Nat
      BY <1>1
    <3>2. \A q \in P : (q < p <=> q <= p /\ q # p)
      BY <3>1
    <3>3. p <= p
      BY <3>1
    <3> QED
      BY <3>2, <3>3
  <2>2. IsFiniteSet(A) /\ Cardinality(A) = rank[p]
    BY <1>1, <1>3, FS_Subset
  <2> HIDE DEF A
  <2>3. Cardinality(A \ {p}) = Cardinality(A) - 1
    BY <2>1, <2>2, FS_RemoveElement
  <2> QED
    BY <2>1, <2>2, <2>3
<1>6. ASSUME NEW p \in P PROVE f[p] = g[rank[p]] /\ f[p] \in Int
  <2>1. f[p] = U!homogeneous_repart(n, m, rank[p] - 1) /\ p \in Rank
    BY <1>5
  <2>2. rank[p] \in 1 .. m
    BY <1>4
  <2> HIDE DEF rank
  <2>3. g[rank[p]] = U!homogeneous_repart(n, m, rank[p] - 1) /\ rank[p] - 1 \in Nat
    BY <1>1, <2>2
  <2>4. U!homogeneous_repart(n, m, rank[p] - 1) \in Nat
    BY <1>1, <2>3, FirstPartsAre
  <2> QED
    BY <2>1, <2>3, <2>4
<1>7. \A a \in 1 .. m : g[a] = U!homogeneous_repart(n, m, 0 + a - 1)
  OBVIOUS
<1>8. /\ IsFiniteSet(Rank) /\ (\A p \in Rank : f[p] \in Int)
      /\ (\A p \in Rank \ P : f[p] = 0)
  <2>1. \A p \in Rank \ P : f[p] = 0
    OBVIOUS
  <2>2. \A p \in P : f[p] \in Int
    BY <1>6
  <2> QED
    BY <2>1, <2>2, RankFacts
<1>9. {rank[p] : p \in P} = 1 .. m
  BY <1>4
<1> HIDE DEF rank, g, m
<1>10. SumAt(f, Rank) = SumAt(f, P)
  BY <1>8, SumWithin
<1>11. SumAt(g, {rank[p] : p \in P}) = SumAt(f, P)
  <2>1. IsFiniteSet(P) /\ \A p \in P : f[p] \in Int
    BY <1>1, <1>6
  <2>2. \A p \in P : g[rank[p]] = f[p]
    BY <1>6
  <2>3. \A p, q \in P : rank[p] = rank[q] => p = q
    BY <1>4
  <2> QED
    BY <2>1, <2>2, <2>3, SumImage
<1>12. SumAt(g, 1 .. m) = FirstParts(n, m, 0 + m) - FirstParts(n, m, 0)
  BY <1>1, <1>7, PartsAddUp
<1>13. FirstParts(n, m, 0 + m) - FirstParts(n, m, 0) = n
  <2>1. 0 + m = m
    BY <1>1
  <2> QED
    BY <1>1, <2>1, FirstPartsAre
<1> QED
  BY <1>9, <1>10, <1>11, <1>12, <1>13

\* The parts that the ranks ask of npart_per_zone, n_part[p] for rank p, make up the zone.
LEMMA PartsAsked ==
  ASSUME NEW n \in Nat, NEW np \in [Rank -> Nat], NEW b \in Rank, np[b] > 0, NEW f,
         \A p \in Rank : f[p] = FirstParts(n, SumAt(np, Rank), SumAt(np, 0 .. p - 1) + np[p])
                                  - FirstParts(n, SumAt(np, Rank), SumAt(np, 0 .. p - 1))
  PROVE  SumAt(f, Rank) = n /\ SumAt(np, Rank) \in Nat /\ SumAt(np, Rank) # 0
<1> DEFINE m == SumAt(np, Rank)
           S(l) == SumAt(np, 0 .. l - 1)
           F(a) == FirstParts(n, m, a)
           T == {l \in 0 .. NRank : SumAt(f, 0 .. l - 1) = F(S(l))}
<1>1. IsFiniteSet(Rank) /\ Rank = 0 .. NRank - 1 /\ NRank \in Nat /\ \A p \in Rank : np[p] \in Int
  BY RankFacts DEF Rank
<1>2. m \in Nat /\ m # 0
  <2>1. IsFiniteSet(Rank \ {b}) /\ \A p \in Rank \ {b} : np[p] \in Nat
    BY <1>1, FS_Subset
  <2>2. m = np[b] + SumAt(np, Rank \ {b})
    <3>1. \A a \in Rank : SumAt(np, Rank) = np[a] + SumAt(np, Rank \ {a})
      <4> DEFINE x == np
      <4>1. IsFiniteSet(Rank) /\ \A p \in Rank : x[p] \in Int
        BY <1>1
      <4> HIDE DEF x
      <4>2. \A a \in Rank : SumAt(x, Rank) = x[a] + SumAt(x, Rank \ {a})
        BY <4>1, SumTake
      <4> QED
        BY <4>2 DEF x
    <3> QED
      BY <3>1
  <2>3. SumAt(np, Rank \ {b}) \in Nat
    BY <2>1, SumNat
  <2> QED
    BY <2>2, <2>3
<1>3. ASSUME NEW l \in 0 .. NRank PROVE S(l) \in Nat /\ IsFiniteSet(0 .. l - 1)
  <2> DEFINE I == 0 .. l - 1
  <2>1. IsFiniteSet(I)
    BY <1>1, FS_Interval
  <2>2. \A p \in I : np[p] \in Nat
    BY <1>1
  <2> HIDE DEF I
  <2>3. SumAt(np, I) \in Nat
    BY <2>1, <2>2, SumNat
  <2> QED
    BY <2>1, <2>3 DEF I
<1> HIDE DEF m
<1>4. F(0) = 0 /\ F(m) = n /\ \A a \in Nat : F(a) \in Nat
  BY <1>2, FirstPartsAre
<1>5. \A p \in Rank : f[p] = F(S(p) + np[p]) - F(S(p))
  BY DEF m
<1> HIDE DEF F
<1>6. ASSUME NEW p \in Rank PROVE f[p] \in Int
  <2>1. S(p) \in Nat /\ S(p) + np[p] \in Nat
    BY <1>1, <1>3
  <2>2. f[p] = F(S(p) + np[p]) - F(S(p))
    BY <1>5
  <2> HIDE DEF S
  <2>3. F(S(p)) \in Nat /\ F(S(p) + np[p]) \in Nat
    BY <1>4, <2>1
  <2> QED
    BY <2>2, <2>3
<1>7. 0 \in T
  <2>1. 0 .. 0 - 1 = {} /\ 0 \in 0 .. NRank
    BY <1>1
  <2>2. SumAt(f, {}) = 0 /\ SumAt(np, {}) = 0
    BY FS_EmptySet, SumTake
  <2> QED
    BY <1>4, <2>1, <2>2
<1>8. ASSUME NEW l \in 0 .. NRank - 1, l \in T PROVE l + 1 \in T
  <2> DEFINE I == 0 .. l - 1
  <2>1. l \in Rank /\ l + 1 \in 0 .. NRank /\ 0 .. (l + 1) - 1 = I \cup {l} /\ l \notin I
        /\ l \in 0 .. NRank /\ I \in SUBSET Rank
    BY <1>1
  <2>2. IsFiniteSet(I) /\ S(l) \in Nat /\ S(l) = SumAt(np, I)
    BY <1>3, <2>1
  <2>3. SumAt(f, I) = F(S(l))
    BY <1>8
  <2>4. \A p \in I : np[p] \in Int /\ f[p] \in Int
    BY <1>1, <1>6, <2>1
  <2>5. f[l] \in Int /\ np[l] \in Nat
    BY <1>6, <2>1
  <2> HIDE DEF I
  <2>6. SumAt(np, I \cup {l}) = SumAt(np, I) + np[l] /\ SumAt(f, I \cup {l}) = SumAt(f, I) + f[l]
    <3>1. l \notin I /\ IsFiniteSet(I) /\ f[l] \in Int /\ np[l] \in Int
      BY <2>1, <2>2, <2>5
    <3>2. SumAt(np, I \cup {l}) = SumAt(np, I) + np[l]
      BY <2>4, <3>1, SumAdd
    <3>3. SumAt(f, I \cup {l}) = SumAt(f, I) + f[l]
      BY <2>4, <3>1, SumAdd
    <3> QED
      BY <3>2, <3>3
  <2>7. f[l] = F(S(l) + np[l]) - F(S(l))
    BY <1>5, <2>1
  <2>8. S(l + 1) = S(l) + np[l] /\ SumAt(f, 0 .. (l + 1) - 1) = F(S(l)) + f[l]
    BY <2>1, <2>2, <2>3, <2>6
  <2> HIDE DEF S
  <2>9. F(S(l)) \in Nat /\ F(S(l) + np[l]) \in Nat
    <3>1. S(l) + np[l] \in Nat
      BY <2>2, <2>5
    <3> QED
      BY <1>4, <2>2, <3>1
  <2>10. SumAt(f, 0 .. (l + 1) - 1) = F(S(l + 1))
    BY <2>7, <2>8, <2>9
  <2> QED
    BY <2>1, <2>10
<1> HIDE DEF T
<1>9. \A l \in 0 .. NRank : l \in T
  BY <1>1, <1>7, <1>8, IntervalInduction
<1>10. NRank \in T
  BY <1>1, <1>9
<1> QED
  BY <1>1, <1>2, <1>4, <1>10 DEF T, S, m

-----------------------------------------------------------------------------
\* The ranks of a sequence.
LEMMA RanksListed ==
  ASSUME NEW s \in Seq(Nat)
  PROVE  /\ U!ToSet(s) \in SUBSET Nat /\ (U!ToSet(s) = {} <=> s = << >>)
         /\ \A a \in Nat : /\ U!ToSet(Append(s, a)) = U!ToSet(s) \cup {a}
                           /\ U!ToSet(<<a>>) = {a}
         /\ \A t \in Seq(Nat) : U!ToSet(s \o t) = U!ToSet(s) \cup U!ToSet(t)
<1> DEFINE T(t) == {t[a] : a \in 1 .. Len(t)}
<1>1. \A t \in Seq(Nat) : U!ToSet(t) = T(t) /\ Len(t) \in Nat
  BY DEF U!ToSet
<1>2. U!ToSet(s) \in SUBSET Nat
  BY <1>1
<1>3. U!ToSet(s) = {} <=> s = << >>
  <2>1. ASSUME s # << >> PROVE U!ToSet(s) # {}
    <3>1. 1 \in 1 .. Len(s)
      BY <1>1, <2>1
    <3>2. s[1] \in T(s)
      BY <3>1
    <3> QED
      BY <1>1, <3>2
  <2>2. ASSUME s = << >> PROVE U!ToSet(s) = {}
    <3>1. 1 .. Len(s) = {}
      BY <2>2
    <3> QED
      BY <1>1, <3>1
  <2> QED
    BY <2>1, <2>2
<1>4. ASSUME NEW a \in Nat PROVE U!ToSet(Append(s, a)) = U!ToSet(s) \cup {a}
  <2> DEFINE t == Append(s, a)
  <2>1. /\ t \in Seq(Nat) /\ Len(t) = Len(s) + 1 /\ Len(s) \in Nat /\ t[Len(s) + 1] = a
        /\ \A b \in 1 .. Len(s) : t[b] = s[b]
    BY AppendProperties
  <2> HIDE DEF t
  <2>2. 1 .. Len(t) = (1 .. Len(s)) \cup {Len(s) + 1}
    BY <2>1
  <2>3. T(t) = T(s) \cup {a}
    BY <2>1, <2>2
  <2> QED
    BY <1>1, <2>1, <2>3 DEF t
<1>5. ASSUME NEW a \in Nat PROVE U!ToSet(<<a>>) = {a}
  <2> DEFINE t == <<a>>
  <2>1. t \in Seq(Nat) /\ Len(t) = 1 /\ t[1] = a
    OBVIOUS
  <2> HIDE DEF t
  <2>2. 1 .. Len(t) = {1}
    BY <2>1
  <2>3. T(t) = {a}
    BY <2>1, <2>2
  <2> QED
    BY <1>1, <2>1, <2>3 DEF t
<1>6. ASSUME NEW t \in Seq(Nat) PROVE U!ToSet(s \o t) = U!ToSet(s) \cup U!ToSet(t)
  <2> DEFINE u == s \o t
  <2>1. /\ u \in Seq(Nat) /\ Len(u) = Len(s) + Len(t) /\ Len(s) \in Nat /\ Len(t) \in Nat
        /\ \A b \in 1 .. Len(s) : u[b] = s[b]
        /\ \A b \in 1 .. Len(t) : u[Len(s) + b] = t[b]
    <3>1. s \o t \in Seq(Nat) /\ Len(s \o t) = Len(s) + Len(t) /\ Len(s) \in Nat /\ Len(t) \in Nat
      BY <1>1, ConcatProperties
    <3>2. \A b \in 1 .. Len(s) + Len(t) :
            (s \o t)[b] = IF b <= Len(s) THEN s[b] ELSE t[b - Len(s)]
      BY ConcatProperties
    <3>3. \A b \in 1 .. Len(s) : b \in 1 .. Len(s) + Len(t) /\ b <= Len(s)
      BY <3>1
    <3>4. \A b \in 1 .. Len(t) : /\ Len(s) + b \in 1 .. Len(s) + Len(t) /\ ~ (Len(s) + b <= Len(s))
                                 /\ (Len(s) + b) - Len(s) = b
      BY <3>1
    <3> QED
      BY <3>1, <3>2, <3>3, <3>4
  <2> HIDE DEF u
  <2>2. ASSUME NEW b \in 1 .. Len(u) PROVE u[b] \in T(s) \cup T(t)
    <3>1. CASE b \in 1 .. Len(s)
      BY <2>1, <3>1
    <3>2. CASE b \notin 1 .. Len(s)
      <4>1. b - Len(s) \in 1 .. Len(t) /\ b = Len(s) + (b - Len(s))
        BY <2>1, <3>2
      <4> QED
        BY <2>1, <4>1
    <3> QED
      BY <3>1, <3>2
  <2>3. ASSUME NEW b \in 1 .. Len(s) PROVE s[b] \in T(u)
    <3>1. b \in 1 .. Len(u)
      BY <2>1
    <3> QED
      BY <2>1, <3>1
  <2>4. ASSUME NEW b \in 1 .. Len(t) PROVE t[b] \in T(u)
    <3>1. Len(s) + b \in 1 .. Len(u)
      BY <2>1
    <3> QED
      BY <2>1, <3>1
  <2>5. T(u) = T(s) \cup T(t)
    BY <2>2, <2>3, <2>4
  <2> QED
    BY <1>1, <2>1, <2>5 DEF u
<1> QED
  BY <1>2, <1>3, <1>4, <1>5, <1>6

\* The zones that the next rank takes are zones without ranks; it takes one if they fit.
LEMMA GreedyIs ==
  ASSUME SizesOK, NEW S \in SUBSET Zone
  PROVE  /\ U!Greedy(S) \in SUBSET S
         /\ S # {} /\ (\A z \in S : size[z] <= U!mean_per_rank) => U!Greedy(S) # {}
<1> DEFINE L == Len(size)
           m == U!mean_per_rank
           Z == SUBSET S
           more(u, z) == IF z \in S /\ SumAt(size, u) + size[z] <= m THEN u \cup {z} ELSE u
           step == [z \in 1 .. L |-> [u \in Z |-> more(u, z)]]
           F(t) == t = [z \in 0 .. L |-> IF z = 0 THEN {} ELSE more(t[z - 1], z)]
<1>1. L \in Nat /\ Zone = 1 .. L /\ \A z \in Zone : size[z] \in Nat
  BY ZoneFacts DEF SizesOK
<1>2. step \in [1 .. L -> [Z -> Z]] /\ {} \in Z
  OBVIOUS
<1>3. \A z \in 1 .. L : \A u \in Z : step[z][u] = more(u, z)
  OBVIOUS
<1> HIDE DEF step, Z
<1>4. PICK g \in [0 .. L -> Z] : Recursive(g, {}, step, L)
  BY <1>1, <1>2, RecursionExists
<1>5. F(g)
  <2>1. g[0] = {}
    BY <1>4 DEF Recursive
  <2>2. ASSUME NEW z \in 1 .. L PROVE g[z] = more(g[z - 1], z)
    <3>1. z - 1 \in 0 .. L /\ g[z - 1] \in Z
      BY <1>1, <1>4
    <3>2. g[z] = step[z][g[z - 1]]
      BY <1>4 DEF Recursive
    <3> QED
      BY <1>3, <3>1, <3>2
  <2> HIDE DEF more
  <2>3. \A z \in 0 .. L : g[z] = IF z = 0 THEN {} ELSE more(g[z - 1], z)
    BY <1>1, <2>1, <2>2
  <2> QED
    BY <1>4, <2>3
<1> DEFINE t == CHOOSE t : F(t)
<1>6. F(t)
  BY <1>5, Zenon
<1>7. U!Greedy(S) = t[L]
  BY UniformUses DEF U!Greedy
<1> HIDE DEF t
<1>8. \A z \in 0 .. L : t[z] = IF z = 0 THEN {} ELSE more(t[z - 1], z)
  BY <1>6
<1> HIDE DEF F
<1> DEFINE Fit == \A z \in S : size[z] <= m
           T == {z \in 0 .. L : /\ t[z] \in SUBSET S
                                /\ Fit /\ (\E y \in S : y <= z) => t[z] # {}}
<1>9. 0 \in T
  <2> HIDE DEF more
  <2>1. t[0] = {} /\ 0 \in 0 .. L
    <3>1. 0 \in 0 .. L
      BY <1>1
    <3> QED
      BY <1>8, <3>1
  <2>2. \A y \in S : ~ (y <= 0)
    BY <1>1
  <2> QED
    BY <2>1, <2>2
<1>10. ASSUME NEW z \in 0 .. L - 1, z \in T PROVE z + 1 \in T
  <2>1. z + 1 \in 0 .. L /\ z + 1 # 0 /\ (z + 1) - 1 = z /\ z + 1 \in Zone
    BY <1>1
  <2>2. t[z + 1] = more(t[z], z + 1) /\ t[z] \in SUBSET S
    BY <1>8, <1>10, <2>1
  <2>3. t[z + 1] \in SUBSET S
    BY <2>2
  <2>4. ASSUME Fit, NEW y \in S, y <= z + 1 PROVE t[z + 1] # {}
    <3>1. CASE y <= z
      <4>1. t[z] # {}
        BY <1>10, <2>4, <3>1
      <4> QED
        BY <2>2, <4>1
    <3>2. CASE ~ (y <= z) /\ t[z] # {}
      BY <2>2, <3>2
    <3>3. CASE ~ (y <= z) /\ t[z] = {}
      <4>1. y = z + 1
        BY <1>1, <2>1, <2>4, <3>3
      <4>2. SumAt(size, {}) = 0
        BY FS_EmptySet, SumTake
      <4>3. size[z + 1] \in Nat /\ size[z + 1] <= m
        BY <1>1, <2>1, <2>4, <4>1
      <4>4. 0 + size[z + 1] <= m
        BY <4>3
      <4>5. more({}, z + 1) = {} \cup {z + 1}
        BY <2>4, <4>1, <4>2, <4>4
      <4> QED
        BY <2>2, <3>3, <4>5
    <3> QED
      BY <3>1, <3>2, <3>3
  <2> QED
    BY <2>1, <2>3, <2>4
<1> HIDE DEF T
<1>11. \A z \in 0 .. L : z \in T
  BY <1>1, <1>9, <1>10, IntervalInduction
<1>12. L \in T
  BY <1>1, <1>11
<1>13. \A y \in S : y <= L
  BY <1>1
<1> QED
  BY <1>7, <1>12, <1>13 DEF T

\* The ranks of each zone.
RanksOf(ps) == [z \in Zone |-> U!ToSet(ps[z])]

\* Rank p has a zone.
Reached(h, p) == \E z \in Zone : p \in h[z]

\* Which ranks have zones: the ones below cur_rank, if there are as many cells as ranks, because
\* a zone that is left without ranks is below the mean.
RanksKnown(at, c, b, h, rp) ==
  /\ at \in {"start", "share"} /\ U!mean_per_rank = 0 => c = 0
  /\ at = "remain" => (\E z \in Zone : h[z] = {}) /\ (U!mean_per_rank = 0 => c < NRank)
  /\ U!mean_per_rank = 0 => c <= NRank
  /\ U!mean_per_rank > 0 => \A p \in 0 .. c - 1 : Reached(h, p)
  /\ at = "share" => /\ U!mean_per_rank > 0 /\ h[b] # {}
                     /\ \A p \in c .. c + U!n_rank_zone(b) - 1 : Reached(h, p)
  /\ U!mean_per_rank > 0 =>
       \A z \in Zone : h[z] = {} /\ (at \in {"start", "share"} => z < b) => size[z] < U!mean_per_rank
  /\ at \in {"least", "done", "returned"} => c <= NRank /\ \A z \in Zone : h[z] \in SUBSET Rank
  /\ at \in {"done", "returned"} => c = NRank /\ \A z \in Zone : SumAt(rp[z], Rank) = size[z]

RanksInv == RanksKnown(pc, cur, i, RanksOf(procs), rep)

\* The sizes do not change.
LEMMA RanksPrime ==
  ASSUME size' = size
  PROVE  /\ RanksInv' <=> RanksKnown(pc', cur', i', RanksOf(procs'), rep')
         /\ RanksOf(procs)' = RanksOf(procs')
<1>1. U!mean_per_rank' = U!mean_per_rank
  BY DEF U!mean_per_rank, U!Zone
<1>2. U!n_rank_zone(i)' = U!n_rank_zone(i')
  BY <1>1 DEF U!n_rank_zone
<1>3. Zone' = Zone
  BY DEF Zone
<1>4. RanksOf(procs)' = RanksOf(procs')
  BY <1>3 DEF RanksOf
<1> QED
  BY <1>1, <1>2, <1>3, <1>4 DEF RanksInv, RanksKnown, Reached

\* The zones without ranks.
LEMMA RemainIs ==
  ASSUME procs \in [Zone -> Seq(Nat)]
  PROVE  /\ U!Remain = {z \in Zone : RanksOf(procs)[z] = {}}
         /\ \A z \in Zone : RanksOf(procs)[z] \in SUBSET Nat
<1>1. \A z \in Zone : RanksOf(procs)[z] = U!ToSet(procs[z]) /\ procs[z] \in Seq(Nat)
  BY DEF RanksOf
<1>2. \A z \in Zone : (RanksOf(procs)[z] = {} <=> procs[z] = << >>) /\ RanksOf(procs)[z] \in SUBSET Nat
  BY <1>1, RanksListed
<1>3. U!Remain = {z \in Zone : procs[z] = << >>}
  BY UniformUses DEF U!Remain
<1> QED
  BY <1>2, <1>3

\* The ranks of a zone after one more is added to it.
LEMMA RanksAfter ==
  ASSUME procs \in [Zone -> Seq(Nat)], NEW y \in Zone, NEW a \in Nat,
         procs' = [procs EXCEPT ![y] = Append(@, a)]
  PROVE  \A z \in Zone : RanksOf(procs')[z] = IF z = y THEN RanksOf(procs)[z] \cup {a}
                                              ELSE RanksOf(procs)[z]
<1>1. procs[y] \in Seq(Nat)
  OBVIOUS
<1>2. U!ToSet(Append(procs[y], a)) = U!ToSet(procs[y]) \cup {a}
  BY <1>1, RanksListed
<1>3. procs'[y] = Append(procs[y], a) /\ \A z \in Zone \ {y} : procs'[z] = procs[z]
  OBVIOUS
<1> QED
  BY <1>2, <1>3 DEF RanksOf

\* Zones only get ranks.
LEMMA ReachedMore ==
  ASSUME NEW h, NEW g, \A z \in Zone : h[z] \subseteq g[z]
  PROVE  /\ \A p : Reached(h, p) => Reached(g, p)
         /\ \A z \in Zone : g[z] = {} => h[z] = {}
BY DEF Reached

\* The ranks that a zone fills are the ones it has as many cells for.
LEMMA FilledMeans ==
  ASSUME SizesOK, NEW z \in Zone
  PROVE  /\ U!n_rank_zone(z) > 0 => U!mean_per_rank > 0
         /\ U!mean_per_rank > 0 /\ ~ (U!n_rank_zone(z) > 0) => size[z] < U!mean_per_rank
<1> DEFINE m == U!mean_per_rank
           n == size[z]
           q == U!n_rank_zone(z)
<1>1. m \in Nat /\ q \in Nat /\ n \in Nat
  BY FilledRanks
<1>2. q = IF m = 0 THEN 0 ELSE n \div m
  BY DEF U!n_rank_zone
<1>3. ASSUME m > 0, ~ (q > 0) PROVE n < m
  <2> DEFINE d == n \div m
             e == n % m
  <2> HIDE DEF m, n, q
  <2>1. m # 0
    BY <1>1, <1>3
  <2>2. d \in Nat /\ e \in Nat /\ e < m /\ n = m * d + e
    BY <1>1, <2>1, Division
  <2> HIDE DEF d, e
  <2>3. d = 0
    <3>1. q = d
      BY <1>2, <2>1 DEF d
    <3> QED
      BY <1>1, <1>3, <3>1
  <2>4. m * d = 0
    BY <1>1, <2>3
  <2> QED
    BY <1>1, <2>2, <2>4
<1> HIDE DEF m, n, q
<1>4. ASSUME q > 0 PROVE m > 0
  BY <1>1, <1>2, <1>4
<1> QED
  BY <1>3, <1>4 DEF m, n, q

\* A large zone takes the ranks it fills.
LEMMA GiveRanksKnown == UniformInv /\ RanksInv /\ U!GiveRanks => RanksInv'
<1> SUFFICES ASSUME UniformInv, RanksInv, U!GiveRanks PROVE RanksInv'
  OBVIOUS
<1> DEFINE n == U!n_rank_zone(i)
           m == U!mean_per_rank
           new == [p \in 1 .. n |-> cur + p - 1]
           h == RanksOf(procs)
           g == RanksOf(procs')
<1>1. /\ i \in Zone /\ pc = "start" /\ procs' = [procs EXCEPT ![i] = @ \o new]
      /\ IF n > 0 THEN pc' = "share" /\ i' = i ELSE i' = i + 1 /\ pc' = pc
      /\ size' = size /\ cur' = cur /\ rep' = rep
  BY UniformUses DEF U!GiveRanks
<1>2. SizesOK /\ procs \in [Zone -> Seq(Nat)] /\ cur \in Nat
  BY UniformTypes
<1>3. /\ n \in Nat /\ m \in Nat /\ (n > 0 => m > 0) /\ (m > 0 /\ ~ (n > 0) => size[i] < m)
      /\ i \in Nat /\ Zone \in SUBSET Nat
  BY <1>1, <1>2, FilledRanks, FilledMeans, ZoneFacts
<1>4. RanksKnown(pc, cur, i, h, rep)
  BY DEF RanksInv
<1> HIDE DEF n, m
<1>5. new \in Seq(Nat) /\ Len(new) = n /\ \A p \in 1 .. n : new[p] = cur + p - 1
  <2>1. new \in [1 .. n -> Nat] /\ \A p \in 1 .. n : new[p] = cur + p - 1
    BY <1>2, <1>3
  <2> HIDE DEF new
  <2> QED
    BY <1>3, <2>1
<1> HIDE DEF new
<1>6. ASSUME NEW p \in cur .. cur + n - 1 PROVE p \in U!ToSet(new)
  <2>1. p - cur + 1 \in 1 .. n /\ cur + (p - cur + 1) - 1 = p
    BY <1>2, <1>3
  <2>2. new[p - cur + 1] = p /\ p - cur + 1 \in DOMAIN new
    BY <1>5, <2>1
  <2> QED
    BY <2>2 DEF U!ToSet
<1>7. \A z \in Zone : g[z] = IF z = i THEN h[z] \cup U!ToSet(new) ELSE h[z]
  <2>1. procs[i] \in Seq(Nat)
    BY <1>1, <1>2
  <2>2. U!ToSet(procs[i] \o new) = U!ToSet(procs[i]) \cup U!ToSet(new)
    BY <1>5, <2>1, RanksListed
  <2>3. procs'[i] = procs[i] \o new /\ \A z \in Zone \ {i} : procs'[z] = procs[z]
    BY <1>1, <1>2
  <2> QED
    BY <2>2, <2>3 DEF RanksOf
<1> HIDE DEF h, g
<1>8. \A z \in Zone : h[z] \subseteq g[z]
  BY <1>7
<1>9. (\A p : Reached(h, p) => Reached(g, p)) /\ (\A z \in Zone : g[z] = {} => h[z] = {})
  BY <1>8, ReachedMore
<1>10. \A p \in cur .. cur + n - 1 : p \in g[i] /\ Reached(g, p)
  BY <1>1, <1>6, <1>7 DEF Reached
<1>11. n > 0 => g[i] # {}
  <2>1. ASSUME n > 0 PROVE cur \in cur .. cur + n - 1
    BY <1>2, <1>3, <2>1
  <2> QED
    BY <1>10, <2>1
<1>12. /\ m = 0 => cur = 0
       /\ m > 0 => \A p \in 0 .. cur - 1 : Reached(g, p)
       /\ m > 0 => \A z \in Zone : g[z] = {} /\ z < i => size[z] < m
  BY <1>1, <1>4, <1>9 DEF RanksKnown, m
<1>13. RanksKnown(pc', cur', i', g, rep')
  <2>1. CASE n > 0
    <3>1. pc' = "share" /\ i' = i /\ cur' = cur /\ m > 0 /\ m # 0
      BY <1>1, <1>3, <2>1
    <3> QED
      BY <1>10, <1>11, <1>12, <2>1, <3>1 DEF RanksKnown, m, n
  <2>2. CASE ~ (n > 0)
    <3>1. pc' = "start" /\ i' = i + 1 /\ cur' = cur /\ (m = 0 => cur' <= NRank)
      BY <1>1, <1>12, <2>2, RankFacts
    <3>2. m > 0 => \A z \in Zone : g[z] = {} /\ z < i + 1 => size[z] < m
      <4> SUFFICES ASSUME m > 0, NEW z \in Zone, g[z] = {}, z < i + 1 PROVE size[z] < m
        OBVIOUS
      <4>1. z < i \/ z = i
        BY <1>3
      <4> QED
        BY <1>3, <1>12, <2>2, <4>1
    <3> QED
      BY <1>12, <3>1, <3>2 DEF RanksKnown, m
  <2> QED
    BY <2>1, <2>2
<1> QED
  BY <1>1, <1>13, RanksPrime DEF g

\* The steps that add ranks to zones, while the large zones are shared.
LEMMA ShareKnown == UniformInv /\ RanksInv /\ U!Share => RanksInv'
<1> SUFFICES ASSUME UniformInv, RanksInv, U!Share PROVE RanksInv'
  OBVIOUS
<1> DEFINE fits == procs[j] = << >> /\ size[j] <= r
           next == IF ii > U!n_rank_zone(i) THEN 0 ELSE ii
           h == RanksOf(procs)
           g == RanksOf(procs')
<1>1. /\ j \in Zone /\ pc = "share" /\ pc' = "share"
      /\ size' = size /\ cur' = cur /\ rep' = rep /\ i' = i
      /\ fits => procs' = [procs EXCEPT ![j] = Append(@, next + cur)]
      /\ ~ fits => procs' = procs
  BY UniformUses DEF U!Share
<1>2. procs \in [Zone -> Seq(Nat)] /\ cur \in Nat /\ ii \in Nat /\ i \in Zone
  BY <1>1 DEF UniformInv
<1>3. next + cur \in Nat
  BY <1>2
<1> HIDE DEF fits, next
<1>4. \A z \in Zone : h[z] \subseteq g[z]
  <2>1. CASE fits
    BY <1>1, <1>2, <1>3, <2>1, RanksAfter
  <2>2. CASE ~ fits
    BY <1>1, <2>2
  <2> QED
    BY <2>1, <2>2
<1>5. RanksKnown(pc, cur, i, h, rep)
  BY DEF RanksInv
<1> HIDE DEF h, g
<1>6. (\A p : Reached(h, p) => Reached(g, p)) /\ (\A z \in Zone : g[z] = {} => h[z] = {})
  BY <1>4, ReachedMore
<1>7. RanksKnown(pc', cur', i', g, rep')
  BY <1>1, <1>2, <1>5, <1>6 DEF RanksKnown
<1> QED
  BY <1>1, <1>7, RanksPrime DEF g

\* The ranks of the zone are behind.
LEMMA EndShareKnown == UniformInv /\ RanksInv /\ U!EndShare => RanksInv'
<1> SUFFICES ASSUME UniformInv, RanksInv, U!EndShare PROVE RanksInv'
  OBVIOUS
<1> DEFINE n == U!n_rank_zone(i)
           m == U!mean_per_rank
           h == RanksOf(procs)
<1>1. /\ cur' = cur + n /\ i' = i + 1 /\ pc = "share" /\ pc' = "start"
      /\ size' = size /\ procs' = procs /\ rep' = rep
  BY DEF U!EndShare
<1>2. SizesOK /\ cur \in Nat /\ i \in Zone
  BY <1>1 DEF UniformInv
<1>3. n \in Nat /\ m \in Nat /\ Zone \in SUBSET Nat
  BY <1>2, FilledRanks, ZoneFacts
<1>4. RanksKnown(pc, cur, i, h, rep)
  BY DEF RanksInv
<1> HIDE DEF n, m, h
<1>5. /\ m > 0 /\ h[i] # {} /\ (\A p \in cur .. cur + n - 1 : Reached(h, p))
      /\ (\A p \in 0 .. cur - 1 : Reached(h, p))
      /\ \A z \in Zone : h[z] = {} /\ z < i => size[z] < m
  BY <1>1, <1>4 DEF RanksKnown, m, n
<1>6. \A p \in 0 .. (cur + n) - 1 : Reached(h, p)
  <2> SUFFICES ASSUME NEW p \in 0 .. (cur + n) - 1 PROVE Reached(h, p)
    OBVIOUS
  <2>1. p \in 0 .. cur - 1 \/ p \in cur .. cur + n - 1
    BY <1>2, <1>3
  <2> QED
    BY <1>5, <2>1
<1>7. \A z \in Zone : h[z] = {} /\ z < i + 1 => size[z] < m
  <2> SUFFICES ASSUME NEW z \in Zone, h[z] = {}, z < i + 1 PROVE size[z] < m
    OBVIOUS
  <2>1. z < i \/ z = i
    BY <1>2, <1>3
  <2> QED
    BY <1>5, <2>1
<1>8. m # 0
  BY <1>3, <1>5
<1>9. RanksKnown(pc', cur', i', h, rep')
  BY <1>1, <1>6, <1>7, <1>8 DEF RanksKnown, m
<1> QED
  BY <1>1, <1>9, RanksPrime DEF h

\* All the zones have been seen: the ones without ranks are below the mean.
LEMMA EndZonesKnown == UniformInv /\ RanksInv /\ U!EndZones => RanksInv'
<1> SUFFICES ASSUME UniformInv, RanksInv, U!EndZones PROVE RanksInv'
  OBVIOUS
<1> DEFINE m == U!mean_per_rank
           h == RanksOf(procs)
<1>1. /\ pc = "start" /\ i \notin Zone /\ pc' = IF U!Remain = {} THEN "load" ELSE "remain"
      /\ size' = size /\ procs' = procs /\ rep' = rep /\ cur' = cur /\ i' = i
  BY UniformUses DEF U!EndZones
<1>2. SizesOK /\ procs \in [Zone -> Seq(Nat)] /\ i \in 1 .. Len(size) + 1 /\ Len(size) \in Nat
  BY DEF UniformInv, SizesOK
<1>3. \A z \in Zone : z < i
  BY <1>1, <1>2, ZoneFacts
<1>4. RanksKnown(pc, cur, i, h, rep)
  BY DEF RanksInv
<1>5. U!Remain = {z \in Zone : h[z] = {}}
  BY <1>2, RemainIs
<1>6. NRank > 0 /\ NRank \in Nat
  BY RankFacts
<1> HIDE DEF m, h
<1>7. /\ m = 0 => cur = 0
      /\ m > 0 => \A p \in 0 .. cur - 1 : Reached(h, p)
      /\ m > 0 => \A z \in Zone : h[z] = {} => size[z] < m
  BY <1>1, <1>3, <1>4 DEF RanksKnown, m
<1>8. m = 0 => cur < NRank /\ cur <= NRank
  BY <1>6, <1>7
<1>9. pc' = "remain" => \E z \in Zone : h[z] = {}
  BY <1>1, <1>5
<1>10. pc' \in {"load", "remain"}
  BY <1>1
<1>11. RanksKnown(pc', cur', i', h, rep')
  BY <1>1, <1>7, <1>8, <1>9, <1>10 DEF RanksKnown, m
<1> QED
  BY <1>1, <1>11, RanksPrime DEF h

\* The next rank takes zones; it takes one at least if there are as many cells as ranks.
LEMMA TakeRemainKnown == UniformInv /\ RanksInv /\ U!TakeRemain => RanksInv'
<1> SUFFICES ASSUME UniformInv, RanksInv, U!TakeRemain PROVE RanksInv'
  OBVIOUS
<1> DEFINE m == U!mean_per_rank
           T == U!Greedy(U!Remain)
           h == RanksOf(procs)
           g == RanksOf(procs')
<1>1. /\ pc = "remain" /\ procs' = [z \in Zone |-> IF z \in T THEN <<cur>> ELSE procs[z]]
      /\ pc' = IF T = U!Remain \/ cur + 1 = NRank THEN "load" ELSE "remain"
      /\ cur' = cur + 1 /\ size' = size /\ rep' = rep /\ i' = i
  BY UniformUses DEF U!TakeRemain
<1>2. SizesOK /\ procs \in [Zone -> Seq(Nat)] /\ cur \in Nat
  BY UniformTypes
<1>3. RanksKnown(pc, cur, i, h, rep)
  BY DEF RanksInv
<1>4. U!Remain = {z \in Zone : h[z] = {}}
  BY <1>2, RemainIs
<1>5. /\ T \in SUBSET U!Remain
      /\ U!Remain # {} /\ (\A z \in U!Remain : size[z] <= m) => T # {}
  <2>1. U!Remain \in SUBSET Zone
    BY <1>4
  <2> QED
    BY <1>2, <2>1, GreedyIs
<1>6. \A z \in Zone : g[z] = IF z \in T THEN {cur} ELSE h[z]
  <2>1. << >> \in Seq(Nat)
    OBVIOUS
  <2>2. U!ToSet(<<cur>>) = {cur}
    BY <1>2, <2>1, RanksListed
  <2>3. \A z \in Zone : procs'[z] = IF z \in T THEN <<cur>> ELSE procs[z]
    BY <1>1
  <2> QED
    BY <2>2, <2>3 DEF RanksOf
<1>7. m \in Nat /\ (\A z \in Zone : size[z] \in Nat) /\ NRank \in Nat
  BY <1>2, ZoneFacts, FilledRanks, RankFacts
<1> HIDE DEF m, h, g, T
<1>8. \A z \in Zone : h[z] \subseteq g[z]
  BY <1>4, <1>5, <1>6
<1>9. (\A p : Reached(h, p) => Reached(g, p)) /\ (\A z \in Zone : g[z] = {} => h[z] = {})
  BY <1>8, ReachedMore
<1>10. /\ (\E z \in Zone : h[z] = {}) /\ (m = 0 => cur < NRank)
       /\ m > 0 => \A p \in 0 .. cur - 1 : Reached(h, p)
       /\ m > 0 => \A z \in Zone : h[z] = {} => size[z] < m
  BY <1>1, <1>3 DEF RanksKnown, m
<1>11. m > 0 => \A p \in 0 .. (cur + 1) - 1 : Reached(g, p)
  <2> SUFFICES ASSUME m > 0, NEW p \in 0 .. (cur + 1) - 1 PROVE Reached(g, p)
    OBVIOUS
  <2>1. \A z \in U!Remain : size[z] <= m
    BY <1>4, <1>7, <1>10
  <2>2. PICK z \in Zone : z \in T
    BY <1>4, <1>5, <1>10, <2>1
  <2>3. cur \in g[z]
    BY <1>6, <2>2
  <2>4. p \in 0 .. cur - 1 \/ p = cur
    BY <1>2
  <2> QED
    BY <1>9, <1>10, <2>3, <2>4 DEF Reached
<1>12. m = 0 => cur' <= NRank
  BY <1>1, <1>2, <1>7, <1>10
<1>13. pc' = "remain" => (\E z \in Zone : g[z] = {}) /\ (m = 0 => cur' < NRank)
  <2> SUFFICES ASSUME pc' = "remain" PROVE (\E z \in Zone : g[z] = {}) /\ (m = 0 => cur' < NRank)
    OBVIOUS
  <2>1. T # U!Remain /\ cur + 1 # NRank
    BY <1>1
  <2>2. PICK z \in U!Remain : z \notin T
    BY <1>5, <2>1
  <2>3. z \in Zone /\ g[z] = {}
    BY <1>4, <1>6, <2>2
  <2>4. m = 0 => cur' < NRank
    BY <1>1, <1>2, <1>7, <1>12, <2>1
  <2> QED
    BY <2>3, <2>4
<1>14. m > 0 => \A z \in Zone : g[z] = {} => size[z] < m
  BY <1>9, <1>10
<1>15. pc' \in {"load", "remain"}
  BY <1>1
<1>16. RanksKnown(pc', cur', i', g, rep')
  BY <1>1, <1>11, <1>12, <1>13, <1>14, <1>15 DEF RanksKnown, m
<1> QED
  BY <1>1, <1>16, RanksPrime DEF g

\* If the loads can be computed, the ranks of all the zones exist.
LEMMA ComputeLoadKnown == UniformInv /\ RanksInv /\ U!ComputeLoad => RanksInv'
<1> SUFFICES ASSUME UniformInv, RanksInv, U!ComputeLoad PROVE RanksInv'
  OBVIOUS
<1> DEFINE m == U!mean_per_rank
           h == RanksOf(procs)
<1>1. /\ pc = "load" /\ pc' \in {"least", "raised"}
      /\ pc' = "least" => \A z \in Zone : U!ToSet(procs[z]) \subseteq Rank
      /\ procs' = procs /\ cur' = cur /\ size' = size /\ rep' = rep /\ i' = i
  BY UniformUses DEF U!ComputeLoad
<1>2. SizesOK /\ cur \in Nat /\ NRank \in Nat
  BY UniformTypes, RankFacts
<1>3. RanksKnown(pc, cur, i, h, rep)
  BY DEF RanksInv
<1>4. pc' = "least" => \A z \in Zone : h[z] \in SUBSET Rank
  BY <1>1 DEF RanksOf
<1>5. m \in Nat
  BY <1>2, ZoneFacts, FilledRanks
<1> HIDE DEF m, h
<1>6. /\ m = 0 => cur <= NRank
      /\ m > 0 => \A p \in 0 .. cur - 1 : Reached(h, p)
      /\ m > 0 => \A z \in Zone : h[z] = {} => size[z] < m
  BY <1>1, <1>3 DEF RanksKnown, m
<1>7. pc' = "least" => cur <= NRank
  <2> SUFFICES ASSUME pc' = "least", ~ (cur <= NRank) PROVE FALSE
    OBVIOUS
  <2>1. m > 0 /\ NRank \in 0 .. cur - 1
    BY <1>2, <1>5, <1>6
  <2>2. PICK z \in Zone : NRank \in h[z]
    BY <1>6, <2>1 DEF Reached
  <2>3. NRank \in Rank
    BY <1>4, <2>2
  <2> QED
    BY <2>3, RankFacts
<1>8. RanksKnown(pc', cur', i', h, rep')
  BY <1>1, <1>4, <1>6, <1>7 DEF RanksKnown, m
<1> QED
  BY <1>1, <1>8, RanksPrime DEF h

\* One more rank for a zone.
LEMMA OneMoreKnown ==
  ASSUME UniformInv, RanksInv, pc = "least", NEW y \in Zone, NEW p \in Rank,
         procs' = [procs EXCEPT ![y] = Append(@, p)], UNCHANGED <<size, i, rep, pc>>,
         cur' = cur \/ (cur' = cur + 1 /\ p = cur)
  PROVE  RanksInv'
<1> DEFINE m == U!mean_per_rank
           h == RanksOf(procs)
           g == RanksOf(procs')
<1>1. procs \in [Zone -> Seq(Nat)] /\ cur \in Nat /\ p \in Nat /\ p < NRank /\ NRank \in Nat
  BY UniformTypes, RankFacts
<1>2. \A z \in Zone : g[z] = IF z = y THEN h[z] \cup {p} ELSE h[z]
  BY <1>1, RanksAfter
<1>3. RanksKnown(pc, cur, i, h, rep)
  BY DEF RanksInv
<1> HIDE DEF m, h, g
<1>4. /\ m = 0 => cur <= NRank
      /\ m > 0 => \A q \in 0 .. cur - 1 : Reached(h, q)
      /\ m > 0 => \A z \in Zone : h[z] = {} => size[z] < m
      /\ cur <= NRank /\ \A z \in Zone : h[z] \in SUBSET Rank
  BY <1>3 DEF RanksKnown, m
<1>5. \A z \in Zone : h[z] \subseteq g[z]
  BY <1>2
<1>6. (\A q : Reached(h, q) => Reached(g, q)) /\ (\A z \in Zone : g[z] = {} => h[z] = {})
  BY <1>5, ReachedMore
<1>7. Reached(g, p) /\ \A z \in Zone : g[z] \in SUBSET Rank
  BY <1>2, <1>4 DEF Reached
<1>8. cur' <= NRank
  BY <1>1, <1>4
<1>9. m > 0 => \A q \in 0 .. cur' - 1 : Reached(g, q)
  <2> SUFFICES ASSUME m > 0, NEW q \in 0 .. cur' - 1 PROVE Reached(g, q)
    OBVIOUS
  <2>1. q \in 0 .. cur - 1 \/ q = p
    BY <1>1
  <2> QED
    BY <1>4, <1>6, <1>7, <2>1
<1>10. RanksKnown(pc', cur', i', g, rep')
  BY <1>4, <1>6, <1>7, <1>8, <1>9 DEF RanksKnown, m
<1> QED
  BY <1>10, RanksPrime DEF g

\* A zone without ranks goes to a least loaded one.
LEMMA AddToLeastKnown == UniformInv /\ RanksInv /\ U!AddToLeast => RanksInv'
<1> SUFFICES ASSUME UniformInv, RanksInv, U!AddToLeast PROVE RanksInv'
  OBVIOUS
<1> DEFINE z == U!Min(U!Remain)
<1>1. PICK p \in Rank : procs' = [procs EXCEPT ![z] = Append(@, p)]
  BY UniformUses DEF U!AddToLeast
<1>2. pc = "least" /\ U!Remain # {} /\ UNCHANGED <<size, i, rep, pc>> /\ cur' = cur
  BY DEF U!AddToLeast
<1>3. z \in Zone
  <2>1. U!Remain \in SUBSET Zone /\ Zone \in SUBSET Nat
    BY UniformTypes, UniformUses, ZoneFacts DEF U!Remain
  <2>2. PICK y \in U!Remain : \A b \in U!Remain : y <= b
    BY <1>2, <2>1, LeastNat
  <2>3. U!Min(U!Remain) \in U!Remain
    BY <2>2 DEF U!Min
  <2> QED
    BY <2>1, <2>3
<1> HIDE DEF z
<1> QED
  BY <1>1, <1>2, <1>3, OneMoreKnown

\* Quotients a / b, c / d and e / f in decreasing order.
LEMMA QuotientsOrdered ==
  ASSUME NEW a \in Nat, NEW b \in Nat, NEW c \in Nat, NEW d \in Nat, NEW e \in Nat, NEW f \in Nat,
         b > 0, d > 0, f > 0, a * d >= c * b, c * f >= e * d
  PROVE  /\ a * f >= e * b
         /\ a * f = e * b => a * d = c * b /\ c * f = e * d
<1> DEFINE x == a * f
           y == e * b
           u == a * d
           v == c * b
           s == c * f
           t == e * d
<1>1. x \in Nat /\ y \in Nat /\ u \in Nat /\ v \in Nat /\ s \in Nat /\ t \in Nat
  OBVIOUS
<1>2. d * x = f * u /\ f * v = b * s /\ b * t = d * y
  OBVIOUS
<1>3. u >= v /\ s >= t
  OBVIOUS
<1> HIDE DEF x, y, u, v, s, t
<1>4. \A n \in Nat : \A p, q \in Nat : p >= q => n * p >= n * q
  OBVIOUS
<1>5. \A n \in Nat : \A p, q \in Nat : n > 0 /\ p > q => n * p > n * q
  OBVIOUS
<1>6. f * u >= f * v /\ b * s >= b * t
  BY <1>1, <1>3, <1>4
<1>7. \A n, p \in Nat : n * p \in Nat
  OBVIOUS
<1>8. d * x >= d * y
  <2>1. f * u \in Nat /\ f * v \in Nat /\ b * s \in Nat /\ b * t \in Nat /\ d * x \in Nat /\ d * y \in Nat
    BY <1>1, <1>7
  <2> QED
    BY <1>2, <1>6, <2>1
<1>9. x >= y
  <2> SUFFICES ASSUME ~ (x >= y) PROVE FALSE
    OBVIOUS
  <2>1. y > x
    BY <1>1
  <2>2. d * y > d * x
    BY <1>1, <1>5, <2>1
  <2>3. d * x \in Nat /\ d * y \in Nat
    BY <1>1, <1>7
  <2> QED
    BY <1>8, <2>2, <2>3
<1>10. ASSUME x = y PROVE u = v /\ s = t
  <2>1. f * u \in Nat /\ f * v \in Nat /\ b * s \in Nat /\ b * t \in Nat /\ d * x = d * y
    BY <1>1, <1>7, <1>10
  <2>2. f * u = f * v /\ b * s = b * t
    BY <1>2, <1>6, <2>1
  <2>3. u = v
    <3> SUFFICES ASSUME u # v PROVE FALSE
      OBVIOUS
    <3>1. u > v
      BY <1>1, <1>3
    <3>2. f * u > f * v
      BY <1>1, <1>5, <3>1
    <3> QED
      BY <2>1, <2>2, <3>2
  <2>4. s = t
    <3> SUFFICES ASSUME s # t PROVE FALSE
      OBVIOUS
    <3>1. s > t
      BY <1>1, <1>3
    <3>2. b * s > b * t
      BY <1>1, <1>5, <3>1
    <3> QED
      BY <2>1, <2>2, <3>2
  <2> QED
    BY <2>3, <2>4
<1> QED
  BY <1>9, <1>10 DEF x, y, u, v, s, t

\* Some zone has the largest parts.
LEMMA MaxZoneIs ==
  ASSUME UniformInv, U!Remain = {}
  PROVE  U!maxZone \in Zone
<1> DEFINE l == [z \in Zone |-> Len(procs[z])]
           Q(z, y) == \/ size[z] * l[y] > size[y] * l[z]
                      \/ size[z] * l[y] = size[y] * l[z] /\ z <= y
           R == {e \in Zone \X Zone : Q(e[1], e[2])}
<1>1. SizesOK /\ procs \in [Zone -> Seq(Nat)]
  BY UniformTypes
<1>2. /\ Zone \in SUBSET Nat /\ IsFiniteSet(Zone) /\ Zone # {} /\ \A z \in Zone : size[z] \in Nat
  BY <1>1, ZoneFacts
<1>3. \A z \in Zone : l[z] \in Nat /\ l[z] > 0
  <2>1. \A z \in Zone : procs[z] # << >> /\ procs[z] \in Seq(Nat)
    BY <1>1, UniformUses DEF U!Remain
  <2>2. \A z \in Zone : Len(procs[z]) \in Nat /\ Len(procs[z]) # 0
    BY <2>1, NoElement
  <2> QED
    BY <2>2
<1>4. U!maxZone = CHOOSE z \in Zone : \A y \in Zone : Q(z, y)
  <2>1. U!maxZone = CHOOSE z \in Zone : \A y \in Zone :
                      \/ size[z] * Len(procs[y]) > size[y] * Len(procs[z])
                      \/ size[z] * Len(procs[y]) = size[y] * Len(procs[z]) /\ z <= y
    BY UniformUses DEF U!maxZone
  <2>2. \A z \in Zone : l[z] = Len(procs[z])
    OBVIOUS
  <2> HIDE DEF l
  <2>3. \A z, y \in Zone : Q(z, y) <=> \/ size[z] * Len(procs[y]) > size[y] * Len(procs[z])
                                       \/ size[z] * Len(procs[y]) = size[y] * Len(procs[z]) /\ z <= y
    BY <2>2
  <2> HIDE DEF Q
  <2> QED
    BY <2>1, <2>3
<1> HIDE DEF l
<1>5. \A y, z \in Zone : <<y, z>> \in R <=> Q(y, z)
  OBVIOUS
<1>6. \A y, z \in Zone : size[y] * l[z] \in Nat
  BY <1>2, <1>3
<1>7. \A y, z \in Zone : Q(y, z) \/ Q(z, y)
  BY <1>2, <1>6
<1>8. \A y, z \in Zone : Q(y, z) /\ Q(z, y) => y = z
  BY <1>2, <1>6
<1>9. ASSUME NEW x \in Zone, NEW y \in Zone, NEW z \in Zone, Q(x, y), Q(y, z) PROVE Q(x, z)
  <2> DEFINE a == size[x]
             b == l[x]
             c == size[y]
             d == l[y]
             e == size[z]
             f == l[z]
  <2>1. /\ a \in Nat /\ b \in Nat /\ c \in Nat /\ d \in Nat /\ e \in Nat /\ f \in Nat
        /\ b > 0 /\ d > 0 /\ f > 0 /\ x \in Nat /\ y \in Nat /\ z \in Nat
    BY <1>2, <1>3
  <2>2. /\ a * d > c * b \/ (a * d = c * b /\ x <= y)
        /\ c * f > e * d \/ (c * f = e * d /\ y <= z)
    BY <1>9
  <2>3. a * d \in Nat /\ c * b \in Nat /\ c * f \in Nat /\ e * d \in Nat /\ a * f \in Nat /\ e * b \in Nat
    BY <1>6
  <2> HIDE DEF a, b, c, d, e, f
  <2>4. a * d >= c * b /\ c * f >= e * d
    BY <2>2, <2>3
  <2>5. a * f >= e * b /\ (a * f = e * b => a * d = c * b /\ c * f = e * d)
    BY <2>1, <2>4, QuotientsOrdered
  <2>6. a * f > e * b \/ (a * f = e * b /\ x <= z)
    <3>1. CASE a * f = e * b
      <4>1. a * d = c * b /\ c * f = e * d
        BY <2>5, <3>1
      <4>2. x <= y /\ y <= z
        BY <2>2, <2>3, <4>1
      <4> QED
        BY <2>1, <3>1, <4>2
    <3>2. CASE a * f # e * b
      BY <2>3, <2>5, <3>2
    <3> QED
      BY <3>1, <3>2
  <2> QED
    BY <2>6 DEF a, b, c, d, e, f
<1> HIDE DEF Q, R
<1>10. TotalOrder(R, Zone)
  BY <1>5, <1>7, <1>8, <1>9 DEF TotalOrder
<1>11. \E z \in Zone : \A y \in Zone : Q(z, y)
  BY <1>2, <1>5, <1>10, FirstExists
<1> QED
  BY <1>4, <1>11

\* A rank that is left cuts a zone.
LEMMA CutMoreKnown == UniformInv /\ RanksInv /\ U!CutMore => RanksInv'
<1> SUFFICES ASSUME UniformInv, RanksInv, U!CutMore PROVE RanksInv'
  OBVIOUS
<1> DEFINE z == U!maxZone
<1>1. /\ pc = "least" /\ U!Remain = {} /\ cur # NRank
      /\ procs' = [procs EXCEPT ![z] = Append(@, cur)] /\ cur' = cur + 1
      /\ UNCHANGED <<size, i, rep, pc>>
  BY DEF U!CutMore
<1>2. z \in Zone
  BY <1>1, MaxZoneIs
<1>3. cur \in Nat /\ cur <= NRank
  BY <1>1, UniformTypes DEF RanksInv, RanksKnown
<1>4. cur \in Rank
  BY <1>1, <1>3, RankFacts
<1> HIDE DEF z
<1> QED
  BY <1>1, <1>2, <1>4, OneMoreKnown

\* The parts of a zone make it up.
LEMMA FormatKnown == UniformInv /\ RanksInv /\ U!Format => RanksInv'
<1> SUFFICES ASSUME UniformInv, RanksInv, U!Format PROVE RanksInv'
  OBVIOUS
<1> DEFINE m == U!mean_per_rank
           h == RanksOf(procs)
           part(z, p) == IF p \in U!ToSet(procs[z])
                         THEN U!homogeneous_repart(size[z], Cardinality(U!ToSet(procs[z])),
                                                   Cardinality({q \in U!ToSet(procs[z]) : q < p}))
                         ELSE 0
<1>1. /\ pc = "least" /\ U!Remain = {} /\ cur = NRank
      /\ rep' = [z \in Zone |-> [p \in Rank |-> part(z, p)]]
      /\ pc' = "done" /\ procs' = procs /\ cur' = cur /\ size' = size /\ i' = i
  BY UniformUses DEF U!Format, U!Cardinality, Cardinality
<1>2. SizesOK /\ procs \in [Zone -> Seq(Nat)] /\ NRank \in Nat
  BY UniformTypes, RankFacts
<1>3. RanksKnown(pc, cur, i, h, rep)
  BY DEF RanksInv
<1>4. \A z \in Zone : h[z] = U!ToSet(procs[z]) /\ h[z] # {}
  BY <1>1, <1>2, RemainIs DEF RanksOf
<1> HIDE DEF h, m
<1>5. /\ m = 0 => cur <= NRank
      /\ m > 0 => \A p \in 0 .. cur - 1 : Reached(h, p)
      /\ m > 0 => \A z \in Zone : h[z] = {} => size[z] < m
      /\ cur <= NRank /\ \A z \in Zone : h[z] \in SUBSET Rank
  BY <1>1, <1>3 DEF RanksKnown, m
<1>6. ASSUME NEW z \in Zone PROVE SumAt(rep'[z], Rank) = size[z]
  <2> DEFINE f == rep'[z]
             P == h[z]
             n == size[z]
  <2>1. n \in Nat /\ P \in SUBSET Rank /\ P # {}
    BY <1>2, <1>4, <1>5, ZoneFacts
  <2>2. f = [p \in Rank |-> part(z, p)]
    BY <1>1
  <2>3. \A p \in Rank : f[p] = part(z, p)
    BY <2>2
  <2>4. \A p : part(z, p) = IF p \in P
                            THEN U!homogeneous_repart(n, Cardinality(P), Cardinality({q \in P : q < p}))
                            ELSE 0
    BY <1>4
  <2> HIDE DEF f, P, n, part
  <2>5. \A p \in Rank : f[p] = IF p \in P
                               THEN U!homogeneous_repart(n, Cardinality(P), Cardinality({q \in P : q < p}))
                               ELSE 0
    BY <2>3, <2>4
  <2>6. SumAt(f, Rank) = n
    BY <2>1, <2>5, PartsOfRanks
  <2> QED
    BY <2>6 DEF f, n
<1>7. RanksKnown(pc', cur', i', h, rep')
  BY <1>1, <1>5, <1>6 DEF RanksKnown, m
<1> QED
  BY <1>1, <1>7, RanksPrime DEF h

\* Every step of the method keeps it.
LEMMA RanksNext == UniformInv /\ RanksInv /\ U!Next => RanksInv'
BY GiveRanksKnown, ShareKnown, EndShareKnown, EndZonesKnown, TakeRemainKnown, ComputeLoadKnown,
   AddToLeastKnown, CutMoreKnown, FormatKnown DEF U!Next

-----------------------------------------------------------------------------
\* The cells of the zones of a bin.
Weight(S) == SumAt(size, S)

\* An item of the heap: bins without common zones, sorted by weight, of which the key is the
\* largest difference; the key is not above the largest zone.
Item(t) ==
  /\ t.bins \in [NS!Bin -> SUBSET Zone]
  /\ \A a, b \in NS!Bin : a # b => t.bins[a] \cap t.bins[b] = {}
  /\ \A a, b \in NS!Bin : a <= b => Weight(t.bins[a]) <= Weight(t.bins[b])
  /\ t.key = Weight(t.bins[NRank]) - Weight(t.bins[1])
  /\ t.key <= NS!Largest

\* Two items have no common zone.
Apart(s, t) == \A a, b \in NS!Bin : s.bins[a] \cap t.bins[b] = {}

\* No bin is empty; no bin has two zones.
Full(t) == \A b \in NS!Bin : t.bins[b] # {}
Spread(t) == \A b \in NS!Bin : \A y, z \in t.bins[b] : y = z

\* The zones of rank p when zone z goes to rank own[z].
ZonesOf(own, p) == {z \in Zone : own[z] = p}

\* Every zone is on one rank, no rank is idle if there are as many zones, and the loads do not
\* differ by more than the largest zone if there are more.
Owned(own, rp) ==
  /\ \A z \in Zone : \A p \in Rank : rp[z][p] = IF p = own[z] THEN size[z] ELSE 0
  /\ NRank <= Len(size) => \A p \in Rank : ZonesOf(own, p) # {}
  /\ NRank < Len(size) =>
       \A p, q \in Rank : Weight(ZonesOf(own, p)) - Weight(ZonesOf(own, q)) <= NS!Largest

\* The bins through compute_nosplit_weights.  Until some item has no empty bin, no bin has two
\* zones.
BinsKnown(at, H, rp) ==
  /\ rp \in [Zone -> [Rank -> Nat]]
  /\ IsFiniteSet(H) /\ \A t \in H : Item(t)
  /\ \A s, t \in H : s # t => Apart(s, t)
  /\ at = "combine" =>
       /\ NRank > 1 /\ NRank < Len(size)
       /\ \A z \in Zone : \E t \in H : \E b \in NS!Bin : z \in t.bins[b]
       /\ (\E t \in H : Full(t)) \/ (\A t \in H : Spread(t))
  /\ at \in {"done", "returned"} => \E own \in [Zone -> Rank] : Owned(own, rp)

\* The inductive invariant of compute_nosplit_weights.
NoSplitInv == SizesOK /\ BinsKnown(pc, heap, rep)

\* The same operators again.
LEMMA NoSplitUses ==
  /\ NS!Rank = Rank /\ NS!Zone = Zone /\ NS!Bin = 1 .. NRank
  /\ \A x, S : NS!SumAt(x, S) = SumAt(x, S)
  /\ \A S : NS!Cardinality(S) = Cardinality(S)
  /\ \A S : NS!subset_weight(S) = Weight(S)
<1>1. NS!Rank = Rank /\ NS!Zone = Zone /\ NS!Bin = 1 .. NRank
  BY DEF Rank, NS!Rank, Zone, NS!Zone, NS!Bin
<1>2. \A x, S : NS!SumAt(x, S) = SumAt(x, S)
  BY DEF SumAt, NS!SumAt, MapThenSumSet, NS!MapThenSumSet, MapThenFoldSet, NS!MapThenFoldSet
<1>3. \A S : NS!Cardinality(S) = Cardinality(S)
  BY DEF NS!Cardinality, Cardinality
<1>4. \A S : NS!subset_weight(S) = Weight(S)
  BY <1>2 DEF NS!subset_weight, Weight
<1> QED
  BY <1>1, <1>2, <1>3, <1>4

\* The bins.
LEMMA BinFacts ==
  /\ NRank \in Nat /\ NRank > 0 /\ NS!Bin = 1 .. NRank /\ IsFiniteSet(NS!Bin)
  /\ Cardinality(NS!Bin) = NRank /\ 1 \in NS!Bin /\ NRank \in NS!Bin
  /\ \A b \in NS!Bin : b \in Nat /\ NRank - b + 1 \in NS!Bin /\ NRank - (NRank - b + 1) + 1 = b
<1>1. NRank \in Nat /\ NRank > 0 /\ NS!Bin = 1 .. NRank
  BY RankFacts, NoSplitUses
<1>2. IsFiniteSet(1 .. NRank) /\ Cardinality(1 .. NRank) = NRank
  BY <1>1, FS_Interval
<1>3. \A b \in 1 .. NRank : /\ b \in Nat /\ NRank - b + 1 \in 1 .. NRank
                            /\ NRank - (NRank - b + 1) + 1 = b
  BY <1>1
<1> QED
  BY <1>1, <1>2, <1>3

\* The weights of the bins.
LEMMA WeightIs ==
  ASSUME SizesOK
  PROVE  /\ Weight({}) = 0 /\ \A z \in Zone : Weight({z}) = size[z]
         /\ \A S \in SUBSET Zone : Weight(S) \in Nat /\ (S # {} => Weight(S) > 0)
         /\ \A S, T \in SUBSET Zone : S \cap T = {} => Weight(S \cup T) = Weight(S) + Weight(T)
<1>1. IsFiniteSet(Zone) /\ \A z \in Zone : size[z] \in Nat /\ size[z] > 0
  BY ZoneFacts
<1>2. Weight({}) = 0
  BY FS_EmptySet, SumTake DEF Weight
<1>3. ASSUME NEW z \in Zone PROVE Weight({z}) = size[z]
  <2>1. {} \cup {z} = {z} /\ z \notin {} /\ size[z] \in Int
    BY <1>1
  <2>2. SumAt(size, {} \cup {z}) = SumAt(size, {}) + size[z]
    BY <2>1, FS_EmptySet, SumAdd
  <2> QED
    BY <1>1, <1>2, <2>1, <2>2 DEF Weight
<1>4. ASSUME NEW S \in SUBSET Zone PROVE Weight(S) \in Nat /\ (S # {} => Weight(S) > 0)
  <2>1. IsFiniteSet(S) /\ \A z \in S : size[z] \in Nat /\ size[z] \in Int
    BY <1>1, FS_Subset
  <2>2. SumAt(size, S) \in Nat
    BY <2>1, SumNat
  <2>3. ASSUME NEW z \in S PROVE SumAt(size, S) > 0
    <3>1. IsFiniteSet(S \ {z}) /\ \A y \in S \ {z} : size[y] \in Nat
      BY <2>1, FS_Subset
    <3>2. SumAt(size, S \ {z}) \in Nat
      BY <3>1, SumNat
    <3>3. SumAt(size, S) = size[z] + SumAt(size, S \ {z})
      BY <2>1, SumTake
    <3> QED
      BY <1>1, <3>2, <3>3
  <2> QED
    BY <2>2, <2>3 DEF Weight
<1>5. ASSUME NEW S \in SUBSET Zone, NEW T \in SUBSET Zone, S \cap T = {}
      PROVE  Weight(S \cup T) = Weight(S) + Weight(T)
  <2>1. IsFiniteSet(S) /\ IsFiniteSet(T) /\ \A z \in S \cup T : size[z] \in Int
    BY <1>1, FS_Subset
  <2> QED
    BY <1>5, <2>1, SumUnion DEF Weight
<1> QED
  BY <1>2, <1>3, <1>4, <1>5

\* The largest zone.
LEMMA LargestIs ==
  ASSUME SizesOK
  PROVE  NS!Largest \in Nat /\ \A z \in Zone : size[z] <= NS!Largest
<1> DEFINE S == {size[z] : z \in Zone}
           R == {e \in S \X S : e[1] >= e[2]}
<1>1. IsFiniteSet(Zone) /\ 1 \in Zone /\ \A z \in Zone : size[z] \in Nat
  BY ZoneFacts
<1>2. IsFiniteSet(S)
  <2> DEFINE f == [z \in Zone |-> size[z]]
  <2>1. f \in Surjection(Zone, S)
    BY DEF Surjection
  <2> HIDE DEF f, S
  <2> QED
    BY <1>1, <2>1, FS_Surjection
<1>3. S # {} /\ S \in SUBSET Nat
  BY <1>1
<1>4. NS!Largest = CHOOSE a \in S : \A b \in S : a >= b
  BY NoSplitUses DEF NS!Largest, NS!Max
<1> HIDE DEF S
<1>5. \A a, b \in S : <<a, b>> \in R <=> a >= b
  OBVIOUS
<1> HIDE DEF R
<1>6. TotalOrder(R, S)
  BY <1>3, <1>5 DEF TotalOrder
<1>7. \E a \in S : \A b \in S : a >= b
  BY <1>2, <1>3, <1>5, <1>6, FirstExists
<1>8. NS!Largest \in S /\ \A b \in S : NS!Largest >= b
  BY <1>4, <1>7
<1> QED
  BY <1>3, <1>8 DEF S

\* Sorted bins are the bins in another order, and their weights increase.
LEMMA SortedBinsAre ==
  ASSUME SizesOK, NEW c \in [NS!Bin -> SUBSET Zone], NEW d \in NS!SortedBins(c)
  PROVE  \E p \in [NS!Bin -> NS!Bin] :
           /\ \A a, b \in NS!Bin : a # b => p[a] # p[b]
           /\ \A b \in NS!Bin : \E a \in NS!Bin : p[a] = b
           /\ d = [b \in NS!Bin |-> c[p[b]]]
           /\ \A a, b \in NS!Bin : a <= b => Weight(d[a]) <= Weight(d[b])
<1> DEFINE B == NS!Bin
<1>1. /\ \E p \in {p \in [B -> B] : \A a, b \in B : a # b => p[a] # p[b]} : d = [b \in B |-> c[p[b]]]
      /\ \A b \in 1 .. NRank - 1 : Weight(d[b]) <= Weight(d[b + 1])
  BY NoSplitUses DEF NS!SortedBins
<1>2. PICK p \in [B -> B] : (\A a, b \in B : a # b => p[a] # p[b]) /\ d = [b \in B |-> c[p[b]]]
  BY <1>1
<1>3. /\ NRank \in Nat /\ B = 1 .. NRank /\ IsFiniteSet(B)
  BY BinFacts
<1>4. \A b \in B : \E a \in B : p[a] = b
  <2>1. p \in Injection(B, B)
    BY <1>2 DEF Injection, IsInjective
  <2>2. p \in Surjection(B, B)
    BY <1>3, <2>1, FS_Injection
  <2> QED
    BY <2>2 DEF Surjection
<1>5. \A b \in B : d[b] \in SUBSET Zone
  BY <1>2
<1>6. \A b \in B : Weight(d[b]) \in Nat
  BY <1>5, WeightIs
<1>7. ASSUME NEW a \in B, NEW b \in B, a <= b PROVE Weight(d[a]) <= Weight(d[b])
  <2> DEFINE w == [x \in B |-> Weight(d[x])]
             n == b - a
             T == {l \in 0 .. n : w[a] <= w[a + l]}
  <2>1. \A x \in B : w[x] = Weight(d[x])
    OBVIOUS
  <2>2. \A x \in B : w[x] \in Nat
    BY <1>6
  <2>3. \A x \in 1 .. NRank - 1 : w[x] <= w[x + 1]
    <3> SUFFICES ASSUME NEW x \in 1 .. NRank - 1 PROVE w[x] <= w[x + 1]
      OBVIOUS
    <3>1. x \in B /\ x + 1 \in B
      BY <1>3
    <3> QED
      BY <1>1, <3>1
  <2> HIDE DEF w, B
  <2>4. n \in Nat /\ a + n = b /\ a \in Nat /\ b <= NRank /\ a >= 1
    BY <1>3, <1>7
  <2> HIDE DEF n
  <2>5. 0 \in T
    <3>1. a + 0 = a /\ 0 \in 0 .. n /\ w[a] <= w[a]
      BY <2>2, <2>4
    <3> QED
      BY <3>1
  <2>6. ASSUME NEW l \in 0 .. n - 1, l \in T PROVE l + 1 \in T
    <3>1. /\ a + l \in 1 .. NRank - 1 /\ a + l \in B /\ (a + l) + 1 \in B /\ a + (l + 1) = (a + l) + 1
          /\ l + 1 \in 0 .. n
      BY <1>3, <2>4
    <3>2. w[a] <= w[a + l] /\ w[a + l] <= w[(a + l) + 1]
      BY <2>3, <2>6, <3>1
    <3>3. w[a] <= w[(a + l) + 1]
      BY <2>2, <3>1, <3>2
    <3> QED
      BY <3>1, <3>3
  <2> HIDE DEF T
  <2>7. \A l \in 0 .. n : l \in T
    BY <2>4, <2>5, <2>6, IntervalInduction
  <2>8. n \in T
    BY <2>4, <2>7
  <2>9. w[a] <= w[b]
    BY <2>4, <2>8 DEF T
  <2> QED
    BY <2>1, <2>9
<1> QED
  BY <1>2, <1>4, <1>7

\* Two items are joined in reverse order: the differences of the one make up for those of
\* the other.
LEMMA CombinedIs ==
  ASSUME SizesOK, NEW f, NEW s, Item(f), Item(s), Apart(f, s), NEW c,
         c = NS!combined_subset(f, s)
  PROVE  /\ c \in [NS!Bin -> SUBSET Zone]
         /\ \A b \in NS!Bin : c[b] = f.bins[b] \cup s.bins[NRank - b + 1]
         /\ \A a, b \in NS!Bin : a # b => c[a] \cap c[b] = {}
         /\ \A a, b \in NS!Bin : Weight(c[a]) - Weight(c[b]) <= NS!Largest
<1> DEFINE B == NS!Bin
           F == f.bins
           S == s.bins
           o == [b \in B |-> NRank - b + 1]
<1>1. /\ F \in [B -> SUBSET Zone] /\ S \in [B -> SUBSET Zone]
      /\ (\A a, b \in B : a # b => F[a] \cap F[b] = {} /\ S[a] \cap S[b] = {})
      /\ \A a, b \in B : a <= b => Weight(F[a]) <= Weight(F[b]) /\ Weight(S[a]) <= Weight(S[b])
      /\ Weight(F[NRank]) - Weight(F[1]) <= NS!Largest
      /\ Weight(S[NRank]) - Weight(S[1]) <= NS!Largest
  BY DEF Item
<1>2. \A a, b \in B : F[a] \cap S[b] = {}
  BY DEF Apart
<1>3. c = [b \in B |-> F[b] \cup S[NRank - b + 1]]
  BY DEF NS!combined_subset
<1>4. /\ NRank \in Nat /\ B = 1 .. NRank /\ NRank \in B /\ 1 \in B
      /\ \A b \in B : o[b] \in B /\ o[b] = NRank - b + 1
      /\ \A a, b \in B : (o[a] = o[b] => a = b) /\ (a <= b => o[b] <= o[a])
  BY BinFacts
<1> HIDE DEF B, F, S, o
<1>5. \A b \in B : c[b] = F[b] \cup S[o[b]]
  BY <1>3, <1>4
<1>6. c \in [B -> SUBSET Zone]
  <2>1. \A b \in B : F[b] \cup S[o[b]] \in SUBSET Zone
    BY <1>1, <1>4
  <2>2. c = [b \in B |-> F[b] \cup S[o[b]]]
    BY <1>3, <1>4
  <2> QED
    BY <2>1, <2>2
<1>7. \A a, b \in B : a # b => c[a] \cap c[b] = {}
  <2> SUFFICES ASSUME NEW a \in B, NEW b \in B, a # b PROVE c[a] \cap c[b] = {}
    OBVIOUS
  <2>1. o[a] # o[b] /\ o[a] \in B /\ o[b] \in B
    BY <1>4
  <2>2. F[a] \cap F[b] = {} /\ S[o[a]] \cap S[o[b]] = {} /\ F[a] \cap S[o[b]] = {} /\ F[b] \cap S[o[a]] = {}
    BY <1>1, <1>2, <2>1
  <2>3. c[a] = F[a] \cup S[o[a]] /\ c[b] = F[b] \cup S[o[b]]
    BY <1>5
  <2> QED
    BY <2>2, <2>3
<1>8. \A b \in B : /\ Weight(c[b]) = Weight(F[b]) + Weight(S[o[b]])
                   /\ Weight(F[b]) \in Nat /\ Weight(S[o[b]]) \in Nat
  <2> SUFFICES ASSUME NEW b \in B
               PROVE  /\ Weight(c[b]) = Weight(F[b]) + Weight(S[o[b]])
                      /\ Weight(F[b]) \in Nat /\ Weight(S[o[b]]) \in Nat
    OBVIOUS
  <2>1. F[b] \in SUBSET Zone /\ S[o[b]] \in SUBSET Zone /\ F[b] \cap S[o[b]] = {}
    BY <1>1, <1>2, <1>4
  <2>2. Weight(F[b] \cup S[o[b]]) = Weight(F[b]) + Weight(S[o[b]])
    BY <2>1, WeightIs
  <2> QED
    BY <1>5, <2>1, <2>2, WeightIs
<1>9. ASSUME NEW a \in B, NEW b \in B PROVE Weight(c[a]) - Weight(c[b]) <= NS!Largest
  <2>1. NS!Largest \in Nat
    BY LargestIs
  <2>2. /\ 1 <= a /\ a <= NRank /\ 1 <= b /\ b <= NRank /\ (a <= b \/ b <= a)
        /\ 1 <= o[a] /\ o[a] <= NRank /\ 1 <= o[b] /\ o[b] <= NRank /\ o[a] \in B /\ o[b] \in B
    BY <1>4
  <2>3. \A x, y \in B : Weight(F[x]) - Weight(F[y]) <= NS!Largest /\ Weight(S[x]) - Weight(S[y]) <= NS!Largest
    <3> SUFFICES ASSUME NEW x \in B, NEW y \in B
                 PROVE  /\ Weight(F[x]) - Weight(F[y]) <= NS!Largest
                        /\ Weight(S[x]) - Weight(S[y]) <= NS!Largest
      OBVIOUS
    <3>1. x <= NRank /\ 1 <= y
      BY <1>4
    <3>2. /\ Weight(F[x]) <= Weight(F[NRank]) /\ Weight(F[1]) <= Weight(F[y])
          /\ Weight(S[x]) <= Weight(S[NRank]) /\ Weight(S[1]) <= Weight(S[y])
      BY <1>1, <1>4, <3>1
    <3>3. \A z \in B : Weight(F[z]) \in Nat /\ Weight(S[z]) \in Nat
      BY <1>1, WeightIs
    <3>4. /\ Weight(F[x]) \in Nat /\ Weight(F[y]) \in Nat /\ Weight(F[1]) \in Nat /\ Weight(F[NRank]) \in Nat
          /\ Weight(S[x]) \in Nat /\ Weight(S[y]) \in Nat /\ Weight(S[1]) \in Nat /\ Weight(S[NRank]) \in Nat
      BY <1>4, <3>3
    <3> QED
      BY <1>1, <2>1, <3>2, <3>4
  <2>4. /\ Weight(c[a]) = Weight(F[a]) + Weight(S[o[a]]) /\ Weight(c[b]) = Weight(F[b]) + Weight(S[o[b]])
        /\ Weight(F[a]) \in Nat /\ Weight(F[b]) \in Nat /\ Weight(S[o[a]]) \in Nat /\ Weight(S[o[b]]) \in Nat
    BY <1>8
  <2>5. /\ Weight(F[a]) - Weight(F[b]) <= NS!Largest
        /\ Weight(S[o[a]]) - Weight(S[o[b]]) <= NS!Largest
    BY <2>2, <2>3
  <2>6. CASE a <= b
    <3>1. Weight(F[a]) <= Weight(F[b])
      BY <1>1, <2>6
    <3> QED
      BY <2>1, <2>4, <2>5, <3>1
  <2>7. CASE b <= a
    <3>1. o[a] <= o[b]
      BY <1>4, <2>7
    <3>2. Weight(S[o[a]]) <= Weight(S[o[b]])
      BY <1>1, <2>2, <3>1
    <3> QED
      BY <2>1, <2>4, <2>5, <3>2
  <2> QED
    BY <2>2, <2>6, <2>7
<1> QED
  BY <1>4, <1>5, <1>6, <1>7, <1>9 DEF B, F, S

\* The item that two items are replaced by.
LEMMA MergedIs ==
  ASSUME SizesOK, NEW f, NEW s, Item(f), Item(s), Apart(f, s),
         NEW d \in NS!SortedBins(NS!combined_subset(f, s)), NEW t,
         t = [key |-> Weight(d[NRank]) - Weight(d[1]), bins |-> d]
  PROVE  /\ Item(t)
         /\ \A z : (\E b \in NS!Bin : z \in t.bins[b]) <=>
                     (\E b \in NS!Bin : z \in f.bins[b]) \/ (\E b \in NS!Bin : z \in s.bins[b])
         /\ Full(f) \/ Full(s) => Full(t)
         /\ Spread(f) /\ Spread(s) => Full(t) \/ Spread(t)
<1> DEFINE B == NS!Bin
           F == f.bins
           S == s.bins
           c == NS!combined_subset(f, s)
<1>1. /\ c \in [B -> SUBSET Zone] /\ (\A b \in B : c[b] = F[b] \cup S[NRank - b + 1])
      /\ (\A a, b \in B : a # b => c[a] \cap c[b] = {})
      /\ (\A a, b \in B : Weight(c[a]) - Weight(c[b]) <= NS!Largest)
  BY CombinedIs
<1>2. d \in NS!SortedBins(c)
  OBVIOUS
<1> HIDE DEF c
<1>3. PICK p \in [B -> B] :
        /\ \A a, b \in B : a # b => p[a] # p[b]
        /\ \A b \in B : \E a \in B : p[a] = b
        /\ d = [b \in B |-> c[p[b]]]
        /\ \A a, b \in B : a <= b => Weight(d[a]) <= Weight(d[b])
  BY <1>1, <1>2, SortedBinsAre
<1>4. t.bins = d /\ t.key = Weight(d[NRank]) - Weight(d[1])
  OBVIOUS
<1>5. /\ NRank \in Nat /\ B = 1 .. NRank /\ NRank \in B /\ 1 \in B
      /\ \A b \in B : NRank - b + 1 \in B /\ NRank - (NRank - b + 1) + 1 = b
  BY BinFacts
<1> HIDE DEF B
<1>6. (\A b \in B : d[b] = c[p[b]]) /\ d \in [B -> SUBSET Zone]
  BY <1>1, <1>3
<1>7. \A a, b \in B : a # b => d[a] \cap d[b] = {}
  BY <1>1, <1>3, <1>6
<1>8. Weight(d[NRank]) - Weight(d[1]) <= NS!Largest
  <2>1. p[NRank] \in B /\ p[1] \in B /\ d[NRank] = c[p[NRank]] /\ d[1] = c[p[1]]
    BY <1>3, <1>5, <1>6
  <2> QED
    BY <1>1, <2>1
<1>9. Item(t)
  BY <1>3, <1>4, <1>6, <1>7, <1>8 DEF Item, B
<1>10. ASSUME NEW z
       PROVE  (\E b \in B : z \in d[b]) <=> (\E b \in B : z \in F[b]) \/ (\E b \in B : z \in S[b])
  <2>1. (\E b \in B : z \in d[b]) <=> (\E b \in B : z \in c[b])
    BY <1>3, <1>6
  <2>2. ASSUME NEW b \in B, z \in c[b] PROVE (\E a \in B : z \in F[a]) \/ (\E a \in B : z \in S[a])
    BY <1>1, <1>5, <2>2
  <2>3. ASSUME NEW b \in B, z \in F[b] PROVE \E a \in B : z \in c[a]
    BY <1>1, <2>3
  <2>4. ASSUME NEW b \in B, z \in S[b] PROVE \E a \in B : z \in c[a]
    <3>1. NRank - b + 1 \in B /\ S[NRank - (NRank - b + 1) + 1] = S[b]
      BY <1>5
    <3>2. z \in c[NRank - b + 1]
      BY <1>1, <2>4, <3>1
    <3> QED
      BY <3>1, <3>2
  <2> QED
    BY <2>1, <2>2, <2>3, <2>4
<1>11. (\A b \in B : c[b] # {}) => Full(t)
  BY <1>3, <1>4, <1>6 DEF Full, B
<1>12. Full(f) \/ Full(s) => Full(t)
  <2>1. ASSUME Full(f) PROVE Full(t)
    BY <1>1, <1>11, <2>1 DEF Full, B
  <2>2. ASSUME Full(s) PROVE Full(t)
    <3>1. \A b \in B : S[b] # {}
      BY <2>2 DEF Full, B
    <3>2. \A b \in B : S[NRank - b + 1] # {}
      BY <1>5, <3>1
    <3> QED
      BY <1>1, <1>11, <3>2
  <2> QED
    BY <2>1, <2>2
<1>13. ASSUME Spread(f), Spread(s) PROVE Full(t) \/ Spread(t)
  <2>1. CASE \E b \in B : F[b] # {} /\ S[NRank - b + 1] # {}
    <3>1. PICK b \in B : F[b] # {} /\ S[NRank - b + 1] # {}
      BY <2>1
    <3>2. /\ F \in [B -> SUBSET Zone] /\ S \in [B -> SUBSET Zone]
          /\ \A x, y \in B : x <= y => Weight(F[x]) <= Weight(F[y]) /\ Weight(S[x]) <= Weight(S[y])
      BY DEF Item, B
    <3>3. \A x \in B : /\ Weight(F[x]) \in Nat /\ (F[x] # {} <=> Weight(F[x]) > 0)
                       /\ Weight(S[x]) \in Nat /\ (S[x] # {} <=> Weight(S[x]) > 0)
      BY <3>2, WeightIs
    <3>4. ASSUME NEW a \in B PROVE c[a] # {}
      <4>1. CASE b <= a
        <5>1. Weight(F[b]) > 0 /\ Weight(F[b]) <= Weight(F[a])
          BY <3>1, <3>2, <3>3, <4>1
        <5>2. F[a] # {}
          BY <3>3, <5>1
        <5> QED
          BY <1>1, <5>2
      <4>2. CASE ~ (b <= a)
        <5>1. NRank - b + 1 <= NRank - a + 1 /\ NRank - b + 1 \in B /\ NRank - a + 1 \in B
          BY <1>5, <4>2
        <5>2. Weight(S[NRank - b + 1]) > 0 /\ Weight(S[NRank - b + 1]) <= Weight(S[NRank - a + 1])
          BY <3>1, <3>2, <3>3, <5>1
        <5>3. Weight(S[NRank - a + 1]) > 0
          BY <3>3, <5>1, <5>2
        <5>4. S[NRank - a + 1] # {}
          BY <3>3, <5>1, <5>3
        <5> QED
          BY <1>1, <5>4
      <4> QED
        BY <4>1, <4>2
    <3> QED
      BY <1>11, <3>4
  <2>2. CASE ~ \E b \in B : F[b] # {} /\ S[NRank - b + 1] # {}
    <3>1. \A b \in B : \A y, z \in c[b] : y = z
      <4> SUFFICES ASSUME NEW b \in B, NEW y \in c[b], NEW z \in c[b] PROVE y = z
        OBVIOUS
      <4>1. NRank - b + 1 \in B /\ c[b] = F[b] \cup S[NRank - b + 1]
        BY <1>1, <1>5
      <4>2. \A a \in B : (\A u, v \in F[a] : u = v) /\ (\A u, v \in S[a] : u = v)
        BY <1>13 DEF Spread, B
      <4> QED
        BY <2>2, <4>1, <4>2
    <3>2. \A b \in B : \A y, z \in d[b] : y = z
      BY <1>3, <1>6, <3>1
    <3> QED
      BY <1>4, <3>2 DEF Spread, B
  <2> QED
    BY <2>1, <2>2
<1> QED
  BY <1>4, <1>9, <1>10, <1>12, <1>13 DEF B

\* The sizes do not change.
LEMMA BinsPrime ==
  ASSUME size' = size, SizesOK, BinsKnown(pc', heap', rep')
  PROVE  NoSplitInv'
<1>1. SizesOK' /\ Zone' = Zone
  BY DEF SizesOK, Zone
<1>2. NS!Largest' = NS!Largest
  BY DEF NS!Largest, NS!Zone
<1>3. BinsKnown(pc, heap, rep)' <=> BinsKnown(pc', heap', rep')
  BY <1>1, <1>2 DEF BinsKnown, Item, Apart, Full, Spread, Owned, ZonesOf, Weight
<1> QED
  BY <1>1, <1>3 DEF NoSplitInv

\* Each zone is alone at first.
LEMMA PushKeeps == NoSplitInv /\ NS!Push => NoSplitInv'
<1> SUFFICES ASSUME NoSplitInv, NS!Push PROVE NoSplitInv'
  OBVIOUS
<1> DEFINE B == NS!Bin
           one(z) == [key |-> size[z], bins |-> [b \in B |-> IF b = NRank THEN {z} ELSE {}]]
<1>1. /\ heap' = {one(z) : z \in Zone} /\ pc' = "combine" /\ size' = size /\ rep' = rep
      /\ NRank > 1 /\ NRank < Len(size)
  BY NoSplitUses DEF NS!Push, NS!NeedsSearch
<1>2. SizesOK /\ rep \in [Zone -> [Rank -> Nat]]
  BY DEF NoSplitInv, BinsKnown
<1>3. /\ NRank \in Nat /\ B = 1 .. NRank /\ NRank \in B /\ 1 \in B
  BY BinFacts
<1>4. \A z \in Zone : /\ one(z).key = size[z]
                      /\ one(z).bins = [b \in B |-> IF b = NRank THEN {z} ELSE {}]
  OBVIOUS
<1>5. \A z \in Zone : \A b \in B : one(z).bins[b] = IF b = NRank THEN {z} ELSE {}
  BY <1>4
<1>6. \A z \in Zone : one(z).bins \in [B -> SUBSET Zone]
  BY <1>4
<1> HIDE DEF one, B
<1>7. ASSUME NEW z \in Zone PROVE Item(one(z)) /\ Spread(one(z))
  <2>1. size[z] \in Nat /\ Weight({z}) = size[z] /\ Weight({}) = 0 /\ size[z] <= NS!Largest
    BY <1>2, WeightIs, LargestIs, ZoneFacts
  <2>2. \A b \in B : Weight(one(z).bins[b]) = IF b = NRank THEN size[z] ELSE 0
    BY <1>5, <2>1
  <2>3. \A a, b \in B : a <= b => Weight(one(z).bins[a]) <= Weight(one(z).bins[b])
    <3> SUFFICES ASSUME NEW a \in B, NEW b \in B, a <= b
                 PROVE  Weight(one(z).bins[a]) <= Weight(one(z).bins[b])
      OBVIOUS
    <3>1. a = NRank => b = NRank
      BY <1>3
    <3> QED
      BY <2>1, <2>2, <3>1
  <2>4. one(z).key = Weight(one(z).bins[NRank]) - Weight(one(z).bins[1])
    <3>1. NRank # 1
      BY <1>1, <1>3
    <3>2. Weight(one(z).bins[NRank]) = size[z] /\ Weight(one(z).bins[1]) = 0
      BY <1>3, <2>2, <3>1
    <3>3. size[z] - 0 = size[z]
      BY <2>1
    <3> QED
      BY <1>4, <3>2, <3>3
  <2>5. \A a, b \in B : a # b => one(z).bins[a] \cap one(z).bins[b] = {}
    BY <1>5
  <2>6. Item(one(z))
    BY <1>4, <1>6, <2>1, <2>3, <2>4, <2>5 DEF Item, B
  <2>7. Spread(one(z))
    BY <1>5 DEF Spread, B
  <2> QED
    BY <2>6, <2>7
<1>8. \A y, z \in Zone : one(y) # one(z) => Apart(one(y), one(z))
  <2> SUFFICES ASSUME NEW y \in Zone, NEW z \in Zone, one(y) # one(z),
                      NEW a \in B, NEW b \in B
               PROVE  one(y).bins[a] \cap one(z).bins[b] = {}
    BY DEF Apart, B
  <2>1. y # z
    OBVIOUS
  <2>2. one(y).bins[a] = IF a = NRank THEN {y} ELSE {}
    BY <1>5
  <2>3. one(z).bins[b] = IF b = NRank THEN {z} ELSE {}
    BY <1>5
  <2> QED
    BY <2>1, <2>2, <2>3
<1>9. \A z \in Zone : z \in one(z).bins[NRank]
  BY <1>3, <1>5
<1>10. IsFiniteSet(heap')
  <2> DEFINE f == [z \in Zone |-> one(z)]
  <2>1. f \in Surjection(Zone, heap')
    BY <1>1 DEF Surjection
  <2> HIDE DEF f
  <2> QED
    BY <1>2, <2>1, ZoneFacts, FS_Surjection
<1>11. \A t \in heap' : Item(t) /\ Spread(t)
  BY <1>1, <1>7
<1>12. \A s, t \in heap' : s # t => Apart(s, t)
  BY <1>1, <1>8
<1>13. \A z \in Zone : \E t \in heap' : \E b \in B : z \in t.bins[b]
  BY <1>1, <1>3, <1>9
<1>14. BinsKnown(pc', heap', rep')
  BY <1>1, <1>2, <1>10, <1>11, <1>12, <1>13 DEF BinsKnown, B
<1> QED
  BY <1>1, <1>2, <1>14, BinsPrime

\* Two items are merged.
LEMMA CombineKeeps == NoSplitInv /\ NS!Combine => NoSplitInv'
<1> SUFFICES ASSUME NoSplitInv, NS!Combine PROVE NoSplitInv'
  OBVIOUS
<1> DEFINE B == NS!Bin
<1> DEFINE merged(d) == [key |-> Weight(d[NRank]) - Weight(d[1]), bins |-> d]
<1>1. PICK f \in heap, s \in heap : /\ f # s
                                    /\ \E d \in NS!SortedBins(NS!combined_subset(f, s)) :
                                         heap' = (heap \ {f, s}) \cup {merged(d)}
  BY NoSplitUses DEF NS!Combine, NS!Top
<1>2. PICK d \in NS!SortedBins(NS!combined_subset(f, s)) : heap' = (heap \ {f, s}) \cup {merged(d)}
  BY <1>1
<1>3. pc = "combine" /\ pc' = pc /\ size' = size /\ rep' = rep
  BY DEF NS!Combine
<1>4. SizesOK /\ BinsKnown(pc, heap, rep)
  BY DEF NoSplitInv
<1>5. /\ rep \in [Zone -> [Rank -> Nat]] /\ IsFiniteSet(heap) /\ (\A t \in heap : Item(t))
      /\ (\A a, t \in heap : a # t => Apart(a, t)) /\ NRank > 1 /\ NRank < Len(size)
      /\ (\A z \in Zone : \E t \in heap : \E b \in B : z \in t.bins[b])
      /\ (\E t \in heap : Full(t)) \/ (\A t \in heap : Spread(t))
  BY <1>3, <1>4 DEF BinsKnown
<1> DEFINE n == merged(d)
           old == heap \ {f, s}
<1>6. /\ Item(n) /\ (Full(f) \/ Full(s) => Full(n)) /\ (Spread(f) /\ Spread(s) => Full(n) \/ Spread(n))
      /\ \A z : (\E b \in B : z \in n.bins[b]) <=>
                  (\E b \in B : z \in f.bins[b]) \/ (\E b \in B : z \in s.bins[b])
  <2>1. Item(f) /\ Item(s) /\ Apart(f, s)
    BY <1>1, <1>5
  <2> QED
    BY <1>2, <1>4, <2>1, MergedIs
<1>7. heap' = old \cup {n}
  BY <1>2
<1> HIDE DEF n, B
<1>8. IsFiniteSet(heap')
  <2>1. IsFiniteSet(old)
    BY <1>5, FS_Subset
  <2> HIDE DEF old
  <2> QED
    BY <1>7, <2>1, FS_AddElement
<1>9. \A t \in heap' : Item(t)
  BY <1>5, <1>6, <1>7
<1>10. ASSUME NEW t \in old PROVE Apart(t, n) /\ Apart(n, t)
  <2>1. Apart(t, f) /\ Apart(t, s)
    BY <1>1, <1>5
  <2>2. ASSUME NEW a \in B, NEW b \in B, NEW z, z \in t.bins[a], z \in n.bins[b] PROVE FALSE
    BY <1>6, <2>1, <2>2 DEF Apart, B
  <2> QED
    BY <2>2 DEF Apart, B
<1>11. \A a, t \in heap' : a # t => Apart(a, t)
  BY <1>5, <1>7, <1>10
<1>12. ASSUME NEW z \in Zone PROVE \E t \in heap' : \E b \in B : z \in t.bins[b]
  <2>1. PICK t \in heap, b \in B : z \in t.bins[b]
    BY <1>5
  <2>2. CASE t \in {f, s}
    <3>1. \E a \in B : z \in n.bins[a]
      BY <1>6, <2>1, <2>2
    <3> QED
      BY <1>7, <3>1
  <2>3. CASE t \notin {f, s}
    BY <1>7, <2>1, <2>3
  <2> QED
    BY <2>2, <2>3
<1>13. (\E t \in heap' : Full(t)) \/ (\A t \in heap' : Spread(t))
  <2>1. CASE \E t \in heap : Full(t)
    <3>1. PICK t \in heap : Full(t)
      BY <2>1
    <3>2. CASE t \in {f, s}
      BY <1>6, <1>7, <3>1, <3>2
    <3>3. CASE t \notin {f, s}
      BY <1>7, <3>1, <3>3
    <3> QED
      BY <3>2, <3>3
  <2>2. CASE \A t \in heap : Spread(t)
    <3>1. Full(n) \/ Spread(n)
      BY <1>1, <1>6, <2>2
    <3>2. \A t \in old : Spread(t)
      BY <2>2
    <3> QED
      BY <1>7, <3>1, <3>2
  <2> QED
    BY <1>5, <2>1, <2>2
<1>14. BinsKnown(pc', heap', rep')
  BY <1>3, <1>5, <1>8, <1>9, <1>11, <1>12, <1>13 DEF BinsKnown, B
<1> QED
  BY <1>3, <1>4, <1>14, BinsPrime

\* What a rank is given are the zones it owns.
LEMMA OwnedLoad ==
  ASSUME SizesOK, NEW own \in [Zone -> Rank], NEW p \in Rank, NEW rp \in [Zone -> [Rank -> Nat]],
         \A z \in Zone : rp[z][p] = IF p = own[z] THEN size[z] ELSE 0
  PROVE  SumAt([z \in Zone |-> rp[z][p]], Zone) = Weight(ZonesOf(own, p))
<1> DEFINE x == [z \in Zone |-> rp[z][p]]
           S == ZonesOf(own, p)
<1>1. IsFiniteSet(Zone) /\ \A z \in Zone : size[z] \in Nat
  BY ZoneFacts
<1>2. S \in SUBSET Zone /\ \A z \in Zone : z \in S <=> own[z] = p
  BY DEF ZonesOf
<1>3. \A z \in Zone : x[z] = IF z \in S THEN size[z] ELSE 0
  BY <1>2
<1> HIDE DEF x, S
<1>4. (\A z \in Zone : x[z] \in Int) /\ (\A z \in Zone \ S : x[z] = 0)
  BY <1>1, <1>3
<1>5. SumAt(x, Zone) = SumAt(x, S)
  BY <1>1, <1>2, <1>4, SumWithin
<1>6. IsFiniteSet(S) /\ \A z \in S : size[z] \in Int /\ x[z] = size[z]
  BY <1>1, <1>2, <1>3, FS_Subset
<1>7. SumAt(x, S) = SumAt(size, S)
  BY <1>6, SumSame
<1> QED
  BY <1>5, <1>7 DEF x, S, Weight

\* What is given of a zone is the zone.
LEMMA OwnedZone ==
  ASSUME SizesOK, NEW own \in [Zone -> Rank], NEW z \in Zone, NEW rp \in [Zone -> [Rank -> Nat]],
         \A p \in Rank : rp[z][p] = IF p = own[z] THEN size[z] ELSE 0
  PROVE  SumAt(rp[z], Rank) = size[z]
<1> DEFINE x == rp[z]
           q == own[z]
<1>1. IsFiniteSet(Rank) /\ q \in Rank /\ size[z] \in Nat
  BY RankFacts, ZoneFacts
<1>2. \A p \in Rank : x[p] = IF p = q THEN size[z] ELSE 0
  OBVIOUS
<1> HIDE DEF x, q
<1>3. (\A p \in Rank : x[p] \in Int) /\ (\A p \in Rank \ {q} : x[p] = 0) /\ {q} \in SUBSET Rank
  BY <1>1, <1>2
<1>4. SumAt(x, Rank) = SumAt(x, {q})
  BY <1>1, <1>3, SumWithin
<1>5. {} \cup {q} = {q} /\ q \notin {} /\ x[q] \in Int /\ x[q] = size[z]
  BY <1>1, <1>2, <1>3
<1>6. SumAt(x, {} \cup {q}) = SumAt(x, {}) + x[q] /\ SumAt(x, {}) = 0
  <2>1. IsFiniteSet({}) /\ \A a \in {} : x[a] \in Int
    BY FS_EmptySet
  <2>2. SumAt(x, {}) = 0
    BY <2>1, SumTake
  <2>3. SumAt(x, {} \cup {q}) = SumAt(x, {}) + x[q]
    <3> DEFINE S == {}
    <3>1. IsFiniteSet(S) /\ (\A a \in S : x[a] \in Int) /\ q \notin S
      BY <2>1
    <3> HIDE DEF S
    <3>2. SumAt(x, S \cup {q}) = SumAt(x, S) + x[q]
      BY <1>5, <3>1, SumAdd
    <3> QED
      BY <3>2 DEF S
  <2> QED
    BY <2>2, <2>3
<1> QED
  BY <1>1, <1>4, <1>5, <1>6 DEF x

\* One rank takes all, or there is a rank for every zone.
LEMMA NoSearchKeeps == NoSplitInv /\ NS!NoSearch => NoSplitInv'
<1> SUFFICES ASSUME NoSplitInv, NS!NoSearch PROVE NoSplitInv'
  OBVIOUS
<1> DEFINE own == [z \in Zone |-> IF NRank = 1 THEN 0 ELSE z - 1]
<1>1. /\ rep' = [z \in Zone |-> [p \in Rank |-> IF p = own[z] THEN size[z] ELSE 0]]
      /\ pc' = "done" /\ size' = size /\ heap' = heap /\ ~ (NRank > 1 /\ NRank < Len(size))
  BY NoSplitUses DEF NS!NoSearch, NS!Affected, NS!NeedsSearch
<1>2. SizesOK /\ BinsKnown(pc, heap, rep)
  BY DEF NoSplitInv
<1>3. /\ NRank \in Nat /\ NRank # 0 /\ Len(size) \in Nat /\ Zone = 1 .. Len(size) /\ 1 \in Zone
      /\ (\A p : p \in Rank <=> p \in Nat /\ p < NRank) /\ \A z \in Zone : size[z] \in Nat
  BY <1>2, RankFacts, ZoneFacts DEF SizesOK
<1>4. own \in [Zone -> Rank]
  <2> SUFFICES ASSUME NEW z \in Zone PROVE (IF NRank = 1 THEN 0 ELSE z - 1) \in Rank
    OBVIOUS
  <2>1. CASE NRank = 1
    BY <1>3, <2>1
  <2>2. CASE NRank # 1
    <3>1. z - 1 \in Nat /\ z - 1 < NRank
      BY <1>1, <1>3, <2>2
    <3> QED
      BY <1>3, <2>2, <3>1
  <2> QED
    BY <2>1, <2>2
<1>5. ASSUME NRank <= Len(size), NEW p \in Rank PROVE ZonesOf(own, p) # {}
  <2>1. CASE NRank = 1
    <3>1. p = 0 /\ own[1] = 0
      BY <1>3, <2>1
    <3> QED
      BY <1>3, <3>1 DEF ZonesOf
  <2>2. CASE NRank # 1
    <3>1. p + 1 \in Zone /\ (p + 1) - 1 = p
      BY <1>3, <1>5
    <3>2. own[p + 1] = p
      BY <2>2, <3>1
    <3> QED
      BY <3>1, <3>2 DEF ZonesOf
  <2> QED
    BY <2>1, <2>2
<1>6. \A z \in Zone : \A p \in Rank : rep'[z][p] = IF p = own[z] THEN size[z] ELSE 0
  BY <1>1
<1>7. rep' \in [Zone -> [Rank -> Nat]]
  <2> HIDE DEF own
  <2> QED
    BY <1>1, <1>3
<1> HIDE DEF own
<1>8. ASSUME NRank < Len(size), NEW p \in Rank, NEW q \in Rank
      PROVE  Weight(ZonesOf(own, p)) - Weight(ZonesOf(own, q)) <= NS!Largest
  <2>1. p = q
    BY <1>1, <1>3, <1>8
  <2>2. Weight(ZonesOf(own, p)) \in Nat
    BY <1>2, WeightIs DEF ZonesOf
  <2>3. Weight(ZonesOf(own, p)) - Weight(ZonesOf(own, p)) = 0
    BY <2>2
  <2>4. 0 <= NS!Largest
    BY <1>2, LargestIs
  <2> QED
    BY <2>1, <2>3, <2>4
<1>9. Owned(own, rep')
  BY <1>5, <1>6, <1>8 DEF Owned
<1>10. BinsKnown(pc', heap', rep')
  BY <1>1, <1>2, <1>4, <1>7, <1>9 DEF BinsKnown
<1> QED
  BY <1>1, <1>2, <1>10, BinsPrime

\* The bins of the last item are the ones of the ranks.
LEMMA AssignKeeps == NoSplitInv /\ NS!Assign => NoSplitInv'
<1> SUFFICES ASSUME NoSplitInv, NS!Assign PROVE NoSplitInv'
  OBVIOUS
<1> DEFINE B == NS!Bin
<1>1. /\ pc = "combine" /\ Cardinality(heap) = 1 /\ pc' = "done" /\ size' = size /\ heap' = heap
      /\ \E t \in heap : rep' = [z \in Zone |-> [p \in Rank |-> IF z \in t.bins[p + 1] THEN size[z] ELSE 0]]
  BY NoSplitUses DEF NS!Assign
<1>2. PICK t \in heap :
        rep' = [z \in Zone |-> [p \in Rank |-> IF z \in t.bins[p + 1] THEN size[z] ELSE 0]]
  BY <1>1
<1>3. SizesOK /\ BinsKnown(pc, heap, rep)
  BY DEF NoSplitInv
<1>4. /\ IsFiniteSet(heap) /\ Item(t) /\ NRank > 1 /\ NRank < Len(size)
      /\ (\A z \in Zone : \E u \in heap : \E b \in B : z \in u.bins[b])
      /\ (\E u \in heap : Full(u)) \/ (\A u \in heap : Spread(u))
  BY <1>1, <1>2, <1>3 DEF BinsKnown
<1>5. heap = {t}
  <2>1. PICK u : heap = {u}
    BY <1>1, <1>4, FS_Singleton
  <2> QED
    BY <1>2, <2>1
<1>6. /\ \A z \in Zone : \E b \in B : z \in t.bins[b]
      /\ Full(t) \/ Spread(t)
  BY <1>4, <1>5
<1>7. /\ t.bins \in [B -> SUBSET Zone]
      /\ (\A a, b \in B : a # b => t.bins[a] \cap t.bins[b] = {})
      /\ (\A a, b \in B : a <= b => Weight(t.bins[a]) <= Weight(t.bins[b]))
      /\ Weight(t.bins[NRank]) - Weight(t.bins[1]) <= NS!Largest
  BY <1>4 DEF Item
<1>8. /\ NRank \in Nat /\ B = 1 .. NRank /\ NRank \in B /\ 1 \in B
      /\ \A p : p \in Rank <=> p \in Nat /\ p < NRank
  BY BinFacts, RankFacts
<1> HIDE DEF B
<1>9. /\ \A b \in B : b - 1 \in Rank /\ (b - 1) + 1 = b
      /\ \A p \in Rank : p + 1 \in B /\ (p + 1) - 1 = p
  BY <1>8
<1> DEFINE own == [z \in Zone |-> (CHOOSE b \in B : z \in t.bins[b]) - 1]
<1>10. \A z \in Zone : \A b \in B : z \in t.bins[b] <=> own[z] = b - 1
  <2> SUFFICES ASSUME NEW z \in Zone, NEW b \in B PROVE z \in t.bins[b] <=> own[z] = b - 1
    OBVIOUS
  <2> DEFINE c == CHOOSE c \in B : z \in t.bins[c]
  <2>1. c \in B /\ z \in t.bins[c]
    BY <1>6
  <2>2. own[z] = c - 1
    OBVIOUS
  <2> HIDE DEF c, own
  <2>3. c - 1 = b - 1 <=> c = b
    BY <1>8, <2>1
  <2>4. z \in t.bins[b] <=> c = b
    BY <1>7, <2>1
  <2> QED
    BY <2>2, <2>3, <2>4
<1>11. own \in [Zone -> Rank]
  <2> SUFFICES ASSUME NEW z \in Zone PROVE (CHOOSE b \in B : z \in t.bins[b]) - 1 \in Rank
    OBVIOUS
  <2>1. (CHOOSE b \in B : z \in t.bins[b]) \in B
    BY <1>6
  <2> QED
    BY <1>9, <2>1
<1> HIDE DEF own
<1>12. ASSUME NEW p \in Rank PROVE ZonesOf(own, p) = t.bins[p + 1]
  <2>1. p + 1 \in B /\ (p + 1) - 1 = p /\ t.bins[p + 1] \in SUBSET Zone
    BY <1>7, <1>9
  <2>2. \A z \in Zone : z \in t.bins[p + 1] <=> own[z] = p
    BY <1>10, <2>1
  <2> QED
    BY <2>1, <2>2 DEF ZonesOf
<1>13. ASSUME NEW z \in Zone, NEW p \in Rank PROVE rep'[z][p] = IF p = own[z] THEN size[z] ELSE 0
  <2>1. rep'[z][p] = IF z \in t.bins[p + 1] THEN size[z] ELSE 0
    BY <1>2
  <2>2. z \in t.bins[p + 1] <=> own[z] = p
    BY <1>12 DEF ZonesOf
  <2> QED
    BY <2>1, <2>2
<1>14. rep' \in [Zone -> [Rank -> Nat]]
  <2>1. \A z \in Zone : size[z] \in Nat
    BY <1>3, ZoneFacts
  <2> QED
    BY <1>2, <2>1
<1>15. ASSUME NEW p \in Rank PROVE ZonesOf(own, p) # {}
  <2>1. CASE Full(t)
    <3>1. t.bins[p + 1] # {}
      BY <1>9, <2>1 DEF Full, B
    <3> QED
      BY <1>12, <3>1
  <2>2. CASE Spread(t)
    <3>1. ASSUME NEW y \in Zone, NEW z \in Zone, own[y] = own[z] PROVE y = z
      <4>1. own[y] \in Rank
        BY <1>11
      <4>2. y \in t.bins[own[y] + 1] /\ z \in t.bins[own[y] + 1] /\ own[y] + 1 \in B
        BY <1>9, <1>12, <3>1, <4>1 DEF ZonesOf
      <4> QED
        BY <2>2, <4>2 DEF Spread, B
    <3>2. own \in Injection(Zone, Rank)
      BY <1>11, <3>1 DEF Injection, IsInjective
    <3>3. IsFiniteSet(Rank) /\ Cardinality(Rank) = NRank
      <4>1. IsFiniteSet(0 .. NRank - 1) /\ Cardinality(0 .. NRank - 1) = NRank
        <5>1. 0 \in Int /\ NRank - 1 \in Int /\ (NRank - 1) - 0 + 1 = NRank /\ ~ (0 > NRank - 1)
          BY <1>4, <1>8
        <5> QED
          BY <5>1, FS_Interval
      <4> QED
        BY <4>1 DEF Rank
    <3>4. Cardinality(Zone) = Len(size) /\ Len(size) \in Nat
      <4>1. Len(size) \in Nat /\ Zone = 1 .. Len(size)
        BY <1>3, ZoneFacts DEF SizesOK
      <4>2. Cardinality(1 .. Len(size)) = Len(size)
        BY <4>1, FS_Interval
      <4> QED
        BY <4>1, <4>2
    <3>5. Cardinality(Zone) <= Cardinality(Rank)
      BY <3>2, <3>3, FS_Injection
    <3> QED
      BY <1>4, <1>8, <3>3, <3>4, <3>5
  <2> QED
    BY <1>6, <2>1, <2>2
<1>16. ASSUME NEW p \in Rank, NEW q \in Rank
       PROVE  Weight(ZonesOf(own, p)) - Weight(ZonesOf(own, q)) <= NS!Largest
  <2>1. p + 1 \in B /\ q + 1 \in B /\ p + 1 <= NRank /\ 1 <= q + 1
    BY <1>8, <1>9
  <2>2. Weight(t.bins[p + 1]) <= Weight(t.bins[NRank]) /\ Weight(t.bins[1]) <= Weight(t.bins[q + 1])
    BY <1>7, <1>8, <2>1
  <2>3. /\ Weight(t.bins[p + 1]) \in Nat /\ Weight(t.bins[q + 1]) \in Nat /\ Weight(t.bins[1]) \in Nat
        /\ Weight(t.bins[NRank]) \in Nat /\ NS!Largest \in Nat
    BY <1>3, <1>7, <1>8, <2>1, WeightIs, LargestIs
  <2>4. Weight(t.bins[p + 1]) - Weight(t.bins[q + 1]) <= NS!Largest
    BY <1>7, <2>2, <2>3
  <2> QED
    BY <1>12, <2>4
<1>17. Owned(own, rep')
  BY <1>13, <1>15, <1>16 DEF Owned
<1>18. BinsKnown(pc', heap', rep')
  BY <1>1, <1>3, <1>11, <1>14, <1>17 DEF BinsKnown
<1> QED
  BY <1>1, <1>3, <1>18, BinsPrime

\* Every step of compute_nosplit_weights keeps the invariant.
LEMMA NoSplitNext == NoSplitInv /\ NS!Next => NoSplitInv'
BY NoSearchKeeps, PushKeeps, CombineKeeps, AssignKeeps DEF NS!Next

\* The invariant says what the runs check.
LEMMA NoSplitInvIs ==
  ASSUME NoSplitInv
  PROVE  /\ NS!InOneBin /\ NS!WithinLargest /\ NS!NoIdleRank
         /\ pc \in {"done", "returned"} => \A z \in Zone : SumAt(rep[z], Rank) = size[z]
<1> DEFINE B == NS!Bin
<1>1. SizesOK /\ BinsKnown(pc, heap, rep)
  BY DEF NoSplitInv
<1>2. /\ rep \in [Zone -> [Rank -> Nat]] /\ (\A t \in heap : Item(t))
      /\ (\A s, t \in heap : s # t => Apart(s, t))
      /\ pc = "combine" => \A z \in Zone : \E t \in heap : \E b \in B : z \in t.bins[b]
  BY <1>1 DEF BinsKnown
<1>3. ASSUME pc = "combine", NEW z \in Zone
      PROVE  Cardinality({e \in heap \X B : z \in e[1].bins[e[2]]}) = 1
  <2> DEFINE E == {e \in heap \X B : z \in e[1].bins[e[2]]}
  <2>1. PICK t \in heap, b \in B : z \in t.bins[b]
    BY <1>2, <1>3
  <2>2. ASSUME NEW s \in heap, NEW a \in B, z \in s.bins[a] PROVE s = t /\ a = b
    <3>1. s = t
      BY <1>2, <2>1, <2>2 DEF Apart
    <3>2. a = b
      BY <1>2, <2>1, <2>2, <3>1 DEF Item
    <3> QED
      BY <3>1, <3>2
  <2>3. E = {<<t, b>>}
    BY <2>1, <2>2
  <2>4. Cardinality({<<t, b>>}) = 1
    BY FS_Singleton
  <2> QED
    BY <2>3, <2>4
<1>4. NS!InOneBin
  BY <1>3, NoSplitUses DEF NS!InOneBin
<1>5. \A t \in heap : t.key <= NS!Largest
  BY <1>2 DEF Item
<1>6. ASSUME NEW p \in Rank PROVE NS!Load(p) = SumAt([z \in Zone |-> rep[z][p]], Zone)
  <2>1. NS!Load(p) = NS!SumAt([z \in NS!Zone |-> rep[z][p]], NS!Zone)
    BY DEF NS!Load
  <2> QED
    BY <2>1, NoSplitUses
<1>7. ASSUME pc \in {"done", "returned"}
      PROVE  /\ NRank <= Len(size) => \A p \in Rank : NS!Load(p) > 0
             /\ NRank < Len(size) => \A p, q \in Rank : NS!Load(p) - NS!Load(q) <= NS!Largest
             /\ \A z \in Zone : SumAt(rep[z], Rank) = size[z]
  <2>1. PICK own \in [Zone -> Rank] : Owned(own, rep)
    BY <1>1, <1>7 DEF BinsKnown
  <2>2. \A z \in Zone : \A p \in Rank : rep[z][p] = IF p = own[z] THEN size[z] ELSE 0
    BY <2>1 DEF Owned
  <2>3. ASSUME NEW p \in Rank PROVE NS!Load(p) = Weight(ZonesOf(own, p))
    <3>1. \A z \in Zone : rep[z][p] = IF p = own[z] THEN size[z] ELSE 0
      BY <2>2
    <3>2. SumAt([z \in Zone |-> rep[z][p]], Zone) = Weight(ZonesOf(own, p))
      BY <1>1, <1>2, <3>1, OwnedLoad
    <3> QED
      BY <1>6, <3>2
  <2>4. \A z \in Zone : SumAt(rep[z], Rank) = size[z]
    BY <1>1, <1>2, <2>2, OwnedZone
  <2>5. \A p \in Rank : ZonesOf(own, p) # {} => Weight(ZonesOf(own, p)) > 0
    <3>1. \A p \in Rank : ZonesOf(own, p) \in SUBSET Zone
      BY DEF ZonesOf
    <3> QED
      BY <1>1, <3>1, WeightIs
  <2> QED
    BY <2>1, <2>3, <2>4, <2>5 DEF Owned
<1>8. NS!WithinLargest /\ NS!NoIdleRank
  BY <1>5, <1>7, NoSplitUses DEF NS!WithinLargest, NS!NoIdleRank
<1> QED
  BY <1>4, <1>7, <1>8

-----------------------------------------------------------------------------
\* The parts asked of a zone by all the ranks make it up.
Weighed(w) ==
  \A z \in Zone :
    size[z] = SumAt([p \in Rank |-> IF z \in DOMAIN w[p] THEN SumAt(w[p][z], DOMAIN w[p][z])
                                    ELSE 0], Rank)

\* The sum of one value.
LEMMA SumOfOne ==
  ASSUME NEW a \in Int
  PROVE  SumAt(<<a>>, DOMAIN <<a>>) = a
<1> DEFINE s == <<a>>
<1>1. DOMAIN s = {} \cup {1} /\ s[1] = a
  OBVIOUS
<1> HIDE DEF s
<1> DEFINE S == {}
<1>2. IsFiniteSet(S) /\ (\A b \in S : s[b] \in Int) /\ 1 \notin S
  BY FS_EmptySet
<1> HIDE DEF S
<1>3. SumAt(s, S \cup {1}) = SumAt(s, S) + s[1]
  BY <1>1, <1>2, SumAdd
<1>4. SumAt(s, S) = 0
  BY <1>2, SumTake DEF S
<1> QED
  BY <1>1, <1>3, <1>4 DEF s, S

\* A rank asks for one part of each zone it has cells of.
LEMMA ReturnGives ==
  ASSUME SizesOK, rep \in [Zone -> [Rank -> Nat]], \A z \in Zone : SumAt(rep[z], Rank) = size[z],
         NEW w, w = [p \in Rank |-> zone_to_weights(p)]
  PROVE  Weighed(w)
<1> SUFFICES ASSUME NEW z \in Zone
             PROVE  size[z] = SumAt([p \in Rank |-> IF z \in DOMAIN w[p]
                                                    THEN SumAt(w[p][z], DOMAIN w[p][z]) ELSE 0], Rank)
  BY DEF Weighed
<1> DEFINE f == [p \in Rank |-> IF z \in DOMAIN w[p] THEN SumAt(w[p][z], DOMAIN w[p][z]) ELSE 0]
           x == rep[z]
<1>1. \A p \in Rank : x[p] \in Int /\ x[p] \in Nat
  OBVIOUS
<1>2. ASSUME NEW p \in Rank PROVE f[p] = x[p]
  <2>1. w[p] = [y \in {y \in Zone : rep[y][p] > 0} |-> <<rep[y][p]>>]
    BY DEF zone_to_weights
  <2>2. z \in DOMAIN w[p] <=> x[p] > 0
    BY <2>1
  <2>3. CASE x[p] > 0
    <3>1. w[p][z] = <<x[p]>>
      BY <2>1, <2>3
    <3>2. f[p] = SumAt(<<x[p]>>, DOMAIN <<x[p]>>)
      BY <2>2, <2>3, <3>1
    <3> HIDE DEF f, x
    <3> QED
      BY <1>1, <3>2, SumOfOne
  <2>4. CASE ~ (x[p] > 0)
    BY <1>1, <2>2, <2>4
  <2> QED
    BY <2>3, <2>4
<1> HIDE DEF f
<1>3. SumAt(x, Rank) = size[z]
  OBVIOUS
<1> HIDE DEF x
<1>4. SumAt(f, Rank) = SumAt(x, Rank)
  BY <1>1, <1>2, RankFacts, SumSame
<1> QED
  BY <1>3, <1>4 DEF f

\* Each rank p asks for n_part[p] parts of each zone.
LEMMA NpartGives == SizesOK /\ npart_per_zone => Weighed(weights')
<1> SUFFICES ASSUME SizesOK, npart_per_zone, NEW z \in Zone
             PROVE  size[z] = SumAt([p \in Rank |-> IF z \in DOMAIN weights'[p]
                              THEN SumAt(weights'[p][z], DOMAIN weights'[p][z]) ELSE 0], Rank)
  BY DEF Weighed
<1> DEFINE part(np, y, p, q) ==
             U!homogeneous_repart(size[y], SumAt(np, Rank), SumAt(np, 0 .. p - 1) + q - 1)
<1>1. PICK np \in [Rank -> NParts] :
        /\ \E p \in Rank : np[p] > 0
        /\ weights' = [p \in Rank |-> [y \in Zone |-> [q \in 1 .. np[p] |-> part(np, y, p, q)]]]
  BY DEF npart_per_zone
<1>2. np \in [Rank -> Nat] /\ size[z] \in Nat
  BY TreesAssumption, ZoneFacts
<1>3. PICK b \in Rank : np[b] > 0
  BY <1>1
<1> DEFINE f == [p \in Rank |-> IF z \in DOMAIN weights'[p]
                                THEN SumAt(weights'[p][z], DOMAIN weights'[p][z]) ELSE 0]
           n == size[z]
           m == SumAt(np, Rank)
           before == [p \in Rank |-> SumAt(np, 0 .. p - 1)]
           g == [p \in Rank |-> FirstParts(n, m, before[p] + np[p]) - FirstParts(n, m, before[p])]
<1>4. \A p \in Rank : g[p] = FirstParts(n, SumAt(np, Rank), SumAt(np, 0 .. p - 1) + np[p])
                               - FirstParts(n, SumAt(np, Rank), SumAt(np, 0 .. p - 1))
  OBVIOUS
<1>5. SumAt(g, Rank) = n /\ m \in Nat /\ m # 0
  <2> HIDE DEF g
  <2> QED
    BY <1>2, <1>3, <1>4, PartsAsked
<1>6. ASSUME NEW p \in Rank PROVE before[p] \in Nat
  <2> DEFINE I == 0 .. p - 1
  <2>1. p \in Nat /\ IsFiniteSet(I)
    BY RankFacts, FS_Interval
  <2>2. \A q \in I : np[q] \in Nat
    BY <1>2, <2>1, RankFacts
  <2> HIDE DEF I
  <2>3. SumAt(np, I) \in Nat
    BY <2>1, <2>2, SumNat
  <2> QED
    BY <2>3 DEF I
<1>7. ASSUME NEW p \in Rank PROVE f[p] = g[p] /\ g[p] \in Int
  <2> DEFINE s == [q \in 1 .. np[p] |-> part(np, z, p, q)]
             c == before[p]
             l == np[p]
  <2>1. weights'[p] = [y \in Zone |-> [q \in 1 .. np[p] |-> part(np, y, p, q)]]
    BY <1>1
  <2>2. z \in DOMAIN weights'[p] /\ weights'[p][z] = s
    BY <2>1
  <2>3. DOMAIN s = 1 .. l
    OBVIOUS
  <2>4. f[p] = SumAt(s, 1 .. l)
    BY <2>2, <2>3
  <2>5. \A q \in 1 .. l : s[q] = U!homogeneous_repart(n, m, c + q - 1)
    OBVIOUS
  <2>6. c \in Nat /\ l \in Nat /\ n \in Nat
    BY <1>2, <1>6
  <2>7. g[p] = FirstParts(n, m, c + l) - FirstParts(n, m, c)
    OBVIOUS
  <2> HIDE DEF s, c, l, f, g, n, m
  <2>8. SumAt(s, 1 .. l) = FirstParts(n, m, c + l) - FirstParts(n, m, c)
    BY <1>5, <2>5, <2>6, PartsAddUp
  <2>9. c + l \in Nat
    BY <2>6
  <2>10. FirstParts(n, m, c + l) \in Nat /\ FirstParts(n, m, c) \in Nat
    BY <1>5, <2>6, <2>9, FirstPartsAre
  <2> QED
    BY <2>4, <2>7, <2>8, <2>10
<1> HIDE DEF f, g, m, n
<1>8. SumAt(f, Rank) = SumAt(g, Rank)
  BY <1>7, RankFacts, SumSame
<1> QED
  BY <1>5, <1>8 DEF f, n

\* The methods themselves do not return to the caller.
LEMMA MethodsGoOn ==
  /\ NU!Next => pc' # "returned"
  /\ U!Next => pc' # "returned"
  /\ NS!Next => pc' # "returned"
<1>1. ASSUME NU!Next PROVE pc' # "returned"
  <2>1. CASE NU!Start \/ NU!NoneLeft \/ NU!Converge
    BY <2>1 DEF NU!Start, NU!NoneLeft, NU!Converge
  <2>2. CASE NU!Match
    BY <2>2 DEF NU!Match
  <2>3. CASE NU!NoMatch
    BY <2>3 DEF NU!NoMatch
  <2>4. CASE NU!Fill \/ NU!NextProc
    BY <2>4 DEF NU!Fill, NU!NextProc
  <2>5. CASE NU!EndFill
    BY <2>5 DEF NU!EndFill
  <2>6. CASE NU!TreatWhole \/ NU!TreatComplete \/ NU!TreatCut \/ NU!TreatRest
    <3>1. pc = "treat" /\ pc' = pc
      BY <2>6 DEF NU!TreatWhole, NU!TreatComplete, NU!TreatCut, NU!TreatRest, NU!Treating
    <3> QED
      BY <3>1
  <2> QED
    BY <1>1, <2>1, <2>2, <2>3, <2>4, <2>5, <2>6 DEF NU!Next
<1>2. ASSUME U!Next PROVE pc' # "returned"
  <2>1. CASE U!GiveRanks
    BY <2>1 DEF U!GiveRanks
  <2>2. CASE U!Share \/ U!EndShare \/ U!EndZones
    BY <2>2 DEF U!Share, U!EndShare, U!EndZones
  <2>3. CASE U!TakeRemain
    BY <2>3 DEF U!TakeRemain
  <2>4. CASE U!ComputeLoad
    BY <2>4 DEF U!ComputeLoad
  <2>5. CASE U!AddToLeast \/ U!CutMore
    BY <2>5 DEF U!AddToLeast, U!CutMore
  <2>6. CASE U!Format
    BY <2>6 DEF U!Format
  <2> QED
    BY <1>2, <2>1, <2>2, <2>3, <2>4, <2>5, <2>6 DEF U!Next
<1>3. ASSUME NS!Next PROVE pc' # "returned"
  BY <1>3 DEF NS!Next, NS!NoSearch, NS!Push, NS!Combine, NS!Assign
<1> QED
  BY <1>1, <1>2, <1>3

-----------------------------------------------------------------------------
\* The invariant of the function that is called, and what the caller gets.
BalanceInv ==
  /\ SizesOK /\ method \in {"non_uniform", "uniform", "nosplit", "npart"}
  /\ method = "non_uniform" => NonUniformInv
  /\ method = "uniform" => UniformInv /\ RanksInv
  /\ method = "nosplit" => NoSplitInv
  /\ method = "npart" => pc # "done"
  /\ pc = "returned" => Weighed(weights)

\* It holds when the function is called.
LEMMA BalanceInit == Init => BalanceInv
<1> SUFFICES ASSUME Init PROVE BalanceInv
  OBVIOUS
<1>1. SizesOK
  BY InitSizes
<1>2. /\ rep = [z \in Zone |-> [p \in Rank |-> 0]] /\ load = [p \in Rank |-> 0]
      /\ cur = 0 /\ pc = "start" /\ tol = 0 /\ mean = 0 /\ left = size /\ open = Rank /\ k = 0
      /\ procs = [z \in Zone |-> << >>] /\ i = 1 /\ j = 1 /\ r = 0 /\ ii = 0 /\ heap = {}
  BY NonUniformUses, UniformUses DEF Init, NU!Init, U!Init, NS!Init
<1>3. Accounted(rep, load, left)
  BY <1>1, <1>2, FreshAccounts
<1>4. Len(size) \in Nat /\ 1 \in 1 .. Len(size) + 1 /\ 0 \in 0 .. NRank
  BY <1>1, RankFacts DEF SizesOK
<1>5. NonUniformInv
  BY <1>1, <1>2, <1>3, <1>4 DEF NonUniformInv
<1>6. UniformInv
  <2>1. procs \in [Zone -> Seq(Nat)]
    BY <1>2
  <2> QED
    BY <1>1, <1>2, <1>4, <2>1 DEF UniformInv
<1>7. RanksInv
  <2>1. \A z \in Zone : z \in Nat /\ ~ (z < 1)
    BY <1>1, ZoneFacts
  <2>2. 0 .. 0 - 1 = {} /\ 0 <= NRank
    BY RankFacts
  <2> QED
    BY <1>2, <2>1, <2>2 DEF RanksInv, RanksKnown
<1>8. NoSplitInv
  <2>1. rep \in [Zone -> [Rank -> Nat]] /\ IsFiniteSet(heap)
    BY <1>2, FS_EmptySet
  <2> QED
    BY <1>1, <1>2, <2>1 DEF NoSplitInv, BinsKnown
<1>9. method \in {"non_uniform", "uniform", "nosplit", "npart"}
  BY TreesAssumption DEF Init
<1> QED
  BY <1>1, <1>2, <1>5, <1>6, <1>7, <1>8, <1>9 DEF BalanceInv

\* The steps that leave the repartition as it is.
LEMMA ReturnKeeps ==
  ASSUME BalanceInv, UNCHANGED <<method, size, rep, load, cur, nuVars, uVars, heap>>,
         pc' = pc \/ (pc = "done" /\ pc' = "returned"), pc' = "returned" => Weighed(weights')
  PROVE  BalanceInv'
<1>1. /\ UNCHANGED <<tol, mean, left, open, k>> /\ UNCHANGED <<procs, i, j, r, ii>>
      /\ UNCHANGED <<method, size, rep, load, cur, heap>>
  BY DEF nuVars, uVars
<1>2. Zone' = Zone /\ SizesOK'
  BY <1>1 DEF BalanceInv, Zone, SizesOK
<1>3. ASSUME NonUniformInv PROVE NonUniformInv'
  <2>1. Accounted(rep, load, left)'
    BY <1>1, <1>2, <1>3 DEF NonUniformInv, Accounted
  <2> QED
    BY <1>1, <1>2, <1>3, <2>1 DEF NonUniformInv
<1>4. ASSUME UniformInv PROVE UniformInv'
  BY <1>1, <1>2, <1>4 DEF UniformInv
<1>5. ASSUME RanksInv PROVE RanksInv'
  <2>1. RanksKnown(pc, cur, i, RanksOf(procs), rep)
    BY <1>5 DEF RanksInv
  <2>2. RanksKnown(pc', cur, i, RanksOf(procs), rep)
    BY <2>1 DEF RanksKnown
  <2>3. RanksKnown(pc', cur', i', RanksOf(procs'), rep')
    BY <1>1, <2>2
  <2> QED
    BY <1>1, <2>3, RanksPrime
<1>6. ASSUME NoSplitInv PROVE NoSplitInv'
  <2>1. SizesOK /\ BinsKnown(pc, heap, rep)
    BY <1>6 DEF NoSplitInv
  <2>2. BinsKnown(pc', heap, rep)
    BY <2>1 DEF BinsKnown
  <2>3. BinsKnown(pc', heap', rep')
    BY <1>1, <2>2
  <2> QED
    BY <1>1, <2>1, <2>3, BinsPrime
<1>7. pc' = "returned" => Weighed(weights)'
  BY <1>1, <1>2 DEF Weighed
<1>8. method = "npart" => pc' # "done"
  BY DEF BalanceInv
<1> QED
  BY <1>1, <1>2, <1>3, <1>4, <1>5, <1>6, <1>7, <1>8 DEF BalanceInv

\* Every step keeps it.
LEMMA BalanceNext == BalanceInv /\ [Next]_vars => BalanceInv'
<1> SUFFICES ASSUME BalanceInv, [Next]_vars PROVE BalanceInv'
  OBVIOUS
<1>1. CASE balance_with_non_uniform_weights
  <2>1. method = "non_uniform" /\ method' = method /\ NU!Next /\ NonUniformInv
    BY <1>1 DEF balance_with_non_uniform_weights, BalanceInv
  <2>2. NonUniformInv' /\ pc' # "returned"
    BY <2>1, NonUniformNext, MethodsGoOn
  <2>3. SizesOK'
    BY <2>2 DEF NonUniformInv
  <2> QED
    BY <2>1, <2>2, <2>3 DEF BalanceInv
<1>2. CASE balance_with_uniform_weights
  <2>1. method = "uniform" /\ method' = method /\ U!Next /\ UniformInv /\ RanksInv
    BY <1>2 DEF balance_with_uniform_weights, BalanceInv
  <2>2. UniformInv' /\ RanksInv' /\ pc' # "returned"
    BY <2>1, UniformNext, RanksNext, MethodsGoOn
  <2>3. SizesOK'
    BY <2>2 DEF UniformInv
  <2> QED
    BY <2>1, <2>2, <2>3 DEF BalanceInv
<1>3. CASE compute_nosplit_weights
  <2>1. method = "nosplit" /\ method' = method /\ NS!Next /\ NoSplitInv
    BY <1>3 DEF compute_nosplit_weights, BalanceInv
  <2>2. NoSplitInv' /\ pc' # "returned"
    BY <2>1, NoSplitNext, MethodsGoOn
  <2>3. SizesOK'
    BY <2>2 DEF NoSplitInv
  <2> QED
    BY <2>1, <2>2, <2>3 DEF BalanceInv
<1>4. CASE npart_per_zone
  <2>1. method = "npart" /\ method' = method /\ pc' = "returned" /\ size' = size
    BY <1>4 DEF npart_per_zone
  <2>2. SizesOK /\ Weighed(weights')
    BY <1>4, NpartGives DEF BalanceInv
  <2>3. SizesOK' /\ Zone' = Zone
    BY <2>1, <2>2 DEF SizesOK, Zone
  <2>4. Weighed(weights)'
    BY <2>1, <2>2, <2>3 DEF Weighed
  <2> QED
    BY <2>1, <2>3, <2>4 DEF BalanceInv
<1>5. CASE Return
  <2>1. /\ pc = "done" /\ pc' = "returned" /\ UNCHANGED <<method, size, rep, load, cur, nuVars, uVars, heap>>
        /\ weights' = [p \in Rank |-> zone_to_weights(p)]
    BY <1>5 DEF Return
  <2>2. SizesOK
    BY DEF BalanceInv
  <2>3. rep \in [Zone -> [Rank -> Nat]] /\ \A z \in Zone : SumAt(rep[z], Rank) = size[z]
    <3>1. CASE method = "non_uniform"
      <4>1. NonUniformInv
        BY <3>1 DEF BalanceInv
      <4>2. /\ rep \in [Zone -> [Rank -> Nat]]
            /\ \A z \in Zone : left[z] = 0 /\ SumAt(rep[z], Rank) + left[z] = size[z]
        BY <2>1, <4>1 DEF NonUniformInv, Accounted
      <4>3. ASSUME NEW z \in Zone PROVE SumAt(rep[z], Rank) \in Int
        <5> DEFINE f == rep[z]
        <5>1. IsFiniteSet(Rank) /\ \A p \in Rank : f[p] \in Int
          BY <4>2, RankFacts
        <5> HIDE DEF f
        <5>2. SumAt(f, Rank) \in Int
          BY <5>1, SumTake
        <5> QED
          BY <5>2 DEF f
      <4> QED
        BY <4>2, <4>3
    <3>2. CASE method = "uniform"
      <4>1. UniformInv /\ RanksInv
        BY <3>2 DEF BalanceInv
      <4> QED
        BY <2>1, <4>1 DEF UniformInv, RanksInv, RanksKnown
    <3>3. CASE method = "nosplit"
      <4>1. NoSplitInv
        BY <3>3 DEF BalanceInv
      <4>2. rep \in [Zone -> [Rank -> Nat]]
        BY <4>1 DEF NoSplitInv, BinsKnown
      <4> QED
        BY <2>1, <4>1, <4>2, NoSplitInvIs
    <3> QED
      BY <2>1, <3>1, <3>2, <3>3 DEF BalanceInv
  <2>4. Weighed(weights')
    BY <2>1, <2>2, <2>3, ReturnGives
  <2> QED
    BY <2>1, <2>4, ReturnKeeps
<1>6. CASE UNCHANGED vars
  <2>1. /\ pc' = pc /\ UNCHANGED <<method, size, rep, load, cur, nuVars, uVars, heap>>
        /\ weights' = weights
    BY <1>6 DEF vars
  <2>2. pc' = "returned" => Weighed(weights')
    BY <2>1 DEF BalanceInv
  <2> QED
    BY <2>1, <2>2, ReturnKeeps
<1>7. CASE Terminated
  BY <1>6, <1>7 DEF Terminated
<1> QED
  BY <1>1, <1>2, <1>3, <1>4, <1>5, <1>6, <1>7 DEF Next

\* For any zones and ranks.
LEMMA BalanceInvHolds == Spec => []BalanceInv
BY BalanceInit, BalanceNext, PTL DEF Spec

\* balance_with_non_uniform_weights, for any zones, ranks and tolerances: through all the steps
\* and restarts no count goes below zero, and what is given of a zone and what is left of it
\* make up the zone.
THEOREM RepartAlwaysConserved == Spec => []RepartConserved
<1>1. BalanceInv => RepartConserved
  BY NonUniformInvIs DEF BalanceInv, RepartConserved
<1> QED
  BY <1>1, BalanceInvHolds, PTL

\* The loads on which the choices rest are always the ones of the repartition; the ranks that
\* steps 0 and 1 fill stay within the mean; with uniform weights what the ranks of a zone can
\* still take is never negative.
THEOREM LoadsAlwaysAgree == Spec => []LoadsAgree
<1>1. BalanceInv => LoadsAgree
  BY NonUniformInvIs, UniformInvIs DEF BalanceInv, LoadsAgree
<1> QED
  BY <1>1, BalanceInvHolds, PTL

\* karmarkar_karp, for any zones and ranks: through all the merges a zone is in one bin of one
\* item, and the loads of two ranks do not differ by more than the largest zone.
THEOREM BinsAlwaysBalanced == Spec => []BinsBalanced
<1>1. BalanceInv => BinsBalanced
  BY NoSplitInvIs DEF BalanceInv, BinsBalanced
<1> QED
  BY <1>1, BalanceInvHolds, PTL

\* Whatever the function, the zones and the number of ranks, the parts that all the processes
\* ask of a zone make it up, so that partition_dist_tree finds weights of one; and no rank is
\* idle with as many cells as ranks (balance_with_uniform_weights) or as many zones
\* (compute_nosplit_weights).
THEOREM WeightsAlwaysComplete == Spec => []WeightsComplete
<1>1. BalanceInv => WeightsComplete
  <2> SUFFICES ASSUME BalanceInv PROVE WeightsComplete
    OBVIOUS
  <2>1. pc = "returned" => Weighed(weights)
    BY DEF BalanceInv
  <2>2. ASSUME method = "uniform" PROVE U!NoIdleRank
    <3>1. RanksKnown(pc, cur, i, RanksOf(procs), rep)
      BY <2>2 DEF BalanceInv, RanksInv
    <3>2. ASSUME pc = "done", U!mean_per_rank > 0, NEW p \in Rank
          PROVE  \E z \in Zone : p \in U!ToSet(procs[z])
      <4>1. cur = NRank /\ \A q \in 0 .. cur - 1 : Reached(RanksOf(procs), q)
        BY <3>1, <3>2 DEF RanksKnown
      <4>2. p \in 0 .. cur - 1
        BY <4>1 DEF Rank
      <4> QED
        BY <4>1, <4>2 DEF Reached, RanksOf
    <3> QED
      BY <3>2, UniformUses DEF U!NoIdleRank
  <2>3. method = "nosplit" => NS!NoIdleRank
    BY NoSplitInvIs DEF BalanceInv
  <2> QED
    BY <2>1, <2>2, <2>3 DEF WeightsComplete, Weighed
<1> QED
  BY <1>1, BalanceInvHolds, PTL
=============================================================================
