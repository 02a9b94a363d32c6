-------------------------- MODULE DistTree_proofs ---------------------------
(***************************************************************************)
(* The life of a distributed tree, for every number of ranks, every zone   *)
(* that the operations support, and every sequence of operations.          *)
(***************************************************************************)
EXTENDS DistTree, Distribution_proofs, TLAPS

EC == "ElementConnectivity"
Parts == [Rank -> Nat \X Nat \X Nat]

\* The distributions that a tree of the zone has (it may have EC in any case).
Required ==
  KeysOfZone \cup (IF HasElements THEN {"Element"} ELSE {}) \cup {c \in Subsets : HasPatch(c)}
    \cup (IF HasOffset THEN {EC} ELSE {})

\* The bounds of the connectivity of the elements that d gives to each rank.
OffsetBounds(d) == [r \in Rank |-> <<Offset[d[r][1]], Offset[d[r][2]], Offset[NElement]>>]

\* D is a function on the keys of a tree.
IsDist(D) ==
  /\ D = [k \in DOMAIN D |-> D[k]]
  /\ Required \subseteq DOMAIN D /\ DOMAIN D \subseteq Required \cup {EC}
  /\ \A k \in DOMAIN D : D[k] \in Parts /\ Tiles(D[k], SizeOf(k))
  /\ HasOffset => D[EC] = OffsetBounds(D["Element"])

\* The blocks of array a under the distribution d.
Blk(d, a) ==
  [r \in Rank |-> SubSeq(Content[a], d[r][1] + 1, d[r][2] + (IF a = "eso" THEN 1 ELSE 0))]

Blocks(D) == [a \in ArraysOfZone |-> Blk(FilterDistribution(D, a), a)]

Good(t) == t = Tree(t.dist, Blocks(t.dist)) /\ IsDist(t.dist)

\* The key of the distribution of an array, and the entries it distributes.
KeyOf(a) == IF a \in Containers THEN Extent(a) ELSE IF a = "ec" THEN EC ELSE "Element"
EntriesOf(a) == SizeOf(KeyOf(a))

\* The inductive invariant: the tree is the one that its distributions cut from the mesh,
\* and the file and the full tree hold the mesh.
LifeInv ==
  /\ zone \in Zones
  /\ tree = NoTree \/ Good(tree)
  /\ file \in {Content, LocalIndexing(Content)}
  /\ full.arr = Content
-----------------------------------------------------------------------------
(***************************************************************************)
(* The zone                                                                *)
(***************************************************************************)
\* The distributions of the policies are arrays of three integers.
LEMMA PolicyTyped == \A p \in Policy, n \in Nat : interpret_policy(p, n) \in Parts
<1> TAKE p \in Policy, n \in Nat
<1>1. CASE p.type = "uniform"
  <2> DEFINE u == uniform_distribution(n)
  <2>1. u = [r \in Rank |-> u[r]]
    BY DEF uniform_distribution
  <2>2. ASSUME NEW r \in Rank PROVE u[r] \in Nat \X Nat \X Nat
    <3> DEFINE step == n \div NRank
               rem == n % NRank
    <3>1. /\ step \in Nat /\ rem \in 0 .. NRank - 1
          /\ u[r] = <<r * step + MinOf(r, rem), (r + 1) * step + MinOf(r + 1, rem), n>>
      BY UniformBounds
    <3>2. r \in Nat /\ r + 1 \in Nat /\ rem \in Nat
      BY <3>1, NRankAssumption DEF Rank
    <3> HIDE DEF step, rem, u
    <3>3. r * step \in Nat /\ (r + 1) * step \in Nat /\ MinOf(r, rem) \in Nat /\ MinOf(r + 1, rem) \in Nat
      BY <3>1, <3>2 DEF MinOf
    <3> QED
      BY <3>1, <3>3
  <2>3. interpret_policy(p, n) = u
    BY <1>1 DEF interpret_policy
  <2> HIDE DEF u
  <2> QED
    BY <2>1, <2>2, <2>3 DEF Parts
<1>2. CASE p.type # "uniform"
  BY <1>2 DEF interpret_policy, gathering_distribution, Parts
<1> QED
  BY <1>1, <1>2

\* The fields of the zone.
LEMMA ZoneFacts ==
  ASSUME zone \in Zones
  PROVE  /\ zone.structured \in BOOLEAN /\ zone.dim \in {2, 3} /\ zone.size \in [ZoneKeys -> Nat]
         /\ zone.elt \in {"NGON_n", "TRI_3", "none"} /\ zone.n_vtx \in Nat /\ zone.faces \in Seq(Nat)
         /\ zone.elt = "TRI_3" => \A i \in 1 .. Len(zone.faces) : zone.faces[i] = zone.n_vtx
         /\ zone.extent \in [Subsets -> {"PointList", "PointRange", "none", "absent"}]
         /\ zone.extent["bc"] # "none" /\ zone.extent["gc"] # "none"
         /\ zone.length \in [Subsets -> Nat]
         /\ zone.extent["disc"] = "absent" /\ zone.extent["sol"] # "PointRange"
         /\ zone.structured => zone.dim = 3
         /\ zone.structured /\ zone.extent["sol"] = "PointList" => zone.length["sol"] = zone.size["Cell"]
         /\ zone.extent["zsr"] = "none" \/ zone.extent["bcds"] # "absent" => zone.extent["bc"] # "absent"
BY ZonesAssumption DEF ZoneOK, Supported

\* The offsets of the elements.
LEMMA OffsetFacts ==
  ASSUME zone \in Zones
  PROVE  /\ NElement \in Nat /\ Offset \in [0 .. NElement -> Nat] /\ Offset[0] = 0
         /\ \A i \in 0 .. NElement - 1 : Offset[i + 1] = Offset[i] + zone.faces[i + 1]
<1> DEFINE n == NElement
           f == zone.faces
           u == Offset
<1>1. n \in Nat /\ f \in Seq(Nat) /\ n = Len(f)
  BY ZoneFacts DEF NElement
<1>2. \A i \in 1 .. n : f[i] \in Nat
  BY <1>1, ElementOfSeq
<1>3. AllInt(f, n)
  BY <1>2 DEF AllInt
<1>4. u = CHOOSE v : IsSum(v, f, n)
  BY DEF Offset, IsSum
<1> HIDE DEF n, f, u
<1>5. IsSum(u, f, n)
  BY <1>1, <1>3, <1>4, SumExists
<1>6. SumSteps(u, f, n) /\ \A i \in 0 .. n : u[i] \in Int
  BY <1>1, <1>3, <1>5, SumFacts
<1>7. \A i \in 0 .. n : u[i] \in Nat
  <2> DEFINE T == {i \in 0 .. n : u[i] \in Nat}
  <2>1. 0 \in T
    BY <1>1, <1>6 DEF SumSteps
  <2>2. ASSUME NEW i \in 0 .. n - 1, i \in T PROVE i + 1 \in T
    <3>1. i + 1 \in 1 .. n /\ i + 1 \in 0 .. n
      BY <1>1
    <3>2. u[i + 1] = u[i] + f[i + 1] /\ f[i + 1] \in Nat /\ u[i] \in Nat
      BY <1>2, <1>6, <2>2, <3>1 DEF SumSteps
    <3> QED
      BY <3>1, <3>2
  <2> HIDE DEF T
  <2>3. \A i \in 0 .. n : i \in T
    BY <1>1, <2>1, <2>2, IntervalInduction
  <2> QED
    BY <2>3 DEF T
<1>8. u \in [0 .. n -> Nat]
  BY <1>5, <1>7 DEF IsSum
<1> QED
  BY <1>1, <1>6, <1>8 DEF SumSteps, n, f, u

\* The offsets do not decrease.
LEMMA OffsetsIncrease ==
  ASSUME zone \in Zones, NEW i \in 0 .. NElement, NEW j \in 0 .. NElement, i <= j
  PROVE  Offset[i] <= Offset[j]
<1> DEFINE n == NElement
           m == n - i
           u == Offset
           T == {k \in 0 .. m : u[i] <= u[i + k]}
<1>1. /\ n \in Nat /\ u \in [0 .. n -> Nat] /\ i \in 0 .. n /\ j \in 0 .. n
      /\ \A k \in 0 .. n - 1 : u[k + 1] = u[k] + zone.faces[k + 1]
  BY OffsetFacts
<1>2. \A k \in 1 .. n : zone.faces[k] \in Nat
  BY ZoneFacts, ElementOfSeq DEF NElement
<1> HIDE DEF n, u
<1>3. m \in Nat
  BY <1>1
<1>4. 0 \in T
  <2>1. i + 0 = i /\ 0 \in 0 .. m /\ u[i] \in Nat
    BY <1>1
  <2> QED
    BY <2>1
<1>5. ASSUME NEW k \in 0 .. m - 1, k \in T PROVE k + 1 \in T
  <2> DEFINE l == i + k
  <2>1. l \in 0 .. n - 1 /\ l \in 0 .. n /\ l + 1 \in 1 .. n /\ l + 1 \in 0 .. n /\ i + (k + 1) = l + 1
    BY <1>1
  <2>2. u[i] <= u[l] /\ k + 1 \in 0 .. m
    BY <1>1, <1>5
  <2> HIDE DEF l, m
  <2>3. u[l + 1] = u[l] + zone.faces[l + 1] /\ zone.faces[l + 1] \in Nat
    BY <1>1, <1>2, <2>1
  <2>4. u[i] \in Nat /\ u[l] \in Nat
    BY <1>1, <2>1
  <2>5. u[i] <= u[l + 1]
    BY <2>2, <2>3, <2>4
  <2> QED
    BY <2>1, <2>2, <2>5
<1> HIDE DEF T, m
<1>6. \A k \in 0 .. m : k \in T
  BY <1>3, <1>4, <1>5, IntervalInduction
<1>7. j - i \in 0 .. m /\ i + (j - i) = j
  BY <1>1 DEF m
<1>8. u[i] <= u[i + (j - i)]
  BY <1>6, <1>7 DEF T
<1> QED
  BY <1>7, <1>8 DEF u

\* The elements of a standard section have the same number of vertices.
LEMMA StandardOffsets ==
  ASSUME zone \in Zones, zone.elt = "TRI_3", NEW i \in 0 .. NElement
  PROVE  Offset[i] = zone.n_vtx * i
<1> DEFINE n == NElement
           c == zone.n_vtx
           u == Offset
           T == {k \in 0 .. n : u[k] = c * k}
<1>1. /\ n \in Nat /\ c \in Nat /\ u \in [0 .. n -> Nat] /\ u[0] = 0 /\ i \in 0 .. n
      /\ \A k \in 0 .. n - 1 : u[k + 1] = u[k] + zone.faces[k + 1]
  BY OffsetFacts, ZoneFacts
<1>2. \A k \in 1 .. n : zone.faces[k] = c
  BY ZoneFacts DEF NElement
<1> HIDE DEF n, c, u
<1>3. 0 \in T
  <2>1. c * 0 = 0 /\ 0 \in 0 .. n
    BY <1>1
  <2> QED
    BY <1>1, <2>1
<1>4. ASSUME NEW k \in 0 .. n - 1, k \in T PROVE k + 1 \in T
  <2>1. k + 1 \in 0 .. n /\ k + 1 \in 1 .. n /\ k \in Int
    BY <1>1
  <2>2. u[k + 1] = c * k + c
    BY <1>1, <1>2, <1>4, <2>1
  <2>3. c * (k + 1) = c * k + c
    BY <1>1, <2>1
  <2> QED
    BY <2>1, <2>2, <2>3
<1> HIDE DEF T
<1>5. \A k \in 0 .. n : k \in T
  BY <1>1, <1>3, <1>4, IntervalInduction
<1> QED
  BY <1>1, <1>5 DEF T, n, c, u

\* Every key has a size.
LEMMA SizesTyped ==
  ASSUME zone \in Zones, NEW k \in Keys
  PROVE  SizeOf(k) \in Nat
<1>1. /\ zone.size \in [ZoneKeys -> Nat] /\ zone.length \in [Subsets -> Nat] /\ NElement \in Nat
      /\ Offset[NElement] \in Nat
  BY ZoneFacts, OffsetFacts
<1>2. CASE k \in ZoneKeys
  <2>1. SizeOf(k) = zone.size[k]
    BY <1>2 DEF SizeOf, ZoneKeys, Subsets
  <2> QED
    BY <1>1, <1>2, <2>1
<1>3. CASE k \in Subsets
  <2>1. SizeOf(k) = zone.length[k]
    BY <1>3 DEF SizeOf, ZoneKeys, Subsets
  <2> QED
    BY <1>1, <1>3, <2>1
<1>4. CASE k = "Element"
  BY <1>1, <1>4 DEF SizeOf, ZoneKeys, Subsets
<1>5. CASE k = "ElementConnectivity"
  BY <1>1, <1>5 DEF SizeOf, ZoneKeys, Subsets
<1> QED
  BY <1>2, <1>3, <1>4, <1>5 DEF Keys

\* Where the arrays of a container are distributed.
LEMMA ExtentCases ==
  ASSUME zone \in Zones, NEW c \in Containers, HasArray(c)
  PROVE  \/ c = "coords" /\ Extent(c) = "Vertex"
         \/ c = "sol" /\ zone.extent[c] = "none" /\ Extent(c) = "Cell"
         \/ c \in {"sol", "zsr", "bcds", "bc", "gc"} /\ HasPatch(c) /\ Extent(c) = c
         \/ c \in {"zsr", "bcds"} /\ zone.extent[c] = "none" /\ Extent(c) = "bc" /\ HasPatch("bc")
<1> DEFINE e == zone.extent
<1>1. /\ e \in [Subsets -> {"PointList", "PointRange", "none", "absent"}]
      /\ e["bc"] # "none" /\ e["gc"] # "none" /\ e["disc"] = "absent" /\ e["sol"] # "PointRange"
      /\ e["zsr"] = "none" \/ e["bcds"] # "absent" => e["bc"] # "absent"
  BY ZoneFacts
<1>2. "bc" \in Subsets /\ e["bc"] \in {"PointList", "PointRange", "none", "absent"}
  BY <1>1 DEF Subsets
<1>3. CASE c = "coords"
  BY <1>3 DEF Extent, Subsets
<1>4. CASE c \in Subsets
  <2>1. c # "coords" /\ e[c] # "absent"
    BY <1>1, <1>4 DEF HasArray, Subsets
  <2>2. e[c] \in {"PointList", "PointRange", "none"} /\ c # "disc"
    BY <1>1, <1>4, <2>1
  <2>3. CASE e[c] # "none"
    <3>1. Extent(c) = c
      BY <1>4, <2>1, <2>3 DEF Extent
    <3>2. HasPatch(c)
      BY <2>2, <2>3 DEF HasPatch
    <3> QED
      BY <1>4, <2>2, <3>1, <3>2 DEF Subsets
  <2>4. CASE e[c] = "none"
    <3>1. c \in {"sol", "zsr", "bcds"}
      BY <1>1, <1>4, <2>2, <2>4 DEF Subsets
    <3>2. CASE c = "sol"
      BY <1>4, <2>4, <3>2 DEF Extent, Subsets
    <3>3. CASE c \in {"zsr", "bcds"}
      <4>1. Extent(c) = "bc"
        BY <1>4, <2>4, <3>3 DEF Extent, Subsets
      <4>2. HasPatch("bc")
        BY <1>1, <1>2, <2>4, <3>3 DEF HasPatch
      <4> QED
        BY <2>4, <3>3, <4>1, <4>2
    <3> QED
      BY <3>1, <3>2, <3>3
  <2> QED
    BY <2>3, <2>4
<1> QED
  BY <1>3, <1>4 DEF Containers

\* The arrays are those of the containers and of the elements.
LEMMA ArrayCases ==
  ASSUME NEW a \in ArraysOfZone
  PROVE  \/ a \in Containers /\ HasArray(a) /\ a \notin {"eso", "ec", "pe"}
         \/ a \in {"eso", "ec", "pe"} /\ a \notin Containers /\ HasElements /\ (a = "eso" => HasOffset)
BY DEF ArraysOfZone, Containers, Subsets, HasElements, HasOffset

\* Every array has a distribution.
LEMMA KeyRequired ==
  ASSUME zone \in Zones, NEW a \in ArraysOfZone
  PROVE  KeyOf(a) \in Keys /\ (KeyOf(a) \in Required \/ (a = "ec" /\ ~HasOffset))
<1>1. CASE a \in Containers /\ HasArray(a)
  <2>1. KeyOf(a) = Extent(a)
    BY <1>1 DEF KeyOf
  <2>2. /\ "Vertex" \in Required /\ "Cell" \in Required /\ "Vertex" \in Keys /\ "Cell" \in Keys
        /\ \A c \in Subsets : c \in Keys /\ (HasPatch(c) => c \in Required)
        /\ \A c \in {"sol", "zsr", "bcds", "bc", "gc"} : c \in Subsets
    BY DEF Required, KeysOfZone, Keys, ZoneKeys, Subsets
  <2> QED
    BY <1>1, <2>1, <2>2, ExtentCases
<1>2. CASE a \in {"eso", "ec", "pe"} /\ a \notin Containers /\ HasElements
  BY <1>2 DEF KeyOf, Required, Keys, HasElements, HasOffset, EC
<1> QED
  BY <1>1, <1>2, ArrayCases

\* The global arrays.
LEMMA ContentFacts ==
  ASSUME zone \in Zones, NEW a \in ArraysOfZone
  PROVE  /\ EntriesOf(a) \in Nat /\ Content[a] \in Seq(Nat)
         /\ Len(Content[a]) = EntriesOf(a) + (IF a = "eso" THEN 1 ELSE 0)
<1>1. KeyOf(a) \in Keys
  BY KeyRequired
<1>2. EntriesOf(a) \in Nat
  BY <1>1, SizesTyped DEF EntriesOf
<1>3. NElement \in Nat /\ Offset \in [0 .. NElement -> Nat]
  BY OffsetFacts
<1>4. CASE a \in Containers
  <2> DEFINE n == EntriesOf(a)
  <2>1. Content[a] = [i \in 1 .. n |-> i]
    BY <1>4 DEF Content, EntriesOf, KeyOf, Containers, Subsets
  <2>2. a # "eso"
    BY <1>4 DEF Containers, Subsets
  <2>3. n \in Nat
    BY <1>2
  <2> HIDE DEF n
  <2>4. [i \in 1 .. n |-> i] \in Seq(Nat) /\ Len([i \in 1 .. n |-> i]) = n
    BY <2>3
  <2> QED
    BY <1>2, <2>1, <2>2, <2>4 DEF n
<1>5. CASE a = "eso"
  <2>1. Content[a] = [i \in 1 .. NElement + 1 |-> Offset[i - 1]] /\ EntriesOf(a) = NElement
    BY <1>5 DEF Content, EntriesOf, KeyOf, SizeOf, Containers, Subsets, ZoneKeys
  <2>2. \A i \in 1 .. NElement + 1 : Offset[i - 1] \in Nat
    BY <1>3
  <2> DEFINE s == Content[a]
             m == NElement + 1
  <2>3. m \in Nat /\ s \in [1 .. m -> Nat]
    BY <1>3, <2>1, <2>2
  <2> HIDE DEF s, m
  <2>4. s \in Seq(Nat) /\ Len(s) = m
    BY <2>3
  <2> QED
    BY <1>2, <1>5, <2>1, <2>4 DEF s, m
<1>6. CASE a = "ec"
  <2> DEFINE n == Offset[NElement]
  <2>1. Content[a] = [i \in 1 .. n |-> i] /\ EntriesOf(a) = n
    BY <1>6 DEF Content, EntriesOf, KeyOf, SizeOf, Containers, Subsets, ZoneKeys, EC
  <2>2. n \in Nat
    BY <1>3
  <2> HIDE DEF n
  <2>3. [i \in 1 .. n |-> i] \in Seq(Nat) /\ Len([i \in 1 .. n |-> i]) = n
    BY <2>2
  <2> QED
    BY <1>2, <1>6, <2>1, <2>2, <2>3
<1>7. CASE a = "pe"
  <2> DEFINE s == Content[a]
             m == NElement
  <2>1. s = [i \in 1 .. m |-> IF HasOffset THEN m + i ELSE i] /\ EntriesOf(a) = m
    BY <1>7 DEF Content, EntriesOf, KeyOf, SizeOf, Containers, Subsets, ZoneKeys
  <2>2. m \in Nat
    BY <1>3
  <2> HIDE DEF s, m
  <2>3. s \in [1 .. m -> Nat]
    BY <2>1, <2>2
  <2>4. s \in Seq(Nat) /\ Len(s) = m
    BY <2>2, <2>3
  <2> QED
    BY <1>2, <1>7, <2>1, <2>2, <2>4 DEF s
<1> QED
  BY <1>4, <1>5, <1>6, <1>7, ArrayCases

-----------------------------------------------------------------------------
(***************************************************************************)
(* The distribution of each array                                          *)
(***************************************************************************)
\* The distribution of array a when those of the tree are D.
Under(D, a) == IF a = "ec" /\ ~HasOffset THEN Times(D["Element"], zone.n_vtx) ELSE D[KeyOf(a)]

\* Three integers make the part of a rank.
LEMMA TripleTyped ==
  ASSUME NEW x \in Nat, NEW y \in Nat, NEW z \in Nat
  PROVE  <<x, y, z>> \in Nat \X Nat \X Nat
OBVIOUS

\* The bounds of the blocks are within the array.
LEMMA BoundsInside ==
  ASSUME NEW n \in Nat, NEW d \in Parts, Tiles(d, n), NEW r \in Rank
  PROVE  /\ d[r][1] \in 0 .. n /\ d[r][2] \in 0 .. n /\ d[r][1] <= d[r][2] /\ d[r][3] = n
         /\ d[r] = <<d[r][1], d[r][2], d[r][3]>>
<1> DEFINE full_d == auto_expand_distri(d)
<1>0. d \in [Rank -> Nat \X Nat \X Nat]
  BY DEF Parts
<1>1. FullDistribution(full_d, n) /\ full_d[r] = d[r][1] /\ full_d[r + 1] = d[r][2]
  BY <1>0, ExpandIsFull
<1>2. \A i \in 0 .. NRank : full_d[i] \in 0 .. n
  BY <1>1, BoundsInRange
<1> HIDE DEF full_d
<1>3. d[r][1] \in 0 .. n /\ d[r][2] \in 0 .. n
  BY <1>1, <1>2, RankIndex
<1>4. d[r] \in Nat \X Nat \X Nat
  BY <1>0
<1> QED
  BY <1>3, <1>4 DEF Tiles

\* With elements of n vertices, the blocks of connectivity are n times those of elements.
LEMMA TimesTile ==
  ASSUME NEW m \in Nat, NEW n \in Nat, NEW d \in Parts, Tiles(d, m)
  PROVE  Times(d, n) \in Parts /\ Tiles(Times(d, n), n * m)
<1> DEFINE t == Times(d, n)
<1>1. t = [r \in Rank |-> t[r]] /\ \A r \in Rank : t[r] = [i \in 1 .. 3 |-> n * d[r][i]]
  BY DEF Times
<1>2. ASSUME NEW r \in Rank
      PROVE  d[r][1] \in Nat /\ d[r][2] \in Nat /\ d[r][3] = m /\ d[r][1] <= d[r][2]
  BY BoundsInside
<1>3. ASSUME NEW r \in Rank
      PROVE  t[r] = <<n * d[r][1], n * d[r][2], n * d[r][3]>>
  BY <1>1
<1> HIDE DEF t
<1>4. ASSUME NEW r \in Rank
      PROVE  /\ t[r][1] = n * d[r][1] /\ t[r][2] = n * d[r][2] /\ t[r][3] = n * m
             /\ n * d[r][1] \in Nat /\ n * d[r][2] \in Nat /\ n * m \in Nat
             /\ n * d[r][1] <= n * d[r][2]
  <2>1. d[r][1] \in Nat /\ d[r][2] \in Nat /\ d[r][3] = m /\ d[r][1] <= d[r][2]
    BY <1>2
  <2> DEFINE x == d[r][1]
             y == d[r][2]
  <2>2. t[r] = <<n * x, n * y, n * m>>
    BY <1>3, <2>1
  <2>3. x \in Nat /\ y \in Nat /\ x <= y
    BY <2>1
  <2> HIDE DEF x, y
  <2>4. n * x \in Nat /\ n * y \in Nat /\ n * m \in Nat /\ n * x <= n * y
    BY <2>3
  <2> QED
    BY <2>2, <2>4 DEF x, y
<1>5. ASSUME NEW r \in Rank PROVE t[r] \in Nat \X Nat \X Nat
  <2>1. t[r] = <<n * d[r][1], n * d[r][2], n * m>>
    BY <1>2, <1>3
  <2>2. n * d[r][1] \in Nat /\ n * d[r][2] \in Nat /\ n * m \in Nat
    BY <1>4
  <2> QED
    BY <2>1, <2>2, TripleTyped
<1>6. t \in Parts
  BY <1>1, <1>5 DEF Parts
<1>7. d[0][1] = 0 /\ d[NRank - 1][2] = m /\ \A r \in Rank \ {0} : d[r][1] = d[r - 1][2]
  BY DEF Tiles
<1>8. 0 \in Rank /\ NRank - 1 \in Rank /\ \A r \in Rank \ {0} : r - 1 \in Rank
  BY NRankAssumption DEF Rank
<1>9. t[0][1] = 0
  <2>1. t[0][1] = n * 0
    BY <1>4, <1>7, <1>8
  <2> QED
    BY <2>1
<1>10. t[NRank - 1][2] = n * m
  BY <1>4, <1>7, <1>8
<1>11. \A r \in Rank : t[r][1] <= t[r][2] /\ t[r][3] = n * m
  BY <1>4
<1>12. \A r \in Rank \ {0} : t[r][1] = t[r - 1][2]
  BY <1>4, <1>7, <1>8
<1> QED
  BY <1>6, <1>9, <1>10, <1>11, <1>12 DEF Tiles, t

\* The offsets cut the connectivity where the elements are cut.
LEMMA OffsetBoundsTile ==
  ASSUME zone \in Zones, NEW d \in Parts, Tiles(d, NElement)
  PROVE  OffsetBounds(d) \in Parts /\ Tiles(OffsetBounds(d), SizeOf(EC))
<1> DEFINE n == NElement
           u == Offset
           t == OffsetBounds(d)
<1>1. n \in Nat /\ u \in [0 .. n -> Nat] /\ u[0] = 0
  BY OffsetFacts
<1>2. SizeOf(EC) = u[n]
  BY DEF SizeOf, EC, ZoneKeys, Subsets
<1>3. t = [r \in Rank |-> t[r]] /\ \A r \in Rank : t[r] = <<u[d[r][1]], u[d[r][2]], u[n]>>
  BY DEF OffsetBounds
<1>4. \A r \in Rank : d[r][1] \in 0 .. n /\ d[r][2] \in 0 .. n /\ d[r][1] <= d[r][2]
  BY <1>1, BoundsInside
<1>5. \A r \in Rank : u[d[r][1]] <= u[d[r][2]]
  BY <1>4, OffsetsIncrease
<1>6. d[0][1] = 0 /\ d[NRank - 1][2] = n /\ \A r \in Rank \ {0} : d[r][1] = d[r - 1][2]
  BY DEF Tiles
<1>7. 0 \in Rank /\ NRank - 1 \in Rank /\ \A r \in Rank \ {0} : r - 1 \in Rank
  BY NRankAssumption DEF Rank
<1> HIDE DEF n, u, t
<1>8. \A r \in Rank : u[d[r][1]] \in Nat /\ u[d[r][2]] \in Nat /\ u[n] \in Nat
  BY <1>1, <1>4
<1>9. ASSUME NEW r \in Rank PROVE t[r] \in Nat \X Nat \X Nat
  <2>1. t[r] = <<u[d[r][1]], u[d[r][2]], u[n]>>
    BY <1>3
  <2>2. u[d[r][1]] \in Nat /\ u[d[r][2]] \in Nat /\ u[n] \in Nat
    BY <1>8
  <2> QED
    BY <2>1, <2>2, TripleTyped
<1>10. t \in Parts
  BY <1>3, <1>9 DEF Parts
<1>11. t[0][1] = 0 /\ t[NRank - 1][2] = u[n]
  BY <1>1, <1>3, <1>6, <1>7
<1>12. \A r \in Rank : t[r][1] <= t[r][2] /\ t[r][3] = u[n]
  BY <1>3, <1>5
<1>13. \A r \in Rank \ {0} : t[r][1] = t[r - 1][2]
  BY <1>3, <1>6, <1>7
<1> QED
  BY <1>2, <1>10, <1>11, <1>12, <1>13 DEF Tiles, t

\* The key of a distribution is one of the zone.
LEMMA KeysTyped == Required \subseteq Keys /\ EC \in Keys
BY DEF Required, KeysOfZone, Keys, ZoneKeys, Subsets, EC

\* The solutions and data sets with an extent have a distribution.
PatchKeys(D) == \A c \in {"sol", "bcds"} : c \in DOMAIN D <=> HasPatch(c)

\* The filter of an array uses the distribution of its extent.
LEMMA FilterUnder ==
  ASSUME zone \in Zones, NEW D, PatchKeys(D), NEW a \in ArraysOfZone
  PROVE  FilterDistribution(D, a) = Under(D, a)
<1>2. \A c \in {"sol", "bcds"} : c \in DOMAIN D <=> HasPatch(c)
  BY DEF PatchKeys
<1>3. CASE a \in Containers /\ HasArray(a)
  <2>1. Under(D, a) = D[Extent(a)]
    BY <1>3 DEF Under, KeyOf, Containers, Subsets
  <2>2. CASE a = "coords" /\ Extent(a) = "Vertex"
    BY <2>1, <2>2 DEF FilterDistribution
  <2>3. CASE a = "sol" /\ zone.extent[a] = "none" /\ Extent(a) = "Cell"
    <3>1. ~HasPatch("sol")
      BY <2>3 DEF HasPatch
    <3>2. FilterDistribution(D, a) = D["Cell"]
      BY <1>2, <2>3, <3>1 DEF FilterDistribution
    <3> QED
      BY <2>1, <2>3, <3>2
  <2>4. CASE a \in {"sol", "zsr", "bcds", "bc", "gc"} /\ HasPatch(a) /\ Extent(a) = a
    <3>1. CASE a = "sol"
      <4>1. FilterDistribution(D, a) = D["sol"]
        BY <1>2, <2>4, <3>1 DEF FilterDistribution
      <4> QED
        BY <2>1, <2>4, <3>1, <4>1
    <3>2. CASE a = "zsr"
      <4>1. FilterDistribution(D, a) = D[Extent("zsr")]
        BY <3>2 DEF FilterDistribution
      <4> QED
        BY <2>1, <2>4, <3>2, <4>1
    <3>3. CASE a = "bcds"
      <4>1. FilterDistribution(D, a) = D["bcds"]
        BY <1>2, <2>4, <3>3 DEF FilterDistribution
      <4> QED
        BY <2>1, <2>4, <3>3, <4>1
    <3>4. CASE a \in {"bc", "gc"}
      <4>1. FilterDistribution(D, a) = D[a]
        BY <3>4 DEF FilterDistribution
      <4> QED
        BY <2>1, <2>4, <3>4, <4>1
    <3> QED
      BY <2>4, <3>1, <3>2, <3>3, <3>4
  <2>5. CASE a \in {"zsr", "bcds"} /\ zone.extent[a] = "none" /\ Extent(a) = "bc"
    <3>1. CASE a = "zsr"
      <4>1. FilterDistribution(D, a) = D[Extent("zsr")]
        BY <3>1 DEF FilterDistribution
      <4> QED
        BY <2>1, <2>5, <3>1, <4>1
    <3>2. CASE a = "bcds"
      <4>1. ~HasPatch("bcds")
        BY <2>5, <3>2 DEF HasPatch
      <4>2. FilterDistribution(D, a) = D["bc"]
        BY <1>2, <3>2, <4>1 DEF FilterDistribution
      <4> QED
        BY <2>1, <2>5, <4>2
    <3> QED
      BY <2>5, <3>1, <3>2
  <2> QED
    BY <1>3, <2>2, <2>3, <2>4, <2>5, ExtentCases
<1>4. CASE a \in {"eso", "pe"}
  BY <1>4 DEF FilterDistribution, Under, KeyOf, Containers, Subsets
<1>5. CASE a = "ec" /\ HasOffset
  BY <1>5 DEF FilterDistribution, Under, KeyOf, Containers, Subsets, EC
<1>6. CASE a = "ec" /\ ~HasOffset
  BY <1>6 DEF FilterDistribution, Under, KeyOf, Containers, Subsets
<1> QED
  BY <1>3, <1>4, <1>5, <1>6, ArrayCases

\* In particular when the tree has the distributions of the zone.
LEMMA FilterIs ==
  ASSUME zone \in Zones, NEW D, IsDist(D), NEW a \in ArraysOfZone
  PROVE  FilterDistribution(D, a) = Under(D, a)
<1>1. PatchKeys(D)
  BY DEF PatchKeys, IsDist, Required, KeysOfZone, EC, Subsets
<1> QED
  BY <1>1, FilterUnder

\* It cuts the array into consecutive blocks.
LEMMA UnderTiles ==
  ASSUME zone \in Zones, NEW D, IsDist(D), NEW a \in ArraysOfZone
  PROVE  Under(D, a) \in Parts /\ Tiles(Under(D, a), EntriesOf(a))
<1>1. /\ Required \subseteq DOMAIN D
      /\ \A k \in DOMAIN D : D[k] \in Parts /\ Tiles(D[k], SizeOf(k))
  BY DEF IsDist
<1>2. CASE a = "ec" /\ ~HasOffset
  <2>1. HasElements
    BY <1>2, ArrayCases
  <2>2. zone.elt = "TRI_3" /\ zone.n_vtx \in Nat
    BY <1>2, <2>1, ZoneFacts DEF HasElements, HasOffset
  <2>3. "Element" \in DOMAIN D
    BY <1>1, <2>1 DEF Required
  <2>4. NElement \in Nat /\ SizeOf("Element") = NElement
    BY OffsetFacts DEF SizeOf, ZoneKeys, Subsets
  <2>5. D["Element"] \in Parts /\ Tiles(D["Element"], NElement)
    BY <1>1, <2>3, <2>4
  <2>6. Under(D, a) \in Parts /\ Tiles(Under(D, a), zone.n_vtx * NElement)
    BY <1>2, <2>2, <2>4, <2>5, TimesTile DEF Under
  <2>7. NElement \in 0 .. NElement
    BY <2>4
  <2>8. Offset[NElement] = zone.n_vtx * NElement
    BY <2>2, <2>7, StandardOffsets
  <2>9. EntriesOf(a) = Offset[NElement]
    BY <1>2 DEF EntriesOf, KeyOf, SizeOf, Containers, Subsets, ZoneKeys, EC
  <2> QED
    BY <2>6, <2>8, <2>9
<1>3. CASE ~(a = "ec" /\ ~HasOffset)
  <2>1. KeyOf(a) \in Required /\ Under(D, a) = D[KeyOf(a)]
    BY <1>3, KeyRequired DEF Under
  <2> QED
    BY <1>1, <2>1 DEF EntriesOf
<1> QED
  BY <1>2, <1>3

-----------------------------------------------------------------------------
(***************************************************************************)
(* The exchanges of a redistribution: from D to N, one array after another *)
(***************************************************************************)
\* The arrays of A are distributed as N says, the others as D does.
ArraysBetween(D, N, A) ==
  [a \in ArraysOfZone |-> Blk(IF a \in A THEN Under(N, a) ELSE Under(D, a), a)]

\* The distributions of K are those of N, the others those of D.
KeysBetween(D, N, K) == [k \in DOMAIN D |-> IF k \in K THEN N[k] ELSE D[k]]

EntriesUnder(s, d) == [r \in Rank |-> BlockOf(s, d, r)]

\* Blocks of arrays other than the offsets, and their lengths.
LEMMA PlainBlocks ==
  ASSUME zone \in Zones, NEW a \in ArraysOfZone, a # "eso", NEW d \in Parts,
         Tiles(d, EntriesOf(a))
  PROVE  /\ Blk(d, a) = EntriesUnder(Content[a], d)
         /\ \A r \in Rank : Len(Blk(d, a)[r]) = d[r][2] - d[r][1]
<1>1. /\ EntriesOf(a) \in Nat /\ Content[a] \in Seq(Nat) /\ Len(Content[a]) = EntriesOf(a)
  <2>1. EntriesOf(a) + 0 = EntriesOf(a)
    BY ContentFacts
  <2> QED
    BY <2>1, ContentFacts
<1>2. ASSUME NEW r \in Rank
      PROVE  d[r][1] \in 0 .. EntriesOf(a) /\ d[r][2] \in 0 .. EntriesOf(a) /\ d[r][1] <= d[r][2]
  BY <1>1, BoundsInside
<1>3. ASSUME NEW r \in Rank
      PROVE  Blk(d, a)[r] = SubSeq(Content[a], d[r][1] + 1, d[r][2])
  <2>1. Blk(d, a)[r] = SubSeq(Content[a], d[r][1] + 1, d[r][2] + 0)
    BY DEF Blk
  <2>2. d[r][2] + 0 = d[r][2]
    BY <1>1, <1>2
  <2> QED
    BY <2>1, <2>2
<1>4. Blk(d, a) = [r \in Rank |-> Blk(d, a)[r]]
  BY DEF Blk
<1>5. Blk(d, a) = [r \in Rank |-> BlockOf(Content[a], d, r)]
  BY <1>3, <1>4 DEF BlockOf
<1>6. ASSUME NEW r \in Rank PROVE Len(Blk(d, a)[r]) = d[r][2] - d[r][1]
  <2> DEFINE s == Content[a]
             lo == d[r][1]
             hi == d[r][2]
             n == EntriesOf(a)
  <2>1. n \in Nat /\ s \in Seq(Nat) /\ Len(s) = n /\ lo \in 0 .. n /\ hi \in 0 .. n /\ lo <= hi
    BY <1>1, <1>2
  <2>2. Blk(d, a)[r] = SubSeq(s, lo + 1, hi)
    BY <1>3
  <2> HIDE DEF s, lo, hi, n
  <2>3. Len(SubSeq(s, lo + 1, hi)) = hi - lo
    BY <2>1, SubSeqProperties
  <2> QED
    BY <2>2, <2>3 DEF lo, hi
<1> QED
  BY <1>5, <1>6 DEF EntriesUnder

\* BlockToBlockExact, for arrays of integers.
LEMMA MoveEntries ==
  ASSUME NEW n \in Nat, NEW s \in Seq(Nat), Len(s) = n,
         NEW old \in Parts, Tiles(old, n), NEW new \in Parts, Tiles(new, n)
  PROVE  block_to_block(EntriesUnder(s, old), old, new) = EntriesUnder(s, new)
<1>1. old \in [Rank -> Nat \X Nat \X Nat] /\ new \in [Rank -> Nat \X Nat \X Nat]
  BY DEF Parts
<1>2. block_to_block([r \in Rank |-> BlockOf(s, old, r)], old, new) = [r \in Rank |-> BlockOf(s, new, r)]
  BY <1>1, BlockToBlockExact
<1> QED
  BY <1>2 DEF EntriesUnder

\* An exchange moves the arrays it is given, and only them.
LEMMA ExchangeMoves ==
  ASSUME zone \in Zones, NEW D, IsDist(D), NEW N, IsDist(N), NEW d, NEW A,
         NEW S \in SUBSET ArraysOfZone, A \cap S = {}, "eso" \notin S, NEW old, NEW new,
         \A a \in S : Under(D, a) = old /\ Under(N, a) = new
  PROVE  Exchange(Tree(d, ArraysBetween(D, N, A)), S, old, new)
           = Tree(d, ArraysBetween(D, N, A \cup S))
<1> DEFINE M == ArraysBetween(D, N, A)
           L == ArraysBetween(D, N, A \cup S)
           t == Tree(d, M)
<1>1. ASSUME NEW a \in S
      PROVE  /\ M[a] = Blk(old, a) /\ a \in ArraysOfZone /\ a # "eso"
             /\ old \in Parts /\ Tiles(old, EntriesOf(a)) /\ new \in Parts /\ Tiles(new, EntriesOf(a))
  <2>1. a \in ArraysOfZone /\ a \notin A /\ a # "eso"
    OBVIOUS
  <2>2. Under(D, a) = old /\ Under(N, a) = new
    OBVIOUS
  <2> QED
    BY <2>1, <2>2, UnderTiles DEF ArraysBetween
<1>2. ASSUME NEW a \in S PROVE block_to_block(M[a], old, new) = Blk(new, a)
  <2>1. EntriesOf(a) \in Nat /\ Content[a] \in Seq(Nat) /\ Len(Content[a]) = EntriesOf(a)
    <3>1. EntriesOf(a) + 0 = EntriesOf(a)
      BY <1>1, ContentFacts
    <3> QED
      BY <1>1, <3>1, ContentFacts
  <2>2. M[a] = EntriesUnder(Content[a], old) /\ Blk(new, a) = EntriesUnder(Content[a], new)
    BY <1>1, PlainBlocks
  <2>4. old \in Parts /\ new \in Parts /\ Tiles(old, EntriesOf(a)) /\ Tiles(new, EntriesOf(a))
    BY <1>1
  <2> HIDE DEF M
  <2>5. block_to_block(EntriesUnder(Content[a], old), old, new) = EntriesUnder(Content[a], new)
    BY <2>1, <2>4, MoveEntries
  <2> QED
    BY <2>2, <2>5
<1>3. t.arr = M /\ t.dist = d /\ t.ok = TRUE
  BY DEF Tree
<1>4. DOMAIN M = ArraysOfZone
  BY DEF ArraysBetween
<1>5. ASSUME NEW a \in S PROVE CanExchange(t, a, old, new)
  <2>1. \A r \in Rank : Len(M[a][r]) = old[r][2] - old[r][1]
    BY <1>1, PlainBlocks
  <2>2. \A r \in Rank : old[r][1] \in Nat /\ old[r][2] \in Nat
    <3>1. EntriesOf(a) \in Nat
      BY <1>1, ContentFacts
    <3> QED
      BY <1>1, <3>1, BoundsInside
  <2> HIDE DEF M
  <2>3. \A r \in Rank : Len(M[a][r]) >= old[r][2] - old[r][1]
    BY <2>1, <2>2
  <2> QED
    BY <1>1, <1>3, <1>4, <2>3 DEF CanExchange
<1>6. L = [a \in ArraysOfZone |-> IF a \in S THEN Blk(new, a) ELSE M[a]]
  <2>1. ASSUME NEW a \in ArraysOfZone PROVE L[a] = IF a \in S THEN Blk(new, a) ELSE M[a]
    <3>1. CASE a \in S
      BY <3>1 DEF ArraysBetween
    <3>2. CASE a \notin S
      BY <3>2 DEF ArraysBetween
    <3> QED
      BY <3>1, <3>2
  <2>2. L = [a \in ArraysOfZone |-> L[a]]
    BY DEF ArraysBetween
  <2> HIDE DEF L, M
  <2> QED
    BY <2>1, <2>2
<1> HIDE DEF t, M, L
<1>7. Exchange(t, S, old, new)
        = WithArrays(t, [a \in DOMAIN t.arr |->
            IF a \in S THEN block_to_block(t.arr[a], old, new) ELSE t.arr[a]])
  BY <1>5 DEF Exchange
<1>8. [a \in DOMAIN t.arr |-> IF a \in S THEN block_to_block(t.arr[a], old, new) ELSE t.arr[a]] = L
  BY <1>2, <1>3, <1>4, <1>6
<1>9. Exchange(t, S, old, new) = Tree(d, L)
  BY <1>3, <1>7, <1>8 DEF WithArrays, Tree
<1> QED
  BY <1>9 DEF t, M, L

-----------------------------------------------------------------------------
(***************************************************************************)
(* The offsets: each block has one entry more than the block of elements   *)
(***************************************************************************)
\* f is the sequence s without its last entry.
Shortened(f, s) == Len(s) = Len(f) + 1 /\ \A i \in 1 .. Len(f) : f[i] = s[i]

\* A block of s with one entry more than the block of f.
LEMMA LongBlock ==
  ASSUME NEW s \in Seq(Nat), NEW f \in Seq(Nat), Shortened(f, s),
         NEW lo \in 0 .. Len(f), NEW hi \in lo .. Len(f)
  PROVE  /\ SubSeq(s, lo + 1, hi + 1) = Append(SubSeq(f, lo + 1, hi), s[hi + 1])
         /\ SubSeq(SubSeq(s, lo + 1, hi + 1), 1, Len(SubSeq(s, lo + 1, hi + 1)) - 1)
              = SubSeq(f, lo + 1, hi)
         /\ SubSeq(s, lo + 1, hi + 1)[1] = s[lo + 1]
         /\ SubSeq(s, lo + 1, hi + 1)[Len(SubSeq(s, lo + 1, hi + 1))] = s[hi + 1]
         /\ Len(SubSeq(s, lo + 1, hi + 1)) = (hi - lo) + 1
<1> DEFINE n == Len(f)
           e == SubSeq(s, lo + 1, hi + 1)
           g == SubSeq(f, lo + 1, hi)
           m == hi - lo
<1>1. /\ n \in Nat /\ Len(s) = n + 1 /\ lo \in 0 .. n /\ hi \in lo .. n
      /\ \A i \in 1 .. n : f[i] = s[i] /\ f[i] \in Nat
      /\ \A i \in 1 .. n + 1 : s[i] \in Nat
  BY LenProperties, ElementOfSeq DEF Shortened
<1>2. m \in Nat /\ m = hi - lo
  BY <1>1
<1> HIDE DEF n, m
<1>3. /\ e \in Seq(Nat) /\ Len(e) = m + 1
      /\ \A i \in 1 .. m + 1 : e[i] = s[lo + i]
  <2>1. /\ e \in Seq(Nat) /\ Len(e) = IF lo + 1 <= hi + 1 THEN (hi + 1) - (lo + 1) + 1 ELSE 0
        /\ \A i \in 1 .. (hi + 1) - (lo + 1) + 1 : e[i] = s[(lo + 1) + i - 1]
    <3>1. lo + 1 \in Int /\ hi + 1 \in Int /\ \A i \in lo + 1 .. hi + 1 : s[i] \in Nat
      BY <1>1
    <3> QED
      BY <3>1, SubSeqProperties
  <2>2. /\ (IF lo + 1 <= hi + 1 THEN (hi + 1) - (lo + 1) + 1 ELSE 0) = m + 1
        /\ (hi + 1) - (lo + 1) + 1 = m + 1
    BY <1>1, <1>2
  <2>3. \A i \in 1 .. m + 1 : (lo + 1) + i - 1 = lo + i
    BY <1>1, <1>2
  <2> HIDE DEF e
  <2> QED
    BY <2>1, <2>2, <2>3
<1>4. /\ g \in Seq(Nat) /\ Len(g) = m
      /\ \A i \in 1 .. m : g[i] = s[lo + i]
  <2>1. /\ g \in Seq(Nat) /\ Len(g) = IF lo + 1 <= hi THEN hi - (lo + 1) + 1 ELSE 0
        /\ \A i \in 1 .. hi - (lo + 1) + 1 : g[i] = f[(lo + 1) + i - 1]
    <3> DEFINE l == lo + 1
    <3>1. l \in Int /\ hi \in Int /\ \A i \in l .. hi : f[i] \in Nat
      BY <1>1
    <3> HIDE DEF l
    <3>2. /\ SubSeq(f, l, hi) \in Seq(Nat)
          /\ Len(SubSeq(f, l, hi)) = IF l <= hi THEN hi - l + 1 ELSE 0
          /\ \A i \in 1 .. hi - l + 1 : SubSeq(f, l, hi)[i] = f[l + i - 1]
      BY <3>1, SubSeqProperties
    <3> QED
      BY <3>2 DEF l
  <2>2. /\ (IF lo + 1 <= hi THEN hi - (lo + 1) + 1 ELSE 0) = m
        /\ hi - (lo + 1) + 1 = m
    BY <1>1, <1>2
  <2>3. \A i \in 1 .. m : (lo + 1) + i - 1 = lo + i /\ lo + i \in 1 .. n
    BY <1>1, <1>2
  <2> HIDE DEF g
  <2> QED
    BY <1>1, <2>1, <2>2, <2>3
<1>5. lo + (m + 1) = hi + 1 /\ s[hi + 1] \in Nat /\ m + 1 \in 1 .. m + 1 /\ 1 \in 1 .. m + 1
  BY <1>1, <1>2
<1> HIDE DEF e, g
<1>6. e = Append(g, s[hi + 1])
  <2> DEFINE p == Append(g, s[hi + 1])
  <2>1. p \in Seq(Nat) /\ Len(p) = m + 1 /\ p[m + 1] = s[hi + 1] /\ \A i \in 1 .. m : p[i] = g[i]
    BY <1>4, <1>5, AppendProperties
  <2> HIDE DEF p
  <2>2. ASSUME NEW i \in 1 .. m + 1 PROVE e[i] = p[i]
    <3>1. CASE i = m + 1
      BY <1>3, <1>5, <2>1, <3>1
    <3>2. CASE i # m + 1
      <4>1. i \in 1 .. m
        BY <1>2, <3>2
      <4> QED
        BY <1>3, <1>4, <2>1, <4>1
    <3> QED
      BY <3>1, <3>2
  <2>3. e = p
    BY <1>3, <2>1, <2>2, SeqEqual
  <2> QED
    BY <2>3 DEF p
<1>7. SubSeq(e, 1, Len(e) - 1) = g
  <2> DEFINE q == SubSeq(e, 1, m)
  <2>1. Len(e) - 1 = m
    BY <1>2, <1>3
  <2>2. \A i \in 1 .. m : e[i] \in Nat
    <3>1. e \in [1 .. m + 1 -> Nat]
      BY <1>3, LenProperties
    <3>2. \A i \in 1 .. m : i \in 1 .. m + 1
      BY <1>2
    <3> QED
      BY <3>1, <3>2
  <2>3. /\ q \in Seq(Nat) /\ Len(q) = IF 1 <= m THEN m - 1 + 1 ELSE 0
        /\ \A i \in 1 .. m - 1 + 1 : q[i] = e[1 + i - 1]
    <3>1. 1 \in Int /\ m \in Int
      BY <1>2
    <3> QED
      BY <2>2, <3>1, SubSeqProperties
  <2>4. (IF 1 <= m THEN m - 1 + 1 ELSE 0) = m /\ m - 1 + 1 = m /\ \A i \in 1 .. m : 1 + i - 1 = i /\ i \in 1 .. m + 1
    BY <1>2
  <2> HIDE DEF q
  <2>5. Len(q) = m /\ \A i \in 1 .. m : q[i] = g[i]
    BY <1>3, <1>4, <2>3, <2>4
  <2>6. q = g
    BY <1>4, <2>3, <2>5, SeqEqual
  <2> QED
    BY <2>1, <2>6 DEF q
<1>8. e[1] = s[lo + 1] /\ e[Len(e)] = s[hi + 1]
  BY <1>3, <1>5
<1> QED
  BY <1>3, <1>6, <1>7, <1>8 DEF e, g, m

\* The first offset of every element.
FirstOffsets == [i \in 1 .. NElement |-> Offset[i - 1]]

\* Blocks of offsets, with and without their last entry.
LEMMA OffsetBlocks ==
  ASSUME zone \in Zones, HasOffset, NEW d \in Parts, Tiles(d, NElement), NEW r \in Rank
  PROVE  LET e == Blk(d, "eso")[r]
             g == BlockOf(FirstOffsets, d, r)
         IN  /\ e = Append(g, Offset[d[r][2]]) /\ SubSeq(e, 1, Len(e) - 1) = g
             /\ e[1] = Offset[d[r][1]] /\ e[Len(e)] = Offset[d[r][2]]
             /\ Len(e) = (d[r][2] - d[r][1]) + 1
<1> DEFINE s == Content["eso"]
           f == FirstOffsets
           n == NElement
           u == Offset
           lo == d[r][1]
           hi == d[r][2]
<1>1. n \in Nat /\ u \in [0 .. n -> Nat]
  BY OffsetFacts
<1>2. lo \in 0 .. n /\ hi \in 0 .. n /\ lo <= hi
  BY <1>1, BoundsInside
<1>3. s = [i \in 1 .. n + 1 |-> u[i - 1]]
  BY DEF Content, ArraysOfZone, Containers, Subsets
<1>4. f = [i \in 1 .. n |-> u[i - 1]]
  BY DEF FirstOffsets
<1>5. Blk(d, "eso")[r] = SubSeq(s, lo + 1, hi + 1)
  BY DEF Blk
<1> HIDE DEF s, f, n, u, lo, hi
<1>6. \A i \in 1 .. n + 1 : u[i - 1] \in Nat
  BY <1>1
<1>7. s \in Seq(Nat) /\ Len(s) = n + 1
  <2> DEFINE m == n + 1
  <2>1. m \in Nat /\ s \in [1 .. m -> Nat]
    BY <1>1, <1>3, <1>6
  <2> HIDE DEF m
  <2>2. s \in Seq(Nat) /\ Len(s) = m
    BY <2>1
  <2> QED
    BY <2>2 DEF m
<1>8. f \in Seq(Nat) /\ Len(f) = n
  <2>1. f \in [1 .. n -> Nat]
    BY <1>1, <1>4, <1>6
  <2> QED
    BY <1>1, <2>1
<1>9. Shortened(f, s)
  <2>1. \A i \in 1 .. n : i \in 1 .. n + 1
    BY <1>1
  <2> QED
    BY <1>3, <1>4, <1>7, <1>8, <2>1 DEF Shortened
<1>10. lo \in 0 .. Len(f) /\ hi \in lo .. Len(f)
  BY <1>1, <1>2, <1>8
<1>11. s[lo + 1] = u[lo] /\ s[hi + 1] = u[hi]
  <2>1. lo + 1 \in 1 .. n + 1 /\ hi + 1 \in 1 .. n + 1 /\ (lo + 1) - 1 = lo /\ (hi + 1) - 1 = hi
    BY <1>1, <1>2
  <2> QED
    BY <1>3, <2>1
<1>12. BlockOf(f, d, r) = SubSeq(f, lo + 1, hi)
  BY DEF BlockOf, lo, hi
<1> DEFINE e == Blk(d, "eso")[r]
           g == BlockOf(f, d, r)
<1>13. /\ e = Append(g, u[hi]) /\ SubSeq(e, 1, Len(e) - 1) = g
       /\ e[1] = u[lo] /\ e[Len(e)] = u[hi] /\ Len(e) = (hi - lo) + 1
  <2> DEFINE x == SubSeq(s, lo + 1, hi + 1)
             y == SubSeq(f, lo + 1, hi)
  <2>1. /\ x = Append(y, s[hi + 1]) /\ SubSeq(x, 1, Len(x) - 1) = y
        /\ x[1] = s[lo + 1] /\ x[Len(x)] = s[hi + 1] /\ Len(x) = (hi - lo) + 1
    BY <1>7, <1>8, <1>9, <1>10, LongBlock
  <2>2. e = x /\ g = y
    BY <1>5, <1>12
  <2> HIDE DEF x, y, e, g
  <2> QED
    BY <1>11, <2>1, <2>2
<1> HIDE DEF e, g
<1> QED
  BY <1>13 DEF e, g, f, u, lo, hi

\* The bounds that redistribute_offset gathers from the blocks between the bounds F.
IsBound(bound, F) ==
  /\ \A i \in Rank : bound[i] = IF F[i] = F[i + 1] THEN -1 ELSE Offset[F[i]]
  /\ bound[NRank] = Offset[NElement]

\* The next rank having data.
NextRank(bound, r) ==
  CHOOSE j \in r + 1 .. NRank : bound[j] # -1 /\ \A i \in r + 1 .. j - 1 : bound[i] = -1

\* The first offset of the next rank having data is the offset where rank r ends.
LEMMA NextBound ==
  ASSUME zone \in Zones, NEW F, FullDistribution(F, NElement), NEW bound, IsBound(bound, F),
         NEW r \in Rank
  PROVE  bound[NextRank(bound, r)] = Offset[F[r + 1]]
<1> DEFINE P(j) == j \in r + 1 .. NRank /\ bound[j] # -1 /\ \A i \in r + 1 .. j - 1 : bound[i] = -1
           T == {j \in r + 1 .. NRank : bound[j] # -1}
<1>1. /\ NElement \in Nat /\ Offset \in [0 .. NElement -> Nat]
      /\ r \in Nat /\ r < NRank /\ NRank \in Nat
  BY OffsetFacts, NRankAssumption DEF Rank
<1>2. NRank \in T
  <2>1. NElement \in 0 .. NElement /\ NRank \in r + 1 .. NRank
    BY <1>1
  <2>2. bound[NRank] \in Nat
    BY <1>1, <2>1 DEF IsBound
  <2>3. bound[NRank] # -1
    BY <2>2
  <2> QED
    BY <2>1, <2>3
<1>3. T \in SUBSET Nat
  BY <1>1
<1>4. PICK x \in T : \A y \in T : x <= y
  BY <1>2, <1>3, LeastNat
<1>5. P(x)
  <2>1. ASSUME NEW i \in r + 1 .. x - 1 PROVE bound[i] = -1
    <3>1. i \in r + 1 .. NRank /\ ~(x <= i)
      BY <1>1, <1>3, <1>4
    <3>2. i \notin T
      BY <1>4, <3>1
    <3> QED
      BY <3>1, <3>2
  <2> QED
    BY <1>4, <2>1
<1> DEFINE j == NextRank(bound, r)
<1>6. P(j)
  BY <1>5 DEF NextRank
<1> HIDE DEF j, T
<1> DEFINE m == j - (r + 1)
           U == {k \in 0 .. m : F[(r + 1) + k] = F[r + 1]}
<1>7. m \in Nat /\ (r + 1) + m = j
  BY <1>1, <1>6
<1>8. 0 \in U
  <2>1. (r + 1) + 0 = r + 1 /\ 0 \in 0 .. m
    BY <1>1, <1>7
  <2> QED
    BY <2>1
<1>9. ASSUME NEW k \in 0 .. m - 1, k \in U PROVE k + 1 \in U
  <2> DEFINE l == (r + 1) + k
  <2>1. l \in r + 1 .. j - 1 /\ l \in Rank /\ (r + 1) + (k + 1) = l + 1 /\ k + 1 \in 0 .. m
    BY <1>1, <1>6, <1>7 DEF Rank
  <2>2. F[l] = F[r + 1]
    BY <1>9
  <2> HIDE DEF l, m
  <2>3. bound[l] = -1
    BY <1>6, <2>1
  <2>4. F[l] \in 0 .. NElement
    <3>1. \A i \in 0 .. NRank : F[i] \in 0 .. NElement
      BY <1>1, BoundsInRange
    <3> QED
      BY <2>1, <3>1, RankIndex
  <2>5. Offset[F[l]] \in Nat
    BY <1>1, <2>4
  <2>6. F[l] = F[l + 1]
    BY <2>1, <2>3, <2>5 DEF IsBound
  <2> QED
    BY <2>1, <2>2, <2>6
<1> HIDE DEF U, m
<1>10. m \in U
  <2>1. \A k \in 0 .. m : k \in U
    BY <1>7, <1>8, <1>9, IntervalInduction
  <2>2. m \in 0 .. m
    BY <1>7
  <2> QED
    BY <2>1, <2>2
<1>11. F[j] = F[r + 1]
  BY <1>7, <1>10 DEF U
<1>12. bound[j] = Offset[F[j]]
  <2>1. CASE j = NRank
    BY <2>1 DEF IsBound, FullDistribution
  <2>2. CASE j # NRank
    <3>1. j \in Rank
      BY <1>1, <1>6, <2>2 DEF Rank
    <3> QED
      BY <1>6, <3>1 DEF IsBound
  <2> QED
    BY <2>1, <2>2
<1> QED
  BY <1>11, <1>12 DEF j

\* redistribute_offset moves the blocks of offsets, whichever ranks have no elements.
LEMMA OffsetsMove ==
  ASSUME zone \in Zones, HasOffset, NEW old \in Parts, Tiles(old, NElement),
         NEW new \in Parts, Tiles(new, NElement)
  PROVE  redistribute_offset(Blk(old, "eso"), Offset[NElement], old, new) = Blk(new, "eso")
<1> DEFINE eso == Blk(old, "eso")
           short == [r \in Rank |-> SubSeq(eso[r], 1, Len(eso[r]) - 1)]
           wo_last == block_to_block(short, old, new)
           bound == [r \in 0 .. NRank |-> IF r = NRank THEN Offset[NElement]
                                          ELSE IF wo_last[r] # << >> THEN wo_last[r][1] ELSE -1]
           F == auto_expand_distri(new)
           f == FirstOffsets
<1>1. NElement \in Nat /\ Offset \in [0 .. NElement -> Nat]
  BY OffsetFacts
<1>2. f \in Seq(Nat) /\ Len(f) = NElement /\ f = [i \in 1 .. NElement |-> Offset[i - 1]]
  <2> DEFINE n == NElement
             u == Offset
  <2>1. f = [i \in 1 .. n |-> u[i - 1]] /\ n \in Nat /\ u \in [0 .. n -> Nat]
    BY <1>1 DEF FirstOffsets
  <2> HIDE DEF n, f, u
  <2>2. \A i \in 1 .. n : u[i - 1] \in Nat
    BY <2>1
  <2>3. f \in [1 .. n -> Nat]
    BY <2>1, <2>2
  <2>4. f \in Seq(Nat) /\ Len(f) = n
    BY <2>1, <2>3
  <2> QED
    BY <2>1, <2>4 DEF n, u
<1>3. short = EntriesUnder(f, old)
  <2>1. \A r \in Rank : short[r] = BlockOf(f, old, r)
    BY OffsetBlocks
  <2>2. short = [r \in Rank |-> short[r]]
    OBVIOUS
  <2> HIDE DEF short, f
  <2> QED
    BY <2>1, <2>2 DEF EntriesUnder
<1>4. wo_last = EntriesUnder(f, new)
  <2> HIDE DEF short, f
  <2> QED
    BY <1>1, <1>2, <1>3, MoveEntries
<1>5. FullDistribution(F, NElement) /\ \A r \in Rank : F[r] = new[r][1] /\ F[r + 1] = new[r][2]
  <2>1. new \in [Rank -> Nat \X Nat \X Nat]
    BY DEF Parts
  <2> QED
    BY <1>1, <2>1, ExpandIsFull
<1>6. redistribute_offset(eso, Offset[NElement], old, new)
        = [r \in Rank |-> Append(wo_last[r], bound[NextRank(bound, r)])]
  BY DEF redistribute_offset, NextRank
<1>7. /\ \A r \in Rank : bound[r] = IF wo_last[r] # << >> THEN wo_last[r][1] ELSE -1
      /\ bound[NRank] = Offset[NElement]
  <2> HIDE DEF wo_last
  <2>1. \A r \in Rank : r # NRank /\ r \in 0 .. NRank
    BY NRankAssumption DEF Rank
  <2>2. NRank \in 0 .. NRank
    BY NRankAssumption
  <2> QED
    BY <2>1, <2>2
<1> HIDE DEF wo_last, F, f, bound, eso
<1>8. ASSUME NEW r \in Rank
      PROVE  /\ wo_last[r] = BlockOf(f, new, r)
             /\ bound[r] = IF F[r] = F[r + 1] THEN -1 ELSE Offset[F[r]]
  <2> DEFINE lo == new[r][1]
             hi == new[r][2]
             g == SubSeq(f, lo + 1, hi)
  <2>1. wo_last[r] = g /\ wo_last[r] = BlockOf(f, new, r)
    BY <1>4 DEF EntriesUnder, BlockOf
  <2>2. lo \in 0 .. NElement /\ hi \in 0 .. NElement /\ lo <= hi /\ F[r] = lo /\ F[r + 1] = hi
    BY <1>1, <1>5, BoundsInside
  <2> HIDE DEF lo, hi
  <2>3. CASE lo = hi
    <3>1. g = << >>
      <4>1. lo + 1 \in Int /\ hi \in Int /\ hi < lo + 1
        BY <1>1, <2>2, <2>3
      <4> QED
        BY <4>1, SubSeqEmpty
    <3> QED
      BY <1>7, <2>1, <2>2, <2>3, <3>1
  <2>4. CASE lo # hi
    <3>1. lo + 1 \in 1 .. NElement /\ hi \in lo + 1 .. NElement /\ (lo + 1) - 1 = lo
      BY <1>1, <2>2, <2>4
    <3>2. f[lo + 1] = Offset[lo]
      BY <1>2, <3>1
    <3> DEFINE l == lo + 1
    <3>3. l \in 1 .. NElement /\ hi \in l .. NElement
      BY <3>1
    <3> HIDE DEF l
    <3>4. \A i \in l .. hi : f[i] \in Nat
      <4>1. f \in [1 .. NElement -> Nat]
        BY <1>2, LenProperties
      <4>2. \A i \in l .. hi : i \in 1 .. NElement
        BY <1>1, <3>3
      <4> QED
        BY <4>1, <4>2
    <3>5. l \in Int /\ hi \in Int /\ l <= hi
      BY <1>1, <3>3
    <3>6. /\ SubSeq(f, l, hi) \in Seq(Nat)
          /\ Len(SubSeq(f, l, hi)) = IF l <= hi THEN hi - l + 1 ELSE 0
          /\ \A i \in 1 .. hi - l + 1 : SubSeq(f, l, hi)[i] = f[l + i - 1]
      BY <3>4, <3>5, SubSeqProperties
    <3> DEFINE h == SubSeq(f, l, hi)
    <3> HIDE DEF h
    <3>7. h \in Seq(Nat) /\ Len(h) = hi - l + 1 /\ \A i \in 1 .. hi - l + 1 : h[i] = f[l + i - 1]
      BY <3>5, <3>6 DEF h
    <3>8. 1 \in 1 .. hi - l + 1 /\ l + 1 - 1 = l /\ hi - l + 1 > 0
      BY <3>5
    <3>9. h[1] = f[l] /\ Len(h) # 0
      <4>1. h[1] = f[l + 1 - 1]
        BY <3>7, <3>8
      <4> QED
        BY <3>7, <3>8, <4>1
    <3>10. h # << >>
      BY <3>9
    <3>11. g = h
      BY DEF h, l
    <3>12. h[1] = Offset[lo]
      BY <3>2, <3>9 DEF l
    <3> HIDE DEF g
    <3> QED
      BY <1>7, <2>1, <2>2, <2>4, <3>10, <3>11, <3>12
  <2> QED
    BY <2>1, <2>3, <2>4
<1>9. IsBound(bound, F)
  BY <1>7, <1>8 DEF IsBound
<1>10. ASSUME NEW r \in Rank
       PROVE  Append(wo_last[r], bound[NextRank(bound, r)]) = Blk(new, "eso")[r]
  <2>1. bound[NextRank(bound, r)] = Offset[F[r + 1]]
    BY <1>5, <1>9, NextBound
  <2>2. Blk(new, "eso")[r] = Append(BlockOf(f, new, r), Offset[new[r][2]])
    BY OffsetBlocks DEF f
  <2> QED
    BY <1>5, <1>8, <2>1, <2>2
<1>11. Blk(new, "eso") = [r \in Rank |-> Blk(new, "eso")[r]]
  BY DEF Blk
<1>12. redistribute_offset(eso, Offset[NElement], old, new) = Blk(new, "eso")
  BY <1>6, <1>10, <1>11
<1> QED
  BY <1>12 DEF eso

-----------------------------------------------------------------------------
(***************************************************************************)
(* redistribute_zone, one container after another                          *)
(***************************************************************************)
\* The distributions that a policy gives; the one of a connectivity comes from the offsets,
\* and the one that a section without offsets may have is left.
NewDist(D, policy) ==
  [k \in DOMAIN D |->
     IF k # EC THEN interpret_policy(policy, SizeOf(k))
     ELSE IF HasOffset THEN OffsetBounds(interpret_policy(policy, NElement)) ELSE D[EC]]

\* A tree on its way from D to N.
Between(D, N, K, A) == Tree(KeysBetween(D, N, K), ArraysBetween(D, N, A))

\* D is to be redistributed to N.
Target(D, N, policy) == policy \in Policy /\ IsDist(D) /\ N = NewDist(D, policy)

\* The new distributions are distributions of the zone.
LEMMA TargetFacts ==
  ASSUME zone \in Zones, NEW D, NEW N, NEW policy, Target(D, N, policy)
  PROVE  /\ IsDist(D) /\ IsDist(N) /\ DOMAIN N = DOMAIN D /\ policy \in Policy
         /\ Required \subseteq DOMAIN D /\ DOMAIN D \subseteq Required \cup {EC}
         /\ \A k \in DOMAIN D : k \in Keys /\ D[k] \in Parts /\ Tiles(D[k], SizeOf(k))
         /\ \A k \in DOMAIN D \ {EC} : N[k] = interpret_policy(policy, SizeOf(k))
         /\ EC \in DOMAIN D /\ ~HasOffset => N[EC] = D[EC]
         /\ HasOffset => N[EC] = OffsetBounds(N["Element"])
<1>1. /\ IsDist(D) /\ policy \in Policy /\ N = NewDist(D, policy)
  BY DEF Target
<1>2. /\ Required \subseteq DOMAIN D /\ DOMAIN D \subseteq Required \cup {EC}
      /\ \A k \in DOMAIN D : D[k] \in Parts /\ Tiles(D[k], SizeOf(k))
  BY <1>1 DEF IsDist
<1>3. \A k \in DOMAIN D : k \in Keys
  BY <1>2, KeysTyped
<1>4. DOMAIN N = DOMAIN D /\ N = [k \in DOMAIN N |-> N[k]]
  BY <1>1 DEF NewDist
<1>5. ASSUME NEW k \in DOMAIN D \ {EC} PROVE N[k] = interpret_policy(policy, SizeOf(k))
  BY <1>1 DEF NewDist
<1>6. ASSUME HasOffset
      PROVE  "Element" \in DOMAIN D /\ EC \in DOMAIN D /\ "Element" # EC /\ SizeOf("Element") = NElement
  BY <1>2, <1>6 DEF Required, HasElements, HasOffset, EC, SizeOf, ZoneKeys, Subsets
<1>7. HasOffset => N[EC] = OffsetBounds(N["Element"])
  <2> HAVE HasOffset
  <2>1. N["Element"] = interpret_policy(policy, NElement)
    BY <1>5, <1>6
  <2>2. N[EC] = OffsetBounds(interpret_policy(policy, NElement))
    BY <1>1, <1>6 DEF NewDist
  <2> QED
    BY <2>1, <2>2
<1>8. EC \in DOMAIN D /\ ~HasOffset => N[EC] = D[EC]
  BY <1>1 DEF NewDist
<1>9. ASSUME NEW k \in DOMAIN D \ {EC} PROVE N[k] \in Parts /\ Tiles(N[k], SizeOf(k))
  <2>1. SizeOf(k) \in Nat
    BY <1>3, SizesTyped
  <2>2. N[k] = interpret_policy(policy, SizeOf(k))
    BY <1>5
  <2> QED
    BY <1>1, <2>1, <2>2, PolicyTyped, PoliciesTile
<1>10. ASSUME EC \in DOMAIN D PROVE N[EC] \in Parts /\ Tiles(N[EC], SizeOf(EC))
  <2>1. CASE HasOffset
    <3>1. N["Element"] \in Parts /\ Tiles(N["Element"], NElement)
      BY <1>6, <1>9, <2>1
    <3> QED
      BY <1>7, <2>1, <3>1, OffsetBoundsTile
  <2>2. CASE ~HasOffset
    BY <1>2, <1>8, <1>10, <2>2
  <2> QED
    BY <2>1, <2>2
<1>11. \A k \in DOMAIN N : N[k] \in Parts /\ Tiles(N[k], SizeOf(k))
  BY <1>4, <1>9, <1>10
<1>12. IsDist(N)
  BY <1>2, <1>4, <1>7, <1>11 DEF IsDist
<1> QED
  BY <1>1, <1>2, <1>3, <1>4, <1>5, <1>7, <1>8, <1>12

\* The distribution of key k is replaced.
LEMMA SetKey ==
  ASSUME NEW D, NEW N, NEW K, NEW A, NEW k \in DOMAIN D
  PROVE  SetDistribution(Between(D, N, K, A), k, N[k]) = Between(D, N, K \cup {k}, A)
<1> DEFINE t == Between(D, N, K, A)
           o == Over(Only(k, N[k]), t.dist)
           B == KeysBetween(D, N, K)
           C == KeysBetween(D, N, K \cup {k})
<1>1. t.dist = B /\ t.arr = ArraysBetween(D, N, A) /\ t.ok = TRUE
  BY DEF Between, Tree
<1>2. DOMAIN B = DOMAIN D /\ \A x \in DOMAIN D : B[x] = IF x \in K THEN N[x] ELSE D[x]
  BY DEF KeysBetween
<1>3. C = [x \in DOMAIN D |-> IF x \in K \cup {k} THEN N[x] ELSE D[x]]
  BY DEF KeysBetween
<1>4. o = [x \in {k} \cup DOMAIN B |-> IF x = k THEN N[k] ELSE B[x]]
  BY <1>1 DEF Over, Only
<1>5. {k} \cup DOMAIN B = DOMAIN D
  BY <1>2
<1> HIDE DEF B, C, o
<1>6. o = C
  BY <1>2, <1>3, <1>4, <1>5
<1>7. SetDistribution(t, k, N[k]) = Tree(C, ArraysBetween(D, N, A))
  BY <1>1, <1>6 DEF SetDistribution, WithDistributions, Tree, o
<1> QED
  BY <1>7 DEF Between, C

\* What matters of K and A is where they are different.
LEMMA SameBetween ==
  ASSUME NEW D, NEW N, NEW K, NEW A, NEW L, NEW B,
         \A k \in DOMAIN D : (k \in K <=> k \in L) \/ N[k] = D[k],
         \A a \in ArraysOfZone : a \in A <=> a \in B
  PROVE  Between(D, N, K, A) = Between(D, N, L, B)
<1>1. KeysBetween(D, N, K) = KeysBetween(D, N, L)
  BY DEF KeysBetween
<1>2. ArraysBetween(D, N, A) = ArraysBetween(D, N, B)
  BY DEF ArraysBetween
<1> QED
  BY <1>1, <1>2 DEF Between

\* A tree between two distributions.
LEMMA BetweenFields ==
  ASSUME NEW D, NEW N, NEW K, NEW A
  PROVE  /\ Between(D, N, K, A).dist = KeysBetween(D, N, K)
         /\ Between(D, N, K, A).arr = ArraysBetween(D, N, A)
         /\ DOMAIN Between(D, N, K, A).dist = DOMAIN D
         /\ \A k \in DOMAIN D \ K : Between(D, N, K, A).dist[k] = D[k]
         /\ DOMAIN Between(D, N, K, A).arr = ArraysOfZone
BY DEF Between, Tree, KeysBetween, ArraysBetween

\* The arrays of S have key k and are not among A.
MovedWith(S, k, A) ==
  /\ S \subseteq ArraysOfZone
  /\ \A a \in S : a \notin A /\ KeyOf(a) = k /\ a # "eso" /\ (a = "ec" => HasOffset)

\* The arrays of S are exchanged with their key, whatever the distributions in the tree.
LEMMA MoveArrays ==
  ASSUME zone \in Zones, NEW D, NEW N, NEW policy, Target(D, N, policy), NEW A,
         NEW k \in DOMAIN D, NEW S, MovedWith(S, k, A), NEW d
  PROVE  Exchange(Tree(d, ArraysBetween(D, N, A)), S, D[k], N[k])
           = Tree(d, ArraysBetween(D, N, A \cup S))
<1>1. IsDist(D) /\ IsDist(N)
  BY TargetFacts
<1>2. /\ S \in SUBSET ArraysOfZone /\ A \cap S = {} /\ "eso" \notin S
      /\ \A a \in S : Under(D, a) = D[k] /\ Under(N, a) = N[k]
  BY DEF Under, MovedWith
<1> QED
  BY <1>1, <1>2, ExchangeMoves

\* The same between two distributions.
LEMMA MoveKey ==
  ASSUME zone \in Zones, NEW D, NEW N, NEW policy, Target(D, N, policy), NEW K, NEW A,
         NEW k \in DOMAIN D, NEW S, MovedWith(S, k, A)
  PROVE  Exchange(Between(D, N, K, A), S, D[k], N[k]) = Between(D, N, K, A \cup S)
BY MoveArrays DEF Between

\* The size in a distribution is the one of its key.
LEMMA SizeInside ==
  ASSUME zone \in Zones, NEW D, NEW N, NEW policy, Target(D, N, policy), NEW k \in DOMAIN D
  PROVE  /\ D[k][0][3] = SizeOf(k)
         /\ k # EC => interpret_policy(policy, D[k][0][3]) = N[k]
<1>1. 0 \in Rank
  BY NRankAssumption DEF Rank
<1>2. Tiles(D[k], SizeOf(k))
  BY TargetFacts
<1>3. D[k][0][3] = SizeOf(k)
  BY <1>1, <1>2 DEF Tiles
<1>4. k # EC => N[k] = interpret_policy(policy, SizeOf(k))
  BY TargetFacts
<1> QED
  BY <1>3, <1>4

\* redistribute_pl_node moves a subset and the arrays distributed with it.
LEMMA SubsetMoves ==
  ASSUME zone \in Zones, NEW D, NEW N, NEW policy, Target(D, N, policy), NEW K, NEW A,
         NEW c \in Subsets, HasPatch(c), c \notin K, NEW S, MovedWith(S, c, A)
  PROVE  redistribute_pl_node(Between(D, N, K, A), c, S, policy) = Between(D, N, K \cup {c}, A \cup S)
<1> DEFINE t == Between(D, N, K, A)
<1>1. c \in DOMAIN D /\ c # EC /\ c # "Element"
  <2>1. c \in Required
    BY DEF Required
  <2> QED
    BY <2>1, TargetFacts DEF Subsets, EC
<1>2. DOMAIN t.dist = DOMAIN D /\ t.dist[c] = D[c]
  BY <1>1, BetweenFields
<1>3. interpret_policy(policy, D[c][0][3]) = N[c]
  BY <1>1, SizeInside
<1>4. redistribute_pl_node(t, c, S, policy) = Exchange(SetDistribution(t, c, N[c]), S, D[c], N[c])
  BY <1>1, <1>2, <1>3 DEF redistribute_pl_node
<1>5. SetDistribution(t, c, N[c]) = Between(D, N, K \cup {c}, A)
  BY <1>1, SetKey
<1>7. Exchange(Between(D, N, K \cup {c}, A), S, D[c], N[c]) = Between(D, N, K \cup {c}, A \cup S)
  BY <1>1, MoveKey
<1> QED
  BY <1>4, <1>5, <1>7

\* A subset without extent of its own has no distribution; an absent one has no array.
LEMMA NoKey ==
  ASSUME zone \in Zones, NEW D, IsDist(D), NEW c \in Subsets
  PROVE  /\ ~HasPatch(c) => c \notin DOMAIN D
         /\ zone.extent[c] = "absent" => c \notin ArraysOfZone /\ ~HasPatch(c)
<1>1. DOMAIN D \subseteq Required \cup {EC}
  BY DEF IsDist
<1>2. ~HasPatch(c) => c \notin DOMAIN D
  BY <1>1 DEF Required, KeysOfZone, Subsets, EC
<1>3. zone.extent[c] = "absent" => c \notin ArraysOfZone /\ ~HasPatch(c)
  BY DEF ArraysOfZone, HasArray, HasPatch, Subsets
<1> QED
  BY <1>2, <1>3

\* A subset with its own extent is moved with its own arrays.
LEMMA OwnMoves ==
  ASSUME zone \in Zones, NEW D, NEW N, NEW policy, Target(D, N, policy), NEW K, NEW A,
         NEW c \in Subsets, HasPatch(c), c \notin K, c \notin A
  PROVE  redistribute_pl_node(Between(D, N, K, A), c, Own(c), policy)
           = Between(D, N, K \cup {c}, A \cup {c})
<1>1. zone.extent[c] # "none"
  BY DEF HasPatch
<1>2. KeyOf(c) = c
  BY <1>1 DEF KeyOf, Extent, Containers, Subsets
<1>3. MovedWith(Own(c), c, A)
  <2>1. c # "eso" /\ c # "ec"
    BY DEF Subsets
  <2> QED
    BY <1>2, <2>1 DEF MovedWith, Own
<1>4. redistribute_pl_node(Between(D, N, K, A), c, Own(c), policy)
        = Between(D, N, K \cup {c}, A \cup Own(c))
  BY <1>3, SubsetMoves
<1>5. Between(D, N, K \cup {c}, A \cup Own(c)) = Between(D, N, K \cup {c}, A \cup {c})
  <2>1. \A a \in ArraysOfZone : a \in A \cup Own(c) <=> a \in A \cup {c}
    BY DEF Own
  <2> QED
    BY <2>1, SameBetween
<1> QED
  BY <1>4, <1>5

\* An absent subset is moved by doing nothing.
LEMMA AbsentMoves ==
  ASSUME zone \in Zones, NEW D, NEW N, IsDist(D), NEW K, NEW A,
         NEW c \in Subsets, zone.extent[c] = "absent"
  PROVE  Between(D, N, K, A) = Between(D, N, K \cup {c}, A \cup {c})
<1>1. c \notin DOMAIN D /\ c \notin ArraysOfZone
  BY NoKey
<1>2. /\ \A k \in DOMAIN D : (k \in K <=> k \in K \cup {c}) \/ N[k] = D[k]
      /\ \A a \in ArraysOfZone : a \in A <=> a \in A \cup {c}
  BY <1>1
<1> QED
  BY <1>2, SameBetween

\* A subset without extent has been moved once its array has.
LEMMA RelatedMoves ==
  ASSUME zone \in Zones, NEW D, NEW N, IsDist(D), NEW K, NEW A,
         NEW c \in Subsets, zone.extent[c] = "none"
  PROVE  Between(D, N, K, A) = Between(D, N, K \cup {c}, A)
<1>1. c \notin DOMAIN D
  BY NoKey DEF HasPatch
<1>2. /\ \A k \in DOMAIN D : (k \in K <=> k \in K \cup {c}) \/ N[k] = D[k]
      /\ \A a \in ArraysOfZone : a \in A <=> a \in A
  BY <1>1
<1> QED
  BY <1>2, SameBetween

\* The fields of the cells, or on a PointList of their own.
LEMMA SolutionMoves ==
  ASSUME zone \in Zones, NEW D, NEW N, NEW policy, Target(D, N, policy), NEW K, NEW A,
         "sol" \notin K, "sol" \notin A
  PROVE  redistribute_solution(Between(D, N, K, A), "sol", D["Cell"], N["Cell"], policy)
           = Between(D, N, K \cup {"sol"}, A \cup {"sol"})
<1> DEFINE t == Between(D, N, K, A)
           moved == redistribute_solution(t, "sol", D["Cell"], N["Cell"], policy)
<1>1. IsDist(D) /\ "sol" \in Subsets /\ "Cell" \in DOMAIN D
  BY TargetFacts DEF Subsets, Required, KeysOfZone
<1>2. zone.extent["sol"] \in {"PointList", "none", "absent"}
  BY <1>1, ZoneFacts
<1>3. CASE zone.extent["sol"] = "absent"
  <2>1. moved = t
    BY <1>3 DEF redistribute_solution
  <2> QED
    BY <1>1, <1>3, <2>1, AbsentMoves
<1>4. CASE zone.extent["sol"] = "PointList"
  <2>1. moved = redistribute_pl_node(t, "sol", Own("sol"), policy)
    BY <1>4 DEF redistribute_solution
  <2>2. HasPatch("sol")
    BY <1>4 DEF HasPatch
  <2> QED
    BY <1>1, <2>1, <2>2, OwnMoves
<1>5. CASE zone.extent["sol"] = "none"
  <2>1. moved = Exchange(t, {"sol"}, D["Cell"], N["Cell"])
    BY <1>5 DEF redistribute_solution
  <2>2. KeyOf("sol") = "Cell"
    BY <1>5 DEF KeyOf, Extent, Containers, Subsets
  <2>3. MovedWith({"sol"}, "Cell", A)
    <3>1. "sol" \in ArraysOfZone
      BY <1>5 DEF ArraysOfZone, HasArray, Containers, Subsets
    <3> QED
      BY <2>2, <3>1 DEF MovedWith
  <2>4. Exchange(t, {"sol"}, D["Cell"], N["Cell"]) = Between(D, N, K, A \cup {"sol"})
    BY <1>1, <2>3, MoveKey
  <2>5. Between(D, N, K, A \cup {"sol"}) = Between(D, N, K \cup {"sol"}, A \cup {"sol"})
    BY <1>1, <1>5, RelatedMoves
  <2> QED
    BY <2>1, <2>4, <2>5
<1> QED
  BY <1>2, <1>3, <1>4, <1>5

\* The joins.
LEMMA JoinMoves ==
  ASSUME zone \in Zones, NEW D, NEW N, NEW policy, Target(D, N, policy), NEW K, NEW A,
         "gc" \notin K, "gc" \notin A
  PROVE  redistribute_gc(Between(D, N, K, A), policy) = Between(D, N, K \cup {"gc"}, A \cup {"gc"})
<1>1. IsDist(D) /\ "gc" \in Subsets
  BY TargetFacts DEF Subsets
<1>2. zone.extent["gc"] \in {"PointList", "PointRange", "absent"}
  BY <1>1, ZoneFacts
<1>3. CASE zone.extent["gc"] = "absent"
  <2>1. redistribute_gc(Between(D, N, K, A), policy) = Between(D, N, K, A)
    BY <1>3 DEF redistribute_gc
  <2> QED
    BY <1>1, <1>3, <2>1, AbsentMoves
<1>4. CASE zone.extent["gc"] # "absent"
  <2>1. HasPatch("gc")
    BY <1>2, <1>4 DEF HasPatch
  <2>2. redistribute_gc(Between(D, N, K, A), policy)
          = redistribute_pl_node(Between(D, N, K, A), "gc", Own("gc"), policy)
    BY <1>4 DEF redistribute_gc
  <2> QED
    BY <1>1, <2>1, <2>2, OwnMoves
<1> QED
  BY <1>3, <1>4

\* The BCs and their data sets.
LEMMA BCMoves ==
  ASSUME zone \in Zones, NEW D, NEW N, NEW policy, Target(D, N, policy), NEW K, NEW A,
         "bc" \notin K, "bc" \notin A, "bcds" \notin K, "bcds" \notin A
  PROVE  redistribute_bc(Between(D, N, K, A), policy)
           = Between(D, N, K \cup {"bc", "bcds"}, A \cup {"bc", "bcds"})
<1> DEFINE t == Between(D, N, K, A)
           K1 == K \cup {"bc"}
           A1 == A \cup {"bc"}
           K2 == K1 \cup {"bcds"}
           A2 == A1 \cup {"bcds"}
<1>1. IsDist(D) /\ "bc" \in Subsets /\ "bcds" \in Subsets
  BY TargetFacts DEF Subsets
<1>2. /\ zone.extent["bc"] \in {"PointList", "PointRange", "absent"}
      /\ zone.extent["bcds"] \in {"PointList", "PointRange", "none", "absent"}
      /\ zone.extent["bcds"] # "absent" => zone.extent["bc"] # "absent"
  BY <1>1, ZoneFacts
<1>3. K2 = K \cup {"bc", "bcds"} /\ A2 = A \cup {"bc", "bcds"}
  OBVIOUS
<1>4. "bcds" \notin K1 /\ "bcds" \notin A1
  OBVIOUS
<1> HIDE DEF K1, A1
<1>5. CASE zone.extent["bc"] = "absent"
  <2>1. redistribute_bc(t, policy) = t
    BY <1>5 DEF redistribute_bc
  <2>2. t = Between(D, N, K1, A1)
    BY <1>1, <1>5, AbsentMoves DEF K1, A1
  <2>3. Between(D, N, K1, A1) = Between(D, N, K2, A2)
    BY <1>1, <1>2, <1>5, AbsentMoves
  <2> QED
    BY <1>3, <2>1, <2>2, <2>3
<1>6. CASE zone.extent["bc"] # "absent" /\ zone.extent["bcds"] # "none"
  <2>1. HasPatch("bc")
    BY <1>2, <1>6 DEF HasPatch
  <2>2. redistribute_pl_node(t, "bc", Own("bc"), policy) = Between(D, N, K1, A1)
    BY <1>1, <2>1, OwnMoves DEF K1, A1
  <2>3. CASE HasPatch("bcds")
    <3>1. redistribute_bc(t, policy)
            = redistribute_pl_node(Between(D, N, K1, A1), "bcds", {"bcds"}, policy)
      BY <1>6, <2>2, <2>3 DEF redistribute_bc
    <3>2. Own("bcds") = {"bcds"}
      <4>1. "bcds" \in ArraysOfZone
        BY <2>3 DEF ArraysOfZone, HasArray, HasPatch, Containers, Subsets
      <4> QED
        BY <4>1 DEF Own
    <3>3. redistribute_pl_node(Between(D, N, K1, A1), "bcds", Own("bcds"), policy)
            = Between(D, N, K2, A2)
      BY <1>1, <1>4, <2>3, OwnMoves
    <3> QED
      BY <1>3, <3>1, <3>2, <3>3
  <2>4. CASE ~HasPatch("bcds")
    <3>1. zone.extent["bcds"] = "absent"
      BY <1>2, <1>6, <2>4 DEF HasPatch
    <3>2. redistribute_bc(t, policy) = Between(D, N, K1, A1)
      BY <1>6, <2>2, <2>4 DEF redistribute_bc
    <3>3. Between(D, N, K1, A1) = Between(D, N, K2, A2)
      BY <1>1, <3>1, AbsentMoves
    <3> QED
      BY <1>3, <3>2, <3>3
  <2> QED
    BY <2>3, <2>4
<1>7. CASE zone.extent["bc"] # "absent" /\ zone.extent["bcds"] = "none"
  <2> DEFINE S == Own("bc") \cup {"bcds"}
  <2>1. HasPatch("bc") /\ zone.extent["bc"] # "none"
    BY <1>2, <1>7 DEF HasPatch
  <2>2. redistribute_bc(t, policy) = redistribute_pl_node(t, "bc", S, policy)
    BY <1>7 DEF redistribute_bc
  <2>3. MovedWith(S, "bc", A)
    <3>1. KeyOf("bc") = "bc" /\ KeyOf("bcds") = "bc"
      BY <1>7, <2>1 DEF KeyOf, Extent, Containers, Subsets
    <3>2. "bcds" \in ArraysOfZone
      BY <1>7 DEF ArraysOfZone, HasArray, Containers, Subsets
    <3> QED
      BY <3>1, <3>2 DEF MovedWith, Own
  <2> HIDE DEF S
  <2>4. redistribute_pl_node(t, "bc", S, policy) = Between(D, N, K1, A \cup S)
    BY <1>1, <2>1, <2>3, SubsetMoves DEF K1
  <2>5. Between(D, N, K1, A \cup S) = Between(D, N, K2, A \cup S)
    BY <1>1, <1>7, RelatedMoves
  <2>6. Between(D, N, K2, A \cup S) = Between(D, N, K2, A2)
    <3>1. \A a \in ArraysOfZone : a \in A \cup S <=> a \in A2
      BY DEF S, A1, Own
    <3> HIDE DEF A2
    <3> QED
      BY <3>1, SameBetween
  <2> QED
    BY <1>3, <2>2, <2>4, <2>5, <2>6
<1> QED
  BY <1>5, <1>6, <1>7

\* The subregions; one that is related to the BC borrows the distribution of the BC.
LEMMA SubregionMoves ==
  ASSUME zone \in Zones, NEW D, NEW N, NEW policy, Target(D, N, policy), NEW K, NEW A,
         "zsr" \notin K, "bc" \notin K, "zsr" \notin A
  PROVE  redistribute_subregion(Between(D, N, K, A), policy)
           = Between(D, N, K \cup {"zsr"}, A \cup {"zsr"})
<1> DEFINE t == Between(D, N, K, A)
<1>1. IsDist(D) /\ "bc" \in Subsets /\ "zsr" \in Subsets
  BY TargetFacts DEF Subsets
<1>2. zone.extent["zsr"] \in {"PointList", "PointRange", "none", "absent"}
  BY <1>1, ZoneFacts
<1>3. CASE zone.extent["zsr"] = "absent"
  <2>1. redistribute_subregion(t, policy) = t
    BY <1>3 DEF redistribute_subregion
  <2> QED
    BY <1>1, <1>3, <2>1, AbsentMoves
<1>4. CASE zone.extent["zsr"] \in {"PointList", "PointRange"}
  <2>1. redistribute_subregion(t, policy) = redistribute_pl_node(t, "zsr", Own("zsr"), policy)
    BY <1>4 DEF redistribute_subregion
  <2>2. HasPatch("zsr")
    BY <1>4 DEF HasPatch
  <2> QED
    BY <1>1, <2>1, <2>2, OwnMoves
<1>5. CASE zone.extent["zsr"] = "none"
  <2>1. HasPatch("bc") /\ zone.extent["bc"] # "none"
    BY <1>1, <1>5, ZoneFacts DEF HasPatch
  <2>2. "bc" \in DOMAIN D /\ "zsr" \notin DOMAIN D /\ \A k \in DOMAIN D : k \in Keys
    <3>1. "bc" \in Required
      BY <2>1, <1>1 DEF Required
    <3>2. "zsr" \notin DOMAIN D
      BY <1>1, <1>5, NoKey DEF HasPatch
    <3> QED
      BY <3>1, <3>2, TargetFacts
  <2>3. interpret_policy(policy, D["bc"][0][3]) = N["bc"]
    BY <2>2, SizeInside DEF EC
  <2> DEFINE B == KeysBetween(D, N, K)
             M == ArraysBetween(D, N, A)
             d1 == Over(Only("zsr", D["bc"]), B)
             d2 == Over(Only("zsr", N["bc"]), d1)
             lent == SetDistribution(t, "zsr", t.dist["bc"])
             moved == redistribute_pl_node(lent, "zsr", Own("zsr"), policy)
  <2>4. t.dist = B /\ t.arr = M /\ t.ok = TRUE /\ DOMAIN B = DOMAIN D /\ t.dist["bc"] = D["bc"]
    BY <2>2 DEF Between, Tree, KeysBetween
  <2>5. B = [k \in DOMAIN B |-> B[k]]
    BY DEF KeysBetween
  <2> HIDE DEF B, M, t
  <2>6. lent = Tree(d1, M)
    BY <2>4 DEF SetDistribution, WithDistributions, Tree
  <2>7. "zsr" \in DOMAIN d1 /\ d1["zsr"] = D["bc"]
    BY DEF Over, Only
  <2>8. lent.dist = d1 /\ SetDistribution(lent, "zsr", N["bc"]) = Tree(d2, M)
    BY <2>6 DEF SetDistribution, WithDistributions, Tree
  <2>9. OnlyOn(d2, Keys \ {"zsr"}) = B
    <3>1. DOMAIN d2 = {"zsr"} \cup DOMAIN D
      BY <2>4 DEF Over, Only
    <3>2. DOMAIN d2 \cap (Keys \ {"zsr"}) = DOMAIN B
      BY <2>2, <2>4, <3>1
    <3>3. ASSUME NEW k \in DOMAIN B PROVE d2[k] = B[k]
      <4>1. k # "zsr"
        BY <2>2, <2>4
      <4> QED
        BY <4>1 DEF Over, Only
    <3> HIDE DEF d2
    <3> QED
      BY <2>5, <3>2, <3>3 DEF OnlyOn
  <2> HIDE DEF d1, d2
  <2>10. moved = Exchange(Tree(d2, M), Own("zsr"), D["bc"], N["bc"])
    <3> HIDE DEF lent
    <3>1. lent.dist["zsr"] = D["bc"] /\ "zsr" \in DOMAIN lent.dist
      BY <2>7, <2>8
    <3> QED
      BY <2>3, <2>8, <3>1 DEF redistribute_pl_node
  <2>11. MovedWith(Own("zsr"), "bc", A) /\ Own("zsr") = {"zsr"}
    <3>1. KeyOf("zsr") = "bc"
      BY <1>5 DEF KeyOf, Extent, Containers, Subsets
    <3>2. "zsr" \in ArraysOfZone
      BY <1>5 DEF ArraysOfZone, HasArray, Containers, Subsets
    <3> QED
      BY <3>1, <3>2 DEF MovedWith, Own
  <2>12. Exchange(Tree(d2, M), Own("zsr"), D["bc"], N["bc"]) = Tree(d2, ArraysBetween(D, N, A \cup Own("zsr")))
    BY <2>2, <2>11, MoveArrays DEF M
  <2>13. moved = Tree(d2, ArraysBetween(D, N, A \cup {"zsr"}))
    BY <2>10, <2>11, <2>12
  <2>14. redistribute_subregion(t, policy) = WithDistributions(moved, OnlyOn(moved.dist, Keys \ {"zsr"}))
    BY <1>5 DEF redistribute_subregion
  <2> HIDE DEF moved
  <2>15. WithDistributions(moved, OnlyOn(moved.dist, Keys \ {"zsr"}))
           = Tree(B, ArraysBetween(D, N, A \cup {"zsr"}))
    <3> DEFINE Q == ArraysBetween(D, N, A \cup {"zsr"})
    <3>1. moved.dist = d2 /\ moved.arr = Q /\ moved.ok = TRUE
      BY <2>13 DEF Tree
    <3> HIDE DEF Q
    <3>2. WithDistributions(moved, B) = Tree(B, Q)
      BY <3>1 DEF WithDistributions, Tree
    <3> QED
      BY <2>9, <3>1, <3>2 DEF Q
  <2>16. redistribute_subregion(t, policy) = Between(D, N, K, A \cup {"zsr"})
    BY <2>14, <2>15 DEF Between, B
  <2>17. Between(D, N, K, A \cup {"zsr"}) = Between(D, N, K \cup {"zsr"}, A \cup {"zsr"})
    BY <1>1, <1>5, RelatedMoves
  <2> QED
    BY <2>16, <2>17 DEF t
<1> QED
  BY <1>2, <1>3, <1>4, <1>5

\* The elements: their parents, their offsets and their connectivity.
LEMMA ElementsMove ==
  ASSUME zone \in Zones, NEW D, NEW N, NEW policy, Target(D, N, policy), NEW K, NEW A,
         "Element" \notin K, EC \notin K, "eso" \notin A, "pe" \notin A, "ec" \notin A
  PROVE  redistribute_elements(Between(D, N, K, A), policy)
           = Between(D, N, K \cup {"Element", EC}, A \cup {"eso", "pe", "ec"})
<1> DEFINE t == Between(D, N, K, A)
           L == K \cup {"Element", EC}
           B == A \cup {"eso", "pe", "ec"}
           K1 == K \cup {"Element"}
           A1 == A \cup {"pe"}
<1>1. /\ IsDist(D) /\ IsDist(N) /\ DOMAIN N = DOMAIN D
      /\ Required \subseteq DOMAIN D /\ DOMAIN D \subseteq Required \cup {EC}
      /\ EC \in DOMAIN D /\ ~HasOffset => N[EC] = D[EC]
      /\ HasOffset => N[EC] = OffsetBounds(N["Element"])
  BY TargetFacts
<1>2. CASE ~HasElements
  <2>1. ~HasOffset /\ "Element" \notin DOMAIN D
    BY <1>1, <1>2 DEF HasElements, HasOffset, Required, KeysOfZone, Subsets, EC
  <2>2. \A a \in {"eso", "pe", "ec"} : a \notin ArraysOfZone
    BY <1>2, <2>1 DEF ArraysOfZone, Containers, Subsets
  <2>3. /\ \A k \in DOMAIN D : (k \in K <=> k \in L) \/ N[k] = D[k]
        /\ \A a \in ArraysOfZone : a \in A <=> a \in B
    BY <1>1, <2>1, <2>2
  <2>4. redistribute_elements(t, policy) = t
    BY <1>2 DEF redistribute_elements
  <2> HIDE DEF L, B
  <2>5. t = Between(D, N, L, B)
    BY <2>3, SameBetween
  <2> QED
    BY <2>4, <2>5 DEF L, B
<1>3. CASE HasElements
  <2> DEFINE old == D["Element"]
             new == N["Element"]
             t1 == SetDistribution(t, "Element", new)
             t2 == Exchange(t1, {"pe"}, old, new)
  <2>1. "Element" \in DOMAIN D /\ "Element" # EC
    BY <1>1, <1>3 DEF Required, EC
  <2>2. "pe" \in ArraysOfZone /\ "ec" \in ArraysOfZone
    BY <1>3 DEF ArraysOfZone
  <2>3. KeyOf("pe") = "Element" /\ KeyOf("eso") = "Element" /\ KeyOf("ec") = EC
    BY DEF KeyOf, Containers, Subsets
  <2>4. DOMAIN t.dist = DOMAIN D /\ t.dist["Element"] = old
    BY <2>1, BetweenFields
  <2>5. interpret_policy(policy, old[0][3]) = new
    BY <2>1, SizeInside
  <2>6. t1 = Between(D, N, K1, A)
    BY <2>1, SetKey
  <2>7. MovedWith({"pe"}, "Element", A)
    BY <2>2, <2>3 DEF MovedWith
  <2>8. t2 = Between(D, N, K1, A1)
    BY <2>1, <2>6, <2>7, MoveKey
  <2>9. NElement \in Nat /\ SizeOf("Element") = NElement
    BY OffsetFacts DEF SizeOf, ZoneKeys, Subsets
  <2>10. old \in Parts /\ Tiles(old, NElement) /\ new \in Parts /\ Tiles(new, NElement)
    BY <1>1, <2>1, <2>9 DEF IsDist
  <2>11. redistribute_elements(t, policy) = redistribute_elements_node(t, policy)
    BY <1>3 DEF redistribute_elements
  <2>12. CASE HasOffset
    <3> DEFINE eso == redistribute_offset(t.arr["eso"], t.dist[EC][0][3], old, new)
               new_ec == [r \in Rank |-> <<eso[r][1], eso[r][Len(eso[r])], t.dist[EC][r][3]>>]
               t3 == WithArrays(t2, [t2.arr EXCEPT !["eso"] = eso])
               A2 == A1 \cup {"eso"}
    <3>1. EC \in DOMAIN D /\ "eso" \in ArraysOfZone
      BY <1>1, <2>12 DEF Required, ArraysOfZone
    <3>2. redistribute_elements_node(t, policy)
            = Exchange(SetDistribution(t3, EC, new_ec), {"ec"}, t.dist[EC], new_ec)
      BY <2>4, <2>5, <2>12 DEF redistribute_elements_node, EC
    <3>3. t.dist[EC] = D[EC] /\ t.arr["eso"] = Blk(old, "eso")
      <4>1. t.dist[EC] = D[EC] /\ t.arr = ArraysBetween(D, N, A)
        BY <3>1, BetweenFields
      <4>2. ArraysBetween(D, N, A)["eso"] = Blk(Under(D, "eso"), "eso")
        BY <3>1 DEF ArraysBetween
      <4>3. Under(D, "eso") = old
        BY <2>3 DEF Under
      <4> QED
        BY <4>1, <4>2, <4>3
    <3>4. \A r \in Rank : D[EC][r][3] = Offset[NElement]
      <4>1. Tiles(D[EC], SizeOf(EC)) /\ SizeOf(EC) = Offset[NElement]
        BY <1>1, <3>1 DEF IsDist, SizeOf, EC, ZoneKeys, Subsets
      <4> QED
        BY <4>1 DEF Tiles
    <3>5. eso = Blk(new, "eso")
      <4>1. t.dist[EC][0][3] = Offset[NElement]
        BY <3>3, <3>4, NRankAssumption DEF Rank
      <4> HIDE DEF t, old, new
      <4> QED
        BY <2>10, <2>12, <3>3, <4>1, OffsetsMove
    <3> HIDE DEF eso, old, new, t, t1, t2
    <3>6. new_ec = N[EC]
      <4>1. ASSUME NEW r \in Rank
            PROVE  new_ec[r] = <<Offset[new[r][1]], Offset[new[r][2]], Offset[NElement]>>
        <5>1. eso[r][1] = Offset[new[r][1]] /\ eso[r][Len(eso[r])] = Offset[new[r][2]]
          BY <2>10, <2>12, <3>5, OffsetBlocks
        <5>2. t.dist[EC][r][3] = Offset[NElement]
          BY <3>3, <3>4
        <5> QED
          BY <5>1, <5>2
      <4>2. N[EC] = OffsetBounds(new)
        BY <1>1, <2>12 DEF new
      <4> QED
        BY <4>1, <4>2 DEF OffsetBounds
    <3> HIDE DEF new_ec
    <3>7. t3 = Between(D, N, K1, A2)
      <4> DEFINE Q == ArraysBetween(D, N, A1)
                 P == ArraysBetween(D, N, A2)
      <4>1. t2.arr = Q /\ t2.dist = KeysBetween(D, N, K1) /\ t2.ok = TRUE
        BY <2>8 DEF Between, Tree
      <4>2. Under(N, "eso") = new
        BY <2>3 DEF Under, new
      <4>3. P["eso"] = eso /\ \A a \in ArraysOfZone : a # "eso" => P[a] = Q[a]
        BY <3>1, <3>5, <4>2 DEF ArraysBetween
      <4>4. P = [a \in ArraysOfZone |-> P[a]] /\ DOMAIN Q = ArraysOfZone
        BY DEF ArraysBetween
      <4> HIDE DEF P, Q
      <4>5. [Q EXCEPT !["eso"] = eso] = P
        BY <4>3, <4>4
      <4>6. t3 = Tree(KeysBetween(D, N, K1), P)
        BY <4>1, <4>5 DEF WithArrays, Tree
      <4> QED
        BY <4>6 DEF Between, P
    <3> HIDE DEF t3
    <3>8. SetDistribution(t3, EC, new_ec) = Between(D, N, K1 \cup {EC}, A2)
      <4> HIDE DEF K1, A2
      <4>1. SetDistribution(Between(D, N, K1, A2), EC, N[EC]) = Between(D, N, K1 \cup {EC}, A2)
        BY <3>1, SetKey
      <4> QED
        BY <3>6, <3>7, <4>1
    <3>9. MovedWith({"ec"}, EC, A2)
      BY <2>2, <2>3, <2>12 DEF MovedWith
    <3>10. Exchange(Between(D, N, K1 \cup {EC}, A2), {"ec"}, D[EC], N[EC])
             = Between(D, N, K1 \cup {EC}, A2 \cup {"ec"})
      <4> HIDE DEF K1, A2
      <4> QED
        BY <3>1, <3>9, MoveKey
    <3>11. K1 \cup {EC} = L /\ A2 \cup {"ec"} = B
      OBVIOUS
    <3> QED
      BY <2>11, <3>2, <3>3, <3>6, <3>8, <3>10, <3>11 DEF t
  <2>13. CASE ~HasOffset
    <3> DEFINE A2 == A1 \cup {"ec"}
               c == zone.n_vtx
    <3>1. redistribute_elements_node(t, policy) = Exchange(t2, {"ec"}, Times(old, c), Times(new, c))
      BY <2>4, <2>5, <2>13 DEF redistribute_elements_node
    <3>2. Under(D, "ec") = Times(old, c) /\ Under(N, "ec") = Times(new, c)
      BY <2>13 DEF Under
    <3>3. A1 \cap {"ec"} = {} /\ {"ec"} \in SUBSET ArraysOfZone /\ "eso" \notin {"ec"}
      BY <2>2
    <3>4. \A a \in {"ec"} : Under(D, a) = Times(old, c) /\ Under(N, a) = Times(new, c)
      BY <3>2
    <3> HIDE DEF t2, t, old, new, c, A1
    <3>5. Exchange(Tree(KeysBetween(D, N, K1), ArraysBetween(D, N, A1)), {"ec"}, Times(old, c), Times(new, c))
            = Tree(KeysBetween(D, N, K1), ArraysBetween(D, N, A2))
      <4> DEFINE S == {"ec"}
                 x == Times(old, c)
                 y == Times(new, c)
      <4>1. /\ A1 \cap S = {} /\ S \in SUBSET ArraysOfZone /\ "eso" \notin S
            /\ \A a \in S : Under(D, a) = x /\ Under(N, a) = y
        BY <3>3, <3>4
      <4> HIDE DEF S, x, y, K1
      <4>2. Exchange(Tree(KeysBetween(D, N, K1), ArraysBetween(D, N, A1)), S, x, y)
              = Tree(KeysBetween(D, N, K1), ArraysBetween(D, N, A1 \cup S))
        BY <1>1, <4>1, ExchangeMoves
      <4> QED
        BY <4>2 DEF S, x, y
    <3>6. redistribute_elements_node(t, policy) = Between(D, N, K1, A2)
      BY <2>8, <3>1, <3>5 DEF Between
    <3>7. "eso" \notin ArraysOfZone
      BY <2>13 DEF ArraysOfZone, Containers, Subsets
    <3>8. /\ \A k \in DOMAIN D : (k \in K1 <=> k \in L) \/ N[k] = D[k]
          /\ \A a \in ArraysOfZone : a \in A2 <=> a \in B
      BY <1>1, <2>13, <3>7 DEF A1
    <3>9. Between(D, N, K1, A2) = Between(D, N, L, B)
      <4> HIDE DEF K1, A2, L, B
      <4> QED
        BY <3>8, SameBetween
    <3> QED
      BY <2>11, <3>6, <3>9 DEF t
  <2> QED
    BY <2>12, <2>13
<1> QED
  BY <1>2, <1>3

\* The blocks, from the distributions of the extents.
LEMMA BlocksUnder ==
  ASSUME zone \in Zones, NEW D, IsDist(D)
  PROVE  Blocks(D) = [a \in ArraysOfZone |-> Blk(Under(D, a), a)]
<1>1. \A a \in ArraysOfZone : FilterDistribution(D, a) = Under(D, a)
  BY FilterIs
<1> QED
  BY <1>1 DEF Blocks

\* redistribute_zone moves everything to the distributions of the policy.
LEMMA ZoneMoves ==
  ASSUME zone \in Zones, NEW t, Good(t), NEW policy \in Policy
  PROVE  /\ redistribute_zone(t, policy) = Tree(NewDist(t.dist, policy), Blocks(NewDist(t.dist, policy)))
         /\ IsDist(NewDist(t.dist, policy))
<1> DEFINE D == t.dist
           N == NewDist(D, policy)
           new == [k \in KeysOfZone |-> interpret_policy(policy, SizeOf(k))]
           zoned == WithDistributions(t, Over(new, D))
           coords == Exchange(zoned, {"coords"}, D["Vertex"], new["Vertex"])
           elements == redistribute_elements(coords, policy)
           sol == redistribute_solution(elements, "sol", D["Cell"], new["Cell"], policy)
           disc == redistribute_solution(sol, "disc", D["Cell"], new["Cell"], policy)
           zsr == redistribute_subregion(disc, policy)
           bc == redistribute_bc(zsr, policy)
           K0 == KeysOfZone
           K1 == K0 \cup {"Element", EC}
           K2 == K1 \cup {"sol"}
           K3 == K2 \cup {"zsr"}
           K4 == K3 \cup {"bc", "bcds"}
           K5 == K4 \cup {"gc"}
           A0 == {}
           A1 == A0 \cup {"coords"}
           A2 == A1 \cup {"eso", "pe", "ec"}
           A3 == A2 \cup {"sol"}
           A4 == A3 \cup {"zsr"}
           A5 == A4 \cup {"bc", "bcds"}
           A6 == A5 \cup {"gc"}
<1>1. t = Tree(D, Blocks(D)) /\ IsDist(D)
  BY DEF Good
<1>2. Target(D, N, policy)
  BY <1>1 DEF Target
<1> HIDE DEF D, N
<1>3. /\ IsDist(D) /\ IsDist(N) /\ DOMAIN N = DOMAIN D /\ policy \in Policy
      /\ Required \subseteq DOMAIN D /\ DOMAIN D \subseteq Required \cup {EC}
      /\ \A k \in DOMAIN D \ {EC} : N[k] = interpret_policy(policy, SizeOf(k))
  BY <1>2, TargetFacts
<1>4. K0 \subseteq DOMAIN D /\ "Vertex" \in K0 /\ "Cell" \in K0 /\ EC \notin K0
  BY <1>3 DEF Required, KeysOfZone, EC
<1>5. \A k \in K0 : new[k] = N[k]
  BY <1>3, <1>4
<1>6. DOMAIN new = K0
  OBVIOUS
<1> HIDE DEF new
<1>7. zoned = Between(D, N, K0, A0)
  <2>1. Over(new, D) = KeysBetween(D, N, K0)
    <3>1. DOMAIN new \cup DOMAIN D = DOMAIN D
      BY <1>4, <1>6
    <3> QED
      BY <1>5, <1>6, <3>1 DEF Over, KeysBetween
  <2>2. t.arr = Blocks(D) /\ t.ok = TRUE
    BY <1>1 DEF Tree
  <2>3. Blocks(D) = ArraysBetween(D, N, A0)
    BY <1>3, BlocksUnder DEF ArraysBetween
  <2> QED
    BY <2>1, <2>2, <2>3 DEF WithDistributions, Between, Tree
<1> HIDE DEF zoned
<1>8. coords = Between(D, N, K0, A1)
  <2>1. KeyOf("coords") = "Vertex" /\ "coords" \in ArraysOfZone
    BY DEF KeyOf, Extent, ArraysOfZone, HasArray, Containers, Subsets
  <2>2. MovedWith({"coords"}, "Vertex", A0)
    BY <2>1 DEF MovedWith
  <2>3. "Vertex" \in DOMAIN D /\ new["Vertex"] = N["Vertex"]
    BY <1>4, <1>5
  <2> HIDE DEF A0, K0
  <2>4. Exchange(Between(D, N, K0, A0), {"coords"}, D["Vertex"], N["Vertex"]) = Between(D, N, K0, A0 \cup {"coords"})
    BY <1>2, <2>2, <2>3, MoveKey
  <2> QED
    BY <1>7, <2>3, <2>4
<1> HIDE DEF coords
<1>9. elements = Between(D, N, K1, A2)
  <2>1. "Element" \notin K0 /\ EC \notin K0 /\ "eso" \notin A1 /\ "pe" \notin A1 /\ "ec" \notin A1
    BY DEF KeysOfZone, EC
  <2> HIDE DEF K0, A1
  <2>2. redistribute_elements(Between(D, N, K0, A1), policy) = Between(D, N, K0 \cup {"Element", EC}, A1 \cup {"eso", "pe", "ec"})
    BY <1>2, <2>1, ElementsMove
  <2> QED
    BY <1>8, <2>2
<1> HIDE DEF elements
<1>10. sol = Between(D, N, K2, A3)
  <2>1. "sol" \notin K1 /\ "sol" \notin A2
    BY DEF KeysOfZone, EC
  <2> HIDE DEF K1, A2
  <2>2. redistribute_solution(Between(D, N, K1, A2), "sol", D["Cell"], N["Cell"], policy) = Between(D, N, K1 \cup {"sol"}, A2 \cup {"sol"})
    BY <1>2, <2>1, SolutionMoves
  <2> QED
    BY <1>4, <1>5, <1>9, <2>2
<1> HIDE DEF sol
<1>11. disc = Between(D, N, K2, A3)
  <2>1. zone.extent["disc"] = "absent"
    BY ZoneFacts
  <2> QED
    BY <1>10, <2>1 DEF redistribute_solution
<1> HIDE DEF disc
<1>12. zsr = Between(D, N, K3, A4)
  <2>1. "zsr" \notin K2 /\ "bc" \notin K2 /\ "zsr" \notin A3
    BY DEF KeysOfZone, EC
  <2> HIDE DEF K2, A3
  <2>2. redistribute_subregion(Between(D, N, K2, A3), policy) = Between(D, N, K2 \cup {"zsr"}, A3 \cup {"zsr"})
    BY <1>2, <2>1, SubregionMoves
  <2> QED
    BY <1>11, <2>2
<1> HIDE DEF zsr
<1>13. bc = Between(D, N, K4, A5)
  <2>1. "bc" \notin K3 /\ "bc" \notin A4 /\ "bcds" \notin K3 /\ "bcds" \notin A4
    BY DEF KeysOfZone, EC
  <2> HIDE DEF K3, A4
  <2>2. redistribute_bc(Between(D, N, K3, A4), policy) = Between(D, N, K3 \cup {"bc", "bcds"}, A4 \cup {"bc", "bcds"})
    BY <1>2, <2>1, BCMoves
  <2> QED
    BY <1>12, <2>2
<1> HIDE DEF bc
<1>14. redistribute_gc(bc, policy) = Between(D, N, K5, A6)
  <2>1. "gc" \notin K4 /\ "gc" \notin A5
    BY DEF KeysOfZone, EC
  <2> HIDE DEF K4, A5
  <2>2. redistribute_gc(Between(D, N, K4, A5), policy) = Between(D, N, K4 \cup {"gc"}, A5 \cup {"gc"})
    BY <1>2, <2>1, JoinMoves
  <2> QED
    BY <1>13, <2>2
<1>15. redistribute_zone(t, policy) = redistribute_gc(bc, policy)
  BY <1>4 DEF redistribute_zone, bc, zsr, disc, sol, elements, coords, zoned, new, D
<1>16. Between(D, N, K5, A6) = Tree(N, Blocks(N))
  <2>1. N = [k \in DOMAIN D |-> N[k]]
    BY <1>3 DEF IsDist
  <2>2. zone.extent["disc"] = "absent"
    BY ZoneFacts
  <2>3. DOMAIN D \subseteq K5
    <3>1. ~HasPatch("disc")
      BY <2>2 DEF HasPatch
    <3>2. Required \subseteq K5 /\ EC \in K5
      BY <3>1 DEF Required, Subsets
    <3> HIDE DEF K5
    <3> QED
      BY <1>3, <3>2
  <2>4. ArraysOfZone \subseteq A6
    <3>1. ~HasArray("disc")
      BY <2>2 DEF HasArray
    <3> QED
      BY <3>1 DEF ArraysOfZone, Containers, Subsets
  <2> HIDE DEF K5, A6
  <2>5. KeysBetween(D, N, K5) = N
    BY <2>1, <2>3 DEF KeysBetween
  <2>6. ArraysBetween(D, N, A6) = Blocks(N)
    BY <1>3, <2>4, BlocksUnder DEF ArraysBetween
  <2> QED
    BY <2>5, <2>6 DEF Between
<1> QED
  BY <1>3, <1>14, <1>15, <1>16 DEF N, D

-----------------------------------------------------------------------------
(***************************************************************************)
(* Where the trees come from                                               *)
(***************************************************************************)
\* The distributions that add_distribution_info gives without offsets.
Basic == Required \ {EC}

\* They are those of the zone, its elements and its subsets with an extent.
LEMMA BasicKeys ==
  ASSUME zone \in Zones
  PROVE  /\ Basic = {"Vertex", "Cell"}
                      \cup (IF zone.structured /\ zone.dim = 3 THEN {"Face"} ELSE {})
                      \cup (IF HasElements THEN {"Element"} ELSE {})
                      \cup {c \in Subsets : HasPatch(c)}
         /\ Basic = KeysOfZone \cup (IF HasElements THEN {"Element"} ELSE {})
                      \cup {c \in Subsets : HasPatch(c)}
<1>1. zone.structured => zone.dim = 3
  BY ZoneFacts
<1>2. Basic = KeysOfZone \cup (IF HasElements THEN {"Element"} ELSE {}) \cup {c \in Subsets : HasPatch(c)}
  BY DEF Basic, Required, KeysOfZone, Subsets, EC
<1> QED
  BY <1>1, <1>2 DEF KeysOfZone

\* The distributions of a tree, from those of a policy and the one of the connectivity.
PolicyDist(policy) == [k \in Basic |-> interpret_policy(policy, SizeOf(k))]
WithEC(policy, ec) == Over(PolicyDist(policy), Only(EC, ec))

\* PolicyDist has the distributions of the zone, but for the connectivity.
LEMMA PolicyFacts ==
  ASSUME zone \in Zones, NEW policy \in Policy
  PROVE  /\ DOMAIN PolicyDist(policy) = Basic /\ EC \notin Basic
         /\ PolicyDist(policy) = [k \in Basic |-> PolicyDist(policy)[k]]
         /\ \A k \in Basic : /\ PolicyDist(policy)[k] = interpret_policy(policy, SizeOf(k))
                             /\ PolicyDist(policy)[k] \in Parts /\ Tiles(PolicyDist(policy)[k], SizeOf(k))
         /\ PatchKeys(PolicyDist(policy))
<1>1. DOMAIN PolicyDist(policy) = Basic /\ EC \notin Basic
  BY DEF PolicyDist, Basic
<1>2. ASSUME NEW k \in Basic
      PROVE  /\ PolicyDist(policy)[k] = interpret_policy(policy, SizeOf(k))
             /\ PolicyDist(policy)[k] \in Parts /\ Tiles(PolicyDist(policy)[k], SizeOf(k))
  <2>1. SizeOf(k) \in Nat
    BY KeysTyped, SizesTyped DEF Basic
  <2>2. PolicyDist(policy)[k] = interpret_policy(policy, SizeOf(k))
    BY DEF PolicyDist
  <2> QED
    BY <2>1, <2>2, PolicyTyped, PoliciesTile
<1>3. PatchKeys(PolicyDist(policy))
  BY <1>1 DEF PatchKeys, Basic, Required, KeysOfZone, EC, Subsets
<1>4. PolicyDist(policy) = [k \in Basic |-> PolicyDist(policy)[k]]
  BY DEF PolicyDist
<1> QED
  BY <1>1, <1>2, <1>3, <1>4

\* Without offsets they are the distributions of a tree.
LEMMA PlainDist ==
  ASSUME zone \in Zones, ~HasOffset, NEW policy \in Policy
  PROVE  IsDist(PolicyDist(policy))
<1>1. Basic = Required
  BY DEF Basic, Required, KeysOfZone, EC, Subsets
<1> HIDE DEF Basic
<1> QED
  BY <1>1, PolicyFacts DEF IsDist

\* With offsets, the distribution of the connectivity completes them.
LEMMA OffsetDist ==
  ASSUME zone \in Zones, HasOffset, NEW policy \in Policy, NEW ec,
         ec = OffsetBounds(PolicyDist(policy)["Element"])
  PROVE  /\ IsDist(WithEC(policy, ec)) /\ WithEC(policy, ec)[EC] = ec
         /\ \A k \in Basic : WithEC(policy, ec)[k] = PolicyDist(policy)[k]
         /\ "Element" \in Basic
<1> DEFINE P == PolicyDist(policy)
           D == WithEC(policy, ec)
<1>1. /\ DOMAIN P = Basic /\ EC \notin Basic
      /\ \A k \in Basic : P[k] \in Parts /\ Tiles(P[k], SizeOf(k))
  BY PolicyFacts
<1>2. Required = Basic \cup {EC} /\ "Element" \in Basic
  BY DEF Basic, Required, HasElements, HasOffset, EC
<1> HIDE DEF P
<1>3. /\ D = [k \in Required |-> D[k]] /\ DOMAIN D = Required
      /\ D[EC] = ec /\ \A k \in Basic : D[k] = P[k]
  BY <1>1, <1>2 DEF WithEC, Over, Only, P
<1>4. SizeOf("Element") = NElement
  BY DEF SizeOf, ZoneKeys, Subsets
<1>5. ec \in Parts /\ Tiles(ec, SizeOf(EC))
  <2>1. P["Element"] \in Parts /\ Tiles(P["Element"], NElement)
    BY <1>1, <1>2, <1>4
  <2> QED
    BY <2>1, OffsetBoundsTile DEF P
<1> HIDE DEF D
<1>6. \A k \in Required : D[k] \in Parts /\ Tiles(D[k], SizeOf(k))
  BY <1>1, <1>2, <1>3, <1>5
<1>7. D[EC] = OffsetBounds(D["Element"])
  BY <1>2, <1>3 DEF P
<1>8. IsDist(D)
  BY <1>3, <1>6, <1>7 DEF IsDist
<1> QED
  BY <1>2, <1>3, <1>8 DEF D, P

\* What add_distribution_info gives: the offsets loaded on each rank bound its connectivity.
LEMMA InfoIs ==
  ASSUME zone \in Zones, NEW policy \in Policy, NEW arr
  PROVE  add_distribution_info(arr, policy)
           = IF "eso" \in DOMAIN arr THEN WithEC(policy, compute_connectivity_distribution(arr["eso"]))
             ELSE PolicyDist(policy)
<1>1. Basic = {"Vertex", "Cell"} \cup (IF zone.structured /\ zone.dim = 3 THEN {"Face"} ELSE {})
                \cup (IF HasElements THEN {"Element"} ELSE {}) \cup {c \in Subsets : HasPatch(c)}
  BY BasicKeys
<1> QED
  BY <1>1 DEF add_distribution_info, PolicyDist, WithEC, EC

\* The block of a rank that has everything is the array.
LEMMA WholeBlock ==
  ASSUME zone \in Zones, NEW a \in ArraysOfZone, NEW d, NEW r \in Rank,
         d[r][1] = 0, d[r][2] = EntriesOf(a)
  PROVE  Blk(d, a)[r] = Content[a]
<1>1. Content[a] \in Seq(Nat) /\ Len(Content[a]) = d[r][2] + (IF a = "eso" THEN 1 ELSE 0)
  BY ContentFacts
<1>2. Blk(d, a)[r] = SubSeq(Content[a], 0 + 1, Len(Content[a]))
  BY <1>1 DEF Blk
<1>3. 0 + 1 = 1
  OBVIOUS
<1> DEFINE s == Content[a]
<1>4. Blk(d, a)[r] = SubSeq(s, 1, Len(s)) /\ s \in Seq(Nat)
  BY <1>1, <1>2, <1>3
<1> HIDE DEF s
<1>5. SubSeq(s, 1, Len(s)) = s
  BY <1>4, SubSeqFull
<1> QED
  BY <1>4, <1>5 DEF s

\* The block of a rank that has nothing is empty, but for the array of offsets.
LEMMA NoBlockHere ==
  ASSUME NEW a, a # "eso", NEW d, NEW r \in Rank, d[r][1] \in Nat, d[r][2] = d[r][1]
  PROVE  Blk(d, a)[r] = << >>
<1> DEFINE lo == d[r][1]
           s == Content[a]
<1>1. lo \in Nat /\ Blk(d, a)[r] = SubSeq(s, lo + 1, lo + 0)
  BY DEF Blk
<1> HIDE DEF lo, s
<1>2. lo + 1 \in Int /\ lo + 0 \in Int /\ lo + 0 < lo + 1
  BY <1>1
<1>3. SubSeq(s, lo + 1, lo + 0) = << >>
  BY <1>2, SubSeqEmpty
<1> QED
  BY <1>1, <1>3

\* The distributions by which rank owner has everything.
GatheredOn(d, owner, n) ==
  \A r \in Rank : d[r][1] = (IF r <= owner THEN 0 ELSE n) /\ d[r][2] = (IF r < owner THEN 0 ELSE n)

\* They give everything to every kind of array.
LEMMA UnderGathered ==
  ASSUME zone \in Zones, NEW owner \in Rank, NEW D, IsDist(D),
         \A k \in Basic : GatheredOn(D[k], owner, SizeOf(k)), NEW a \in ArraysOfZone
  PROVE  GatheredOn(Under(D, a), owner, EntriesOf(a))
<1>1. NElement \in Nat /\ Offset \in [0 .. NElement -> Nat] /\ Offset[0] = 0 /\ SizeOf("Element") = NElement
  BY OffsetFacts DEF SizeOf, ZoneKeys, Subsets
<1>2. CASE KeyOf(a) \in Basic /\ ~(a = "ec" /\ ~HasOffset)
  BY <1>2 DEF Under, EntriesOf
<1>3. CASE a = "ec" /\ HasOffset
  <2>1. "Element" \in Basic /\ Under(D, a) = OffsetBounds(D["Element"]) /\ EntriesOf(a) = Offset[NElement]
    BY <1>3 DEF IsDist, Under, KeyOf, Basic, Required, HasElements, HasOffset, EC, Containers,
                Subsets, EntriesOf, SizeOf, ZoneKeys
  <2>2. GatheredOn(D["Element"], owner, NElement)
    BY <1>1, <2>1
  <2> QED
    BY <1>1, <2>1, <2>2 DEF GatheredOn, OffsetBounds
<1>4. CASE a = "ec" /\ ~HasOffset
  <2>1. HasElements
    BY <1>4, ArrayCases
  <2>2. zone.elt = "TRI_3" /\ zone.n_vtx \in Nat
    BY <1>4, <2>1, ZoneFacts DEF HasElements, HasOffset
  <2>3. "Element" \in Basic /\ Under(D, a) = Times(D["Element"], zone.n_vtx) /\ EntriesOf(a) = Offset[NElement]
    BY <1>4, <2>1 DEF Under, KeyOf, Basic, Required, EC, Containers, Subsets, EntriesOf, SizeOf, ZoneKeys
  <2>4. GatheredOn(D["Element"], owner, NElement)
    BY <1>1, <2>3
  <2> DEFINE c == zone.n_vtx
             e == D["Element"]
  <2>5. Offset[NElement] = c * NElement
    <3>1. NElement \in 0 .. NElement
      BY <1>1
    <3> QED
      BY <2>2, <3>1, StandardOffsets
  <2>6. \A r \in Rank : Times(e, c)[r][1] = c * e[r][1] /\ Times(e, c)[r][2] = c * e[r][2]
    BY DEF Times
  <2>7. c \in Nat /\ c * 0 = 0
    BY <2>2
  <2> HIDE DEF c, e
  <2>8. \A r \in Rank : /\ Times(e, c)[r][1] = (IF r <= owner THEN 0 ELSE Offset[NElement])
                        /\ Times(e, c)[r][2] = (IF r < owner THEN 0 ELSE Offset[NElement])
    <3> TAKE r \in Rank
    <3>1. e[r][1] = (IF r <= owner THEN 0 ELSE NElement) /\ e[r][2] = (IF r < owner THEN 0 ELSE NElement)
      BY <2>4 DEF GatheredOn, e
    <3> QED
      BY <2>5, <2>6, <2>7, <3>1
  <2> QED
    BY <2>3, <2>8 DEF GatheredOn, e, c
<1>5. a # "ec" => KeyOf(a) \in Basic
  <2>1. a # "ec" => KeyOf(a) \in Required
    BY KeyRequired
  <2>2. a # "ec" => KeyOf(a) # EC
    <3>1. CASE a \in Containers /\ HasArray(a)
      BY <3>1, ExtentCases DEF KeyOf, EC
    <3>2. CASE a \in {"eso", "ec", "pe"} /\ a \notin Containers
      BY <3>2 DEF KeyOf, EC
    <3> QED
      BY <3>1, <3>2, ArrayCases
  <2> QED
    BY <2>1, <2>2 DEF Basic
<1> QED
  BY <1>2, <1>3, <1>4, <1>5

\* The policy gather gives everything to one rank.
LEMMA GatherPolicy ==
  ASSUME zone \in Zones, NEW owner \in Rank
  PROVE  /\ [type |-> "gather", rank |-> owner] \in Policy
         /\ \A n : GatheredOn(interpret_policy([type |-> "gather", rank |-> owner], n), owner, n)
BY DEF Policy, interpret_policy, gathering_distribution, GatheredOn

\* The blocks of a gathered array.
LEMMA GatheredBlocks ==
  ASSUME zone \in Zones, NEW owner \in Rank, NEW a \in ArraysOfZone, NEW d,
         GatheredOn(d, owner, EntriesOf(a)), NEW r \in Rank
  PROVE  /\ r = owner => Blk(d, a)[r] = Content[a]
         /\ r # owner /\ a # "eso" => Blk(d, a)[r] = << >>
<1>1. owner \in Nat /\ r \in Nat /\ EntriesOf(a) \in Nat
  BY NRankAssumption, ContentFacts DEF Rank
<1>2. /\ d[r][1] = (IF r <= owner THEN 0 ELSE EntriesOf(a))
      /\ d[r][2] = (IF r < owner THEN 0 ELSE EntriesOf(a))
  BY DEF GatheredOn
<1>3. r = owner => d[r][1] = 0 /\ d[r][2] = EntriesOf(a)
  BY <1>1, <1>2
<1>4. r # owner => d[r][1] \in Nat /\ d[r][2] = d[r][1]
  BY <1>1, <1>2
<1>5. r = owner => Blk(d, a)[r] = Content[a]
  BY <1>3, WholeBlock
<1>6. r # owner /\ a # "eso" => Blk(d, a)[r] = << >>
  BY <1>4, NoBlockHere
<1> QED
  BY <1>5, <1>6

\* The tree that the owner of the full tree broadcasts.
LEMMA BroadcastGood ==
  ASSUME zone \in Zones, full.arr = Content, NEW owner \in Rank
  PROVE  Good(_broadcast_full_to_dist(owner))
<1> DEFINE p == [type |-> "gather", rank |-> owner]
           P == PolicyDist(p)
           arr == [a \in DOMAIN full.arr |-> [r \in Rank |->
                     CASE r = owner -> full.arr[a]
                       [] r # owner /\ a = "eso" -> <<IF r > owner THEN Len(full.arr["ec"]) ELSE 0>>
                       [] r # owner /\ a # "eso" -> << >>]]
           D == add_distribution_info(arr, p)
           g == P["Element"]
<1>1. _broadcast_full_to_dist(owner) = Tree(D, arr)
  BY DEF _broadcast_full_to_dist
<1>2. p \in Policy /\ \A n : GatheredOn(interpret_policy(p, n), owner, n)
  BY GatherPolicy
<1>3. DOMAIN full.arr = ArraysOfZone /\ \A a \in ArraysOfZone : full.arr[a] = Content[a]
  BY DEF Content
<1>4. /\ DOMAIN arr = ArraysOfZone /\ arr = [a \in ArraysOfZone |-> arr[a]]
      /\ \A a \in ArraysOfZone : arr[a] = [r \in Rank |-> arr[a][r]]
      /\ \A a \in ArraysOfZone : arr[a][owner] = Content[a]
      /\ \A a \in ArraysOfZone \ {"eso"} : \A r \in Rank \ {owner} : arr[a][r] = << >>
      /\ "eso" \in ArraysOfZone => \A r \in Rank \ {owner} :
           arr["eso"][r] = <<IF r > owner THEN Len(Content["ec"]) ELSE 0>>
  <2>1. "eso" \in ArraysOfZone => "ec" \in ArraysOfZone
    BY DEF ArraysOfZone, HasElements, HasOffset, Containers, Subsets
  <2> QED
    BY <1>3, <2>1
<1>5. "eso" \in ArraysOfZone <=> HasOffset
  BY DEF ArraysOfZone, Containers, Subsets
<1> HIDE DEF arr, p
<1>6. D = IF HasOffset THEN WithEC(p, compute_connectivity_distribution(arr["eso"])) ELSE P
  BY <1>2, <1>4, <1>5, InfoIs
<1>7. /\ NElement \in Nat /\ Offset \in [0 .. NElement -> Nat] /\ Offset[0] = 0
      /\ SizeOf("Element") = NElement
  BY OffsetFacts DEF SizeOf, ZoneKeys, Subsets
<1>8. \A k \in Basic : GatheredOn(P[k], owner, SizeOf(k))
  BY <1>2 DEF PolicyDist
<1>9. ASSUME HasOffset, NEW r \in Rank
      PROVE  /\ arr["eso"][r] = Blk(g, "eso")[r]
             /\ arr["eso"][r][1] = Offset[g[r][1]]
             /\ arr["eso"][r][Len(arr["eso"][r])] = Offset[g[r][2]]
  <2>1. "Element" \in Basic /\ "eso" \in ArraysOfZone /\ "ec" \in ArraysOfZone
    BY <1>9, <1>5 DEF Basic, Required, HasElements, HasOffset, EC, ArraysOfZone
  <2>2. g \in Parts /\ Tiles(g, NElement) /\ GatheredOn(g, owner, NElement)
    BY <1>2, <1>7, <1>8, <2>1, PolicyFacts
  <2> HIDE DEF g
  <2> DEFINE e == Blk(g, "eso")[r]
             h == BlockOf(FirstOffsets, g, r)
  <2>3. /\ e = Append(h, Offset[g[r][2]]) /\ e[1] = Offset[g[r][1]] /\ e[Len(e)] = Offset[g[r][2]]
    BY <1>9, <2>2, OffsetBlocks
  <2>4. arr["eso"][r] = e
    <3>1. CASE r = owner
      <4>1. EntriesOf("eso") = NElement
        BY <1>7 DEF EntriesOf, KeyOf, Containers, Subsets
      <4>2. e = Content["eso"]
        BY <2>1, <2>2, <3>1, <4>1, GatheredBlocks
      <4> QED
        BY <1>4, <2>1, <3>1, <4>2
    <3>2. CASE r # owner
      <4>1. owner \in Nat /\ r \in Nat
        BY NRankAssumption DEF Rank
      <4> DEFINE x == g[r][1]
      <4>2. x = (IF r > owner THEN NElement ELSE 0) /\ g[r][2] = x
        BY <2>2, <3>2, <4>1 DEF GatheredOn
      <4> HIDE DEF x
      <4>3. h = << >>
        <5>1. h = SubSeq(FirstOffsets, x + 1, x)
          BY <4>2 DEF BlockOf, x
        <5>2. x + 1 \in Int /\ x \in Int /\ x < x + 1
          BY <1>7, <4>2
        <5> QED
          BY <5>1, <5>2, SubSeqEmpty
      <4>4. Len(Content["ec"]) = Offset[NElement]
        <5>1. Len(Content["ec"]) = EntriesOf("ec") + 0 /\ EntriesOf("ec") \in Nat
          BY <2>1, ContentFacts
        <5>2. EntriesOf("ec") = Offset[NElement]
          BY DEF EntriesOf, KeyOf, EC, Containers, Subsets, SizeOf, ZoneKeys
        <5> QED
          BY <5>1, <5>2
      <4>5. arr["eso"][r] = <<Offset[x]>>
        BY <1>4, <1>7, <2>1, <3>2, <4>2, <4>4
      <4>6. Append(<< >>, Offset[x]) = <<Offset[x]>>
        OBVIOUS
      <4> HIDE DEF e, h
      <4> QED
        BY <2>3, <4>2, <4>3, <4>5, <4>6
    <3> QED
      BY <3>1, <3>2
  <2> HIDE DEF e, h
  <2> QED
    BY <2>3, <2>4 DEF e
<1>10. /\ IsDist(D) /\ \A k \in Basic : D[k] = P[k]
       /\ HasOffset => "Element" \in Basic
  <2>1. CASE HasOffset
    <3> DEFINE ec == compute_connectivity_distribution(arr["eso"])
    <3>1. ec = OffsetBounds(g)
      BY <1>9, <2>1 DEF compute_connectivity_distribution, OffsetBounds
    <3>2. D = WithEC(p, ec)
      BY <1>6, <2>1
    <3> HIDE DEF D, ec
    <3> QED
      BY <1>2, <2>1, <3>1, <3>2, OffsetDist
  <2>2. CASE ~HasOffset
    <3>1. D = P
      BY <1>6, <2>2
    <3> HIDE DEF D
    <3> QED
      BY <1>2, <2>2, <3>1, PlainDist
  <2> QED
    BY <2>1, <2>2
<1> HIDE DEF D
<1>11. ASSUME NEW a \in ArraysOfZone, NEW r \in Rank PROVE arr[a][r] = Blk(Under(D, a), a)[r]
  <2>1. GatheredOn(Under(D, a), owner, EntriesOf(a))
    BY <1>8, <1>10, UnderGathered
  <2>2. CASE a = "eso"
    <3>1. HasOffset /\ Under(D, a) = g
      BY <1>5, <1>10, <2>2 DEF Under, KeyOf, Containers, Subsets
    <3> QED
      BY <1>9, <2>2, <3>1
  <2>3. CASE a # "eso"
    <3>1. CASE r = owner
      BY <1>4, <2>1, <3>1, GatheredBlocks
    <3>2. CASE r # owner
      BY <1>4, <2>1, <2>3, <3>2, GatheredBlocks
    <3> QED
      BY <3>1, <3>2
  <2> QED
    BY <2>2, <2>3
<1>12. ASSUME NEW a \in ArraysOfZone PROVE arr[a] = Blk(Under(D, a), a)
  <2>1. Blk(Under(D, a), a) = [r \in Rank |-> Blk(Under(D, a), a)[r]]
    BY DEF Blk
  <2> QED
    BY <1>4, <1>11, <2>1
<1>13. arr = Blocks(D)
  BY <1>4, <1>10, <1>12, BlocksUnder
<1>14. Tree(D, arr).dist = D
  BY DEF Tree
<1> QED
  BY <1>1, <1>10, <1>13, <1>14 DEF Good

\* A tree is good when each rank has its block of each array.
LEMMA GoodTree ==
  ASSUME zone \in Zones, NEW D, IsDist(D), NEW arr, arr = [a \in ArraysOfZone |-> arr[a]],
         \A a \in ArraysOfZone : arr[a] = Blk(Under(D, a), a)
  PROVE  Good(Tree(D, arr))
<1>1. arr = Blocks(D)
  BY BlocksUnder
<1>2. Tree(D, arr).dist = D
  BY DEF Tree
<1> QED
  BY <1>1, <1>2 DEF Good

\* The policy of the readers.
LEMMA UniformPolicy ==
  /\ [type |-> "uniform", rank |-> 0] \in Policy
  /\ \A n : interpret_policy([type |-> "uniform", rank |-> 0], n) = uniform_distribution(n)
BY DEF Policy, interpret_policy

\* Elements without offsets: the connectivity of a tree may have its own distribution.
LEMMA TimesDist ==
  ASSUME zone \in Zones, HasElements, ~HasOffset, NEW policy \in Policy, NEW ec,
         ec = Times(PolicyDist(policy)["Element"], zone.n_vtx)
  PROVE  /\ IsDist(WithEC(policy, ec)) /\ WithEC(policy, ec)[EC] = ec
         /\ \A k \in Basic : WithEC(policy, ec)[k] = PolicyDist(policy)[k]
         /\ "Element" \in Basic
<1> DEFINE P == PolicyDist(policy)
           D == WithEC(policy, ec)
<1>1. /\ DOMAIN P = Basic /\ EC \notin Basic
      /\ \A k \in Basic : P[k] \in Parts /\ Tiles(P[k], SizeOf(k))
  BY PolicyFacts
<1>2. Required = Basic /\ "Element" \in Basic
  BY DEF Basic, Required, KeysOfZone, Subsets, EC
<1> HIDE DEF P
<1>3. /\ D = [k \in Basic \cup {EC} |-> D[k]] /\ DOMAIN D = Basic \cup {EC}
      /\ D[EC] = ec /\ \A k \in Basic : D[k] = P[k]
  BY <1>1, <1>2 DEF WithEC, Over, Only, P
<1>4. SizeOf("Element") = NElement /\ SizeOf(EC) = Offset[NElement] /\ NElement \in Nat /\ NElement \in 0 .. NElement
  BY OffsetFacts DEF SizeOf, ZoneKeys, Subsets, EC
<1>5. ec \in Parts /\ Tiles(ec, SizeOf(EC))
  <2>1. P["Element"] \in Parts /\ Tiles(P["Element"], NElement)
    BY <1>1, <1>2, <1>4
  <2>2. zone.elt = "TRI_3" /\ zone.n_vtx \in Nat
    BY ZoneFacts DEF HasElements, HasOffset
  <2>3. Times(P["Element"], zone.n_vtx) \in Parts /\ Tiles(Times(P["Element"], zone.n_vtx), zone.n_vtx * NElement)
    BY <1>4, <2>1, <2>2, TimesTile
  <2>4. Offset[NElement] = zone.n_vtx * NElement
    BY <1>4, <2>2, StandardOffsets
  <2> QED
    BY <1>4, <2>3, <2>4 DEF P
<1> HIDE DEF D
<1>6. \A k \in DOMAIN D : D[k] \in Parts /\ Tiles(D[k], SizeOf(k))
  BY <1>1, <1>2, <1>3, <1>5
<1>7. IsDist(D)
  BY <1>2, <1>3, <1>6 DEF IsDist
<1> QED
  BY <1>2, <1>3, <1>7 DEF D, P

\* The entries of the offsets.
LEMMA OffsetContent ==
  ASSUME zone \in Zones, HasOffset
  PROVE  /\ "eso" \in ArraysOfZone /\ Len(Content["eso"]) = NElement + 1
         /\ \A i \in 0 .. NElement : Content["eso"][i + 1] = Offset[i]
<1>1. "eso" \in ArraysOfZone
  BY DEF ArraysOfZone
<1>2. Content["eso"] = [i \in 1 .. NElement + 1 |-> Offset[i - 1]]
  BY <1>1 DEF Content, Containers, Subsets
<1>3. NElement \in Nat
  BY OffsetFacts
<1>4. ASSUME NEW i \in 0 .. NElement PROVE Content["eso"][i + 1] = Offset[i]
  <2>1. i + 1 \in 1 .. NElement + 1 /\ (i + 1) - 1 = i
    BY <1>3
  <2> DEFINE j == i + 1
  <2> HIDE DEF j
  <2>2. j \in 1 .. NElement + 1 => Content["eso"][j] = Offset[j - 1]
    BY <1>2
  <2> QED
    BY <2>1, <2>2 DEF j
<1>5. EntriesOf("eso") = NElement
  BY DEF EntriesOf, KeyOf, Containers, Subsets, SizeOf, ZoneKeys
<1>6. Len(Content["eso"]) = NElement + 1
  BY <1>1, <1>5, ContentFacts
<1> QED
  BY <1>1, <1>4, <1>6

\* Key and number of entries of the arrays other than the connectivity.
LEMMA KeyBasic ==
  ASSUME zone \in Zones, NEW a \in ArraysOfZone, a # "ec"
  PROVE  KeyOf(a) \in Basic
<1>1. KeyOf(a) \in Required
  BY KeyRequired
<1>2. KeyOf(a) # EC
  <2>1. CASE a \in Containers /\ HasArray(a)
    BY <2>1, ExtentCases DEF KeyOf, EC
  <2>2. CASE a \in {"eso", "ec", "pe"} /\ a \notin Containers
    BY <2>2 DEF KeyOf, EC
  <2> QED
    BY <2>1, <2>2, ArrayCases
<1> QED
  BY <1>1, <1>2 DEF Basic

\* The uniform block of a global array is the one of its distribution.
LEMMA CutIsBlock ==
  ASSUME zone \in Zones, NEW a \in ArraysOfZone, a # "ec", a # "eso"
  PROVE  Cut(Content[a]) = Blk(PolicyDist([type |-> "uniform", rank |-> 0])[KeyOf(a)], a)
<1> DEFINE p == [type |-> "uniform", rank |-> 0]
           P == PolicyDist(p)
           k == KeyOf(a)
<1>1. k \in Basic /\ p \in Policy
  BY KeyBasic, UniformPolicy
<1>2. P[k] = uniform_distribution(SizeOf(k)) /\ P[k] \in Parts /\ Tiles(P[k], SizeOf(k))
  BY <1>1, PolicyFacts, UniformPolicy
<1>3. Len(Content[a]) = EntriesOf(a) + 0 /\ EntriesOf(a) \in Nat
  BY ContentFacts
<1>4. Len(Content[a]) = SizeOf(k) /\ EntriesOf(a) = SizeOf(k)
  BY <1>3 DEF EntriesOf
<1> HIDE DEF P, k
<1>5. Blk(P[k], a) = EntriesUnder(Content[a], P[k])
  BY <1>2, <1>4, PlainBlocks
<1> QED
  BY <1>2, <1>4, <1>5 DEF Cut, EntriesUnder, P, k

\* The section that every process cuts from its copy.
LEMMA ElementsCut ==
  ASSUME zone \in Zones, full.arr = Content, HasElements
  PROVE  \E ec, D :
           /\ D = WithEC([type |-> "uniform", rank |-> 0], ec) /\ IsDist(D)
           /\ \A k \in Basic : D[k] = PolicyDist([type |-> "uniform", rank |-> 0])[k]
           /\ distribute_element_node.dist = Over(Only("Element", D["Element"]), Only(EC, ec))
           /\ DOMAIN distribute_element_node.arr = ArraysOfZone \ Containers
           /\ \A a \in ArraysOfZone \ Containers : distribute_element_node.arr[a] = Blk(Under(D, a), a)
<1> DEFINE p == [type |-> "uniform", rank |-> 0]
           P == PolicyDist(p)
           distri == uniform_distribution(NElement)
           eso == full.arr["eso"]
           ec == IF HasOffset
                 THEN [r \in Rank |-> <<eso[distri[r][1] + 1], eso[distri[r][2] + 1], eso[Len(eso)]>>]
                 ELSE Times(distri, zone.n_vtx)
           offsets == [r \in Rank |-> SubSeq(eso, distri[r][1] + 1, distri[r][2] + 1)]
           parts == [a \in {"pe", "ec"} |-> IF a = "pe" THEN Cut(full.arr["pe"])
                                            ELSE [r \in Rank |-> BlockOf(full.arr["ec"], ec, r)]]
           D == WithEC(p, ec)
           t == distribute_element_node
<1>1. t = Tree(Over(Only("Element", distri), Only(EC, ec)),
               IF HasOffset THEN Over(parts, Only("eso", offsets)) ELSE parts)
  BY DEF distribute_element_node, EC
<1>2. p \in Policy /\ "Element" \in Basic /\ SizeOf("Element") = NElement /\ NElement \in Nat
  BY UniformPolicy, OffsetFacts DEF Basic, Required, EC, SizeOf, ZoneKeys, Subsets
<1>3. P["Element"] = distri /\ distri \in Parts /\ Tiles(distri, NElement)
  BY <1>2, PolicyFacts, UniformPolicy
<1>4. HasOffset => ec = OffsetBounds(distri)
  <2> SUFFICES ASSUME HasOffset PROVE ec = OffsetBounds(distri)
    OBVIOUS
  <2>1. ASSUME NEW r \in Rank
        PROVE  /\ eso[distri[r][1] + 1] = Offset[distri[r][1]]
               /\ eso[distri[r][2] + 1] = Offset[distri[r][2]]
               /\ eso[Len(eso)] = Offset[NElement]
    <3>1. distri[r][1] \in 0 .. NElement /\ distri[r][2] \in 0 .. NElement /\ NElement \in 0 .. NElement
      BY <1>2, <1>3, BoundsInside
    <3>2. Len(eso) = NElement + 1 /\ \A i \in 0 .. NElement : eso[i + 1] = Offset[i]
      BY OffsetContent
    <3> HIDE DEF distri, eso
    <3> QED
      BY <3>1, <3>2
  <2> HIDE DEF distri, eso
  <2> QED
    BY <2>1 DEF OffsetBounds
<1>5. ~HasOffset => ec = Times(distri, zone.n_vtx)
  OBVIOUS
<1> HIDE DEF ec, P, distri, eso, p
<1>6. IsDist(D) /\ D[EC] = ec /\ \A k \in Basic : D[k] = P[k]
  <2>1. CASE HasOffset
    BY <1>2, <1>3, <1>4, <2>1, OffsetDist DEF P
  <2>2. CASE ~HasOffset
    BY <1>2, <1>3, <1>5, <2>2, TimesDist DEF P
  <2> QED
    BY <2>1, <2>2
<1> HIDE DEF D
<1>7. D["Element"] = distri
  BY <1>2, <1>3, <1>6
<1>8. Under(D, "ec") = ec
  BY <1>5, <1>6, <1>7 DEF Under, KeyOf, Containers, Subsets
<1>9. ArraysOfZone \ Containers = {"pe", "ec"} \cup (IF HasOffset THEN {"eso"} ELSE {})
  BY DEF ArraysOfZone, Containers, Subsets
<1>10. "pe" \in ArraysOfZone /\ "ec" \in ArraysOfZone
  BY <1>9
<1>11. parts["pe"] = Blk(Under(D, "pe"), "pe")
  <2>1. Cut(Content["pe"]) = Blk(P[KeyOf("pe")], "pe")
    BY <1>10, CutIsBlock DEF P, p
  <2>2. KeyOf("pe") = "Element" /\ Under(D, "pe") = distri
    BY <1>7 DEF Under, KeyOf, Containers, Subsets
  <2> QED
    BY <1>3, <2>1, <2>2
<1>12. parts["ec"] = Blk(Under(D, "ec"), "ec")
  <2>1. ec \in Parts /\ Tiles(ec, EntriesOf("ec"))
    BY <1>6, <1>8, <1>10, UnderTiles
  <2>2. Blk(ec, "ec") = EntriesUnder(Content["ec"], ec)
    BY <1>10, <2>1, PlainBlocks
  <2> QED
    BY <1>8, <2>2 DEF EntriesUnder
<1>13. HasOffset => offsets = Blk(Under(D, "eso"), "eso")
  <2>1. Under(D, "eso") = distri
    BY <1>7 DEF Under, KeyOf, Containers, Subsets
  <2> QED
    BY <2>1 DEF Blk, eso
<1>14. /\ t.dist = Over(Only("Element", distri), Only(EC, ec))
       /\ t.arr = IF HasOffset THEN Over(parts, Only("eso", offsets)) ELSE parts
  BY <1>1 DEF Tree
<1> HIDE DEF t, offsets
<1>15. /\ DOMAIN t.arr = ArraysOfZone \ Containers
       /\ \A a \in ArraysOfZone \ Containers : t.arr[a] = Blk(Under(D, a), a)
  <2>1. DOMAIN parts = {"pe", "ec"}
    OBVIOUS
  <2> HIDE DEF parts
  <2>2. CASE HasOffset
    <3> DEFINE o == Over(parts, Only("eso", offsets))
    <3>1. /\ DOMAIN o = {"pe", "ec", "eso"}
          /\ o["pe"] = parts["pe"] /\ o["ec"] = parts["ec"] /\ o["eso"] = offsets
      BY <2>1 DEF Over, Only
    <3> HIDE DEF o
    <3>2. t.arr = o
      BY <1>14, <2>2 DEF o
    <3>3. ArraysOfZone \ Containers = {"pe", "ec", "eso"}
      BY <1>9, <2>2
    <3> QED
      BY <1>11, <1>12, <1>13, <2>2, <3>1, <3>2, <3>3
  <2>3. CASE ~HasOffset
    <3>1. ArraysOfZone \ Containers = {"pe", "ec"}
      BY <1>9, <2>3
    <3> QED
      BY <1>11, <1>12, <1>14, <2>1, <2>3, <3>1
  <2> QED
    BY <2>2, <2>3
<1> QED
  BY <1>6, <1>7, <1>14, <1>15 DEF D, P, p, t

\* The tree cut from the copies.
LEMMA CopiesGood ==
  ASSUME zone \in Copied, full.arr = Content
  PROVE  Good(_distribute_tree)
<1> DEFINE p == [type |-> "uniform", rank |-> 0]
           P == PolicyDist(p)
           keys == KeysOfZone \cup {c \in Subsets : zone.extent[c] = "PointList"}
                     \cup {c \in Subsets \ {"sol", "disc"} : zone.extent[c] = "PointRange"}
           related == zone.extent["zsr"] = "none" /\ zone.extent["bc"] = "PointList"
           elements == IF HasElements THEN distribute_element_node ELSE NoTree
           cut == [c \in Containers \cap DOMAIN full.arr |->
                     IF c = "zsr" /\ related THEN CutRelated(full.arr[c]) ELSE Cut(full.arr[c])]
           dist == Over([k \in keys |-> uniform_distribution(SizeOf(k))], elements.dist)
           arr == Over(cut, elements.arr)
           C == Containers \cap ArraysOfZone
<1>1. zone \in Zones /\ ~related
  BY ZonesAssumption DEF SupportedCopies
<1>2. _distribute_tree = Tree(dist, arr)
  BY DEF _distribute_tree
<1>3. p \in Policy
  BY UniformPolicy
<1>4. keys = Basic \ {"Element"}
  <2>1. zone.extent["sol"] # "PointRange" /\ zone.extent["disc"] = "absent"
    BY <1>1, ZoneFacts
  <2>2. Basic = KeysOfZone \cup (IF HasElements THEN {"Element"} ELSE {}) \cup {c \in Subsets : HasPatch(c)}
    BY <1>1, BasicKeys
  <2>3. {c \in Subsets : HasPatch(c)} = {c \in Subsets : zone.extent[c] = "PointList"}
          \cup {c \in Subsets \ {"sol", "disc"} : zone.extent[c] = "PointRange"}
    BY <2>1 DEF HasPatch
  <2>4. "Element" \notin KeysOfZone /\ "Element" \notin Subsets
    BY DEF KeysOfZone, Subsets
  <2> QED
    BY <2>2, <2>3, <2>4
<1>5. DOMAIN full.arr = ArraysOfZone /\ \A a \in ArraysOfZone : full.arr[a] = Content[a]
  BY DEF Content
<1>6. DOMAIN cut = C /\ \A c \in C : cut[c] = Blk(P[KeyOf(c)], c)
  <2>1. ASSUME NEW c \in C PROVE cut[c] = Blk(P[KeyOf(c)], c)
    <3>1. c # "ec" /\ c # "eso"
      BY DEF Containers, Subsets
    <3>2. cut[c] = Cut(Content[c])
      BY <1>1, <1>5
    <3> QED
      BY <1>1, <3>1, <3>2, CutIsBlock
  <2> QED
    BY <1>5, <2>1
<1> DEFINE plain == [k \in keys |-> uniform_distribution(SizeOf(k))]
<1>7. DOMAIN plain = Basic \ {"Element"} /\ \A k \in Basic \ {"Element"} : plain[k] = P[k]
  <2>1. \A k \in Basic : P[k] = uniform_distribution(SizeOf(k))
    BY <1>1, <1>3, PolicyFacts, UniformPolicy
  <2> QED
    BY <1>4, <2>1
<1>8. DOMAIN P = Basic /\ P = [k \in Basic |-> P[k]] /\ EC \notin Basic
  BY <1>1, <1>3, PolicyFacts
<1>9. \A c \in C : KeyOf(c) \in Basic
  <2>1. \A c \in C : c # "ec"
    BY DEF Containers, Subsets
  <2> QED
    BY <1>1, <2>1, KeyBasic
<1> HIDE DEF plain, cut, keys, P, p
<1>10. CASE HasElements
  <2>1. PICK ec, D :
           /\ D = WithEC(p, ec) /\ IsDist(D)
           /\ \A k \in Basic : D[k] = P[k]
           /\ distribute_element_node.dist = Over(Only("Element", D["Element"]), Only(EC, ec))
           /\ DOMAIN distribute_element_node.arr = ArraysOfZone \ Containers
           /\ \A a \in ArraysOfZone \ Containers : distribute_element_node.arr[a] = Blk(Under(D, a), a)
    BY <1>1, <1>10, ElementsCut DEF P, p
  <2>2. elements = distribute_element_node
    BY <1>10
  <2> HIDE DEF elements
  <2>3. "Element" \in Basic /\ "Element" # EC
    BY <1>10 DEF Basic, Required, EC
  <2>4. D["Element"] = P["Element"]
    BY <2>1, <2>3
  <2>5. dist = D
    <3> DEFINE q == Over(Only("Element", D["Element"]), Only(EC, ec))
    <3>1. q = [k \in {"Element", EC} |-> IF k = "Element" THEN D["Element"] ELSE ec]
      BY <2>3 DEF Over, Only
    <3> HIDE DEF q
    <3>2. elements.dist = q
      BY <2>1, <2>2 DEF q
    <3>3. dist = [k \in (Basic \ {"Element"}) \cup {"Element", EC} |->
                    IF k \in Basic \ {"Element"} THEN plain[k] ELSE q[k]]
      BY <1>7, <3>1, <3>2 DEF Over, plain
    <3>4. D = [k \in Basic \cup {EC} |-> IF k \in Basic THEN P[k] ELSE ec]
      BY <1>8, <2>1 DEF WithEC, Over, Only, P
    <3>5. (Basic \ {"Element"}) \cup {"Element", EC} = Basic \cup {EC}
      BY <2>3
    <3> HIDE DEF Basic
    <3>6. ASSUME NEW k \in Basic \cup {EC}
          PROVE  (IF k \in Basic \ {"Element"} THEN plain[k] ELSE q[k]) = (IF k \in Basic THEN P[k] ELSE ec)
      <4>1. CASE k = EC
        BY <1>8, <2>3, <3>1, <4>1
      <4>2. CASE k = "Element"
        BY <2>3, <2>4, <3>1, <4>2
      <4>3. CASE k \in Basic \ {"Element"}
        BY <1>7, <4>3
      <4> QED
        BY <4>1, <4>2, <4>3
    <3> HIDE DEF dist
    <3> QED
      BY <3>3, <3>4, <3>5, <3>6
  <2>6. arr = [a \in ArraysOfZone |-> arr[a]] /\ \A a \in ArraysOfZone : arr[a] = Blk(Under(D, a), a)
    <3>1. DOMAIN cut \cup DOMAIN elements.arr = ArraysOfZone
      BY <1>6, <2>1, <2>2
    <3>2. arr = [a \in ArraysOfZone |-> IF a \in C THEN cut[a] ELSE elements.arr[a]]
      BY <1>6, <3>1 DEF Over
    <3> HIDE DEF arr
    <3>3. ASSUME NEW a \in ArraysOfZone PROVE arr[a] = Blk(Under(D, a), a)
      <4>1. CASE a \in Containers
        <5>1. a \in C /\ Under(D, a) = D[KeyOf(a)]
          BY <4>1 DEF Under, Containers, Subsets
        <5>2. arr[a] = Blk(P[KeyOf(a)], a) /\ D[KeyOf(a)] = P[KeyOf(a)]
          BY <1>6, <1>9, <2>1, <3>2, <5>1
        <5> QED
          BY <5>1, <5>2
      <4>2. CASE a \notin Containers
        BY <2>1, <2>2, <3>2, <4>2
      <4> QED
        BY <4>1, <4>2
    <3> QED
      BY <3>2, <3>3
  <2> HIDE DEF arr, dist
  <2> QED
    BY <1>1, <1>2, <2>1, <2>5, <2>6, GoodTree
<1>11. CASE ~HasElements
  <2>1. elements.dist = << >> /\ elements.arr = << >>
    BY <1>11 DEF NoTree, Tree
  <2>2. ~HasOffset /\ "Element" \notin Basic
    BY <1>11 DEF HasElements, HasOffset, Basic, Required, KeysOfZone, Subsets
  <2>3. ArraysOfZone = C
    BY <1>11, <2>2 DEF ArraysOfZone
  <2>4. \A f : Over(f, << >>) = [x \in DOMAIN f |-> f[x]]
    <3>1. DOMAIN << >> = {}
      OBVIOUS
    <3> QED
      BY <3>1 DEF Over
  <2>5. dist = P
    <3>1. dist = [k \in DOMAIN plain |-> plain[k]]
      BY <2>1, <2>4 DEF plain
    <3>2. DOMAIN plain = Basic
      BY <1>7, <2>2
    <3> HIDE DEF dist
    <3> QED
      BY <1>7, <1>8, <3>1, <3>2
  <2>6. arr = [a \in ArraysOfZone |-> arr[a]] /\ \A a \in ArraysOfZone : arr[a] = Blk(Under(P, a), a)
    <3>1. arr = [a \in DOMAIN cut |-> cut[a]]
      BY <2>1, <2>4
    <3>2. DOMAIN cut = ArraysOfZone
      BY <1>6, <2>3
    <3> HIDE DEF arr
    <3>3. \A a \in ArraysOfZone : Under(P, a) = P[KeyOf(a)]
      BY <2>3 DEF Under, Containers, Subsets
    <3> QED
      BY <1>6, <2>3, <3>1, <3>2, <3>3
  <2>7. IsDist(P)
    BY <1>1, <1>3, <2>2, PlainDist DEF P
  <2> HIDE DEF arr, dist
  <2> QED
    BY <1>1, <1>2, <2>5, <2>6, <2>7, GoodTree
<1> QED
  BY <1>10, <1>11

\* The meshes that a file may hold.
FileHolds == file \in {Content, LocalIndexing(Content)}

\* Everything but the parent cells is in the file as in the mesh.
LEMMA FileFacts ==
  ASSUME zone \in Zones, FileHolds
  PROVE  /\ DOMAIN file = ArraysOfZone
         /\ \A a \in ArraysOfZone : a # "pe" \/ ~HasOffset => file[a] = Content[a]
         /\ HasOffset => \/ file["pe"] = Content["pe"]
                         \/ file["pe"] = [i \in 1 .. NElement |-> i]
<1>1. DOMAIN Content = ArraysOfZone
  BY DEF Content
<1>2. CASE ~HasOffset
  <2>1. file = Content
    BY <1>2 DEF FileHolds, LocalIndexing
  <2> QED
    BY <1>1, <1>2, <2>1
<1>3. CASE HasOffset
  <2> DEFINE n == NElement
             L == LocalIndexing(Content)
  <2>1. "pe" \in ArraysOfZone /\ Content["pe"] = [i \in 1 .. n |-> n + i] /\ n \in Nat
    BY <1>3, OffsetFacts DEF ArraysOfZone, HasElements, HasOffset, Content, Containers, Subsets
  <2>2. L = [Content EXCEPT !["pe"] = [i \in DOMAIN Content["pe"] |-> Content["pe"][i] - n]]
    BY <1>3 DEF LocalIndexing
  <2> HIDE DEF n, L
  <2>3. [i \in DOMAIN Content["pe"] |-> Content["pe"][i] - n] = [i \in 1 .. n |-> i]
    <3> DEFINE c == Content["pe"]
    <3>1. DOMAIN c = 1 .. n /\ \A i \in 1 .. n : c[i] = n + i
      BY <2>1
    <3> HIDE DEF c
    <3>2. \A i \in 1 .. n : c[i] - n = i
      BY <2>1, <3>1
    <3>3. [i \in DOMAIN c |-> c[i] - n] = [i \in 1 .. n |-> i]
      BY <3>1, <3>2
    <3> QED
      BY <3>3 DEF c
  <2>4. DOMAIN L = ArraysOfZone /\ L["pe"] = [i \in 1 .. n |-> i] /\ \A a \in ArraysOfZone \ {"pe"} : L[a] = Content[a]
    BY <1>1, <2>1, <2>2, <2>3
  <2>5. file = Content \/ file = L
    BY DEF FileHolds, L
  <2> QED
    BY <1>1, <1>3, <2>4, <2>5 DEF n
<1> QED
  BY <1>2, <1>3

\* Each rank reads its block.
LEMMA LoadIsBlock ==
  ASSUME zone \in Zones, NEW a \in ArraysOfZone, file[a] = Content[a], NEW d \in Parts,
         Tiles(d, EntriesOf(a))
  PROVE  load_data_partial(a, d) = Blk(d, a)
<1>1. ASSUME NEW r \in Rank
      PROVE  d[r][1] + dn_idx(a, d, r) = d[r][2] + (IF a = "eso" THEN 1 ELSE 0)
  <2>1. EntriesOf(a) \in Nat
    BY ContentFacts
  <2>2. d[r][1] \in Nat /\ d[r][2] \in Nat
    BY <2>1, BoundsInside
  <2> DEFINE x == d[r][1]
             y == d[r][2]
             z == IF a = "eso" THEN 1 ELSE 0
  <2>3. x \in Nat /\ y \in Nat /\ z \in Nat
    BY <2>2
  <2> HIDE DEF x, y, z
  <2>4. x + (y - x + z) = y + z
    BY <2>3
  <2> QED
    BY <2>4 DEF dn_idx, x, y, z
<1> QED
  BY <1>1 DEF load_data_partial, Blk

\* The parent cells that a rank reads are numbered after the faces in the end, however the
\* file numbers them.
LEMMA ParentsAreShifted ==
  ASSUME zone \in Zones, FileHolds, HasOffset, NEW d \in Parts, Tiles(d, NElement)
  PROVE  ensure_PE_global_indexing(load_data_partial("pe", d)) = Blk(d, "pe")
<1> DEFINE n == NElement
           pe == load_data_partial("pe", d)
           c == Content["pe"]
           f == file["pe"]
<1>1. /\ n \in Nat /\ "pe" \in ArraysOfZone /\ c = [i \in 1 .. n |-> n + i]
      /\ f = c \/ f = [i \in 1 .. n |-> i]
  BY OffsetFacts, FileFacts DEF ArraysOfZone, HasElements, HasOffset, Content, Containers, Subsets
<1>2. ASSUME NEW r \in Rank
      PROVE  (IF HasOffset /\ pe[r] # << >> /\ pe[r][1] <= n
              THEN [i \in DOMAIN pe[r] |-> pe[r][i] + n] ELSE pe[r]) = Blk(d, "pe")[r]
  <2> DEFINE lo == d[r][1]
             hi == d[r][2]
             m == hi - lo
             s == SubSeq(f, lo + 1, hi)
             b == SubSeq(c, lo + 1, hi)
  <2>1. lo \in 0 .. n /\ hi \in 0 .. n /\ lo <= hi
    BY <1>1, BoundsInside
  <2>2. pe[r] = s /\ Blk(d, "pe")[r] = b
    <3>1. pe[r] = SubSeq(f, lo + 1, lo + (hi - lo + 0))
      BY DEF load_data_partial, dn_idx
    <3>2. Blk(d, "pe")[r] = SubSeq(c, lo + 1, hi + 0)
      BY DEF Blk
    <3> HIDE DEF lo, hi, c, f, n
    <3>3. lo + (hi - lo + 0) = hi /\ hi + 0 = hi
      BY <1>1, <2>1
    <3> QED
      BY <3>1, <3>2, <3>3
  <2> HIDE DEF lo, hi, c, f, n, pe
  <2>3. m \in Nat /\ lo \in Nat /\ hi \in Nat
    BY <1>1, <2>1
  <2>4. \A i \in lo + 1 .. hi : i \in 1 .. n
    BY <1>1, <2>1
  <2>5. \A i \in 1 .. m : lo + i \in 1 .. n /\ (lo + 1) + i - 1 = lo + i
    BY <1>1, <2>1
  <2>6. b \in Seq(Nat) /\ Len(b) = m /\ \A i \in 1 .. m : b[i] = n + (lo + i)
    <3> DEFINE l == lo + 1
    <3>1. \A i \in l .. hi : c[i] \in Nat
      BY <1>1, <2>4
    <3>2. l \in Int /\ hi \in Int
      BY <2>3
    <3> HIDE DEF l
    <3>3. /\ SubSeq(c, l, hi) \in Seq(Nat)
          /\ Len(SubSeq(c, l, hi)) = IF l <= hi THEN hi - l + 1 ELSE 0
          /\ \A i \in 1 .. hi - l + 1 : SubSeq(c, l, hi)[i] = c[l + i - 1]
      BY <3>1, <3>2, SubSeqProperties
    <3>4. (IF l <= hi THEN hi - l + 1 ELSE 0) = m /\ hi - l + 1 = m
      BY <2>1, <2>3 DEF l
    <3>5. b = SubSeq(c, l, hi)
      BY DEF l
    <3>6. \A i \in 1 .. m : l + i - 1 = lo + i
      BY <2>5 DEF l
    <3> HIDE DEF b, m
    <3>7. \A i \in 1 .. m : b[i] = c[lo + i]
      BY <3>3, <3>4, <3>5, <3>6
    <3> QED
      BY <1>1, <2>5, <3>3, <3>4, <3>5, <3>7
  <2>7. CASE f = c
    <3>1. pe[r] = b
      BY <2>2, <2>7
    <3> HIDE DEF b, m
    <3>2. ~(b # << >> /\ b[1] <= n)
      <4>1. CASE m = 0
        BY <2>6, <4>1, NoElement
      <4>2. CASE m # 0
        <5>1. 1 \in 1 .. m
          BY <2>3, <4>2
        <5>2. b[1] = n + (lo + 1)
          BY <2>6, <5>1
        <5> QED
          BY <1>1, <2>3, <5>2
      <4> QED
        BY <4>1, <4>2
    <3> QED
      BY <2>2, <3>1, <3>2
  <2>8. CASE f = [i \in 1 .. n |-> i]
    <3>1. s \in Seq(Nat) /\ Len(s) = m /\ \A i \in 1 .. m : s[i] = lo + i
      <4> DEFINE l == lo + 1
      <4>1. \A i \in l .. hi : f[i] \in Nat
        BY <1>1, <2>4, <2>8
      <4>2. l \in Int /\ hi \in Int
        BY <2>3
      <4> HIDE DEF l
      <4>3. /\ SubSeq(f, l, hi) \in Seq(Nat)
            /\ Len(SubSeq(f, l, hi)) = IF l <= hi THEN hi - l + 1 ELSE 0
            /\ \A i \in 1 .. hi - l + 1 : SubSeq(f, l, hi)[i] = f[l + i - 1]
        BY <4>1, <4>2, SubSeqProperties
      <4>4. (IF l <= hi THEN hi - l + 1 ELSE 0) = m /\ hi - l + 1 = m
        BY <2>1, <2>3 DEF l
      <4>5. s = SubSeq(f, l, hi)
        BY DEF l
      <4>6. \A i \in 1 .. m : l + i - 1 = lo + i
        BY <2>5 DEF l
      <4> HIDE DEF s, m
      <4>7. \A i \in 1 .. m : s[i] = f[lo + i]
        BY <4>3, <4>4, <4>5, <4>6
      <4> QED
        BY <2>5, <2>8, <4>3, <4>4, <4>5, <4>7
    <3> HIDE DEF b, m, s
    <3>2. CASE m = 0
      <4>1. s = << >> /\ b = << >>
        BY <2>6, <3>1, <3>2, NoElement
      <4> QED
        BY <2>2, <4>1
    <3>3. CASE m # 0
      <4>1. 1 \in 1 .. m /\ m \in Nat /\ m <= hi
        BY <2>3, <3>3 DEF m
      <4>2. s[1] = lo + 1 /\ lo + 1 <= n
        BY <1>1, <2>5, <3>1, <4>1
      <4>3. s # << >>
        BY <3>1, <3>3
      <4>4. DOMAIN s = 1 .. m
        BY <3>1, LenProperties
      <4>5. b = [i \in 1 .. m |-> b[i]]
        <5>1. b \in [1 .. m -> Nat]
          BY <2>6, LenProperties
        <5> QED
          BY <5>1
      <4>6. \A i \in 1 .. m : s[i] + n = b[i]
        <5> TAKE i \in 1 .. m
        <5>1. s[i] = lo + i /\ b[i] = n + (lo + i) /\ i \in Int
          BY <2>6, <3>1
        <5> QED
          BY <1>1, <2>3, <5>1
      <4>7. [i \in DOMAIN s |-> s[i] + n] = b
        BY <4>4, <4>5, <4>6
      <4> QED
        BY <2>2, <4>2, <4>3, <4>7
    <3> QED
      BY <3>2, <3>3
  <2> QED
    BY <1>1, <2>7, <2>8
<1>3. Blk(d, "pe") = [r \in Rank |-> Blk(d, "pe")[r]]
  BY DEF Blk
<1> HIDE DEF pe
<1>4. ensure_PE_global_indexing(pe) = Blk(d, "pe")
  BY <1>2, <1>3 DEF ensure_PE_global_indexing
<1> QED
  BY <1>4 DEF pe

\* Every array has a filter.
LEMMA AllFiltered == ASSUME zone \in Zones PROVE Filtered = ArraysOfZone
<1>1. zone.extent["disc"] = "absent"
  BY ZoneFacts
<1> QED
  BY <1>1 DEF Filtered, ArraysOfZone, HasArray

\* The tree read from the file.
LEMMA LoadGood ==
  ASSUME zone \in Zones, FileHolds
  PROVE  Good(load_tree_from_filter)
<1> DEFINE p == [type |-> "uniform", rank |-> 0]
           P == add_distribution_info(<< >>, p)
           some == Filtered \ (IF HasOffset THEN {"ec"} ELSE {})
           first == [a \in some |-> load_data_partial(a, FilterDistribution(P, a))]
           ec == compute_connectivity_distribution(first["eso"])
<1>1. p \in Policy
  BY UniformPolicy
<1>2. P = PolicyDist(p)
  <2>1. "eso" \notin DOMAIN << >>
    OBVIOUS
  <2> QED
    BY <1>1, <2>1, InfoIs
<1>3. load_tree_from_filter =
        IF HasOffset
        THEN Tree(Over(P, Only("ElementConnectivity", ec)),
                  Over([first EXCEPT !["pe"] = ensure_PE_global_indexing(@)],
                       Only("ec", load_data_partial("ec", ec))))
        ELSE Tree(P, first)
  BY DEF load_tree_from_filter
<1>0. some = ArraysOfZone \ (IF HasOffset THEN {"ec"} ELSE {})
  BY AllFiltered
<1>4. /\ PatchKeys(P) /\ DOMAIN P = Basic
      /\ \A k \in Basic : P[k] \in Parts /\ Tiles(P[k], SizeOf(k))
  BY <1>1, <1>2, PolicyFacts
<1> HIDE DEF P, p, some
<1>5. ASSUME NEW a \in some
      PROVE  a \in ArraysOfZone /\ first[a] = load_data_partial(a, Under(P, a))
  BY <1>0, <1>4, FilterUnder
<1>6. CASE ~HasOffset
  <2>1. IsDist(P)
    BY <1>1, <1>2, <1>6, PlainDist
  <2>2. some = ArraysOfZone /\ first = [a \in ArraysOfZone |-> first[a]]
    BY <1>0, <1>6
  <2>3. ASSUME NEW a \in ArraysOfZone PROVE first[a] = Blk(Under(P, a), a)
    <3>1. file[a] = Content[a]
      BY <1>6, FileFacts
    <3>2. Under(P, a) \in Parts /\ Tiles(Under(P, a), EntriesOf(a))
      BY <2>1, UnderTiles
    <3>3. load_data_partial(a, Under(P, a)) = Blk(Under(P, a), a)
      BY <3>1, <3>2, LoadIsBlock
    <3> QED
      BY <1>5, <2>2, <3>3
  <2> HIDE DEF first, some
  <2> QED
    BY <1>3, <1>6, <2>1, <2>2, <2>3, GoodTree
<1>7. CASE HasOffset
  <2> DEFINE g == P["Element"]
             D == WithEC(p, ec)
             shifted == [first EXCEPT !["pe"] = ensure_PE_global_indexing(@)]
             arr == Over(shifted, Only("ec", load_data_partial("ec", ec)))
  <2>1. /\ some = ArraysOfZone \ {"ec"} /\ "eso" \in some /\ "pe" \in some /\ "ec" \in ArraysOfZone
        /\ "Element" \in Basic /\ SizeOf("Element") = NElement
        /\ EntriesOf("eso") = NElement /\ KeyOf("eso") = "Element" /\ KeyOf("pe") = "Element"
    BY <1>0, <1>7 DEF ArraysOfZone, HasOffset, HasElements, Basic, Required, EC, SizeOf, ZoneKeys, Subsets,
                EntriesOf, KeyOf, Containers
  <2>2. g \in Parts /\ Tiles(g, NElement)
    BY <1>4, <2>1
  <2>3. first["eso"] = Blk(g, "eso")
    <3>1. first["eso"] = load_data_partial("eso", g)
      BY <1>5, <2>1 DEF Under
    <3>2. file["eso"] = Content["eso"]
      BY <2>1, FileFacts
    <3> HIDE DEF g
    <3> QED
      BY <2>1, <2>2, <3>1, <3>2, LoadIsBlock
  <2>4. first["pe"] = load_data_partial("pe", g)
    BY <1>5, <2>1 DEF Under
  <2>5. DOMAIN first = some
    OBVIOUS
  <2> HIDE DEF first, g, some
  <2>6. ec = OffsetBounds(g)
    <3>1. ASSUME NEW r \in Rank
          PROVE  /\ first["eso"][r][1] = Offset[g[r][1]]
                 /\ first["eso"][r][Len(first["eso"][r])] = Offset[g[r][2]]
      BY <1>7, <2>2, <2>3, OffsetBlocks
    <3> QED
      BY <3>1 DEF compute_connectivity_distribution, OffsetBounds
  <2> HIDE DEF ec
  <2>7. IsDist(D) /\ D[EC] = ec /\ \A k \in Basic : D[k] = P[k]
    BY <1>1, <1>2, <1>7, <2>6, OffsetDist DEF g
  <2>8. load_tree_from_filter = Tree(D, arr)
    BY <1>2, <1>3, <1>7 DEF WithEC, EC
  <2> HIDE DEF D
  <2>9. DOMAIN shifted = ArraysOfZone \ {"ec"} /\ shifted["pe"] = ensure_PE_global_indexing(first["pe"])
    BY <2>1, <2>5
  <2>10. \A a \in ArraysOfZone \ {"ec", "pe"} : shifted[a] = first[a]
    BY <2>1, <2>5
  <2> HIDE DEF shifted
  <2>11. arr = [a \in ArraysOfZone |-> arr[a]] /\ arr["ec"] = load_data_partial("ec", ec)
    BY <2>1, <2>9 DEF Over, Only
  <2>12. \A a \in ArraysOfZone \ {"ec"} : arr[a] = shifted[a]
    BY <2>9 DEF Over
  <2> HIDE DEF arr
  <2>13. ASSUME NEW a \in ArraysOfZone PROVE arr[a] = Blk(Under(D, a), a)
    <3>1. Under(D, a) \in Parts /\ Tiles(Under(D, a), EntriesOf(a))
      BY <2>7, UnderTiles
    <3>2. a # "pe" => load_data_partial(a, Under(D, a)) = Blk(Under(D, a), a)
      BY <3>1, FileFacts, LoadIsBlock
    <3>3. CASE a = "ec"
      <4>1. Under(D, a) = ec
        BY <1>7, <2>7, <3>3 DEF Under, KeyOf, Containers, Subsets
      <4> QED
        BY <2>11, <3>2, <3>3, <4>1
    <3>4. CASE a = "pe"
      <4>1. Under(D, a) = g
        BY <2>1, <2>7, <3>4 DEF Under, g
      <4>2. arr[a] = ensure_PE_global_indexing(load_data_partial("pe", g))
        BY <2>4, <2>9, <2>12, <3>4
      <4>3. ensure_PE_global_indexing(load_data_partial("pe", g)) = Blk(g, "pe")
        BY <1>7, <2>2, ParentsAreShifted
      <4> QED
        BY <3>4, <4>1, <4>2, <4>3
    <3>5. CASE a # "ec" /\ a # "pe"
      <4>1. Under(D, a) = Under(P, a)
        <5>1. KeyOf(a) \in Basic
          BY <3>5, KeyBasic
        <5> QED
          BY <2>7, <3>5, <5>1 DEF Under
      <4>2. arr[a] = first[a]
        BY <2>10, <2>12, <3>5
      <4>3. first[a] = load_data_partial(a, Under(P, a))
        BY <1>5, <2>1, <3>5 DEF first
      <4> QED
        BY <3>2, <3>5, <4>1, <4>2, <4>3
    <3> QED
      BY <3>3, <3>4, <3>5
  <2> QED
    BY <2>7, <2>8, <2>11, <2>13, GoodTree
<1> QED
  BY <1>6, <1>7

-----------------------------------------------------------------------------
(***************************************************************************)
(* Where the trees go                                                      *)
(***************************************************************************)
\* Every entry is in the block of a rank.
LEMMA Covered ==
  ASSUME NEW n \in Nat, NEW d \in Parts, Tiles(d, n), NEW i \in 1 .. n
  PROVE  \E r \in Rank : d[r][1] < i /\ i <= d[r][2]
<1> DEFINE T == {r \in Rank : i <= d[r][2]}
<1>1. \A r \in Rank : d[r][1] \in Nat /\ d[r][2] \in Nat /\ d[r][1] <= d[r][2]
  BY BoundsInside
<1>2. NRank - 1 \in T
  <2>1. NRank - 1 \in Rank /\ d[NRank - 1][2] = n
    BY NRankAssumption DEF Rank, Tiles
  <2>2. i <= n
    OBVIOUS
  <2> QED
    BY <2>1, <2>2
<1>3. T \in SUBSET Nat
  BY NRankAssumption DEF Rank
<1>4. PICK r \in T : \A q \in T : r <= q
  BY <1>2, <1>3, LeastNat
<1>5. r \in Rank /\ i <= d[r][2]
  BY <1>4
<1>6. d[r][1] < i
  <2>1. CASE r = 0
    <3>1. d[r][1] = 0
      BY <2>1 DEF Tiles
    <3> QED
      BY <3>1
  <2>2. CASE r # 0
    <3>1. r - 1 \in Rank /\ d[r][1] = d[r - 1][2]
      BY <1>5, <2>2, NRankAssumption DEF Rank, Tiles
    <3> DEFINE q == r - 1
    <3>2. q \in Rank /\ ~(r <= q) /\ d[r][1] = d[q][2]
      BY <1>3, <1>4, <3>1
    <3> HIDE DEF q
    <3>3. q \notin T
      BY <1>4, <3>2
    <3>4. ~(i <= d[q][2])
      BY <3>2, <3>3
    <3> QED
      BY <1>1, <3>2, <3>4
  <2> QED
    BY <2>1, <2>2
<1> QED
  BY <1>5, <1>6

\* Of some writers one is the last.
LEMMA LastWriter ==
  ASSUME NEW order \in Bijection(Rank, Rank), NEW W \in SUBSET Rank, W # {}
  PROVE  \E r \in W : \A q \in W : order[q] <= order[r]
<1>1. order \in [Rank -> Rank]
  BY DEF Bijection, Injection
<1>2. \A r \in W : order[r] \in Nat /\ order[r] < NRank /\ NRank \in Nat
  BY <1>1, NRankAssumption DEF Rank
<1> DEFINE T == {NRank - order[r] : r \in W}
<1>3. T \in SUBSET Nat /\ T # {}
  BY <1>2
<1>4. PICK x \in T : \A y \in T : x <= y
  BY <1>3, LeastNat
<1>5. PICK r \in W : x = NRank - order[r]
  BY <1>4
<1>6. ASSUME NEW q \in W PROVE order[q] <= order[r]
  <2>1. NRank - order[q] \in T
    OBVIOUS
  <2>2. NRank - order[r] <= NRank - order[q]
    BY <1>4, <1>5, <2>1
  <2> QED
    BY <1>2, <2>2
<1> QED
  BY <1>6

\* An entry of a block is the one of the global array at its place.
LEMMA BlockEntry ==
  ASSUME zone \in Zones, NEW a \in ArraysOfZone, NEW d \in Parts, Tiles(d, EntriesOf(a)),
         NEW r \in Rank, NEW i \in Int,
         d[r][1] < i, i <= d[r][2] + (IF a = "eso" THEN 1 ELSE 0)
  PROVE  Blk(d, a)[r][i - d[r][1]] = Content[a][i]
<1> DEFINE s == Content[a]
           lo == d[r][1]
           z == IF a = "eso" THEN 1 ELSE 0
           hi == d[r][2] + z
           n == EntriesOf(a)
<1>1. n \in Nat /\ s \in Seq(Nat) /\ Len(s) = n + z /\ z \in {0, 1}
  BY ContentFacts
<1>2. lo \in 0 .. n /\ d[r][2] \in 0 .. n /\ lo <= d[r][2]
  BY <1>1, BoundsInside
<1>3. Blk(d, a)[r] = SubSeq(s, lo + 1, hi)
  BY DEF Blk
<1>4. hi \in Nat /\ hi <= Len(s) /\ lo \in Nat /\ lo < i /\ i <= hi
  BY <1>1, <1>2
<1> HIDE DEF s, lo, z, hi, n
<1> DEFINE l == lo + 1
           m == hi - l + 1
           j == i - lo
<1>5. \A k \in l .. hi : s[k] \in Nat
  <2>1. s \in [1 .. Len(s) -> Nat] /\ Len(s) \in Nat
    BY <1>1, LenProperties
  <2>2. \A k \in l .. hi : k \in 1 .. Len(s)
    BY <1>4, <2>1
  <2> QED
    BY <2>1, <2>2
<1>6. l \in Int /\ hi \in Int /\ j \in 1 .. m /\ l + j - 1 = i
  BY <1>4
<1> HIDE DEF l, j
<1>7. \A k \in 1 .. m : SubSeq(s, l, hi)[k] = s[l + k - 1]
  BY <1>5, <1>6, SubSeqProperties
<1>8. SubSeq(s, l, hi)[j] = s[i]
  BY <1>6, <1>7
<1> QED
  BY <1>3, <1>8 DEF s, lo, l, j

\* Whatever the order of the writers, the file gets the global array.
LEMMA WriteIsContent ==
  ASSUME zone \in Zones, Good(tree), NEW order \in Bijection(Rank, Rank), NEW a \in ArraysOfZone
  PROVE  write_data_partial(a, order) = Content[a]
<1> DEFINE distri == FilterDistribution(tree.dist, a)
           writers(i) == {r \in Rank : i \in distri[r][1] + 1 .. distri[r][1] + dn_idx(a, distri, r)}
           last(i) == CHOOSE r \in writers(i) : \A q \in writers(i) : order[q] <= order[r]
           z == IF a = "eso" THEN 1 ELSE 0
           total == distri[0][3] + z
           w == write_data_partial(a, order)
           n == EntriesOf(a)
<1>1. w = [i \in 1 .. total |-> IF writers(i) = {} THEN -1 ELSE tree.arr[a][last(i)][i - distri[last(i)][1]]]
  BY DEF write_data_partial
<1>2. IsDist(tree.dist) /\ tree.arr = Blocks(tree.dist)
  BY DEF Good, Tree
<1>3. distri \in Parts /\ Tiles(distri, n)
  BY <1>2, FilterIs, UnderTiles
<1>4. tree.arr[a] = Blk(distri, a)
  BY <1>2 DEF Blocks
<1>5. n \in Nat /\ Content[a] \in Seq(Nat) /\ Len(Content[a]) = n + z /\ z \in {0, 1}
  BY ContentFacts
<1> HIDE DEF distri, n
<1>6. distri[0][3] = n
  BY <1>3, NRankAssumption DEF Tiles, Rank
<1>7. ASSUME NEW r \in Rank
      PROVE  /\ distri[r][1] \in Nat /\ distri[r][2] \in Nat /\ distri[r][1] <= distri[r][2]
             /\ distri[r][1] + dn_idx(a, distri, r) = distri[r][2] + z
  <2>1. distri[r][1] \in Nat /\ distri[r][2] \in Nat /\ distri[r][1] <= distri[r][2]
    BY <1>3, <1>5, BoundsInside
  <2> DEFINE x == distri[r][1]
             y == distri[r][2]
  <2>2. x \in Nat /\ y \in Nat /\ dn_idx(a, distri, r) = y - x + z
    BY <2>1 DEF dn_idx
  <2> HIDE DEF x, y, z
  <2>3. x + (y - x + z) = y + z
    BY <1>5, <2>2
  <2> QED
    BY <2>1, <2>2, <2>3 DEF x, y
<1> HIDE DEF z
<1>8. ASSUME NEW i \in 1 .. total PROVE w[i] = Content[a][i]
  <2>0. i \in Int /\ 1 <= i /\ i <= n + z
    BY <1>5, <1>6
  <2>1. \A r \in Rank : r \in writers(i) <=> distri[r][1] < i /\ i <= distri[r][2] + z
    BY <1>5, <1>7, <2>0
  <2>2. \E r \in Rank : distri[r][1] < i /\ i <= distri[r][2] + z
    <3>1. CASE i <= n
      <4>1. i \in 1 .. n
        BY <2>0, <3>1, <1>5
      <4>2. PICK r \in Rank : distri[r][1] < i /\ i <= distri[r][2]
        BY <1>3, <1>5, <4>1, Covered
      <4>3. i <= distri[r][2] + z
        BY <1>5, <1>7, <2>0, <4>2
      <4> QED
        BY <4>2, <4>3
    <3>2. CASE ~(i <= n)
      <4> DEFINE r == NRank - 1
      <4>1. r \in Rank /\ distri[r][2] = n
        BY <1>3, NRankAssumption DEF Rank, Tiles
      <4> HIDE DEF r
      <4>2. distri[r][1] < i /\ i <= distri[r][2] + z
        BY <1>5, <1>7, <2>0, <3>2, <4>1
      <4> QED
        BY <4>1, <4>2
    <3> QED
      BY <3>1, <3>2
  <2> DEFINE W == writers(i)
             v == last(i)
  <2>3. W \in SUBSET Rank /\ W # {}
    BY <2>1, <2>2
  <2>4. v = CHOOSE r \in W : \A q \in W : order[q] <= order[r]
    OBVIOUS
  <2>5. w[i] = tree.arr[a][v][i - distri[v][1]]
    BY <1>1, <2>3
  <2>6. \A r \in W : r \in Rank /\ distri[r][1] < i /\ i <= distri[r][2] + z
    BY <2>1
  <2> HIDE DEF W, v, writers, last
  <2>7. v \in W
    BY <2>3, <2>4, LastWriter
  <2>8. v \in Rank /\ distri[v][1] < i /\ i <= distri[v][2] + z
    BY <2>6, <2>7
  <2>9. Blk(distri, a)[v][i - distri[v][1]] = Content[a][i]
    BY <1>3, <2>0, <2>8, BlockEntry DEF n, z
  <2> QED
    BY <1>4, <2>5, <2>9
<1>9. w = [i \in 1 .. total |-> w[i]]
  BY <1>1
<1>10. Content[a] = [i \in 1 .. total |-> Content[a][i]]
  <2>1. Content[a] \in [1 .. total -> Nat]
    BY <1>5, <1>6, LenProperties
  <2> QED
    BY <2>1
<1> HIDE DEF w
<1>11. w = Content[a]
  BY <1>8, <1>9, <1>10
<1> QED
  BY <1>11 DEF w

\* The blocks of a good tree are as long as the slabs to write.
LEMMA CanAlwaysWrite ==
  ASSUME zone \in Zones, Good(tree), NEW a \in ArraysOfZone
  PROVE  CanWrite(a)
<1> DEFINE d == FilterDistribution(tree.dist, a)
           z == IF a = "eso" THEN 1 ELSE 0
           n == EntriesOf(a)
           s == Content[a]
<1>1. IsDist(tree.dist) /\ tree.arr = Blocks(tree.dist)
  BY DEF Good, Tree
<1>2. d \in Parts /\ Tiles(d, n) /\ tree.arr[a] = Blk(d, a)
  BY <1>1, FilterIs, UnderTiles DEF Blocks
<1>3. n \in Nat /\ s \in Seq(Nat) /\ Len(s) = n + z /\ z \in {0, 1}
  BY ContentFacts
<1>4. ASSUME NEW r \in Rank PROVE Len(tree.arr[a][r]) >= dn_idx(a, d, r)
  <2> DEFINE lo == d[r][1]
             y == d[r][2]
             hi == y + z
             l == lo + 1
  <2>1. lo \in 0 .. n /\ y \in 0 .. n /\ lo <= y
    BY <1>2, <1>3, BoundsInside
  <2>2. tree.arr[a][r] = SubSeq(s, l, hi) /\ dn_idx(a, d, r) = y - lo + z
    BY <1>2 DEF Blk, dn_idx
  <2> HIDE DEF lo, y, z, s, n
  <2>3. \A k \in l .. hi : s[k] \in Nat
    <3>1. s \in [1 .. Len(s) -> Nat] /\ Len(s) \in Nat
      BY <1>3, LenProperties
    <3>2. \A k \in l .. hi : k \in 1 .. Len(s)
      BY <1>3, <2>1
    <3> QED
      BY <3>1, <3>2
  <2>4. l \in Int /\ hi \in Int
    BY <1>3, <2>1
  <2>5. (IF l <= hi THEN hi - l + 1 ELSE 0) = y - lo + z /\ y - lo + z \in Int
    BY <1>3, <2>1
  <2> HIDE DEF l, hi
  <2>6. Len(SubSeq(s, l, hi)) = IF l <= hi THEN hi - l + 1 ELSE 0
    BY <2>3, <2>4, SubSeqProperties
  <2> QED
    BY <2>2, <2>5, <2>6
<1> QED
  BY <1>4 DEF CanWrite

\* The mesh as a function on its arrays.
LEMMA ContentIs == Content = [a \in ArraysOfZone |-> Content[a]]
<1> DEFINE entries(a) == CASE a \in Containers -> [i \in 1 .. SizeOf(Extent(a)) |-> i]
                           [] a = "eso" -> [i \in 1 .. NElement + 1 |-> Offset[i - 1]]
                           [] a = "ec" -> [i \in 1 .. Offset[NElement] |-> i]
                           [] a = "pe" -> [i \in 1 .. NElement |-> IF HasOffset THEN NElement + i ELSE i]
<1>1. Content = [a \in ArraysOfZone |-> entries(a)]
  BY DEF Content
<1> HIDE DEF entries
<1> QED
  BY <1>1

\* What redistribute_zone makes of a good tree is good.
LEMMA RedistributeGood ==
  ASSUME zone \in Zones, NEW t, Good(t), NEW policy \in Policy
  PROVE  Good(redistribute_zone(t, policy))
<1> DEFINE N == NewDist(t.dist, policy)
<1>1. redistribute_zone(t, policy) = Tree(N, Blocks(N)) /\ IsDist(N)
  BY ZoneMoves
<1> HIDE DEF N
<1>2. Tree(N, Blocks(N)).dist = N
  BY DEF Tree
<1> QED
  BY <1>1, <1>2 DEF Good

\* The gathered tree holds the mesh on target.
LEMMA GatheredIsContent ==
  ASSUME zone \in Zones, Good(tree), NEW target \in Rank, NEW gathered,
         gathered = redistribute_zone(tree, [type |-> "gather", rank |-> target])
  PROVE  /\ gathered.ok /\ CanReshape
         /\ [a \in DOMAIN gathered.arr |-> gathered.arr[a][target]] = Content
<1> DEFINE p == [type |-> "gather", rank |-> target]
           D == tree.dist
           N == NewDist(D, p)
<1>1. p \in Policy /\ \A n : GatheredOn(interpret_policy(p, n), target, n)
  BY GatherPolicy
<1>2. gathered = Tree(N, Blocks(N)) /\ IsDist(N)
  BY <1>1, ZoneMoves
<1>3. Target(D, N, p)
  BY <1>1 DEF Target, Good
<1> HIDE DEF p, D, N
<1>4. \A k \in Basic : GatheredOn(N[k], target, SizeOf(k))
  <2>1. \A k \in DOMAIN D \ {EC} : N[k] = interpret_policy(p, SizeOf(k))
    BY <1>3, TargetFacts
  <2>2. Basic \subseteq DOMAIN D \ {EC}
    BY <1>3, TargetFacts DEF Basic
  <2> QED
    BY <1>1, <2>1, <2>2
<1>5. gathered.ok = TRUE /\ gathered.arr = [a \in ArraysOfZone |-> Blk(Under(N, a), a)]
  BY <1>2, BlocksUnder DEF Tree
<1>6. ASSUME NEW a \in ArraysOfZone PROVE gathered.arr[a][target] = Content[a]
  <2>1. GatheredOn(Under(N, a), target, EntriesOf(a))
    BY <1>2, <1>4, UnderGathered
  <2>2. Blk(Under(N, a), a)[target] = Content[a]
    BY <2>1, GatheredBlocks
  <2> QED
    BY <1>5, <2>2
<1>7. CanReshape
  <2>1. /\ zone.extent["sol"] # "PointRange"
        /\ zone.structured /\ zone.extent["sol"] = "PointList" => zone.length["sol"] = zone.size["Cell"]
    BY ZoneFacts
  <2> QED
    BY <2>1 DEF CanReshape, HasPatch
<1>8. DOMAIN gathered.arr = ArraysOfZone
  BY <1>5
<1> QED
  BY <1>5, <1>6, <1>7, <1>8, ContentIs

-----------------------------------------------------------------------------
(***************************************************************************)
(* The invariant                                                           *)
(***************************************************************************)
\* At the start the file and the full tree hold the mesh, and there is no tree.
LEMMA InitLife == Init => LifeInv
BY DEF Init, LifeInv

\* The mesh is the one of the zone, which no operation changes.
LEMMA SameContent ==
  ASSUME zone' = zone
  PROVE  /\ Content' = Content /\ LocalIndexing(Content)' = LocalIndexing(Content)
         /\ \A t : Good(t)' <=> Good(t)
<1>1. NElement' = NElement /\ HasOffset' = HasOffset /\ HasElements' = HasElements
  BY DEF NElement, HasOffset, HasElements
<1>2. Offset' = Offset
  BY <1>1 DEF Offset
<1>3. /\ \A k : SizeOf(k)' = SizeOf(k)
      /\ \A c : Extent(c)' = Extent(c)
      /\ \A c : HasPatch(c)' = HasPatch(c)
      /\ \A c : HasArray(c)' = HasArray(c)
      /\ KeysOfZone' = KeysOfZone
  BY <1>1, <1>2 DEF SizeOf, Extent, HasPatch, HasArray, KeysOfZone
<1>4. ArraysOfZone' = ArraysOfZone
  BY <1>1, <1>3 DEF ArraysOfZone
<1>5. Content' = Content
  <2> DEFINE Cont(a) == [i \in 1 .. SizeOf(Extent(a)) |-> i]
             Eso == [i \in 1 .. NElement + 1 |-> Offset[i - 1]]
             Ec == [i \in 1 .. Offset[NElement] |-> i]
             Pe == [i \in 1 .. NElement |-> IF HasOffset THEN NElement + i ELSE i]
             Entry(a) == CASE a \in Containers -> Cont(a) [] a = "eso" -> Eso
                           [] a = "ec" -> Ec [] a = "pe" -> Pe
  <2>1. Content = [a \in ArraysOfZone |-> Entry(a)]
    BY DEF Content
  <2>2. Content' = [a \in ArraysOfZone |-> Entry(a)]'
    BY DEF Content
  <2>3. \A a : Cont(a)' = Cont(a)
    BY <1>3
  <2>4. Eso' = Eso /\ Ec' = Ec /\ Pe' = Pe
    BY <1>1, <1>2
  <2>5. \A a \in ArraysOfZone : a \in Containers \/ a \in {"eso", "ec", "pe"}
    BY DEF ArraysOfZone
  <2> HIDE DEF Cont, Eso, Ec, Pe
  <2>6. \A a \in ArraysOfZone : Entry(a)' = Entry(a)
    BY <2>3, <2>4, <2>5 DEF Containers, Subsets
  <2> HIDE DEF Entry
  <2> QED
    BY <1>4, <2>1, <2>2, <2>6
<1>6. LocalIndexing(Content)' = LocalIndexing(Content)
  BY <1>1, <1>5 DEF LocalIndexing
<1>7. Required' = Required
  BY <1>1, <1>3 DEF Required
<1>8. \A D : IsDist(D)' <=> IsDist(D)
  BY <1>1, <1>2, <1>3, <1>7 DEF IsDist, OffsetBounds
<1>9. \A D, a : FilterDistribution(D, a)' = FilterDistribution(D, a)
  BY <1>1, <1>3 DEF FilterDistribution
<1>10. \A d, a : Blk(d, a)' = Blk(d, a)
  BY <1>5 DEF Blk
<1>11. \A D : Blocks(D)' = Blocks(D)
  BY <1>4, <1>9, <1>10 DEF Blocks
<1>12. \A t : Good(t)' <=> Good(t)
  BY <1>8, <1>11 DEF Good
<1> QED
  BY <1>5, <1>6, <1>12

\* Every operation keeps the invariant: each of them builds a good tree, or leaves it as
\* it is and writes the mesh to the file or to the full tree.
LEMMA NextLife == LifeInv /\ [Next]_vars => LifeInv'
<1> SUFFICES ASSUME LifeInv, [Next]_vars PROVE LifeInv'
  OBVIOUS
<1>1. /\ zone \in Zones /\ (tree = NoTree \/ Good(tree)) /\ FileHolds /\ full.arr = Content
  BY DEF LifeInv, FileHolds
<1>2. ASSUME zone' = zone, tree' = NoTree \/ Good(tree'), full'.arr = Content,
             file' \in {Content, LocalIndexing(Content)}
      PROVE  LifeInv'
  <2>1. /\ Content' = Content /\ LocalIndexing(Content)' = LocalIndexing(Content)
        /\ \A t : Good(t)' <=> Good(t)
    BY <1>2, SameContent
  <2>2. NoTree' = NoTree
    BY DEF NoTree, Tree
  <2>3. Good(tree)' <=> Good(tree')
    BY <1>2, <2>1
  <2> QED
    BY <1>1, <1>2, <2>1, <2>2, <2>3 DEF LifeInv
<1>3. Built => Good(tree)
  BY <1>1 DEF Built
<1>4. CASE file_to_dist_tree
  <2>1. Good(tree')
    BY <1>1, <1>4, LoadGood DEF file_to_dist_tree
  <2> QED
    BY <1>1, <1>2, <1>4, <2>1 DEF file_to_dist_tree, FileHolds
<1>5. ASSUME NEW owner \in Rank, full_to_dist_tree(owner) PROVE LifeInv'
  <2>1. Good(_broadcast_full_to_dist(owner))
    BY <1>1, BroadcastGood
  <2>2. Good(tree')
    BY <1>1, <1>5, <2>1, UniformPolicy, RedistributeGood DEF full_to_dist_tree
  <2> QED
    BY <1>1, <1>2, <1>5, <2>2 DEF full_to_dist_tree, FileHolds
<1>6. CASE full_to_dist_tree_copies
  <2>1. Good(tree')
    BY <1>1, <1>6, CopiesGood DEF full_to_dist_tree_copies
  <2> QED
    BY <1>1, <1>2, <1>6, <2>1 DEF full_to_dist_tree_copies, FileHolds
<1>7. ASSUME NEW policy \in Policy, redistribute_tree(policy) PROVE LifeInv'
  <2>1. Good(tree')
    BY <1>1, <1>3, <1>7, RedistributeGood DEF redistribute_tree
  <2> QED
    BY <1>1, <1>2, <1>7, <2>1 DEF redistribute_tree, FileHolds
<1>8. CASE dist_tree_to_file
  <2>1. Good(tree) /\ zone' = zone /\ full' = full
    BY <1>3, <1>8 DEF dist_tree_to_file
  <2>2. Filtered = ArraysOfZone
    BY <1>1, AllFiltered
  <2>3. \A a \in Filtered : CanWrite(a)
    BY <1>1, <2>1, <2>2, CanAlwaysWrite
  <2>4. PICK order \in Bijection(Rank, Rank) : file' = [a \in Filtered |-> write_data_partial(a, order)]
    BY <1>8, <2>3 DEF dist_tree_to_file
  <2>5. tree' = tree
    BY <1>8, <2>3 DEF dist_tree_to_file
  <2>6. \A a \in ArraysOfZone : write_data_partial(a, order) = Content[a]
    BY <1>1, <2>1, WriteIsContent
  <2>7. file' = Content
    BY <2>2, <2>4, <2>6, ContentIs
  <2> QED
    BY <1>1, <1>2, <2>1, <2>5, <2>7
<1>9. ASSUME NEW target \in Rank, dist_to_full_tree(target) PROVE LifeInv'
  <2> DEFINE gathered == redistribute_zone(tree, [type |-> "gather", rank |-> target])
  <2>1. Good(tree) /\ zone' = zone /\ file' = file
    BY <1>3, <1>9 DEF dist_to_full_tree
  <2>2. /\ gathered.ok /\ CanReshape
        /\ [a \in DOMAIN gathered.arr |-> gathered.arr[a][target]] = Content
    BY <1>1, <2>1, GatheredIsContent
  <2>3. /\ full' = [arr |-> [a \in DOMAIN gathered.arr |-> gathered.arr[a][target]],
                    dist |-> clean_distribution_info(gathered.dist)]
        /\ tree' = tree
    BY <1>9, <2>2 DEF dist_to_full_tree
  <2> HIDE DEF gathered
  <2>4. full'.arr = Content
    BY <2>2, <2>3
  <2> QED
    BY <1>1, <1>2, <2>1, <2>3, <2>4 DEF FileHolds
<1>10. CASE UNCHANGED vars
  BY <1>1, <1>2, <1>10 DEF vars, FileHolds
<1> QED
  BY <1>4, <1>5, <1>6, <1>7, <1>8, <1>9, <1>10 DEF Next

\* The facts about the tree that the properties need.
LEMMA TreeFacts ==
  ASSUME LifeInv
  PROVE  \/ tree = NoTree
         \/ /\ IsDist(tree.dist) /\ tree.ok = TRUE
            /\ tree.arr = [a \in ArraysOfZone |-> Blk(FilterDistribution(tree.dist, a), a)]
            /\ tree.arr = [a \in ArraysOfZone |-> Blk(Under(tree.dist, a), a)]
<1>1. zone \in Zones /\ (tree = NoTree \/ Good(tree))
  BY DEF LifeInv
<1>2. CASE Good(tree)
  <2>1. IsDist(tree.dist) /\ tree.ok = TRUE /\ tree.arr = Blocks(tree.dist)
    BY <1>2 DEF Good, Tree
  <2> QED
    BY <1>1, <2>1, BlocksUnder DEF Blocks
<1> QED
  BY <1>1, <1>2

\* In the invariant no exception was raised.
LEMMA LifeNoException == LifeInv => NoException
<1> SUFFICES ASSUME LifeInv PROVE tree.ok
  BY DEF NoException
<1>1. tree = NoTree \/ tree.ok = TRUE
  BY TreeFacts
<1>2. NoTree.ok = TRUE
  BY DEF NoTree, Tree
<1> QED
  BY <1>1, <1>2

\* The blocks of the invariant are the ones of the property.
LEMMA LifeBlocks == LifeInv => BlocksHold
<1> SUFFICES ASSUME LifeInv PROVE BlocksHold
  OBVIOUS
<1>1. CASE tree = NoTree
  BY <1>1 DEF NoTree, Tree, BlocksHold
<1>2. CASE tree.arr = [a \in ArraysOfZone |-> Blk(FilterDistribution(tree.dist, a), a)]
  <2>1. ASSUME NEW a \in DOMAIN tree.arr, NEW r \in Rank
        PROVE  tree.arr[a][r] = Blk(FilterDistribution(tree.dist, a), a)[r]
    BY <1>2
  <2>2. ASSUME NEW d, NEW a, NEW r \in Rank
        PROVE  Blk(d, a)[r] = SubSeq(Content[a], d[r][1] + 1, d[r][2] + (IF a = "eso" THEN 1 ELSE 0))
    BY DEF Blk
  <2> QED
    BY <2>1, <2>2 DEF BlocksHold
<1> QED
  BY <1>1, <1>2, TreeFacts

\* The distributions of a good tree have their types.
LEMMA LifeTypes == LifeInv => TypeOK
<1> SUFFICES ASSUME LifeInv PROVE TypeOK
  OBVIOUS
<1>1. zone \in Zones
  BY DEF LifeInv
<1>2. CASE tree = NoTree
  BY <1>1, <1>2 DEF NoTree, Tree, TypeOK
<1>3. ASSUME IsDist(tree.dist), tree.ok = TRUE,
             tree.arr = [a \in ArraysOfZone |-> Blk(Under(tree.dist, a), a)]
      PROVE  TypeOK
  <2>1. DOMAIN tree.dist \subseteq Keys
    BY <1>1, <1>3 DEF IsDist, Required, KeysOfZone, EC, Keys, ZoneKeys, Subsets
  <2>2. DOMAIN tree.arr \subseteq Arrays
    BY <1>3 DEF ArraysOfZone, Arrays
  <2>3. \A a \in DOMAIN tree.arr : DOMAIN tree.arr[a] = Rank
    BY <1>3 DEF Blk
  <2>4. ASSUME NEW d \in Parts PROVE d \in [Rank -> Seq(Nat)]
    <3>1. d \in [Rank -> Nat \X Nat \X Nat]
      BY <2>4 DEF Parts
    <3>2. \A x \in Nat \X Nat \X Nat : x \in Seq(Nat)
      <4> TAKE x \in Nat \X Nat \X Nat
      <4>1. PICK a \in Nat, b \in Nat, c \in Nat : x = <<a, b, c>>
        OBVIOUS
      <4>2. <<a, b, c>> \in Seq(Nat)
        OBVIOUS
      <4> QED
        BY <4>1, <4>2, Zenon
    <3> QED
      BY <3>1, <3>2
  <2>5. \A k \in DOMAIN tree.dist : tree.dist[k] \in [Rank -> Seq(Nat)]
    BY <1>3, <2>4 DEF IsDist
  <2> QED
    BY <1>1, <1>3, <2>1, <2>2, <2>3, <2>5 DEF TypeOK
<1> QED
  BY <1>2, <1>3, TreeFacts

\* The bounds of the connectivity are the offsets of the elements that a rank has.
LEMMA LifeOffsets == LifeInv => OffsetsBoundConnectivity
<1> SUFFICES ASSUME LifeInv, Built, HasOffset,
                    NEW r \in Rank
             PROVE  LET eso == tree.arr["eso"][r]
                    IN  /\ tree.dist["ElementConnectivity"][r][1] = eso[1]
                        /\ tree.dist["ElementConnectivity"][r][2] = eso[Len(eso)]
                        /\ Len(tree.arr["ec"][r]) = eso[Len(eso)] - eso[1]
  BY DEF OffsetsBoundConnectivity
<1> DEFINE D == tree.dist
           d == D["Element"]
           e == Blk(d, "eso")[r]
<1>1. /\ zone \in Zones /\ IsDist(D)
      /\ tree.arr = [a \in ArraysOfZone |-> Blk(Under(D, a), a)]
  BY TreeFacts DEF LifeInv, Built
<1>2. {"eso", "ec"} \subseteq ArraysOfZone
  BY DEF ArraysOfZone, HasOffset, HasElements
<1>3. Under(D, "eso") = d /\ Under(D, "ec") = D[EC]
  BY DEF Under, KeyOf, Containers, Subsets
<1>4. d \in Parts /\ Tiles(d, NElement)
  <2>1. "Element" \in DOMAIN D
    BY <1>1 DEF IsDist, Required, HasElements, HasOffset
  <2>2. SizeOf("Element") = NElement
    BY DEF SizeOf, ZoneKeys, Subsets
  <2> QED
    BY <1>1, <2>1, <2>2 DEF IsDist
<1>5. D[EC] = OffsetBounds(d)
  BY <1>1 DEF IsDist
<1>6. D[EC] \in Parts /\ Tiles(D[EC], EntriesOf("ec"))
  BY <1>1, <1>2, <1>3, UnderTiles
<1>7. tree.arr["eso"][r] = e /\ tree.arr["ec"] = Blk(D[EC], "ec")
  BY <1>1, <1>2, <1>3
<1>8. e[1] = Offset[d[r][1]] /\ e[Len(e)] = Offset[d[r][2]]
  BY <1>1, <1>4, OffsetBlocks
<1>9. Len(Blk(D[EC], "ec")[r]) = D[EC][r][2] - D[EC][r][1]
  BY <1>1, <1>2, <1>6, PlainBlocks
<1>10. D[EC][r] = <<Offset[d[r][1]], Offset[d[r][2]], Offset[NElement]>>
  BY <1>5 DEF OffsetBounds
<1> HIDE DEF D, d, e
<1>11. D[EC][r][1] = e[1] /\ D[EC][r][2] = e[Len(e)]
  BY <1>8, <1>10
<1> QED
  BY <1>7, <1>9, <1>11 DEF D, EC

\* The distributions of the invariant are consecutive blocks.
LEMMA LifeDistributions == LifeInv => DistributionsHold
<1> SUFFICES ASSUME LifeInv PROVE DistributionsHold
  OBVIOUS
<1>1. DistributionsTile
  <2>1. CASE tree = NoTree
    BY <2>1 DEF NoTree, Tree, DistributionsTile
  <2>2. CASE IsDist(tree.dist)
    BY <2>2 DEF IsDist, DistributionsTile
  <2> QED
    BY <2>1, <2>2, TreeFacts
<1> QED
  BY <1>1, LifeTypes, LifeOffsets DEF DistributionsHold

\* The file and the full tree of the invariant hold the mesh.
LEMMA LifeMesh == LifeInv => MeshKept
BY DEF LifeInv, MeshKept, FileHoldsMesh, FullHoldsMesh

-----------------------------------------------------------------------------
(***************************************************************************)
(* The theorems                                                            *)
(***************************************************************************)
\* Reads, cuts, redistributions, writes and gathers keep LifeInv.
THEOREM LifeIsInvariant == Spec => []LifeInv
<1> QED
  BY InitLife, NextLife, PTL DEF Spec

\* No sequence of load, cut, redistribution, write and gather finds a distribution that is
\* missing or a block of another length than the counts of its exchange (redistribute.py,
\* hdf filters), whatever the number of ranks and the supported zone.
THEOREM NeverRaises == Spec => []NoException
<1> QED
  BY LifeIsInvariant, LifeNoException, PTL

\* Every :CGNS#Distribution that the operations write cuts its global size into
\* consecutive blocks, and the one of a heterogeneous connectivity is the offsets of the
\* first and of the last element of the rank.
THEOREM DistributionsAlwaysHold == Spec => []DistributionsHold
<1> QED
  BY LifeIsInvariant, LifeDistributions, PTL

\* After any sequence of operations each rank has, of each array, the block of the first
\* mesh that the distribution of the array gives to it.
THEOREM BlocksAlwaysHold == Spec => []BlocksHold
<1> QED
  BY LifeIsInvariant, LifeBlocks, PTL

\* Whatever the order of the writers and the rank that gathers, the file and the full tree
\* hold the first mesh: no operation loses, repeats or moves an entry.
THEOREM MeshAlwaysKept == Spec => []MeshKept
<1> QED
  BY LifeIsInvariant, LifeMesh, PTL
=====
