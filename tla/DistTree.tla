------------------------------ MODULE DistTree ------------------------------
(***************************************************************************)
(* The life of a distributed tree with one zone: read from a file or cut   *)
(* from a full tree, redistributed under any policy, written, gathered.    *)
(* All these operations are collective: the ranks go through the same      *)
(* sequence of exchanges, so an operation is one action, and the exchange  *)
(* itself (module BlockToBlock) is the function block_to_block.            *)
(*                                                                         *)
(* A tree is a record: dist[k] is the :CGNS#Distribution found at k, a     *)
(* partial distribution (one triple per rank); arr[a] is the array a, one  *)
(* block per rank; ok tells that no exception was raised.  DOMAIN dist and *)
(* DOMAIN arr are the distributions and the arrays that exist.             *)
(*                                                                         *)
(* A container stands for all its arrays, PointList included, since they   *)
(* are exchanged alike; an entry is identified by its place in the global  *)
(* array.                                                                  *)
(***************************************************************************)
EXTENDS Distribution, SequencesExt

CONSTANTS
  Zones,       \* the meshes considered, see ZoneOK
  Copied       \* the ones of which all the processes may have the full tree (owner=None)

Subsets == {"sol", "disc", "zsr", "bc", "bcds", "gc"}
Containers == Subsets \cup {"coords"}
Arrays == Containers \cup {"eso", "ec", "pe"}
ZoneKeys == {"Vertex", "Cell", "Face"}
Keys == ZoneKeys \cup Subsets \cup {"Element", "ElementConnectivity"}

(***************************************************************************)
(* A zone: structured or not; its sizes; the kind of its element section   *)
(* and the vertices of each element; and for each node that may be a       *)
(* subset, how it gives its extent (PointList, PointRange, none: it has    *)
(* the one of another node, absent: there is no such node) and its length. *)
(* A FlowSolution or DiscreteData without extent is CellCenter; a          *)
(* ZoneSubRegion or BCDataSet without extent is related to the BC.         *)
(***************************************************************************)
ZoneOK(z) ==
  /\ z.structured \in BOOLEAN /\ z.dim \in {2, 3}
  /\ z.size \in [ZoneKeys -> Nat]
  /\ z.elt \in {"NGON_n", "TRI_3", "none"}
  /\ z.n_vtx \in Nat /\ z.faces \in Seq(Nat)
  /\ z.elt = "TRI_3" => \A i \in 1 .. Len(z.faces) : z.faces[i] = z.n_vtx
  /\ z.extent \in [Subsets -> {"PointList", "PointRange", "none", "absent"}]
  /\ z.extent["bc"] # "none" /\ z.extent["gc"] # "none"
  /\ z.length \in [Subsets -> Nat]

(***************************************************************************)
(* The zones that the operations support.  Arrays of DiscreteData_t are    *)
(* neither read nor written; a solution with a PointRange is moved with    *)
(* the cells; the faces of a structured zone get a distribution in three   *)
(* dimensions only, and redistribute_zone asks for it in all; a solution   *)
(* of a structured zone is reshaped to the cells; what is related to the   *)
(* BC, and the data sets in it, need the BC.  With owner=None, a subregion *)
(* related to a PointList is cut wrong (see CutRelated).                   *)
(***************************************************************************)
Supported(z) ==
  /\ z.extent["disc"] = "absent" /\ z.extent["sol"] # "PointRange"
  /\ z.structured => z.dim = 3
  /\ z.structured /\ z.extent["sol"] = "PointList" => z.length["sol"] = z.size["Cell"]
  /\ z.extent["zsr"] = "none" \/ z.extent["bcds"] # "absent" => z.extent["bc"] # "absent"

SupportedCopies(z) == ~ (z.extent["zsr"] = "none" /\ z.extent["bc"] = "PointList")

ASSUME ZonesAssumption ==
  /\ \A z \in Zones : ZoneOK(z) /\ Supported(z)
  /\ Copied \subseteq Zones /\ \A z \in Copied : SupportedCopies(z)

VARIABLES
  zone,    \* the mesh
  file,    \* file[a]: the global array a in the CGNS file
  full,    \* the full tree: its global arrays and its leftover distributions
  tree     \* the distributed tree

vars == <<zone, file, full, tree>>

OnlyOn(f, S) == [x \in DOMAIN f \cap S |-> f[x]]

\* f where it is defined, and g elsewhere.
Over(f, g) == [x \in DOMAIN f \cup DOMAIN g |-> IF x \in DOMAIN f THEN f[x] ELSE g[x]]

Only(k, v) == [x \in {k} |-> v]

\* The node of which c has the extent: itself, or the one PT.Subset.ZSRExtent finds.
Extent(c) ==
  CASE c = "coords" -> "Vertex"
    [] c \in Subsets /\ zone.extent[c] # "none" -> c
    [] c \in {"zsr", "bcds"} /\ zone.extent[c] = "none" -> "bc"
    [] c \in {"sol", "disc"} /\ zone.extent[c] = "none" -> "Cell"

HasPatch(c) == zone.extent[c] \in {"PointList", "PointRange"}

\* BC_t and GridConnectivity_t nodes hold no other array than their PointList.
HasArray(c) ==
  \/ c = "coords"
  \/ c \in {"bc", "gc"} /\ zone.extent[c] = "PointList"
  \/ c \in Subsets \ {"bc", "gc"} /\ zone.extent[c] # "absent"

HasElements == zone.elt # "none"
HasOffset == zone.elt = "NGON_n"
NElement == Len(zone.faces)

\* Offset[i]: where the connectivity of element i + 1 starts.
Offset ==
  LET upto[i \in 0 .. NElement] == IF i = 0 THEN 0 ELSE upto[i - 1] + zone.faces[i]
  IN  upto

SizeOf(k) == CASE k \in ZoneKeys -> zone.size[k]
               [] k \in Subsets -> zone.length[k]
               [] k = "Element" -> NElement
               [] k = "ElementConnectivity" -> Offset[NElement]

ArraysOfZone ==
  {c \in Containers : HasArray(c)} \cup (IF HasOffset THEN {"eso"} ELSE {})
    \cup (IF HasElements THEN {"ec", "pe"} ELSE {})

\* The mesh that the file and the full tree hold at the start.
Content ==
  [a \in ArraysOfZone |->
    CASE a \in Containers -> [i \in 1 .. SizeOf(Extent(a)) |-> i]
      [] a = "eso" -> [i \in 1 .. NElement + 1 |-> Offset[i - 1]]
      [] a = "ec" -> [i \in 1 .. Offset[NElement] |-> i]
      [] a = "pe" -> [i \in 1 .. NElement |-> IF HasOffset THEN NElement + i ELSE i]]

\* Files older than the standard number the parent cells of the faces from 1, not after
\* the faces.
LocalIndexing(arr) ==
  IF HasOffset THEN [arr EXCEPT !["pe"] = [i \in DOMAIN @ |-> @[i] - NElement]] ELSE arr

Tree(dist, arr) == [dist |-> dist, arr |-> arr, ok |-> TRUE]
NoTree == Tree(<< >>, << >>)
Built == tree # NoTree

\* An exception ends the life of the tree.
Raised(t) == [dist |-> t.dist, arr |-> t.arr, ok |-> FALSE]
WithArrays(t, arr) == [dist |-> t.dist, arr |-> arr, ok |-> t.ok]
WithDistributions(t, dist) == [dist |-> dist, arr |-> t.arr, ok |-> t.ok]

-----------------------------------------------------------------------------
(***************************************************************************)
(* maia.io.distribution_tree                                               *)
(***************************************************************************)

\* From the loaded ElementStartOffset: its first and last values on each rank.
compute_connectivity_distribution(eso) ==
  [r \in Rank |-> <<eso[r][1], eso[r][Len(eso[r])], Offset[NElement]>>]

\* compute_zone_distribution, compute_elements_distribution (the section has no loaded
\* offset when arr has none) and compute_subset_distribution for every subset.
add_distribution_info(arr, policy) ==
  LET keys == {"Vertex", "Cell"}
                \cup (IF zone.structured /\ zone.dim = 3 THEN {"Face"} ELSE {})
                \cup (IF HasElements THEN {"Element"} ELSE {})
                \cup {c \in Subsets : HasPatch(c)}
      dist == [k \in keys |-> interpret_policy(policy, SizeOf(k))]
  IN  IF "eso" \in DOMAIN arr
      THEN Over(dist, Only("ElementConnectivity", compute_connectivity_distribution(arr["eso"])))
      ELSE dist

\* DiscreteData_t is not in the list of labels that are cleaned.
clean_distribution_info(dist) == OnlyOn(dist, {"disc"})

-----------------------------------------------------------------------------
(***************************************************************************)
(* maia.algo.dist.redistribute                                             *)
(***************************************************************************)

\* An exchange reads dn_in entries on each rank; equal distributions are copied whole.
CanExchange(t, a, old, new) ==
  \/ auto_expand_distri(old) = auto_expand_distri(new)
  \/ /\ a \in DOMAIN t.arr
     /\ \A r \in Rank : Len(t.arr[a][r]) >= old[r][2] - old[r][1]

\* The arrays S of t are exchanged from old to new.
Exchange(t, S, old, new) ==
  IF \A a \in S : CanExchange(t, a, old, new)
  THEN WithArrays(t, [a \in DOMAIN t.arr |->
         IF a \in S THEN block_to_block(t.arr[a], old, new) ELSE t.arr[a]])
  ELSE Raised(t)

SetDistribution(t, k, d) == WithDistributions(t, Over(Only(k, d), t.dist))

\* One level of redistribute_pl_node: the node c, the arrays S that follow it.
redistribute_pl_node(t, c, S, policy) ==
  IF c \notin DOMAIN t.dist THEN Raised(t)
  ELSE LET old == t.dist[c]
           new == interpret_policy(policy, old[0][3])
       IN  Exchange(SetDistribution(t, c, new), S, old, new)

Own(c) == {c} \cap ArraysOfZone

\* The last offset of a rank is the first one of the next rank having data.
redistribute_offset(eso, total, old, new) ==
  LET wo_last == block_to_block([r \in Rank |-> SubSeq(eso[r], 1, Len(eso[r]) - 1)], old, new)
      bound == [r \in 0 .. NRank |-> IF r = NRank THEN total
                                     ELSE IF wo_last[r] # << >> THEN wo_last[r][1] ELSE -1]
      next(r) == CHOOSE j \in r + 1 .. NRank :
                   bound[j] # -1 /\ \A i \in r + 1 .. j - 1 : bound[i] = -1
  IN  [r \in Rank |-> Append(wo_last[r], bound[next(r)])]

Times(distri, n) == [r \in Rank |-> [i \in 1 .. 3 |-> n * distri[r][i]]]

redistribute_elements_node(t, policy) ==
  LET old == t.dist["Element"]
      new == interpret_policy(policy, old[0][3])
      ec == "ElementConnectivity"
      eso == redistribute_offset(t.arr["eso"], t.dist[ec][0][3], old, new)
      new_ec == [r \in Rank |-> <<eso[r][1], eso[r][Len(eso[r])], t.dist[ec][r][3]>>]
      t1 == SetDistribution(t, "Element", new)
      t2 == Exchange(t1, {"pe"}, old, new)
  IN  IF HasOffset
      THEN LET t3 == WithArrays(t2, [t2.arr EXCEPT !["eso"] = eso])
           IN  Exchange(SetDistribution(t3, ec, new_ec), {"ec"}, t.dist[ec], new_ec)
      ELSE Exchange(t2, {"ec"}, Times(old, zone.n_vtx), Times(new, zone.n_vtx))

\* A solution without PointList goes with the cells (even if it has a PointRange).
redistribute_solution(t, c, old, new, policy) ==
  CASE zone.extent[c] = "absent" -> t
    [] zone.extent[c] = "PointList" -> redistribute_pl_node(t, c, Own(c), policy)
    [] OTHER -> Exchange(t, {c}, old, new)

\* Mutant: nothing is lent to a subregion related to the BC.
redistribute_subregion_Alone(t, policy) ==
  IF zone.extent["zsr"] = "absent" THEN t ELSE redistribute_pl_node(t, "zsr", Own("zsr"), policy)

\* Related to the BC: a copy of the distribution of the BC is lent to the subregion.
redistribute_subregion(t, policy) ==
  CASE zone.extent["zsr"] = "absent" -> t
    [] zone.extent["zsr"] = "none" ->
         LET lent == SetDistribution(t, "zsr", t.dist["bc"])
             moved == redistribute_pl_node(lent, "zsr", Own("zsr"), policy)
         IN  WithDistributions(moved, OnlyOn(moved.dist, Keys \ {"zsr"}))
    [] OTHER -> redistribute_pl_node(t, "zsr", Own("zsr"), policy)

\* The data sets without extent are exchanged with the BC, the others on their own.
redistribute_bc(t, policy) ==
  IF zone.extent["bc"] = "absent" THEN t
  ELSE IF zone.extent["bcds"] = "none"
  THEN redistribute_pl_node(t, "bc", Own("bc") \cup {"bcds"}, policy)
  ELSE LET t1 == redistribute_pl_node(t, "bc", Own("bc"), policy)
       IN  IF HasPatch("bcds") THEN redistribute_pl_node(t1, "bcds", {"bcds"}, policy) ELSE t1

redistribute_gc(t, policy) ==
  IF zone.extent["gc"] = "absent" THEN t ELSE redistribute_pl_node(t, "gc", Own("gc"), policy)

redistribute_elements(t, policy) == IF HasElements THEN redistribute_elements_node(t, policy) ELSE t

\* The distributions of the zone itself.
KeysOfZone == {"Vertex", "Cell"} \cup (IF zone.structured THEN {"Face"} ELSE {})

\* Mutant: the BCs before the subregions.
redistribute_zone_BCFirst(t, policy) ==
  LET new == [k \in KeysOfZone |-> interpret_policy(policy, SizeOf(k))]
      zoned == WithDistributions(t, Over(new, t.dist))
      coords == Exchange(zoned, {"coords"}, t.dist["Vertex"], new["Vertex"])
      elements == redistribute_elements(coords, policy)
      sol == redistribute_solution(elements, "sol", t.dist["Cell"], new["Cell"], policy)
      disc == redistribute_solution(sol, "disc", t.dist["Cell"], new["Cell"], policy)
      bc == redistribute_bc(disc, policy)
      zsr == redistribute_subregion(bc, policy)
  IN  IF KeysOfZone \subseteq DOMAIN t.dist THEN redistribute_gc(zsr, policy) ELSE Raised(t)

\* The zone and its coordinates, then the containers: the subregions before the BCs, of
\* which they need the old distribution.
redistribute_zone(t, policy) ==
  LET new == [k \in KeysOfZone |-> interpret_policy(policy, SizeOf(k))]
      zoned == WithDistributions(t, Over(new, t.dist))
      coords == Exchange(zoned, {"coords"}, t.dist["Vertex"], new["Vertex"])
      elements == redistribute_elements(coords, policy)
      sol == redistribute_solution(elements, "sol", t.dist["Cell"], new["Cell"], policy)
      disc == redistribute_solution(sol, "disc", t.dist["Cell"], new["Cell"], policy)
      zsr == redistribute_subregion(disc, policy)
      bc == redistribute_bc(zsr, policy)
  IN  IF KeysOfZone \subseteq DOMAIN t.dist THEN redistribute_gc(bc, policy) ELSE Raised(t)

-----------------------------------------------------------------------------
(***************************************************************************)
(* maia.io.hdf: the filter of each array, its distribution.  DiscreteData  *)
(* arrays have none: they are neither read nor written.                    *)
(***************************************************************************)
Filtered == ArraysOfZone \ {"disc"}

\* The distribution create_zone_filter uses for array a of tree t.
FilterDistribution(dist, a) ==
  CASE a = "coords" -> dist["Vertex"]
    [] a = "sol" -> dist[IF "sol" \in DOMAIN dist THEN "sol" ELSE "Cell"]
    [] a = "zsr" -> dist[Extent("zsr")]
    [] a = "bcds" -> dist[IF "bcds" \in DOMAIN dist THEN "bcds" ELSE "bc"]
    [] a \in {"bc", "gc"} -> dist[a]
    [] a \in {"eso", "pe"} -> dist["Element"]
    [] a = "ec" /\ HasOffset -> dist["ElementConnectivity"]
    [] a = "ec" /\ ~HasOffset -> Times(dist["Element"], zone.n_vtx)

\* One more offset than elements on each rank, in 'read' mode.
dn_idx(a, distri, r) == distri[r][2] - distri[r][1] + (IF a = "eso" THEN 1 ELSE 0)

load_data_partial(a, distri) ==
  [r \in Rank |-> SubSeq(file[a], distri[r][1] + 1, distri[r][1] + dn_idx(a, distri, r))]

\* Each rank decides from its first face whether its parent cells are to be shifted.
ensure_PE_global_indexing(pe) ==
  [r \in Rank |-> IF HasOffset /\ pe[r] # << >> /\ pe[r][1] <= NElement
                  THEN [i \in DOMAIN pe[r] |-> pe[r][i] + NElement] ELSE pe[r]]

\* fill_size_tree: the connectivity is loaded once the offsets are, from the distribution
\* they give.
load_tree_from_filter ==
  LET dist == add_distribution_info(<< >>, [type |-> "uniform", rank |-> 0])
      first == [a \in Filtered \ (IF HasOffset THEN {"ec"} ELSE {}) |->
                  load_data_partial(a, FilterDistribution(dist, a))]
      ec == compute_connectivity_distribution(first["eso"])
  IN  IF HasOffset
      THEN Tree(Over(dist, Only("ElementConnectivity", ec)),
                Over([first EXCEPT !["pe"] = ensure_PE_global_indexing(@)],
                     Only("ec", load_data_partial("ec", ec))))
      ELSE Tree(dist, first)

\* Mutant: as many offsets as elements are written.
write_data_partial_Short(a, order) ==
  LET distri == FilterDistribution(tree.dist, a)
      writers(i) == {r \in Rank : i \in distri[r][1] + 1 .. distri[r][2]}
      last(i) == CHOOSE r \in writers(i) : \A q \in writers(i) : order[q] <= order[r]
      total == distri[0][3] + (IF a = "eso" THEN 1 ELSE 0)
  IN  [i \in 1 .. total |->
         IF writers(i) = {} THEN -1 ELSE tree.arr[a][last(i)][i - distri[last(i)][1]]]

\* The ranks write their slabs in any order; where slabs overlap the last one stays.
write_data_partial(a, order) ==
  LET distri == FilterDistribution(tree.dist, a)
      writers(i) == {r \in Rank : i \in distri[r][1] + 1 .. distri[r][1] + dn_idx(a, distri, r)}
      last(i) == CHOOSE r \in writers(i) : \A q \in writers(i) : order[q] <= order[r]
      total == distri[0][3] + (IF a = "eso" THEN 1 ELSE 0)
  IN  [i \in 1 .. total |->
         IF writers(i) = {} THEN -1 ELSE tree.arr[a][last(i)][i - distri[last(i)][1]]]

CanWrite(a) ==
  LET distri == FilterDistribution(tree.dist, a)
  IN  \A r \in Rank : Len(tree.arr[a][r]) >= dn_idx(a, distri, r)

-----------------------------------------------------------------------------
(***************************************************************************)
(* maia.factory.full_to_dist and dist_to_full                              *)
(***************************************************************************)

\* The owner keeps its arrays; the others get empty ones, and one offset.
_broadcast_full_to_dist(owner) ==
  LET arr == [a \in DOMAIN full.arr |-> [r \in Rank |->
                CASE r = owner -> full.arr[a]
                  [] r # owner /\ a = "eso" -> <<IF r > owner THEN Len(full.arr["ec"]) ELSE 0>>
                  [] r # owner /\ a # "eso" -> << >>]]
  IN  Tree(add_distribution_info(arr, [type |-> "gather", rank |-> owner]), arr)

\* The uniform block of a global array.
Cut(global) == [r \in Rank |-> BlockOf(global, uniform_distribution(Len(global)), r)]

\* A subregion related to the BC takes the PointList of the BC, which has been
\* distributed by then: each rank cuts the array for the length it finds there.
CutRelated(global) ==
  LET bc == uniform_distribution(zone.length["bc"])
  IN  [r \in Rank |->
        BlockOf(global, uniform_distribution(bc[r][2] - bc[r][1]), r)]

distribute_element_node ==
  LET distri == uniform_distribution(NElement)
      eso == full.arr["eso"]
      ec == IF HasOffset
            THEN [r \in Rank |-> <<eso[distri[r][1] + 1], eso[distri[r][2] + 1], eso[Len(eso)]>>]
            ELSE Times(distri, zone.n_vtx)
      offsets == [r \in Rank |-> SubSeq(eso, distri[r][1] + 1, distri[r][2] + 1)]
      parts == [a \in {"pe", "ec"} |-> IF a = "pe" THEN Cut(full.arr["pe"])
                                       ELSE [r \in Rank |-> BlockOf(full.arr["ec"], ec, r)]]
  IN  Tree(Over(Only("Element", distri), Only("ElementConnectivity", ec)),
           IF HasOffset THEN Over(parts, Only("eso", offsets)) ELSE parts)

\* A solution with a PointRange is cut as a whole field and gets no distribution.
_distribute_tree ==
  LET keys == KeysOfZone \cup {c \in Subsets : zone.extent[c] = "PointList"}
                \cup {c \in Subsets \ {"sol", "disc"} : zone.extent[c] = "PointRange"}
      related == zone.extent["zsr"] = "none" /\ zone.extent["bc"] = "PointList"
      elements == IF HasElements THEN distribute_element_node ELSE NoTree
      cut == [c \in Containers \cap DOMAIN full.arr |->
                IF c = "zsr" /\ related THEN CutRelated(full.arr[c]) ELSE Cut(full.arr[c])]
  IN  Tree(Over([k \in keys |-> uniform_distribution(SizeOf(k))], elements.dist),
           Over(cut, elements.arr))

\* A solution of a structured zone is reshaped to the cells.
CanReshape == ~(zone.structured /\ HasPatch("sol") /\ zone.length["sol"] # zone.size["Cell"])

-----------------------------------------------------------------------------
(***************************************************************************)
(* The operations                                                          *)
(***************************************************************************)
Init ==
  /\ zone \in Zones
  /\ file \in {Content, LocalIndexing(Content)}
  /\ full = [arr |-> Content, dist |-> << >>]
  /\ tree = NoTree

file_to_dist_tree ==
  /\ tree.ok /\ Filtered \subseteq DOMAIN file
  /\ tree' = load_tree_from_filter
  /\ UNCHANGED <<zone, file, full>>

full_to_dist_tree(owner) ==
  /\ tree.ok
  /\ tree' = redistribute_zone(_broadcast_full_to_dist(owner), [type |-> "uniform", rank |-> 0])
  /\ UNCHANGED <<zone, file, full>>

\* owner=None: each process holds a copy of the full tree.
full_to_dist_tree_copies ==
  /\ tree.ok /\ zone \in Copied
  /\ tree' = _distribute_tree
  /\ UNCHANGED <<zone, file, full>>

redistribute_tree(policy) ==
  /\ tree.ok /\ Built
  /\ tree' = redistribute_zone(tree, policy)
  /\ UNCHANGED <<zone, file, full>>

\* The distributions are removed from a copy of the tree before it is written.
dist_tree_to_file ==
  /\ tree.ok /\ Built
  /\ IF \A a \in Filtered : CanWrite(a)
     THEN /\ \E order \in Bijection(Rank, Rank) :
               file' = [a \in Filtered |-> write_data_partial(a, order)]
          /\ UNCHANGED tree
     ELSE tree' = Raised(tree) /\ UNCHANGED file
  /\ UNCHANGED <<zone, full>>

\* A copy of the tree is gathered on target, reshaped and cleaned there.
dist_to_full_tree(target) ==
  /\ tree.ok /\ Built
  /\ \E gathered \in {redistribute_zone(tree, [type |-> "gather", rank |-> target])} :
       IF gathered.ok /\ CanReshape
       THEN /\ full' = [arr |-> [a \in DOMAIN gathered.arr |-> gathered.arr[a][target]],
                        dist |-> clean_distribution_info(gathered.dist)]
            /\ UNCHANGED tree
       ELSE tree' = Raised(tree) /\ UNCHANGED full
  /\ UNCHANGED <<zone, file>>

Next ==
  \/ file_to_dist_tree
  \/ \E owner \in Rank : full_to_dist_tree(owner)
  \/ full_to_dist_tree_copies
  \/ \E policy \in Policy : redistribute_tree(policy)
  \/ dist_tree_to_file
  \/ \E target \in Rank : dist_to_full_tree(target)

Spec == Init /\ [][Next]_vars

-----------------------------------------------------------------------------
(***************************************************************************)
(* Properties                                                              *)
(***************************************************************************)

\* The tree has arrays and distributions of the zone only, one block per rank.
TypeOK ==
  /\ zone \in Zones
  /\ DOMAIN tree.dist \subseteq Keys /\ DOMAIN tree.arr \subseteq Arrays
  /\ \A k \in DOMAIN tree.dist : tree.dist[k] \in [Rank -> Seq(Nat)]
  /\ \A a \in DOMAIN tree.arr : DOMAIN tree.arr[a] = Rank
  /\ tree.ok \in BOOLEAN

\* No sequence of operations meets a missing distribution, a buffer shorter than the
\* counts of an exchange or a slab longer than the array it is filled from.
NoException == tree.ok

\* Every distribution of the tree cuts its global size into consecutive blocks, whichever
\* operation wrote it; the one of a heterogeneous connectivity comes from the offsets.
DistributionsTile ==
  tree.ok => \A k \in DOMAIN tree.dist : Tiles(tree.dist[k], SizeOf(k))

\* Each rank holds exactly the block that the distribution of the extent gives it, of the
\* mesh first read: no sequence of policies, gathers, writes and reads moves, loses or
\* repeats an entry.  An offset array has one entry more than the block of elements.
BlocksHold ==
  tree.ok => \A a \in DOMAIN tree.arr : \A r \in Rank :
    LET d == FilterDistribution(tree.dist, a)[r]
    IN  tree.arr[a][r] = SubSeq(Content[a], d[1] + 1, d[2] + (IF a = "eso" THEN 1 ELSE 0))

\* The bounds of the connectivity of each rank are its first and last offsets, so that a
\* rank without elements holds no connectivity.
OffsetsBoundConnectivity ==
  tree.ok /\ Built /\ HasOffset => \A r \in Rank :
    LET eso == tree.arr["eso"][r]
    IN  /\ tree.dist["ElementConnectivity"][r][1] = eso[1]
        /\ tree.dist["ElementConnectivity"][r][2] = eso[Len(eso)]
        /\ Len(tree.arr["ec"][r]) = eso[Len(eso)] - eso[1]

\* Whatever the distribution of the tree when it is written and the order of the writers,
\* the file holds the mesh: the offsets two ranks write at the same place are equal.
FileHoldsMesh == file \in {Content, LocalIndexing(Content)}

\* The gathered tree is the mesh, on any target and from any distribution.
FullHoldsMesh == full.arr = Content

\* Every distribution of the tree, and the offsets from which the one of a connectivity is
\* made, describe consecutive blocks of the whole array, after any sequence of operations.
DistributionsHold == TypeOK /\ DistributionsTile /\ OffsetsBoundConnectivity

\* Written or gathered after any sequence of operations, the mesh is the one first read.
MeshKept == FileHoldsMesh /\ FullHoldsMesh
=============================================================================
