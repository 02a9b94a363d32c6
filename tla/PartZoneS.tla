------------------------------ MODULE PartZoneS ------------------------------
(***************************************************************************)
(* Partitioning of structured zones (split_S/part_zone.py, the structured  *)
(* half of partitioning.py and the naming of the joins of post_split.py).  *)
(*                                                                         *)
(* mesh is the distributed tree: per zone its cells per direction, its     *)
(* boundaries (BCs, data sets of BCs, 1to1 joins, joins that do not match) *)
(* and the weights of its parts on each rank.  A part is <<zone, rank,     *)
(* number>>; it has its first cell (off), its cells per direction (n), the *)
(* boundaries put in its ZoneBC (bnds), its joins (gcs) and the            *)
(* subregions related to those (zsrs).                                     *)
(***************************************************************************)
EXTENDS CutTree, TLC

CONSTANTS
  NRank,    \* ranks of the communicator
  Mesh      \* distributed trees to partition

ASSUME RanksExist == NRank \in Nat \ {0}

VARIABLES
  mesh,
  parts,    \* the partitioned tree: a function from the parts made so far
  split,    \* zones that are split
  phase     \* what the ranks do together after the zones

vars == <<mesh, parts, split, phase>>

Rank == 0 .. NRank - 1
Zone == DOMAIN mesh.zones
Dims(z) == mesh.zones[z].dims
Bnds(z) == mesh.zones[z].bnds
Weights(z) == mesh.zones[z].weights
IdxDir(z) == Dir(Dims(z))

Identity(n) == Listed([d \in 1 .. n |-> d])
PartOrder(p, q) == p[2] < q[2] \/ (p[2] = q[2] /\ p[3] <= q[3])

-----------------------------------------------------------------------------
(***************************************************************************)
(* Helpers of part_zone.py                                                 *)
(***************************************************************************)

\* Directions in which the window decreases, and the window with those reversed.
Decreasing(pr) == {d \in DOMAIN pr : pr[d][2] < pr[d][1]}
SwapIn(pr, S) ==
  Listed([d \in DOMAIN pr |-> IF d \in S THEN <<pr[d][2], pr[d][1]>> ELSE pr[d]])

\* None (<< >>) if the windows are disjoint in one of the directions S.
intersect_pr(a, b, S) ==
  LET start == [d \in S |-> IF b[d][1] <= a[d][1] /\ a[d][1] <= b[d][2] THEN <<a[d][1]>>
                            ELSE IF a[d][1] <= b[d][1] /\ b[d][1] <= a[d][2] THEN <<b[d][1]>>
                            ELSE << >>]
  IN  IF \E d \in S : start[d] = << >> THEN << >>
      ELSE << [d \in S |-> <<start[d][1], Least(a[d][2], b[d][2])>>] >>

\* Mutant: the vertices of the last plane are taken for the ones of the last cells.
pr_to_cell_location_Last(pr, axis, loc, is_max, sign) ==
  Listed([d \in DOMAIN pr |->
    IF loc = "Vertex" /\ d # axis THEN <<pr[d][1], pr[d][2] - sign>> ELSE pr[d]])

\* From the location loc to the cells (sign = 1) or back (sign = -1).
pr_to_cell_location(pr, axis, loc, is_max, sign) ==
  Listed([d \in DOMAIN pr |->
    IF d = axis
    THEN IF loc # "CellCenter" /\ is_max THEN <<pr[d][1] - sign, pr[d][2] - sign>> ELSE pr[d]
    ELSE IF loc = "Vertex" THEN <<pr[d][1], pr[d][2] - sign>> ELSE pr[d]])

\* From the numbering of a part to the one of the zone (sign = 1) or back (sign = -1).
pr_to_global_num(pr, offset, sign) ==
  Listed([d \in DOMAIN pr |->
            <<pr[d][1] + sign * (offset[d] - 1), pr[d][2] + sign * (offset[d] - 1)>>])

zone_cell_range(n) == Listed([d \in DOMAIN n |-> <<1, n[d]>>])

\* The cells of a part along one of its sides, in the numbering of the zone.
SideRange(part, axis, is_max) ==
  LET all == zone_cell_range(part.n)
      i == IF is_max THEN 2 ELSE 1
  IN  pr_to_global_num([all EXCEPT ![axis] = <<@[i], @[i]>>], part.off, 1)

\* The side of the part is on the side of the zone it is cut from.
is_old_bc(part, dims, axis, is_max) ==
  SideRange(part, axis, is_max)[axis][1] = (IF is_max THEN dims[axis] ELSE 1)

\* collect_S_bnd_per_dir: the side of the zone a boundary is on.
AxisOfBnd(b) == normal_axis(b.pr, b.loc)
IsMax(b) == b.pr[AxisOfBnd(b)][1] # 1

\* Window made of inter in the directions S and of other elsewhere.
Complete(inter, S, other) ==
  Listed([d \in DOMAIN other |-> IF d \in S THEN inter[d] ELSE other[d]])

-----------------------------------------------------------------------------
(***************************************************************************)
(* create_bcs                                                              *)
(***************************************************************************)

\* The entries of a data set that the part holds, numbered in the whole data set.
DataSetNumbers(b, sub_pr, range_part, range_dist, axis) ==
  LET loc == [d \in DOMAIN sub_pr |->
                IF d = axis THEN <<1, 1>>
                ELSE LET shift == range_part[d][1] - range_dist[d][1]
                     IN  <<sub_pr[d][1] + shift, sub_pr[d][2] + shift>>]
  IN  {ijk_to_index(v, SizePerIndex(b.pr)) : v \in Points(loc)}

\* The boundary b of the zone on the part, << >> if the part does not meet it.
create_bc(b, part, dims) ==
  LET axis == AxisOfBnd(b)
      dirs == DOMAIN dims \ {axis}
      range_part == SideRange(part, axis, IsMax(b))
      swap == Decreasing(b.pr)
      range_dist == pr_to_cell_location(SwapIn(b.pr, swap), axis, b.loc, IsMax(b), 1)
      inter == intersect_pr(range_part, range_dist, dirs)
      sub == pr_to_global_num(Complete(inter[1], dirs, range_part), part.off, -1)
      sub_pr == SwapIn(pr_to_cell_location(sub, axis, b.loc, IsMax(b), -1), swap)
      gnum == IF b.kind = "bcds" THEN DataSetNumbers(b, sub_pr, range_part, range_dist, axis)
                                 ELSE {}
  IN  IF is_old_bc(part, dims, axis, IsMax(b)) /\ inter # << >>
      THEN << [bnd |-> b, pr |-> sub_pr, gnum |-> gnum] >> ELSE << >>

create_bcs(part, z) ==
  {found[1] : found \in {create_bc(b, part, Dims(z)) : b \in Bnds(z)} \ {<< >>}}

-----------------------------------------------------------------------------
(***************************************************************************)
(* create_internal_gcs, with all the parts new of the zone z               *)
(***************************************************************************)

\* The internal sides of a part.
jn_list(part, dims) ==
  {jn \in (DOMAIN dims) \X BOOLEAN : ~is_old_bc(part, dims, jn[1], jn[2])}

IsAdmissible(my_pr, opp_pr, axis, is_max, opp) ==
  /\ opp[1] = axis
  /\ opp[2] # is_max
  /\ my_pr[axis][1] - (IF is_max THEN -1 ELSE 1) = opp_pr[axis][1]

\* The cells on the other side of the internal side.
OppositeCells(sub, axis, is_max) ==
  LET shift == IF is_max THEN -1 ELSE 1 IN [sub EXCEPT ![axis] = <<@[1] - shift, @[2] - shift>>]

\* The joins of the part number k, on its side jn, with the part number l, at most one per
\* side opp of the latter.
InternalGC(new, ids, k, l, jn, opp, dims) ==
  LET axis == jn[1]
      is_max == jn[2]
      dirs == DOMAIN dims \ {axis}
      my_pr == SideRange(new[k], axis, is_max)
      opp_pr == SideRange(new[l], opp[1], opp[2])
      inter == intersect_pr(my_pr, opp_pr, dirs)
      sub == Complete(inter[1], dirs, my_pr)
      sub_d == OppositeCells(sub, axis, is_max)
      Join(w, part, max) ==
        pr_to_cell_location(pr_to_global_num(w, part.off, -1), axis, "Vertex", max, -1)
  IN  IF IsAdmissible(my_pr, opp_pr, axis, is_max, opp) /\ inter # << >>
      THEN << [name |-> <<"JN", ids[k][2], ids[k][3], ids[l][2], ids[l][3]>>, opp |-> ids[l],
               tr |-> Identity(Len(dims)), pr |-> Join(sub, new[k], is_max),
               prd |-> Join(sub_d, new[l], ~is_max), donor |-> << >>] >>
      ELSE << >>

create_internal_gcs(new, ids, k, dims) ==
  {found[1] : found \in UNION {{InternalGC(new, ids, k, l, jn, opp, dims) :
                                  jn \in jn_list(new[k], dims), opp \in jn_list(new[l], dims)}
                               : l \in DOMAIN new} \ {<< >>}}

-----------------------------------------------------------------------------
(***************************************************************************)
(* part_s_zone: a collective of the ranks that have weights for the zone,  *)
(* which split the zones in their order.                                   *)
(***************************************************************************)

\* compute_face_gnum: the faces of a box, normal to the first direction, the second, the third.
compute_face_gnum(cut, dims) ==
  LET Faces(axis) == LET grid == Grid(cut.off, FaceBlock(axis, cut.n))
                     IN  [m \in DOMAIN grid |-> ijk_to_faceIndex(axis, grid[m], dims)]
  IN  Faces(1) \o Faces(2) \o Faces(3)

\* Mutant: the vertices are numbered with the sizes of the cells.
create_zone_gnums_Cells(cut, dims) ==
  LET Numbers(n, size) == LET grid == Grid(cut.off, n)
                          IN  Listed([m \in DOMAIN grid |-> ijk_to_index(grid[m], size)])
  IN  [Vertex |-> Numbers(VertexSize(cut.n), dims), Cell |-> Numbers(cut.n, dims),
       Face |-> IF Len(dims) = 3 THEN compute_face_gnum(cut, dims) ELSE << >>]

\* The numbers in the zone of the vertices, cells and faces of a part, in their order.
create_zone_gnums(cut, dims) ==
  LET Numbers(n, size) == LET grid == Grid(cut.off, n)
                          IN  Listed([m \in DOMAIN grid |-> ijk_to_index(grid[m], size)])
  IN  [Vertex |-> Numbers(VertexSize(cut.n), VertexSize(dims)), Cell |-> Numbers(cut.n, dims),
       Face |-> IF Len(dims) = 3 THEN compute_face_gnum(cut, dims) ELSE << >>]

RanksOf(z) == {r \in Rank : Weights(z)[r] # << >>}

\* The parts of the zone in the order of their ranks, and all their weights.
ByRank(f(_)) ==
  LET upto[k \in 0 .. NRank] == IF k = 0 THEN << >> ELSE upto[k - 1] \o f(k - 1) IN upto[NRank]
PartIds(z) == LET Of(r) == [i \in DOMAIN Weights(z)[r] |-> <<z, r, i - 1>>] IN ByRank(Of)
AllWeights(z) == LET Of(r) == Weights(z)[r] IN ByRank(Of)

part_s_zone(z) ==
  /\ phase = "zones"
  /\ z \notin split
  /\ \A y \in Zone : y < z /\ RanksOf(y) \cap RanksOf(z) # {} => y \in split
  /\ \E boxes \in SplitBlock(Dims(z), AllWeights(z)) :
       LET ids == PartIds(z)
           cut == Listed([k \in DOMAIN ids |->
                    [off |-> Listed([d \in IdxDir(z) |-> boxes[k][d][1] + 1]),
                     n |-> Listed([d \in IdxDir(z) |-> boxes[k][d][2] - boxes[k][d][1]])]])
           new == Listed([k \in DOMAIN ids |->
                    [off |-> cut[k].off, n |-> cut[k].n, bnds |-> create_bcs(cut[k], z),
                     gcs |-> create_internal_gcs(cut, ids, k, Dims(z)), zsrs |-> {},
                     gnum |-> create_zone_gnums(cut[k], Dims(z))]])
       IN  parts' = [p \in ToSet(ids) |-> new[CHOOSE k \in DOMAIN ids : ids[k] = p]] @@ parts
  /\ split' = split \cup {z}
  /\ UNCHANGED <<mesh, phase>>

-----------------------------------------------------------------------------
(***************************************************************************)
(* split_original_joins_S: the windows of the original joins are gathered, *)
(* each one is cut by the ones opposite to it.                             *)
(***************************************************************************)

IsMatch(s) == s.bnd.kind = "match"

\* The original joins that some part has, by their zone and their name: the parts with a piece.
ori_jn_to_pr_glob ==
  [key \in UNION {{<<q[1], s.bnd.name>> : s \in {s \in parts[q].bnds : IsMatch(s)}} : q \in DOMAIN parts} |->
     {q \in DOMAIN parts : q[1] = key[1] /\ \E s \in parts[q].bnds : IsMatch(s) /\ s.bnd.name = key[2]}]
PieceOf(q, name) == CHOOSE s \in parts[q].bnds : IsMatch(s) /\ s.bnd.name = name

\* Mutant: with the offset of the part itself.
DonorWindow_Own(sub_prd, p, q) == pr_to_global_num(sub_prd, parts[p].off, -1)

\* The window of the donor in the numbering of the opposite part.
DonorWindow(sub_prd, p, q) == pr_to_global_num(sub_prd, parts[q].off, -1)

\* The piece s of the part p and the opposite piece of q: << >> or the windows of the join.
SubJoin(p, s, q) ==
  LET b == s.bnd
      pr == pr_to_global_num(s.pr, parts[p].off, 1)
      in_opp == gc_transform_window(pr, Corner(b.pr, 1), Corner(b.prd, 1), b.tr)
      axis == normal_axis(in_opp, "Vertex")
      dirs == DOMAIN pr \ {axis}
      is_max == in_opp[axis][1] # 1
      swap == Decreasing(in_opp)
      ToCell(w) == pr_to_cell_location(SwapIn(w, swap), axis, "Vertex", is_max, 1)
      cells == ToCell(in_opp)
      opp == ToCell(pr_to_global_num(PieceOf(q, b.donor).pr, parts[q].off, 1))
      inter == intersect_pr(cells, opp, dirs)
      sub_prd == SwapIn(pr_to_cell_location(Complete(inter[1], dirs, cells), axis, "Vertex",
                                            is_max, -1), swap)
      sub_pr == gc_transform_back(sub_prd, Corner(b.prd, 1), Corner(b.pr, 1), b.tr)
  IN  IF inter = << >> THEN << >>
      ELSE <<pr_to_global_num(sub_pr, parts[p].off, -1), DonorWindow(sub_prd, p, q)>>

\* The sub joins are numbered in the order of the opposite parts.  A join whose donor no part has is
\* a missing key of the dictionary, which the code does not catch.
OriginalGCs(p, s) ==
  LET opposed_joins == ori_jn_to_pr_glob[<<s.bnd.opp, s.bnd.donor>>]
      hit == {qw \in {<<q, SubJoin(p, s, q)>> : q \in opposed_joins} :
                qw[2] # << >>}
      number(q) == Cardinality({ow \in hit : PartOrder(ow[1], q)}) - 1
  IN  {[name |-> <<s.bnd.name, number(qw[1])>>, opp |-> qw[1], tr |-> s.bnd.tr,
        pr |-> qw[2][1], prd |-> qw[2][2], donor |-> <<s.bnd.donor>>] : qw \in hit}

\* A join that does not match is moved to the joins as it is.
MovedGC(s) == [name |-> <<s.bnd.name>>, opp |-> <<s.bnd.opp>>, tr |-> << >>,
               pr |-> s.pr, prd |-> << >>, donor |-> << >>]

split_original_joins_S ==
  /\ phase = "zones"
  /\ {z \in Zone : RanksOf(z) # {}} = split
  /\ parts' = [p \in DOMAIN parts |->
       LET match == {s \in parts[p].bnds : IsMatch(s)}
           abut == {s \in parts[p].bnds : s.bnd.kind = "abut"}
       IN  [parts[p] EXCEPT
              !.bnds = @ \ (match \cup abut),
              !.gcs = @ \cup UNION {OriginalGCs(p, s) : s \in match}
                        \cup {MovedGC(s) : s \in abut}]]
  /\ phase' = "joins"
  /\ UNCHANGED <<mesh, split>>

-----------------------------------------------------------------------------
(***************************************************************************)
(* post_split.py                                                           *)
(***************************************************************************)

IsIntra(g) == g.name[1] = "JN"
IsSplit(g) == ~IsIntra(g) /\ g.prd # << >>

\* The suffix of a join is asserted, whatever the join, if a subregion is related to a join.
SuffixAsked(z) == \E zsr \in mesh.zones[z].zsrs : \E b \in Bnds(z) : b.name = zsr.of /\ b.kind \in {"match", "abut"}

\* generate_related_zsr: a subregion related to a BC is made if the part has the BC, one
\* related to a join for each piece of it.
generate_related_zsr ==
  /\ phase = "joins"
  /\ \A p \in DOMAIN parts : SuffixAsked(p[1]) => \A g \in parts[p].gcs : IsIntra(g) \/ Len(g.name) > 1
  /\ parts' = [p \in DOMAIN parts |->
       LET related == {rg \in mesh.zones[p[1]].zsrs \X parts[p].gcs :
                         ~IsIntra(rg[2]) /\ rg[2].name[1] = rg[1].of}
           onbc == {zsr \in mesh.zones[p[1]].zsrs : \E s \in parts[p].bnds :
                      s.bnd.kind = "bc" /\ s.bnd.name = zsr.of}
       IN  [parts[p] EXCEPT !.zsrs = {<<zsr.name, << >> >> : zsr \in onbc}
                                       \cup {<<rg[1].name, rg[2].name>> : rg \in related}]]
  /\ phase' = "zsrs"
  /\ UNCHANGED <<mesh, split>>

\* update_gc_donor_name: what the parts of the opposite rank sent about joins to this part.
Candidates(p, g) ==
  {h \in parts[g.opp].gcs : IsSplit(h) /\ h.opp = p /\ h.name[1] = g.donor[1]}

\* The code asserts that exactly one of them is opposite to this one.
update_gc_donor_name ==
  /\ phase = "zsrs"
  /\ \A p \in DOMAIN parts : \A g \in parts[p].gcs :
       IsSplit(g) => Cardinality(Candidates(p, g)) = 1
  /\ parts' = [p \in DOMAIN parts |-> [parts[p] EXCEPT !.gcs = {
       IF IsIntra(g) THEN [g EXCEPT !.donor = <<"JN", g.opp[2], g.opp[3], p[2], p[3]>>]
       ELSE IF IsSplit(g) THEN [g EXCEPT !.donor = (CHOOSE h \in Candidates(p, g) : TRUE).name]
       ELSE g : g \in @}]]
  /\ phase' = "done"
  /\ UNCHANGED <<mesh, split>>

-----------------------------------------------------------------------------
Init ==
  /\ mesh \in Mesh
  /\ parts = << >>
  /\ split = {}
  /\ phase = "zones"

\* The tree is partitioned; a failed assertion is a deadlock.
Returned == phase = "done" /\ UNCHANGED vars

Next ==
  \/ \E z \in Zone : part_s_zone(z)
  \/ split_original_joins_S
  \/ generate_related_zsr
  \/ update_gc_donor_name
  \/ Returned

Spec == Init /\ [][Next]_vars

(***************************************************************************)
(* Properties                                                              *)
(***************************************************************************)

\* A cell range; << 1, 0 >> in a direction is empty.
Box(r) == IF \E d \in DOMAIN r : r[d][2] < r[d][1] THEN {} ELSE Points(r)

\* Cells of a part in the numbering of its zone; whether its box holds a cell at all.
CellsOf(p) == Box(pr_to_global_num(zone_cell_range(parts[p].n), parts[p].off, 1))
PartsOf(z) == {p \in DOMAIN parts : p[1] = z}
NoEmptyPart == \A p \in DOMAIN parts : \A d \in DOMAIN parts[p].n : parts[p].n[d] > 0

\* Every cell of a zone that is split is in exactly one of its parts, and there are as many
\* parts on each rank as the rank has weights: the cuts of split_S_block and split_S_line,
\* computed by every rank on its own, tile the block whatever the rounding of the weights.
PartsTile == \A z \in split :
  /\ \A c \in Box(zone_cell_range(Dims(z))) : \E p \in PartsOf(z) :
       c \in CellsOf(p) /\ \A q \in PartsOf(z) \ {p} : c \notin CellsOf(q)
  /\ \A p \in PartsOf(z) : CellsOf(p) \subseteq Box(zone_cell_range(Dims(z)))

\* The cell faces of a window on the side of a zone, as the cells under them.
FacesUnder(w, loc, axis, is_max) ==
  Box([d \in DOMAIN w |->
        LET lo == Least(w[d][1], w[d][2])
            hi == lo + Abs(w[d][2] - w[d][1])
        IN  IF d = axis THEN IF is_max /\ loc # "CellCenter" THEN <<lo - 1, lo - 1>> ELSE <<lo, lo>>
            ELSE IF loc = "Vertex" THEN <<lo, hi - 1>> ELSE <<lo, hi>>])

\* The pieces of the boundary b on a part: the BC or data set, or the joins cut from it.
Pieces(p, b) ==
  {s.pr : s \in {s \in parts[p].bnds : s.bnd = b}}
    \cup {g.pr : g \in {g \in parts[p].gcs : g.name[1] = b.name}}

\* If no part is empty, the faces under a boundary of the zone are under exactly one piece of
\* it, on exactly one part: create_bcs, and split_original_joins_S when it cuts the pieces
\* again by the ones of the opposite zone, neither lose nor double a face.
BoundariesKept == NoEmptyPart => \A z \in split : \A b \in Bnds(z) :
  LET axis == AxisOfBnd(b)
      all == {<<p, w>> : p \in PartsOf(z), w \in UNION {Pieces(p, b) : p \in PartsOf(z)}}
      real == {pw \in all : pw[2] \in Pieces(pw[1], b)}
      Under(pw) == FacesUnder(pr_to_global_num(pw[2], parts[pw[1]].off, 1), b.loc, axis, IsMax(b))
  IN  /\ UNION {Under(pw) : pw \in real} = FacesUnder(b.pr, b.loc, axis, IsMax(b))
      /\ \A v, w \in real : v # w => Under(v) \cap Under(w) = {}

\* If no part is empty, the entries of a data set are on the parts under the numbers they
\* have in the data set: together the parts hold all of 1 .. n.
DataSetsNumbered == NoEmptyPart => \A z \in split : \A b \in Bnds(z) : b.kind = "bcds" =>
  UNION {UNION {s.gnum : s \in {s \in parts[p].bnds : s.bnd = b}} : p \in PartsOf(z)}
    = 1 .. Product(SizePerIndex(b.pr))

\* Vertices of the part p seen from a join of it, and the vertex of the opposite part.
OppositeVertex(g, v) ==
  Plus(TransformVector(g.tr, Minus(v, Corner(g.pr, 1))), Corner(g.prd, 1))
GlobalVertex(p, v) == [d \in DOMAIN v |-> v[d] + parts[p].off[d] - 1]

\* Each join of a part is seen by the opposite part as the join it names, with the windows
\* exchanged and the inverse transform (split_original_joins_S and create_internal_gcs build
\* the two sides separately); and the vertices it matches are the same vertex of the zone, or
\* two vertices matched by the original join.
JoinsMirror == phase = "done" =>
  \A p \in DOMAIN parts : \A g \in {g \in parts[p].gcs : g.prd # << >>} :
    /\ \E h \in parts[g.opp].gcs :
         /\ h.name = g.donor /\ h.donor = g.name /\ h.opp = p
         /\ h.pr = g.prd /\ h.prd = g.pr /\ h.tr = Inverse1to1(g.tr)
    /\ \A v \in Points(g.pr) :
         LET w == GlobalVertex(g.opp, OppositeVertex(g, v))
         IN  IF IsIntra(g) THEN w = GlobalVertex(p, v)
             ELSE \E b \in Bnds(p[1]) : b.name = g.name[1]
                    /\ w = Plus(TransformVector(b.tr, Minus(GlobalVertex(p, v), Corner(b.pr, 1))),
                                Corner(b.prd, 1))

\* Two neighbouring cells of a zone that are on two parts are under an internal join of each
\* of the two parts: no interface made by the cut is left out.
InterfacesJoined == \A z \in split : \A p, q \in PartsOf(z) : p # q =>
  \A c \in CellsOf(p) : \A axis \in IdxDir(z) : [c EXCEPT ![axis] = @ + 1] \in CellsOf(q) =>
    \E g \in parts[p].gcs : /\ IsIntra(g) /\ g.opp = q /\ g.pr[axis][1] = g.pr[axis][2]
                            /\ c \in FacesUnder(pr_to_global_num(g.pr, parts[p].off, 1),
                                                "Vertex", axis, TRUE)

\* The global numbers are one numbering of the zone: every vertex, cell and face of the zone
\* has its own number, from which its indices can be found again (pl_as_ijk); no part gives a
\* number twice, and an entity that the cut gave to two parts has the same number in both.
NumberingsAgree == \A z \in split :
  LET n(e) == IF e = "Vertex" THEN Product(VertexSize(Dims(z)))
              ELSE IF e = "Cell" THEN Product(Dims(z))
              ELSE IF Len(Dims(z)) < 3 THEN 0
              ELSE FacesBefore(3, Dims(z)) + Product(FaceBlock(3, Dims(z)))
      Vtx(p, v) == parts[p].gnum.Vertex[ijk_to_index(v, VertexSize(parts[p].n))]
      Face(p, axis, ijk) == parts[p].gnum.Face[ijk_to_faceIndex(axis, ijk, parts[p].n)]
  IN  /\ NoEmptyPart => \A e \in {"Vertex", "Cell", "Face"} :
           /\ UNION {ToSet(parts[p].gnum[e]) : p \in PartsOf(z)} = 1 .. n(e)
           /\ \A p \in PartsOf(z) : IsInjective(parts[p].gnum[e])
      /\ Len(Dims(z)) > 1 => \A m \in 1 .. n("Cell") :
           ijk_to_index(index_to_ijk(m, Dims(z)), Dims(z)) = m
      /\ Len(Dims(z)) = 3 => \A axis \in 1 .. 3 :
           \A m \in FacesBefore(axis, Dims(z)) + 1 .. FacesBefore(axis, Dims(z)) + Product(FaceBlock(axis, Dims(z))) :
             ijk_to_faceIndex(axis, faceIndex_to_ijk(axis, m, Dims(z)), Dims(z)) = m
      /\ \A p \in PartsOf(z) : \A g \in {g \in parts[p].gcs : IsIntra(g)} :
           LET axis == normal_axis(g.pr, "Vertex") IN \A v \in Points(g.pr) :
             /\ Vtx(p, v) = Vtx(g.opp, OppositeVertex(g, v))
             /\ Len(Dims(z)) = 3 /\ (\A d \in (1 .. 3) \ {axis} : v[d] < g.pr[d][2]) =>
                  Face(p, axis, v) = Face(g.opp, axis, OppositeVertex(g, v))

\* The slabs that compute_slabs cuts an interval of the cells in are, one after the other,
\* the cells of the interval in their order: what the hyperslabs of a file must be.
SlabCells(slab) ==
  LET x == slab[1][2] - slab[1][1]
      y == slab[2][2] - slab[2][1]
      z == slab[3][2] - slab[3][1]
  IN  [i \in 1 .. x * y * z |->
        <<slab[1][1] + ((i - 1) % x), slab[2][1] + (((i - 1) \div x) % y),
          slab[3][1] + ((i - 1) \div (x * y))>>]
SlabsInOrder == \A z \in split : Len(Dims(z)) > 1 =>
  LET n == Product(Dims(z))
  IN  \A first \in 0 .. n - 1 : \A last \in first + 1 .. n :
        LET slabs == compute_slabs(Dims(z), first, last)
        IN  FlattenSeq([k \in DOMAIN slabs |-> SlabCells(slabs[k])])
              = [i \in 1 .. last - first |->
                   cell_to_indexes(first + i - 1, Dims(z)[1] * Dims(z)[2], Dims(z)[1])]

\* The cuts tile the zones, and the slabs the numberings and the file rest on tile an interval
\* of cells in order.
CutsTile == PartsTile /\ SlabsInOrder

\* Nothing under a boundary of a zone is lost or doubled by the split, and what a data set
\* says of it is found under the numbers it had.
SubsetsKept == BoundariesKept /\ DataSetsNumbered

\* The joins of the parts are exactly those the cuts and the original joins call for, and both
\* sides of each, built apart, describe the same vertices.
JoinsExact == JoinsMirror /\ InterfacesJoined
=============================================================================
