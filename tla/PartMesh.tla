------------------------------ MODULE PartMesh -------------------------------
(***************************************************************************)
(* Partitions of unstructured zones: what is built around the graph        *)
(* partitioner of ParaDiGM (pdm_part_to_cgns_zone.py, post_split.py,       *)
(* dist_to_part/index_exchange.py and recover_jn.py).                      *)
(*                                                                         *)
(* A zone of the distributed tree has sections of elements (secs), subsets *)
(* (subs) and fields (data, by the name of the container and of the        *)
(* field); the blocks of the ranks are put end to end.  An element has its *)
(* vertices and the cells on its left and right (0 is none); a cell has    *)
(* itself.  A subset with an empty pl has no PointList: it spans the zone, *)
(* or has the extent of the subset called of, a boundary or a join (rel).  *)
(* A name is a sequence of words: <<"jn">> is split in <<"jn", "0">>,      *)
(* <<"jn", "1">>, and a join made by the split begins with "JN".           *)
(*                                                                         *)
(* A part <<zone, rank, number>> has its numberings (vtx, cell, elt: local *)
(* to global), its polygons and polyhedra in local numbers, and its        *)
(* subsets, each entity of which has its number in the subset (gnum).      *)
(***************************************************************************)
EXTENDS Integers, Sequences, FiniteSets, SequencesExt

CONSTANTS
  Mesh,   \* distributed trees: sequences of zones
  Slot    \* the places <<rank, number>> where parts may be

VARIABLES
  dist,     \* the distributed tree
  parts,    \* the partitioned tree: a function from the parts
  preserve, \* the option preserve_orientation
  phase,
  ok        \* no exception was raised

PartBefore(p, q) ==
  \E k \in DOMAIN p : p[k] < q[k] /\ \A j \in 1 .. k - 1 : p[j] = q[j]
Ascending(S) == SetToSortSeq(S, <)
Position(s, x) == CHOOSE i \in DOMAIN s : s[i] = x
SumOf(s) == FoldLeft(+, 0, s)
SeqOn(s, list) == [k \in DOMAIN list |-> s[list[k]]]

\* Op(x), for an x that is evaluated once.
Once(x, Op(_)) == CHOOSE r \in {Op(y) : y \in {x}} : TRUE

IsIntra(name) == name[1] = "JN"
get_split_prefix(name) == SubSeq(name, 1, Len(name) - 1)
get_split_suffix(name) == name[Len(name)]
HasSuffix(name) == Len(name) >= 2     \* asserted by get_split_prefix

Has(subs, name) == \E s \in subs : s.name = name
Named(subs, name) == CHOOSE s \in subs : s.name = name

-----------------------------------------------------------------------------
(***************************************************************************)
(* Sections.  er is the ElementRange of a section.                         *)
(***************************************************************************)

SectionSize(s) == s.er[2] - s.er[1] + 1
Sorted(secs) == SortSeq(secs, LAMBDA s, t : s.er[1] < t.er[1])
SectionOf(secs, name) == secs[CHOOSE i \in DOMAIN secs : secs[i].name = name]

\* The numbers of the elements of a part, for sections taken in this order.
NumberedInOrder(part, secs) ==
  FlattenSeq([i \in DOMAIN secs |->
    LET offset == SumOf([j \in 1 .. i - 1 |-> SectionSize(secs[j])])
    IN  IF secs[i].name \notin DOMAIN part.elt THEN << >>
        ELSE [k \in DOMAIN part.elt[secs[i].name] |-> part.elt[secs[i].name][k] + offset]])

\* Mutant: the sections are taken in the order of the tree.
create_all_elt_g_numbering_Unsorted(part, secs) == NumberedInOrder(part, secs)

create_all_elt_g_numbering(part, secs) == Once(Sorted(secs), LAMBDA sorted : NumberedInOrder(part, sorted))

\* The numbering of the entities that a PointList of this location has.
EntityNumbers(part, secs, loc) ==
  IF loc = "Vertex" THEN part.vtx ELSE create_all_elt_g_numbering(part, secs)

-----------------------------------------------------------------------------
(***************************************************************************)
(* part_U_zones: ParaDiGM gives each cell to a part, with the faces and    *)
(* vertices of its cells, numbered in one order or the other.              *)
(***************************************************************************)

\* The elements of the same dimension in the sections before this one.
n_elt_cum_d(secs, name) ==
  LET s == SectionOf(secs, name)
  IN  Once(Sorted(secs), LAMBDA sorted :
        SumOf([i \in 1 .. Position(sorted, s) - 1 |->
                IF sorted[i].dim = s.dim THEN SectionSize(sorted[i]) ELSE 0]))

\* External: the first number that ParaDiGM gives, less one, to the elements of a section.
np_numabs(secs, name) ==
  LET s == SectionOf(secs, name)
  IN  SumOf([i \in DOMAIN secs |->
              IF secs[i].dim = s.dim /\ secs[i].er[1] < s.er[1] THEN SectionSize(secs[i]) ELSE 0])

\* enforce_boundary_pe_left: a face with no cell on its left is turned.
enforce_pe_left_parent(face) ==
  IF face.pe[1] = 0 THEN [vtx |-> Reverse(face.vtx), pe |-> <<face.pe[2], 0>>] ELSE face

\* The polygons of a part; its cells are numbered after them (shift_nonzeros).
pdm_ngon(elts, faces, cell, vtx, kept) ==
  LET Local(c) == IF c \in ToSet(cell) THEN Position(cell, c) + Len(faces) ELSE 0
      Pdm(e) == [vtx |-> [k \in DOMAIN e.vtx |-> Position(vtx, e.vtx[k])],
                 pe |-> <<Local(e.cells[1]), Local(e.cells[2])>>]
  IN  [j \in DOMAIN faces |-> IF kept THEN Pdm(elts[faces[j]])
                              ELSE enforce_pe_left_parent(Pdm(elts[faces[j]]))]

\* The polyhedra: the faces of each cell, negative if the cell is on their right.
pdm_nface(ngon, n_cell) ==
  [c \in 1 .. n_cell |->
     LET On(k) == Ascending({j \in DOMAIN ngon : ngon[j].pe[k] = c + Len(ngon)})
     IN  On(1) \o [k \in DOMAIN On(2) |-> -On(2)[k]]]

\* The part of a zone that has these cells.
pdm_elmt_to_cgns_elmt(zone, cells, down, kept) ==
  LET Order(S) == IF down THEN Reverse(Ascending(S)) ELSE Ascending(S)
      On(e) == {e.cells[1], e.cells[2]} \cap cells # {}
      all == UNION {ToSet(zone.secs[i].elts) : i \in DOMAIN zone.secs}
      Elts(n) == SectionOf(zone.secs, n).elts
      Kept(n) == {k \in DOMAIN Elts(n) : On(Elts(n)[k])}
      names == {n \in {zone.secs[i].name : i \in DOMAIN zone.secs} : Kept(n) # {}}
      Numabs(n) == Once(np_numabs(zone.secs, n), LAMBDA first : Order({k + first : k \in Kept(n)}))
      Element(n) == Once(n_elt_cum_d(zone.secs, n), LAMBDA shift :
                      LET numabs == Numabs(n) IN [k \in DOMAIN numabs |-> numabs[k] - shift])
      Connec(n, vtx) == LET kept_elts == Order(Kept(n))
                        IN  [k \in DOMAIN kept_elts |->
                               [j \in DOMAIN Elts(n)[kept_elts[k]].vtx |-> Position(vtx, Elts(n)[kept_elts[k]].vtx[j])]]
      WithNFace(part) == [part EXCEPT !.nface = IF zone.ngon THEN pdm_nface(part.ngon, Cardinality(cells)) ELSE << >>]
      Part(vtx, elt) ==
        [vtx |-> vtx, cell |-> Order(cells), elt |-> elt, sections |-> [n \in names |-> Numabs(n)],
         ec |-> [n \in IF zone.ngon THEN {} ELSE names |-> Connec(n, vtx)],
         ngon |-> IF zone.ngon THEN pdm_ngon(Elts("NGon"), elt["NGon"], Order(cells), vtx, kept) ELSE << >>,
         nface |-> << >>, subs |-> {}, data |-> << >>]
  IN  Once(Order(UNION {ToSet(e.vtx) : e \in {e \in all : On(e)}}), LAMBDA vtx :
        Once([n \in names |-> Element(n)], LAMBDA elt : Once(Part(vtx, elt), WithNFace)))

\* The joins between two parts of a zone: their common faces, or vertices if there is no NGon.
zgc_created_pdm_to_cgns(new, p, ngon) ==
  LET Of(q) == IF ngon THEN new[q].elt["NGon"] ELSE new[q].vtx
      Common(q) == Ascending(ToSet(Of(p)) \cap ToSet(Of(q)))
      Local(q, r) == [k \in DOMAIN Common(q) |-> Position(Of(r), Common(q)[k])]
  IN  {[kind |-> "GC", name |-> <<"JN", p[2], p[3], q[2], q[3]>>,
        loc |-> IF ngon THEN "FaceCenter" ELSE "Vertex", pl |-> Local(q, p), pld |-> Local(q, q),
        gnum |-> << >>, from |-> << >>, of |-> << >>, rel |-> "", one |-> TRUE, opp |-> q, donor |-> << >>] :
         q \in {q \in DOMAIN new : q[1] = p[1] /\ q # p /\ Common(q) # << >>}}

part_U_zones ==
  /\ phase = "dist"
  /\ \E to \in [UNION {{z} \X (1 .. dist[z].ncell) : z \in DOMAIN dist} -> Slot], down, kept \in BOOLEAN :
       LET CellsOn(p) == {c \in 1 .. dist[p[1]].ncell : to[<<p[1], c>>] = <<p[2], p[3]>>}
           ids == {p \in {<<z, s[1], s[2]>> : z \in DOMAIN dist, s \in Slot} : CellsOn(p) # {}}
       IN  /\ \E new \in {[p \in ids |-> pdm_elmt_to_cgns_elmt(dist[p[1]], CellsOn(p), down, kept)]} :
                parts' = [p \in ids |-> [new[p] EXCEPT !.subs = zgc_created_pdm_to_cgns(new, p, dist[p[1]].ngon)]]
           /\ preserve' = kept
  /\ phase' = "parts"
  /\ UNCHANGED <<dist, ok>>

-----------------------------------------------------------------------------
(***************************************************************************)
(* dist_pl_to_part_pl, for the elements and then for the vertices.         *)
(***************************************************************************)

\* The paths of post_partitioning, in their order: there is no DiscreteData_t.
pl_paths == <<"BC", "DS", "ZSR", "FS", "GC">>
FilterLoc(entity) == IF entity = "Vertex" THEN {"Vertex"} ELSE {"EdgeCenter", "FaceCenter", "CellCenter"}

\* The lists of the subsets.  A PointRange of an unstructured zone is turned into the list of its
\* entities, in their order: such a subset is one whose list is contiguous.
collect_distributed_pl(zone, entity) ==
  FlattenSeq([k \in DOMAIN pl_paths |->
    SelectSeq(zone.subs, LAMBDA s : s.kind = pl_paths[k] /\ s.loc \in FilterLoc(entity) /\ s.pl # << >>)])

\* External: the entities of a part that are in a list, with their place in it.
part_distgroup_to_partgroup(lngn, pl) ==
  LET local == Ascending({i \in DOMAIN lngn : lngn[i] \in ToSet(pl)})
  IN  [i |-> local, gnum |-> [k \in DOMAIN local |-> Position(pl, lngn[local[k]])]]

PartSub(s, pl, gnum) ==
  [kind |-> s.kind, name |-> s.name, loc |-> s.loc, pl |-> pl, pld |-> << >>, gnum |-> gnum,
   from |-> << >>, of |-> s.of, rel |-> s.rel, one |-> s.one, opp |-> s.opp, donor |-> s.donor]

\* A data set is put under its boundary, which update_child makes, without a PointList, if the
\* part does not have it; new_child refuses a name that exists.
create_part_pointlists(zone, acc, s, group) ==
  LET bc == {PartSub(b, << >>, << >>) : b \in {b \in ToSet(zone.subs) : s.kind = "DS" /\ b.name = s.of}}
      missing == {b \in bc : ~Has(acc.subs, b.name)}
  IN  IF group.i = << >> THEN acc
      ELSE [subs |-> acc.subs \cup missing \cup {PartSub(s, group.i, group.gnum)},
            ok |-> acc.ok /\ ~Has(acc.subs, s.name)]

dist_pl_to_part_pl(zone, part, acc, entity) ==
  Once(EntityNumbers(part, zone.secs, entity), LAMBDA lngn :
    FoldLeft(LAMBDA a, s :
      Once(part_distgroup_to_partgroup(lngn, s.pl), LAMBDA g : create_part_pointlists(zone, a, s, g)),
      acc, collect_distributed_pl(zone, entity)))

create_point_lists ==
  LET Lists(p, acc, entity) == dist_pl_to_part_pl(dist[p[1]], parts[p], acc, entity)
  IN  /\ phase = "parts"
      /\ \E elements \in {[p \in DOMAIN parts |-> Lists(p, [subs |-> parts[p].subs, ok |-> TRUE], "Elements")]} :
         \E both \in {[p \in DOMAIN parts |-> Lists(p, elements[p], "Vertex")]} :
           /\ parts' = [p \in DOMAIN parts |-> [parts[p] EXCEPT !.subs = both[p].subs]]
           /\ ok' = \A p \in DOMAIN parts : both[p].ok
      /\ phase' = "lists"
      /\ UNCHANGED <<dist, preserve>>

-----------------------------------------------------------------------------
(***************************************************************************)
(* get_pl_donor: the two sides of an interface meet on the rank that holds *)
(* the number of the entity, shifted so that interfaces do not meet.       *)
(***************************************************************************)

\* The matching joins of the distributed tree, <<zone, name>>, in the order of their paths.
JoinPaths ==
  FlattenSeq([z \in DOMAIN dist |->
    LET gcs == SelectSeq(dist[z].subs, LAMBDA s : s.kind = "GC" /\ s.one)
    IN  [k \in DOMAIN gcs |-> <<z, gcs[k].name>>]])
JoinAt(j) == Named(ToSet(dist[j[1]].subs), j[2])
get_jn_donor_path(j) == <<JoinAt(j).opp[1], JoinAt(j).donor>>
IsReference(j) == Position(JoinPaths, j) < Position(JoinPaths, get_jn_donor_path(j))

\* Each pair once, by the first of its two paths.
get_matching_jns == Once(JoinPaths, LAMBDA paths : SelectSeq(paths, IsReference))

join_to_ref(j) == Position(get_matching_jns, IF IsReference(j) THEN j ELSE get_jn_donor_path(j)) - 1
gc_id(j) == 2 * join_to_ref(j) + (IF IsReference(j) THEN 1 ELSE 0)

face_in_join_offset(j) ==
  SumOf([k \in 1 .. join_to_ref(j) |-> Len(JoinAt(get_matching_jns[k]).pl)])

is_initial_gc(s) == s.kind = "GC" /\ s.one /\ ~IsIntra(s.name)
InitialJoins(p) == {s \in parts[p].subs : is_initial_gc(s)}

\* What the parts send for the entities of their joins.
JoinEntries ==
  LET Sent(p, s) == Once(<<face_in_join_offset(<<p[1], s.name>>), gc_id(<<p[1], s.name>>)>>, LAMBDA j :
                      {[gn |-> s.gnum[k] + j[1], part |-> <<p[2], p[3]>>, id |-> j[2], pl |-> s.pl[k]] : k \in DOMAIN s.pl})
  IN  UNION {UNION {Sent(p, s) : s \in InitialJoins(p)} : p \in DOMAIN parts}

\* A join with the entities found opposite: the first in place, the others at the end.
MatchedJoin(p, s, entries) ==
  LET At(k, offset) == {e \in entries : e.gn = s.gnum[k] + offset}
      Found(offset, id) ==
        [k \in DOMAIN s.pl |-> SetToSortSeq({e \in At(k, offset) : e.id # id}, LAMBDA a, b : PartBefore(a.part, b.part))]
      Places(found) == [k \in DOMAIN s.pl |-> <<k, 1>>]
                         \o FlattenSeq([k \in DOMAIN s.pl |-> [m \in 1 .. Len(found[k]) - 1 |-> <<k, m + 1>>]])
      Joined(found, places) ==
        LET Opposite(i) == found[places[i][1]][places[i][2]]
            here == [i \in DOMAIN places |-> places[i][1]]
        IN  [s EXCEPT !.pl = SeqOn(s.pl, here), !.gnum = SeqOn(s.gnum, here),
                      !.pld = [i \in DOMAIN places |-> Opposite(i).pl],
                      !.from = [i \in DOMAIN places |-> Opposite(i).part]]
  IN  Once(<<face_in_join_offset(<<p[1], s.name>>), gc_id(<<p[1], s.name>>)>>, LAMBDA j :
        Once(Found(j[1], j[2]), LAMBDA found :
          IF \E k \in DOMAIN s.pl : found[k] = << >> \/ ~\E e \in At(k, j[1]) : e.id = j[2] /\ e.pl = s.pl[k]
          THEN {}    \* an assertion fails
          ELSE Once(Places(found), LAMBDA places : {Joined(found, places)})))

\* The joins of the distributed tree that a part has are replaced, each by a set of joins.
WithJoins(p, joins) == (parts[p].subs \ InitialJoins(p)) \cup UNION {joins[s] : s \in InitialJoins(p)}

get_pl_donor ==
  /\ phase = "lists" /\ ok
  /\ \E entries \in {JoinEntries} :
       LET Matched(p, s) == MatchedJoin(p, s, entries)
       IN  /\ parts' = [p \in DOMAIN parts |-> [parts[p] EXCEPT !.subs = WithJoins(p, [s \in InitialJoins(p) |-> Matched(p, s)])]]
           /\ ok' = \A p \in DOMAIN parts : \A s \in InitialJoins(p) : Matched(p, s) # {}
  /\ phase' = "matched"
  /\ UNCHANGED <<dist, preserve>>

-----------------------------------------------------------------------------
(***************************************************************************)
(* split_original_joins: a join for each opposite part, in the order of    *)
(* the local numbers of the side that is the reference.                    *)
(***************************************************************************)

SubJoins(p, s, first) ==
  LET opposed_parts == SetToSortSeq(ToSet(s.from), PartBefore)
      ref_pl == IF first THEN s.pl ELSE s.pld
      Index(k) == SetToSortSeq({i \in DOMAIN s.pl : s.from[i] = opposed_parts[k]},
                               LAMBDA i, j : ref_pl[i] < ref_pl[j])
  IN  {[s EXCEPT !.name = s.name \o <<ToString(k - 1)>>, !.opp = s.opp \o opposed_parts[k],
                 !.pl = SeqOn(s.pl, Index(k)), !.pld = SeqOn(s.pld, Index(k)),
                 !.gnum = SeqOn(s.gnum, Index(k)), !.from = << >>] : k \in DOMAIN opposed_parts}

\* Mutant: each side is put in its own order.
split_join_OwnOrder(p, s) == SubJoins(p, s, TRUE)

split_join(p, s) == SubJoins(p, s, IsReference(<<p[1], s.name>>))

split_original_joins ==
  /\ phase = "matched" /\ ok
  /\ parts' = [p \in DOMAIN parts |-> [parts[p] EXCEPT !.subs = WithJoins(p, [s \in InitialJoins(p) |-> split_join(p, s)])]]
  /\ phase' = "split"
  /\ UNCHANGED <<dist, preserve, ok>>

\* The subregions of a part that are related to a boundary, or to the pieces of a join.  The
\* name of each join that is not of the split is then asked for its suffix.
related_zsr(zone, part) ==
  LET ZSRs(kind) == {s \in ToSet(zone.subs) : s.kind = "ZSR" /\ s.rel = kind}
      inter == {g \in part.subs : g.kind = "GC" /\ ~IsIntra(g.name)}
  IN  [subs |-> part.subs
                  \cup {PartSub(s, << >>, << >>) : s \in {s \in ZSRs("BC") : Has(part.subs, s.of)}}
                  \cup UNION {{[PartSub(s, << >>, << >>) EXCEPT
                                  !.name = s.name \o <<get_split_suffix(g.name)>>, !.of = g.name] :
                               g \in {g \in inter : HasSuffix(g.name) /\ get_split_prefix(g.name) = s.of}} :
                              s \in ZSRs("GC")},
       ok |-> ZSRs("GC") # {} => \A g \in inter : HasSuffix(g.name)]

generate_related_zsr ==
  /\ phase = "split" /\ ok
  /\ parts' = [p \in DOMAIN parts |-> [parts[p] EXCEPT !.subs = related_zsr(dist[p[1]], parts[p]).subs]]
  /\ ok' = \A p \in DOMAIN parts : related_zsr(dist[p[1]], parts[p]).ok
  /\ phase' = "related"
  /\ UNCHANGED <<dist, preserve>>

\* Mutant: the pieces that come back to another part are candidates too.
candidate_jns_All(p, s) ==
  {t.name : t \in {t \in parts[s.opp].subs : is_initial_gc(t) /\ get_split_prefix(t.name) = s.donor}}

\* Names of the joins of the opposite part that are pieces of the donor and come back to p.
candidate_jns(p, s) ==
  {t.name : t \in {t \in parts[s.opp].subs :
                     is_initial_gc(t) /\ t.opp = p /\ get_split_prefix(t.name) = s.donor}}

update_gc_donor_name ==
  LET is1to1(s) == s.kind = "GC" /\ s.one
      Donor(p, s) == IF IsIntra(s.name) THEN <<"JN", s.opp[2], s.opp[3], p[2], p[3]>>
                     ELSE CHOOSE n \in candidate_jns(p, s) : TRUE
      found == \A p \in DOMAIN parts : \A s \in parts[p].subs :
                 is_initial_gc(s) => Cardinality(candidate_jns(p, s)) = 1
  IN  /\ phase = "related" /\ ok
      /\ ok' = found
      /\ parts' = IF ~found THEN parts ELSE
           [p \in DOMAIN parts |-> [parts[p] EXCEPT
              !.subs = {s \in parts[p].subs : ~is1to1(s)} \cup
                       {[s EXCEPT !.donor = Donor(p, s)] : s \in {s \in parts[p].subs : is1to1(s)}}]]
      /\ phase' = "ready"
      /\ UNCHANGED <<dist, preserve>>

Partition ==
  \/ part_U_zones
  \/ create_point_lists
  \/ get_pl_donor
  \/ split_original_joins
  \/ generate_related_zsr
  \/ update_gc_donor_name

-----------------------------------------------------------------------------
(***************************************************************************)
(* Properties.                                                             *)
(***************************************************************************)

\* The sections of a part, in the order of their ElementRange.
PartSections(zone) ==
  IF zone.ngon THEN <<SectionOf(zone.secs, "NGon"), SectionOf(zone.secs, "NFace")>> ELSE Sorted(zone.secs)

\* The global numbers of the vertices, or of the elements of a part in their local order.
Entities(zone, part, loc) ==
  IF loc = "Vertex" THEN part.vtx
  ELSE FlattenSeq([i \in DOMAIN PartSections(zone) |->
         LET s == PartSections(zone)[i]
         IN  IF s.name \notin DOMAIN part.elt THEN << >>
             ELSE [k \in DOMAIN part.elt[s.name] |-> s.er[1] - 1 + part.elt[s.name][k]]])

\* The name in the distributed tree of a subset of a part: a join is split.
OriginalName(s) == IF s.kind = "GC" /\ s.one /\ phase \notin {"dist", "parts", "lists", "matched"}
                   THEN get_split_prefix(s.name) ELSE s.name

\* Entities of all the parts.
AllEntities ==
  [p \in DOMAIN parts |-> [loc \in {"Vertex", "FaceCenter", "CellCenter"} |-> Entities(dist[p[1]], parts[p], loc)]]

\* dist_pl_to_part_pl, split_original_joins: on each part, the PointList of a subset holds exactly
\* the entities that the part has of the distributed list, and gnum their place in it.
SubsetsOnParts ==
  ok /\ phase \notin {"dist", "parts"} => \A ents \in {AllEntities} :
    \A p \in DOMAIN parts : \A s \in ToSet(dist[p[1]].subs) :
      s.pl # << >> /\ s.kind # "DD" =>
        \A mine \in {{t \in parts[p].subs : ~IsIntra(t.name) /\ OriginalName(t) = s.name}} :
          /\ \A t \in mine : \A k \in DOMAIN t.pl : ents[p][s.loc][t.pl[k]] = s.pl[t.gnum[k]]
          /\ UNION {ToSet(t.gnum) : t \in mine} = {g \in DOMAIN s.pl : s.pl[g] \in ToSet(ents[p][s.loc])}

\* get_pl_donor, split_original_joins, update_gc_donor_name: the pieces of two opposite joins mirror
\* one another entity by entity, and the pieces of a join pair every two parts that have one of its
\* entities on each side.
JoinsPaired ==
  ok /\ phase \in {"ready", "recovered"} => \A ents \in {AllEntities} :
    /\ \A p \in DOMAIN parts : \A s \in parts[p].subs : s.kind = "GC" /\ s.one =>
         \E t \in parts[s.opp].subs :
           /\ t.name = s.donor /\ t.donor = s.name /\ t.opp = p
           /\ t.pl = s.pld /\ t.pld = s.pl /\ t.gnum = s.gnum
    /\ \A z \in DOMAIN dist : \A j \in ToSet(dist[z].subs) : j.kind = "GC" /\ j.one =>
         \A g \in DOMAIN j.pl :
           LET With(i, v) == {q \in DOMAIN parts : q[1] = i /\ v \in ToSet(ents[q][j.loc])}
           IN  \A p \in With(z, j.pl[g]), q \in With(j.opp[1], j.pld[g]) :
                 Cardinality({s \in parts[p].subs : is_initial_gc(s) /\ OriginalName(s) = j.name
                                                    /\ s.opp = q /\ g \in ToSet(s.gnum)}) = 1

=============================================================================
