---------------------------- MODULE PartTransfer -----------------------------
(***************************************************************************)
(* Exchange of fields between the distributed and the partitioned trees    *)
(* (transfer/dist_to_part/data_exchange.py, transfer/part_to_dist), and    *)
(* the distributed tree rebuilt from the parts (factory/dist_from_part.py).*)
(*                                                                         *)
(* A value is <<field, entity, stamp>>: the field and the entity it was    *)
(* made for, and 1 if the solver has computed it, else 0.                  *)
(***************************************************************************)
EXTENDS PartMesh

CONSTANTS
  Longer,     \* the pairs of words <<w, v>> such that v is w and more letters
  LabelSets,  \* the labels that a transfer is asked for
  Additions   \* the containers in which the solver adds a field: sets of names

VARIABLES
  sent,      \* labels whose fields were sent to the parts
  returned,  \* labels whose fields were sent back
  solved,    \* the solver has run
  recovered  \* the tree rebuilt from the parts: a function from its zones

transfer == <<sent, returned, solved, recovered>>
vars == <<dist, parts, preserve, phase, ok, transfer>>

LABELS == <<"FS", "DD", "ZSR", "DS">>

Fields(node, s) == {nf[2] : nf \in {nf \in DOMAIN node.data : nf[1] = s.name}}

\* The letters of the name begin with those of the prefix.
StartsWith(name, prefix) ==
  /\ Len(prefix) <= Len(name)
  /\ \A k \in DOMAIN prefix :
       prefix[k] = name[k] \/ (k = Len(prefix) /\ <<prefix[k], name[k]>> \in Longer)

PartsOf(z) == {p \in DOMAIN parts : p[1] = z}     \* get_partitioned_zones

-----------------------------------------------------------------------------
(***************************************************************************)
(* The exchanges of protocols.py; ParaDiGM moves the values (external).    *)
(***************************************************************************)

\* The values of a block at the numbers of a part.
block_to_part(values, lngn) == SeqOn(values, lngn)

\* One value for each number that some part holds, the first that is received.
part_to_block(contribs) ==
  Once(contribs, LAMBDA all :
    LET FirstWith(g) == CHOOSE i \in DOMAIN all :
                          g \in ToSet(all[i].gnum) /\ \A j \in 1 .. i - 1 : g \notin ToSet(all[j].gnum)
        Value(c, g) == c.values[Position(c.gnum, g)]
    IN  Once(Ascending(UNION {ToSet(all[i].gnum) : i \in DOMAIN all}), LAMBDA held :
          [k \in DOMAIN held |-> Once(all[FirstWith(held[k])], LAMBDA c : Value(c, held[k]))]))

\* The contributions of the parts, in the order of the ranks.
InRankOrder(ps, contribs) ==
  Once(SetToSortSeq(DOMAIN ps, PartBefore), LAMBDA order :
    FlattenSeq([i \in DOMAIN order |-> SetToSeq(contribs[order[i]])]))

-----------------------------------------------------------------------------
(***************************************************************************)
(* Containers.                                                             *)
(***************************************************************************)

\* ZSRExtent, and the boundary of a data set: the subset that has the PointList of this one.
RegionOf(subs, s) == IF s.pl # << >> \/ s.of = << >> THEN s ELSE Named(subs, s.of)

\* collect_cgns_g_numbering: the numbering of a zone that a field without PointList has.
ZoneNumbers(part, loc) == IF loc = "Vertex" THEN part.vtx ELSE part.cell

\* The nodes of a part where the fields of a container of the distributed zone are, with the
\* numbers of their entities.  The pieces of a join are looked for by the beginning of their name;
\* a piece may have no subregion, of name << >>.
Targets(zone, part, s) ==
  LET region == RegionOf(ToSet(zone.subs), s)
      RelatedTo(g) == {t.name : t \in {t \in part.subs : t.kind = "ZSR" /\ t.of = g.name}}
  IN  IF s.kind \in {"FS", "DD"} /\ s.pl = << >>
      THEN {[name |-> s.name, gnum |-> ZoneNumbers(part, s.loc)]}
      ELSE IF s.rel = "GC"
      THEN {[name |-> IF RelatedTo(g) = {} THEN << >> ELSE CHOOSE n \in RelatedTo(g) : TRUE, gnum |-> g.gnum] :
              g \in {g \in part.subs : g.kind = "GC" /\ StartsWith(g.name, region.name)}}
      ELSE {[name |-> s.name, gnum |-> t.gnum] : t \in {t \in part.subs : t.name = region.name}}

-----------------------------------------------------------------------------
(***************************************************************************)
(* dist_tree_to_part_tree_only_labels                                      *)
(***************************************************************************)

\* Mutant: the entities of a boundary are taken in the order of the part.
dist_field_to_part_Local(zone, part, s) ==
  UNION {{[of |-> s.name, at |-> <<t.name, f>>, values |-> block_to_part(zone.data[<<s.name, f>>], [k \in DOMAIN t.gnum |-> k])] :
            t \in {t \in Targets(zone, part, s) : t.name # << >>}} : f \in Fields(zone, s)}

dist_field_to_part(zone, part, s) ==
  UNION {{[of |-> s.name, at |-> <<t.name, f>>, values |-> block_to_part(zone.data[<<s.name, f>>], t.gnum)] :
            t \in {t \in Targets(zone, part, s) : t.name # << >>}} : f \in Fields(zone, s)}

\* The containers that the exchange creates are a field on the whole zone and a data set of a
\* boundary.  A field that exists is refused.
dist_zone_to_part_zone(zone, acc, label) ==
  LET part == acc.part
      mask == {s \in ToSet(zone.subs) : s.kind = label /\ Fields(zone, s) # {}}
      created == {s \in mask : ~Has(part.subs, s.name) /\ Targets(zone, part, s) # {}
                               /\ (s.pl = << >> /\ label # "ZSR")}
  IN  Once(UNION {dist_field_to_part(zone, part, s) : s \in mask}, LAMBDA new :
        [part |-> [part EXCEPT
           !.subs = @ \cup {PartSub(s, << >>, << >>) : s \in created},
           !.data = [at \in {n.at : n \in new} |-> (CHOOSE n \in new : n.at = at).values] @@ @],
         ok |-> acc.ok /\ \A n \in new : n.at \notin DOMAIN part.data /\ \A m \in new : m.at = n.at => m.of = n.of])

\* A label is sent once.
dist_tree_to_part_tree_only_labels(labels) ==
  LET Step(p, acc, label) == IF label \in labels THEN dist_zone_to_part_zone(dist[p[1]], acc, label) ELSE acc
      Part(p) == FoldLeft(LAMBDA acc, label : Step(p, acc, label), [part |-> parts[p], ok |-> TRUE], LABELS)
  IN
  /\ phase = "ready" /\ ok
  /\ ~solved /\ labels \cap sent = {}
  /\ \E new \in {[p \in DOMAIN parts |-> Part(p)]} :
       /\ parts' = [p \in DOMAIN parts |-> new[p].part]
       /\ ok' = \A p \in DOMAIN parts : new[p].ok
  /\ sent' = sent \cup labels
  /\ UNCHANGED <<dist, preserve, phase, returned, solved, recovered>>

-----------------------------------------------------------------------------
(***************************************************************************)
(* The solver: it computes every field of the parts, and may add a field   *)
(* to a container of the parts or a subregion of its own, at the vertices  *)
(* Probe, which has no numbering.                                          *)
(***************************************************************************)
Probe == {1, 3, 4}

Stamped(values) == [k \in DOMAIN values |-> <<values[k][1], values[k][2], 1>>]

\* The number of the entities of a subset in the zone, or of the cells for a field on all cells.
EntitiesOf(zone, subs, part, s) ==
  Once(RegionOf(subs, s), LAMBDA region :
    IF region.pl # << >> THEN Once(Entities(zone, part, region.loc), LAMBDA numbers : SeqOn(numbers, region.pl))
    ELSE ZoneNumbers(part, s.loc))

NewField(zone, part, s) ==
  Once(EntitiesOf(zone, part.subs, part, s), LAMBDA numbers :
    <<s.name, "new">> :> [k \in DOMAIN numbers |-> <<"new", numbers[k], 1>>])

ProbeSub(part) ==
  [kind |-> "ZSR", name |-> <<"probe">>, loc |-> "Vertex",
   pl |-> Ascending({k \in DOMAIN part.vtx : part.vtx[k] \in Probe}), pld |-> << >>, gnum |-> << >>,
   from |-> << >>, of |-> << >>, rel |-> "", one |-> FALSE, opp |-> << >>, donor |-> << >>]

\* names: where fields are added.  An added container is on every part that has one of its entities.
Solved(zone, part, names) ==
  LET add == {s \in part.subs : s.name \in names \/ (s.name # << >> /\ get_split_prefix(s.name) \in names)}
      mine == IF <<"probe">> \in names /\ ProbeSub(part).pl # << >> THEN {ProbeSub(part)} ELSE {}
      stamped == [a \in DOMAIN part.data |-> Stamped(part.data[a])]
  IN  [part EXCEPT !.subs = @ \cup mine,
                   !.data = FoldSet(LAMBDA s, d : NewField(zone, part, s) @@ d, stamped, add \cup mine)]

solve ==
  /\ phase = "ready" /\ ok /\ ~solved
  /\ \E names \in Additions :
       parts' = [p \in DOMAIN parts |-> Solved(dist[p[1]], parts[p], names)]
  /\ solved' = TRUE
  /\ UNCHANGED <<dist, preserve, phase, ok, sent, returned, recovered>>

-----------------------------------------------------------------------------
(***************************************************************************)
(* part_to_dist: a zone of the distributed tree with its parts, ps.        *)
(***************************************************************************)

DistSub(t) ==
  [kind |-> t.kind, name |-> t.name, loc |-> t.loc, pl |-> << >>, of |-> t.of, rel |-> t.rel, one |-> t.one,
   opp |-> t.opp, donor |-> t.donor, pld |-> << >>]

SubsOf(ps) == UNION {ps[p].subs : p \in DOMAIN ps}

\* The entities of a subset that has no numbering are numbered in the order of the zone.
create_part_pl_gnum(zone, ps, name) ==
  LET OnZone(p, s) == Once(EntityNumbers(ps[p], zone.secs, s.loc), LAMBDA lngn : SeqOn(lngn, s.pl))
      with == {p \in DOMAIN ps : Has(ps[p].subs, name)}
      Renumbered(s, numbers, blk_gnum) ==
        IF s.name # name THEN s ELSE [s EXCEPT !.gnum = [k \in DOMAIN s.pl |-> Position(blk_gnum, numbers[k])]]
  IN  Once([p \in with |-> OnZone(p, Named(ps[p].subs, name))], LAMBDA numbers :
        Once(Ascending(UNION {ToSet(numbers[p]) : p \in with}), LAMBDA blk_gnum :
          [p \in DOMAIN ps |->
             IF p \notin with THEN ps[p]
             ELSE [ps[p] EXCEPT !.subs = {Renumbered(s, numbers[p], blk_gnum) : s \in @}]]))

\* The PointList of the distributed node, from the nodes of each part.
part_pl_to_dist_pl(zone, ps, nodes) ==
  LET OnZone(p, t) == Once(EntityNumbers(ps[p], zone.secs, t.loc), LAMBDA lngn : SeqOn(lngn, t.pl))
      Contribs(p) == {[gnum |-> t.gnum, values |-> OnZone(p, t)] : t \in nodes[p]}
  IN  part_to_block(InRankOrder(ps, [p \in DOMAIN ps |-> Contribs(p)]))

\* Nodes of the parts that the distributed zone does not have are added, with their PointList.
discover_nodes(zone, ps, label) ==
  LET new == {DistSub(t) : t \in {t \in SubsOf(ps) : t.kind = label /\ ~Has(ToSet(zone.subs), t.name)}}
      Lacks(subs) == {s.name : s \in {s \in ToSet(subs) : s.kind = label /\ s.pl = << >>
                                        /\ \E t \in SubsOf(ps) : t.name = s.name /\ t.pl # << >>}}
      Numbered(lacks) == FoldSet(LAMBDA n, q : IF \E t \in SubsOf(ps) : t.name = n /\ t.gnum # << >> THEN q
                                               ELSE create_part_pl_gnum(zone, q, n), ps, lacks)
      Nodes(part, name) == {t \in part.subs : t.name = name}
      PL(numbered, name) == part_pl_to_dist_pl(zone, numbered, [p \in DOMAIN ps |-> Nodes(numbered[p], name)])
      Listed(s, lacks, numbered) == IF s.name \in lacks THEN [s EXCEPT !.pl = PL(numbered, s.name)] ELSE s
  IN  Once(zone.subs \o SetToSeq(new), LAMBDA subs : Once(Lacks(subs), LAMBDA lacks : Once(Numbered(lacks), LAMBDA numbered :
        [subs |-> [i \in DOMAIN subs |-> Listed(subs[i], lacks, numbered)], ps |-> numbered])))

\* The subregions of the pieces of a join are merged: those whose name begins with the one of a
\* subregion that the zone had are dropped, for a new one the first is kept and renamed.
merge_split_zsr(had, subs) ==
  LET split(s) == s.rel = "GC" /\ s.name \notin had
      Kept(s) == /\ ~(s.rel = "GC" /\ \E n \in had : n # s.name /\ StartsWith(s.name, n))
                 /\ split(s) => get_split_suffix(s.name) = "0"
      Merged(s) == IF split(s) THEN [s EXCEPT !.name = get_split_prefix(@), !.of = get_split_prefix(@)] ELSE s
  IN  Once(SelectSeq(subs, Kept), LAMBDA kept : [i \in DOMAIN kept |-> Merged(kept[i])])

_discover_wrapper(zone, ps, label) ==
  LET had == {s.name : s \in {s \in ToSet(zone.subs) : s.rel = "GC"}}
  IN  Once(discover_nodes(zone, ps, label), LAMBDA found :
        Once(IF label = "ZSR" THEN merge_split_zsr(had, found.subs) ELSE found.subs, LAMBDA subs :
          [zone |-> [zone EXCEPT !.subs = subs,
                                 !.data = [nf \in {nf \in DOMAIN @ : Has(ToSet(subs), nf[1])} |-> @[nf]]],
           ps |-> found.ps]))

\* Fields to bring back: those of the zone and those of the parts' nodes of the same name, and of
\* the first piece if the zone did not have the subregion.
FieldsBack(had, zone, ps, s) ==
  LET first == s.name \o <<"0">>
      At(n) == UNION {Fields(ps[p], [name |-> n]) : p \in DOMAIN ps}
  IN  Fields(zone, s) \cup At(s.name) \cup (IF s.name \in had THEN {} ELSE At(first))

\* The values of a field on the parts; failed if a part has the node and not the field.  Of a node
\* that no part has, a solution is left as it is; the fields of a subregion or a data set are
\* exchanged from no part at all, which gives empty arrays.
part_field_to_dist(zone, ps, s, f) ==
  LET sollike == s.kind \in {"FS", "DD"}
      Nodes(p) == {t \in Targets(zone, ps[p], s) : t.name = << >> \/ Has(ps[p].subs, t.name)}
      Contribs(p, nodes) == {[gnum |-> t.gnum, values |-> ps[p].data[<<t.name, f>>]] : t \in nodes[p]}
      anywhere(nodes) == \E p \in DOMAIN ps : nodes[p] # {}
      Complete(nodes) == /\ sollike => anywhere(nodes)
                         /\ \A p \in DOMAIN ps : \A t \in nodes[p] : <<t.name, f>> \in DOMAIN ps[p].data
      everywhere(nodes) == \A p \in DOMAIN ps : nodes[p] # {} \/ s.pl # << >>
  IN  Once([p \in DOMAIN ps |-> Nodes(p)], LAMBDA nodes : Once(Complete(nodes), LAMBDA complete :
        [values |-> IF complete THEN part_to_block(InRankOrder(ps, [p \in DOMAIN ps |-> Contribs(p, nodes)])) ELSE << >>,
         skipped |-> sollike /\ ~complete,
         ok |-> IF sollike THEN ~complete \/ everywhere(nodes) ELSE complete]))

NewData(done) ==
  LET brought == {sf \in DOMAIN done : done[sf].ok /\ ~done[sf].skipped}
      Source(at) == CHOOSE sf \in brought : at = <<sf[1].name, sf[2]>>
  IN  [at \in {<<sf[1].name, sf[2]>> : sf \in brought} |-> done[Source(at)].values]

\* Mutant: a field that the zone has is not written again.
Updated_Kept(data, done) == data @@ NewData(done)

Updated(data, done) == NewData(done) @@ data

part_zones_to_dist_zone(zone, ps, label) ==
  LET had == {s.name : s \in ToSet(zone.subs)}
      Todo(z) == UNION {{<<s, f>> : f \in FieldsBack(had, z, ps, s)} : s \in {s \in ToSet(z.subs) : s.kind = label}}
  IN  Once(_discover_wrapper(zone, ps, label), LAMBDA w :
        Once([sf \in Todo(w.zone) |-> part_field_to_dist(w.zone, w.ps, sf[1], sf[2])], LAMBDA done :
          [zone |-> [w.zone EXCEPT !.data = Updated(@, done)], ps |-> w.ps, ok |-> \A sf \in DOMAIN done : done[sf].ok]))

part_tree_to_dist_tree_only_labels(labels) ==
  LET Step(acc, label) ==
        IF acc.ok /\ label \in labels THEN part_zones_to_dist_zone(acc.zone, acc.ps, label) ELSE acc
      Zone(z) == FoldLeft(Step, [zone |-> dist[z], ps |-> [p \in PartsOf(z) |-> parts[p]], ok |-> TRUE], LABELS)
  IN  /\ phase = "ready" /\ ok
      /\ solved /\ labels \cap returned = {}
      /\ \E zones \in {[z \in DOMAIN dist |-> Zone(z)]} :
           /\ dist' = [z \in DOMAIN dist |-> zones[z].zone]
           /\ parts' = [p \in DOMAIN parts |-> zones[p[1]].ps[p]]
           /\ ok' = \A z \in DOMAIN dist : zones[z].ok
      /\ returned' = returned \cup labels
      /\ UNCHANGED <<preserve, phase, sent, solved, recovered>>

-----------------------------------------------------------------------------
(***************************************************************************)
(* recover_dist_tree                                                       *)
(***************************************************************************)

\* Mutant: the left cell is taken from the first part whatever the orientation.
MergedPE_First(first, second) ==
  <<first[1], second[1]>>

\* The two cells of a face that two parts have, from what each part knows.
MergedPE(first, second) ==
  IF first[1] = 0 THEN <<second[1], first[2]>>          \* orientation preserved, first was right
  ELSE IF second[2] # 0 THEN <<first[1], second[2]>>    \* preserved, first was left
  ELSE <<first[1], second[1]>>                          \* not preserved

\* Polygons: at most two parts have one, the vertices are those of the first.
part_ngon_to_dist_ngon(ps) ==
  LET Cell(p, c) == IF c = 0 THEN 0 ELSE ps[p].cell[c - Len(ps[p].ngon)]
      Known(p) == {[gnum |-> ps[p].elt["NGon"],
                    values |-> [j \in DOMAIN ps[p].ngon |->
                      [vtx |-> SeqOn(ps[p].vtx, ps[p].ngon[j].vtx),
                       cells |-> <<Cell(p, ps[p].ngon[j].pe[1]), Cell(p, ps[p].ngon[j].pe[2])>>]]]}
      Of(k, g) == k.values[Position(k.gnum, g)]
      Face(on, g) == IF Len(on) = 1 THEN Of(on[1], g)
                     ELSE [Of(on[1], g) EXCEPT !.cells = MergedPE(@, Of(on[2], g).cells)]
      With(known, g) == SelectSeq(known, LAMBDA k : g \in ToSet(k.gnum))
      Faces(known) == Once(Ascending(UNION {ToSet(known[i].gnum) : i \in DOMAIN known}), LAMBDA faces :
                        [i \in DOMAIN faces |-> [g |-> faces[i], on |-> With(known, faces[i])]])
  IN  Once(InRankOrder(ps, [p \in DOMAIN ps |-> Known(p)]), LAMBDA known : Once(Faces(known), LAMBDA faces :
        [elts |-> [i \in DOMAIN faces |-> Face(faces[i].on, faces[i].g)],
         ok |-> \A i \in DOMAIN faces : Len(faces[i].on) <= 2]))

\* Polyhedra: a cell is on one part, its faces keep the signs they have there.
part_nface_to_dist_nface(ps) ==
  LET Signed(p, f) == IF f < 0 THEN -ps[p].elt["NGon"][-f] ELSE ps[p].elt["NGon"][f]
      Known(p) == {[gnum |-> ps[p].elt["NFace"],
                    values |-> [c \in DOMAIN ps[p].nface |->
                                  [k \in DOMAIN ps[p].nface[c] |-> Signed(p, ps[p].nface[c][k])]]]}
  IN  part_to_block(InRankOrder(ps, [p \in DOMAIN ps |-> Known(p)]))

\* A section, its range counted in the sections of the same dimension.
part_elt_to_dist_elt(ps, name, dim) ==
  LET with == {p \in DOMAIN ps : name \in DOMAIN ps[p].elt}
      Known(p) == {[gnum |-> ps[p].elt[name],
                    values |-> [k \in DOMAIN ps[p].ec[name] |-> SeqOn(ps[p].vtx, ps[p].ec[name][k])]] : q \in {p} \cap with}
      numbers == UNION {ToSet(ps[p].sections[name]) : p \in with}
  IN  Once(Ascending(numbers), LAMBDA sorted :
        [name |-> name, dim |-> dim, er |-> <<sorted[1], sorted[Len(sorted)]>>,
         ec |-> part_to_block(InRankOrder(ps, [p \in DOMAIN ps |-> Known(p)]))])

\* elt_ordering_by_dim of a part: the dimensions of its sections go up, down, or are all the same.
GoUp(secs, part) ==
  \E i, j \in DOMAIN secs : /\ {secs[i].name, secs[j].name} \subseteq DOMAIN part.elt
                            /\ secs[i].er[1] < secs[j].er[1] /\ secs[i].dim < secs[j].dim

\* What is added to the range of a section, for the dimensions that come before.
DimShift(up, secs, s) ==
  SumOf([i \in DOMAIN secs |-> IF (up /\ secs[i].dim < s.dim) \/ (~up /\ secs[i].dim > s.dim)
                               THEN SectionSize(secs[i]) ELSE 0])

_recover_elements(zone, ps) ==
  LET names == SelectSeq(zone.secs, LAMBDA s : \E p \in DOMAIN ps : s.name \in DOMAIN ps[p].elt)
      Secs(kept) == [i \in DOMAIN kept |-> part_elt_to_dist_elt(ps, kept[i].name, kept[i].dim)]
      up == \E p \in DOMAIN ps : GoUp(zone.secs, ps[p])
      Shifted(s, shift) == [name |-> s.name, dim |-> s.dim, elts |-> s.ec, er |-> <<s.er[1] + shift, s.er[2] + shift>>]
  IN  IF zone.ngon
      THEN Once(part_ngon_to_dist_ngon(ps), LAMBDA ngon : Once(part_nface_to_dist_nface(ps), LAMBDA nface :
             [secs |-> <<[name |-> "NGon", dim |-> 2, er |-> <<1, Len(ngon.elts)>>, elts |-> ngon.elts],
                         [name |-> "NFace", dim |-> 3, er |-> <<Len(ngon.elts) + 1, Len(ngon.elts) + Len(nface)>>,
                          elts |-> nface]>>,
              ok |-> ngon.ok]))
      ELSE Once(names, LAMBDA kept : Once(Secs(kept), LAMBDA secs :
             [secs |-> [i \in DOMAIN secs |-> Once(DimShift(up, secs, secs[i]), LAMBDA shift : Shifted(secs[i], shift))],
              ok |-> TRUE]))

\* Boundaries: a boundary that a part has without PointList cannot be brought back.
_recover_BC(zone, ps) ==
  LET names == {t.name : t \in {t \in SubsOf(ps) : t.kind = "BC"}}
      Nodes(p, n) == {t \in ps[p].subs : t.name = n}
      BC(n) == [DistSub(CHOOSE t \in SubsOf(ps) : t.name = n)
                  EXCEPT !.pl = part_pl_to_dist_pl(zone, ps, [p \in DOMAIN ps |-> Nodes(p, n)])]
  IN  {BC(n) : n \in names}

\* Joins: the pieces of a join are put together; the name of each is asked for its suffix.
_recover_GC(zone, ps) ==
  LET pieces == {t \in SubsOf(ps) : t.kind = "GC" /\ ~IsIntra(t.name)}
      Pieces(p, n) == {t \in ps[p].subs \cap pieces : get_split_prefix(t.name) = n}
      GC(n) == LET t == CHOOSE t \in pieces : get_split_prefix(t.name) = n
               IN  [DistSub(t) EXCEPT !.name = n, !.opp = <<@[1]>>, !.donor = get_split_prefix(@),
                      !.pl = part_pl_to_dist_pl(zone, ps, [p \in DOMAIN ps |-> Pieces(p, n)])]
  IN  {GC(n) : n \in {get_split_prefix(t.name) : t \in pieces}}

recover_zone(zone, ps) ==
  LET Empty(secs) == [ngon |-> zone.ngon, nvtx |-> Cardinality(UNION {ToSet(ps[p].vtx) : p \in DOMAIN ps}),
                      ncell |-> Cardinality(UNION {ToSet(ps[p].cell) : p \in DOMAIN ps}),
                      secs |-> secs, subs |-> << >>, data |-> << >>]
      Bounded(empty) == [empty EXCEPT !.subs = SetToSeq(_recover_BC(empty, ps) \cup _recover_GC(empty, ps))]
      Step(acc, label) == Once(part_zones_to_dist_zone(acc.zone, acc.ps, label), LAMBDA r :
                            [zone |-> r.zone, ps |-> r.ps, ok |-> acc.ok /\ r.ok])
  IN  Once(_recover_elements(zone, ps), LAMBDA elements : Once(Empty(elements.secs), LAMBDA empty :
        FoldLeft(Step, [zone |-> Bounded(empty), ps |-> ps, ok |-> elements.ok], <<"FS", "DD", "ZSR">>)))

\* Assertions of get_split_prefix and of create_all_elt_g_numbering, before anything is exchanged.
Recoverable ==
  \A p \in DOMAIN parts : \A s \in parts[p].subs :
    /\ s.kind = "GC" /\ ~IsIntra(s.name) => HasSuffix(s.name)
    /\ s.kind = "BC" => s.pl # << >>

\* copy_donor_subset: the PointListDonor of a join is the PointList of its donor.
copy_donor_subset(tree) ==
  LET Donor(s) == Named(ToSet(tree[s.opp[1]].subs), s.donor)
      With(s) == IF s.kind = "GC" THEN [s EXCEPT !.pld = Donor(s).pl] ELSE s
  IN  [z \in DOMAIN tree |-> [tree[z] EXCEPT !.subs = [i \in DOMAIN tree[z].subs |-> With(tree[z].subs[i])]]]

recover_dist_tree ==
  /\ phase = "ready" /\ ok
  /\ phase' = "recovered"
  /\ IF ~Recoverable THEN ok' = FALSE /\ UNCHANGED <<parts, recovered>>
     ELSE \E zones \in {[z \in DOMAIN dist |-> recover_zone(dist[z], [p \in PartsOf(z) |-> parts[p]])]} :
            /\ ok' = \A z \in DOMAIN dist : zones[z].ok
            /\ recovered' = copy_donor_subset([z \in DOMAIN dist |-> zones[z].zone])
            /\ parts' = [p \in DOMAIN parts |-> zones[p[1]].ps[p]]
  /\ UNCHANGED <<dist, preserve, sent, returned, solved>>

-----------------------------------------------------------------------------
Init ==
  /\ dist \in Mesh
  /\ parts = << >>
  /\ preserve = FALSE
  /\ phase = "dist"
  /\ ok = TRUE
  /\ sent = {} /\ returned = {} /\ solved = FALSE /\ recovered = << >>

Next ==
  \/ Partition /\ UNCHANGED transfer
  \/ \E labels \in LabelSets : dist_tree_to_part_tree_only_labels(labels)
  \/ solve
  \/ \E labels \in LabelSets : part_tree_to_dist_tree_only_labels(labels)
  \/ recover_dist_tree

Spec == Init /\ [][Next]_vars

-----------------------------------------------------------------------------
(***************************************************************************)
(* Properties.                                                             *)
(***************************************************************************)

\* The entities of a container of a distributed zone, in the order of its values.
DistEntities(zone, s) ==
  LET region == RegionOf(ToSet(zone.subs), s)
  IN  IF region.pl # << >> THEN region.pl
      ELSE [k \in 1 .. (IF s.loc = "Vertex" THEN zone.nvtx ELSE zone.ncell) |-> k]

\* Each value is one of this field made for the entity at its place.
InPlace(values, field, entities) ==
  /\ DOMAIN values = DOMAIN entities
  /\ \A k \in DOMAIN values : values[k][1] = field /\ values[k][2] = entities[k]

ZoneInPlace(zone) ==
  \A nf \in DOMAIN zone.data : InPlace(zone.data[nf], nf[2], DistEntities(zone, Named(ToSet(zone.subs), nf[1])))

\* The name in the distributed tree of a container of a part.
DistName(t) == IF t.rel = "GC" THEN get_split_prefix(t.name) ELSE t.name

\* dist_tree_to_part_tree: every value of a part is the one of its entity, and each part that has
\* an entity of a container whose label was sent has all its fields.  A DiscreteData_t with a
\* PointList is excepted: post_partitioning does not make it on the parts.
FieldsSent ==
  ok /\ phase = "ready" =>
    \A p \in DOMAIN parts :
      /\ \A nf \in DOMAIN parts[p].data :
           InPlace(parts[p].data[nf], nf[2],
                   EntitiesOf(dist[p[1]], parts[p].subs, parts[p], Named(parts[p].subs, nf[1])))
      /\ \A s \in ToSet(dist[p[1]].subs) : s.kind \in sent /\ ~(s.kind = "DD" /\ s.pl # << >>) =>
           LET region == RegionOf(ToSet(dist[p[1]].subs), s)
           IN  region.pl = << >> \/ ToSet(region.pl) \cap ToSet(Entities(dist[p[1]], parts[p], region.loc)) # {} =>
                 \A f \in Fields(dist[p[1]], s) : f = "new" \/
                   \E t \in parts[p].subs : DistName(t) = s.name /\ <<t.name, f>> \in DOMAIN parts[p].data

\* part_tree_to_dist_tree: every value of the distributed tree is the one of its entity, and the
\* fields of the parts whose label was returned are there as the solver left them, those it created
\* included.  A field created on the pieces of a join's subregion is excepted: _discover_wrapper
\* drops the pieces of a subregion that the zone has before their new fields are looked at.  So are
\* the fields of a subregion or a data set asked back although it was never sent: they are emptied
\* when no part has the node.
FieldsReturned ==
  ok => \A z \in DOMAIN dist :
    /\ \A nf \in DOMAIN dist[z].data : LET s == Named(ToSet(dist[z].subs), nf[1])
         IN  \/ InPlace(dist[z].data[nf], nf[2], DistEntities(dist[z], s))
             \/ s.kind \in returned \ sent /\ s.kind \in {"ZSR", "DS"} /\ dist[z].data[nf] = << >>
    /\ \A p \in PartsOf(z) : \A nf \in DOMAIN parts[p].data :
         LET t == Named(parts[p].subs, nf[1])
             at == <<DistName(t), nf[2]>>
         IN  t.kind \in returned /\ ~(t.rel = "GC" /\ nf[2] = "new") =>
               at \in DOMAIN dist[z].data /\ \A k \in DOMAIN dist[z].data[at] : dist[z].data[at][k][3] = 1

\* A face of the rebuilt tree is the one of the mesh, or the same turned if the orientation is free.
SameFace(e, d) ==
  \/ e.vtx = d.vtx /\ e.cells = d.cells
  \/ ~preserve /\ e.vtx = Reverse(d.vtx) /\ e.cells = <<d.cells[2], d.cells[1]>>

Signed(faces, c) ==
  {IF faces[f].cells[1] = c THEN f ELSE -f : f \in {f \in DOMAIN faces : c \in {faces[f].cells[1], faces[f].cells[2]}}}
Abs(S) == {IF x < 0 THEN -x ELSE x : x \in S}

\* recover_dist_tree: the rebuilt tree has the sections of the mesh at their ranges, the same
\* faces and elements, boundaries and joins in the same order, and the fields of the parts.  The
\* cells have the same faces, with the signs of the rebuilt faces if the orientation was preserved.
TreeRecovered ==
  ok /\ recovered # << >> => \A z \in DOMAIN dist : \A new \in {recovered[z]} :
    /\ new.nvtx = dist[z].nvtx /\ new.ncell = dist[z].ncell
    /\ \A d \in ToSet(dist[z].secs) : \E s \in ToSet(new.secs) :
         /\ s.name = d.name /\ s.er = d.er
         /\ DOMAIN s.elts = DOMAIN d.elts
         /\ \A k \in DOMAIN d.elts :
              IF ~new.ngon THEN s.elts[k] = d.elts[k].vtx
              ELSE IF d.name = "NGon" THEN SameFace(s.elts[k], d.elts[k])
              ELSE \A faces \in {SectionOf(new.secs, "NGon").elts} :
                     /\ Abs(ToSet(s.elts[k])) = Abs(Signed(faces, k))
                     /\ preserve => ToSet(s.elts[k]) = Signed(faces, k)
    /\ \A d \in ToSet(dist[z].subs) : d.kind \in {"BC", "GC"} =>
         \E s \in ToSet(new.subs) : s.name = d.name /\ s.loc = d.loc /\ s.pl = d.pl /\ s.pld = d.pld
                                     /\ s.opp = d.opp /\ s.donor = d.donor
    /\ ZoneInPlace(new)
    /\ \A p \in PartsOf(z) : \A nf \in DOMAIN parts[p].data :
         LET t == Named(parts[p].subs, nf[1])
         IN  t.kind # "DS" => <<DistName(t), nf[2]>> \in DOMAIN new.data

\* Assertions of get_pl_donor, update_gc_donor_name and the exchanges hold, except in two cases: a
\* tree that has a join that is not 1to1 is recovered; subregions or data sets of the distributed
\* tree that were never sent are asked back.
FailsOnlyAsKnown ==
  \/ ok
  \/ \E z \in DOMAIN dist : \E s \in ToSet(dist[z].subs) : s.kind = "GC" /\ ~s.one /\ phase = "recovered"
  \/ (returned \ sent) \cap {"ZSR", "DS"} # {}

=============================================================================
