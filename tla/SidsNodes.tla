------------------------------ MODULE SidsNodes ------------------------------
(***************************************************************************)
(* A CGNS tree made by a sequence of presets (SidsPresets), and what the   *)
(* functions aware of the standard read in it (SidsAccess).                *)
(*                                                                         *)
(* The tree is of one of five kinds: zones with plain or with periodic     *)
(* joins, a zone with sections of elements, a zone with subsets, or a zone *)
(* of each dimension.  last is what was asked of the last preset, raised   *)
(* whether it raised.                                                      *)
(***************************************************************************)
EXTENDS SidsAccess

CONSTANTS
  Zones,         \* paths of the zones of a tree with joins, and
  FewZones,      \* of one with periodic joins
  MaxElement,    \* number of the last element
  MaxSections,   \* bound on the sections of elements
  MaxSubsets     \* bound on the subsets

VARIABLES tree, kind, raised, last

vars == <<tree, kind, raised, last>>

Optional(S) == {<< >>} \cup {<<x>> : x \in S}
ZoneAt(path) == get_node_from_path(tree, << >>, path)[1]
Child(p, name) == get_child_from_name(tree, p, name)[1]

Answer(r, asked) ==
  /\ tree' = r.tree
  /\ raised' = ~r.ok
  /\ last' = IF r.ok THEN asked ELSE << >>
  /\ UNCHANGED kind

-----------------------------------------------------------------------------
(***************************************************************************)
(* Joins                                                                   *)
(***************************************************************************)

NoArgs == [loc |-> << >>, family |-> << >>, point_range |-> << >>, point_list |-> << >>, bc_name |-> << >>,
           gc_name |-> << >>, point_range_donor |-> << >>, point_list_donor |-> << >>]

JoinsTree(zones) ==
  LET Base(t, name) == new_CGNSBase(t, << >>, name, 3, 3).tree
      Add(t, z) == LET base == get_node_from_path(t, << >>, <<z[1]>>)[1]
                       made == new_Zone(t, base, z[2], "Unstructured", <<<<4, 1, 0>>>>, << >>).tree
                   IN  new_ZoneGridConnectivity(made, LastOf(t, base), "ZGC").tree
  IN  FoldLeft(Add, FoldLeft(Base, new_CGNSTree, SetToSeq({z[1] : z \in zones})), SetToSeq(zones))

JoinsOf(z) == At(tree, Child(ZoneAt(z), "ZGC")).kids

\* One join for each zone.  The donor of a plain join is named without its base when it can be.
ZonesOf == IF kind = "joins" THEN Zones ELSE FewZones

NewJoin == \E z, donor \in Zones, type \in {"1to1", "Overset"} :
  /\ kind = "joins"
  /\ donor # z
  /\ JoinsOf(z) = << >>
  /\ LET zgc == Child(ZoneAt(z), "ZGC")
         name == IF donor[1] = z[1] THEN <<donor[2]>> ELSE donor
     IN  Answer(IF type = "1to1" THEN new_GridConnectivity1to1(tree, zgc, "J", name, << >>, << >>, << >>)
                ELSE new_GridConnectivity(tree, zgc, "J", name, type, NoArgs), << >>)

\* A join with properties: a periodic transformation, or none.
Perio(v) == [rotation_angle |-> <<0>>, rotation_center |-> <<0>>, translation |-> <<v>>]
NewJoinWithProperty == \E z, donor \in FewZones, v \in Optional({0, 1, 2}) :
  /\ kind = "periodic"
  /\ donor # z
  /\ JoinsOf(z) = << >>
  /\ LET zgc == Child(ZoneAt(z), "ZGC")
         joined == new_GridConnectivity(tree, zgc, "J", donor, "Abutting1to1", NoArgs)
         perio == IF v = << >> THEN << >> ELSE <<Perio(v[1])>>
     IN  Answer(new_GridConnectivityProperty(joined.tree, LastOf(tree, zgc), perio), << >>)

-----------------------------------------------------------------------------
(***************************************************************************)
(* Elements                                                                *)
(***************************************************************************)

ElementsTree ==
  LET based == new_CGNSBase(new_CGNSTree, << >>, "Base", 3, 3)
      zone == new_Zone(based.tree, <<2>>, "Zone", "Unstructured", <<<<9, 4, 0>>>>, <<"Rotor">>)
  IN  new_GridCoordinates(zone.tree, <<2, 1>>, "GridCoordinates", <<<<"CoordinateX", <<1>>>>, <<"CoordinateY", <<2>>>>>>).tree

Zone == <<2, 1>>
Free == {i \in 1 .. MaxElement : \A k \in DOMAIN Sections(tree, Zone) :
          LET r == EltRange(tree, Sections(tree, Zone)[k]) IN i \notin r[1] .. r[2]}
Types == {"BAR_2", "TRI_3", "QUAD_4", "TETRA_4"}

\* The sections of a zone have no element in common, but come in any order.
NewElements == \E type \in Types, a, b \in 1 .. MaxElement :
  /\ kind = "elements"
  /\ Len(Sections(tree, Zone)) < MaxSections
  /\ a <= b /\ a .. b \subseteq Free
  /\ Answer(new_Elements(tree, Zone, <<"E1", "E2", "E3", "E4">>[Len(Sections(tree, Zone)) + 1], type, <<<<a, b>>>>, << >>), << >>)

NewNGon == \E pe \in Optional({<<1>>}), b \in 1 .. MaxElement :
  /\ kind = "elements"
  /\ Len(Sections(tree, Zone)) < MaxSections
  /\ 1 .. b \subseteq Free
  /\ Answer(new_NGonElements(tree, Zone, "NGon", <<<<1, b>>>>, <<<<0, 3>>>>, <<<<1, 2, 3>>>>, pe, << >>), << >>)

NewNFace == \E a \in 1 .. MaxElement :
  /\ kind = "elements"
  /\ Len(Sections(tree, Zone)) < MaxSections
  /\ a .. MaxElement \subseteq Free
  /\ Answer(new_NFaceElements(tree, Zone, "NFace", <<<<a, MaxElement>>>>, << >>, << >>), << >>)

-----------------------------------------------------------------------------
(***************************************************************************)
(* Subsets                                                                 *)
(***************************************************************************)

SubsetsTree(size) ==
  LET based == new_CGNSBase(new_CGNSTree, << >>, "Base", Len(size), 3)
      zone == new_Zone(based.tree, <<2>>, "Zone", "Structured", size, << >>)
      bcs == new_ZoneBC(zone.tree, <<2, 1>>)
      first == new_ZoneGridConnectivity(bcs.tree, <<2, 1>>, "ZGC1")
  IN  new_ZoneGridConnectivity(first.tree, <<2, 1>>, "ZGC2").tree

Sizes == {<<<<3, 2, 0>>>>, <<<<3, 2, 0>>, <<2, 1, 0>>>>, <<<<3, 2, 0>>, <<2, 1, 0>>, <<4, 3, 0>>>>}

SubsetLabel == {"BC_t", "BCDataSet_t", "ZoneSubRegion_t", "DiscreteData_t", "FlowSolution_t", "GridConnectivity_t",
                "GridConnectivity1to1_t"}
Subsets == {p \in Positions(tree) : At(tree, p).label \in SubsetLabel}
Roomy == kind = "subsets" /\ Cardinality(Subsets) < MaxSubsets

\* A range of each kind the accessors tell apart, in rows or flat.
Ranges == {<<<<1, 3>>, <<2, 2>>>>, <<<<3, 1>>, <<1, 2>>>>}
Rows(r) == [ndim |-> 2, value |-> r]
Flat(r) == [ndim |-> 1, value |-> FlattenSeq(r)]
Lists == {<<4, 7, 2>>}
Locs == {"IFaceCenter", "Center"}     \* the last is none
Asked(p, loc, r, l, named) == <<[at |-> p, loc |-> loc, range |-> r, list |-> l, named |-> named]>>
RangeArg(r, flat) == IF r = << >> THEN << >> ELSE IF flat THEN <<Flat(r[1])>> ELSE <<Rows(r[1])>>

NewBC == \E loc \in Optional(Locs), r \in Optional(Ranges), flat \in BOOLEAN, l \in Optional(Lists), type \in {"BCWall", "Wall"} :
  /\ Roomy
  /\ LET p == Child(Zone, "ZoneBC")
     IN  Answer(new_BC(tree, p, "S", type, [NoArgs EXCEPT !.loc = loc, !.point_range = RangeArg(r, flat), !.point_list = l]),
                Asked(LastOf(tree, p), loc, r, l, << >>))

NewGC == \E zgc \in {"ZGC1", "ZGC2"}, loc \in Optional(Locs), r \in Optional(Ranges), l \in Optional(Lists),
            type \in {"Abutting", "Joint"} :
  /\ Roomy
  /\ LET p == Child(Zone, zgc)
     IN  Answer(new_GridConnectivity(tree, p, "S", <<"Zone">>, type,
                  [NoArgs EXCEPT !.loc = loc, !.point_range = RangeArg(r, FALSE), !.point_list = l,
                                 !.point_range_donor = RangeArg(r, FALSE), !.point_list_donor = l]),
                Asked(LastOf(tree, p), loc, r, l, << >>))

NewGC1to1 == \E r \in Optional(Ranges) :
  /\ Roomy
  /\ LET p == Child(Zone, "ZGC1")
     IN  Answer(new_GridConnectivity1to1(tree, p, "S", <<"Zone">>, <<<<1, 2>>>>, RangeArg(r, TRUE), RangeArg(r, TRUE)),
                Asked(LastOf(tree, p), << >>, r, << >>, << >>))

\* A field may have the name of a child that is there.
NewZSR == \E loc \in Optional(Locs), r \in Optional(Ranges), l \in Optional(Lists), bc, gc \in Optional({"S"}),
             fields \in {<< >>, <<<<"GridLocation", <<1>>>>>>} :
  /\ Roomy
  /\ Answer(new_ZoneSubRegion(tree, Zone, "S", [NoArgs EXCEPT !.loc = loc, !.point_range = RangeArg(r, TRUE),
                                                !.point_list = l, !.bc_name = bc, !.gc_name = gc], fields),
            Asked(LastOf(tree, Zone), loc, r, l, bc \o gc))

NewSolution == \E loc \in Optional(Locs) :
  /\ Roomy
  /\ Answer(new_FlowSolution(tree, Zone, "FS", loc, <<<<"f", <<1>>>>>>), Asked(LastOf(tree, Zone), loc, << >>, << >>, << >>))

\* The callers make the data sets, and give a patch to what has none.
NewDataSet ==
  /\ Roomy
  /\ \E p \in Subsets : At(tree, p).label = "BC_t" /\ Answer(new_node(tree, p, Leaf("DS", "BCDataSet_t", << >>), << >>), << >>)

NewPatch == \E p \in Subsets, l \in Lists :
  /\ kind = "subsets"
  /\ At(tree, p).label \in {"BCDataSet_t", "FlowSolution_t"}
  /\ ~HasPatch(tree, p)
  /\ Answer(new_node(tree, p, new_IndexArray("PointList", l).kid, << >>), << >>)

NewFamily == \E bc \in Optional({"BCWall", "Wall"}) :
  /\ kind = "sizes"
  /\ Answer(new_Family(tree, <<2>>, "Family", bc), << >>)

NewIterativeData == \E tv, it \in Optional({<<1, 2>>}) :
  /\ kind = "sizes"
  /\ Answer(new_BaseIterativeData(tree, <<2>>, tv, it), << >>)

-----------------------------------------------------------------------------
Init ==
  /\ \/ kind = "joins" /\ tree = JoinsTree(Zones)
     \/ kind = "periodic" /\ tree = JoinsTree(FewZones)
     \/ kind = "elements" /\ tree = ElementsTree
     \/ kind = "subsets" /\ tree = SubsetsTree(<<<<3, 2, 0>>, <<2, 1, 0>>>>)
     \/ kind = "sizes" /\ \E size \in Sizes : tree = SubsetsTree(size)
  /\ raised = FALSE
  /\ last = << >>

Next == \/ NewJoin \/ NewJoinWithProperty
        \/ NewElements \/ NewNGon \/ NewNFace
        \/ NewBC \/ NewGC \/ NewGC1to1 \/ NewZSR \/ NewSolution \/ NewDataSet \/ NewPatch
        \/ NewFamily \/ NewIterativeData

Spec == Init /\ [][Next]_vars

-----------------------------------------------------------------------------
(***************************************************************************)
(* Properties                                                              *)
(***************************************************************************)

HasKid(p, name) == \E i \in DOMAIN At(tree, p).kids : At(tree, p).kids[i].name = name
IsSubset(p) == p \in Subsets /\ (HasKid(p, "PointList") \/ HasKid(p, "PointRange"))
LocOf(p) == LET k == {i \in DOMAIN At(tree, p).kids : At(tree, p).kids[i].label = "GridLocation_t"}
            IN  IF k = {} THEN "Vertex" ELSE At(tree, p).kids[CHOOSE i \in k : TRUE].value
Under(p, filter) == {s \in Positions(tree) : IsPrefix(p, s) /\ IsSubset(s) /\ (filter = << >> \/ LocOf(s) \in filter[1])}

StructuredJoins == {s \in Subsets : At(tree, s).label = "GridConnectivity1to1_t"}

\* Of a base, a zone or one of its containers, and of a subset that holds no other and is not
\* held by a container with a label that ends as its own, all the subsets are found, each once,
\* and of the locations asked for.  Nothing is said of the joins of structured zones, which the
\* code leaves out and its documentation does not.  The extent of a subregion is the boundary
\* condition or the join it names, if there is one.
SubsetsFound == kind = "subsets" =>
  /\ \A p \in {r \in Positions(tree) : At(tree, r).label \notin {"CGNSTree_t", "BC_t", "GridConnectivity_t"}} :
       \A filter \in {<< >>, <<{"Vertex"}>>, <<{"IFaceCenter", "FaceCenter"}>>} :
         LET found == iter_all_subsets(tree, p, filter)
         IN  /\ IsInjective(found)
             /\ ToSet(found) \ StructuredJoins = Under(p, filter) \ StructuredJoins
  /\ \A p \in {r \in Subsets : At(tree, r).label = "ZoneSubRegion_t"} :
       LET extent == ZSRExtent(tree, p, Zone)
           named == {s \in Subsets : At(tree, s).name = "S" /\ At(tree, s).label \in
                       IF HasKid(p, "BCRegionName") THEN {"BC_t"}
                       ELSE IF HasKid(p, "GridConnectivityRegionName") THEN JoinLabel ELSE {"ZoneSubRegion_t"}}
       IN  IF Cardinality(named) = 1 THEN {get_node_from_path(tree, Zone, extent[1])[1]} = named ELSE extent = << >>

Between(r) == Min({r[1], r[2]}) .. Max({r[1], r[2]})

\* A subset is described in one way, whichever of the presets failed, and what a preset that
\* returned was given is what is read: the location, the points, as many as the range has in
\* rows or flat and in any direction, and the axis along which they do not change.
PatchesRead ==
  /\ \A p \in Subsets : Cardinality({i \in DOMAIN At(tree, p).kids : At(tree, p).kids[i].name \in
        {"PointList", "PointRange", "BCRegionName", "GridConnectivityRegionName"}}) <= 1
  /\ last # << >> /\ ~raised =>
       LET a == last[1]
           cst == {d \in 1 .. 2 : a.range[1][d][1] = a.range[1][d][2]}
       IN  /\ GridLocation(tree, a.at) = IF a.loc = << >> THEN "Vertex" ELSE a.loc[1]
           /\ ~(a.range # << >> /\ a.list # << >>)
           /\ a.list # << >> => n_elem(tree, a.at) = <<Len(a.list[1])>>
           /\ a.range # << >> => n_elem(tree, a.at) = <<Cardinality(Between(a.range[1][1]) \X Between(a.range[1][2]))>>
           /\ a.range = << >> /\ a.list = << >> => n_elem(tree, a.at) = << >>
           /\ normal_axis(tree, a.at) =
                IF a.loc = <<"IFaceCenter">> THEN <<0>>
                ELSE IF a.range = << >> \/ Cardinality(cst) # 1 THEN << >> ELSE <<Min(cst) - 1>>

\* The joins of the tree: the zone, and the join.
AllJoins == {<<z, Append(Child(ZoneAt(z), "ZGC"), 1)>> : z \in {y \in ZonesOf : JoinsOf(y) # << >>}}
DonorOf(z, j) == LET v == At(tree, j).value IN IF Len(v) = 2 THEN v ELSE <<z[1], v[1]>>
Split(groups, J) ==
  /\ UNION groups = ZonesOf
  /\ \A g, h \in groups : g # h => g \cap h = {}
  /\ \A j \in J : \E g \in groups : j[1] \in g /\ DonorOf(j[1], j[2]) \in g
  /\ \A g \in groups : \A h \in SUBSET g \ {{}, g} :
       \E j \in J : {j[1], DonorOf(j[1], j[2])} \cap h # {} /\ {j[1], DonorOf(j[1], j[2])} \cap (g \ h) # {}

\* The groups of zones are a partition, connected by the 1to1 joins that are not periodic and by
\* them only, as long as no join has properties without being periodic: the code leaves out any
\* join with properties.  The periodic joins are grouped each once, the values of their group
\* being close to their own, and no group could have gone in an earlier one.
JoinsGrouped ==
  /\ kind \in {"joins", "periodic"} => \A groups \in {find_connected_zones(tree)} :
       /\ {<<At(tree, Front(p)).name, At(tree, p).name>> : p \in ToSet(iter_all_Zone_t(tree, << >>))} = ZonesOf
       /\ IsInjective(groups)
       /\ (\A j \in AllJoins : HasKid(j[2], "GridConnectivityProperty") => isperiodic(tree, j[2])) =>
            Split(ToSet(groups), {j \in AllJoins : is1to1(tree, j[2]) /\ ~isperiodic(tree, j[2])})
  /\ kind = "periodic" => \A perio \in {find_periodic_jns(tree)} :
       /\ FoldLeft(LAMBDA n, jns : n + Len(jns), 0, perio.jns) = Cardinality({j \in AllJoins : isperiodic(tree, j[2])})
       /\ \A j \in AllJoins : isperiodic(tree, j[2]) =>
            \E g \in DOMAIN perio.jns : /\ j[1] \o <<"ZGC", "J">> \in ToSet(perio.jns[g])
                                       /\ AllClose(perio.values[g], periodic_values(tree, j[2]))
       /\ \A g, h \in DOMAIN perio.values : g < h => ~AllClose(perio.values[g], perio.values[h])

ElementsOf(d) == UNION {LET r == EltRange(tree, s) IN r[1] .. r[2] :
                        s \in {x \in ToSet(Sections(tree, Zone)) : Dimension(tree, x) = d}}

\* The range of a dimension is exactly that of its elements, wherever its sections come, unless
\* one of another dimension lies between two of its own, which is the only failure.  The cells
\* of a zone of standard elements are those of the largest dimension.  The ordering told is that
\* of the elements when they are sorted, up or down, by dimension; nothing is said of elements
\* that are not, for which the code compares the smallest and the largest dimensions only.
ElementRangesExact == kind = "elements" =>
  LET interlaced == \E d, e \in 0 .. 3 : d # e /\ \E x, z \in ElementsOf(d), y \in ElementsOf(e) : x < y /\ y < z
      found == {d \in 0 .. 3 : ElementsOf(d) # {}}
      Lower(d, e) == \A x \in ElementsOf(d), y \in ElementsOf(e) : x < y
      up == \A d, e \in found : d < e => Lower(d, e)
      down == \A d, e \in found : d < e => Lower(e, d)
  IN  /\ get_elt_range_per_dim(tree, Zone) =
           IF interlaced THEN << >>
           ELSE <<[d \in 1 .. 4 |-> IF d - 1 \notin found THEN <<0, 0>> ELSE <<Min(ElementsOf(d - 1)), Max(ElementsOf(d - 1))>>]>>
      /\ ~has_ngon_elements(tree, Zone) =>
           CellDimension(tree, Zone) = IF found = {} THEN << >> ELSE <<Max(found)>>
      /\ interlaced => elt_ordering_by_dim(tree, Zone) = << >>
      /\ up \/ down => elt_ordering_by_dim(tree, Zone) =
           IF Cardinality(found) < 2 THEN <<0>> ELSE IF up THEN <<1>> ELSE <<-1>>

\* The parts of a structured zone that are one cell wide in some directions: their vertices.
Parts(size, wide) ==
  LET dims == DOMAIN size
      Corners(c) == {v \in [dims -> 1 .. 4] : \A e \in dims : v[e] \in IF e \in wide THEN {c[e], c[e] + 1} ELSE {c[e]}}
  IN  {Corners(c) : c \in {x \in [dims -> 1 .. 4] : \A e \in dims : x[e] <= IF e \in wide THEN size[e][2] ELSE size[e][1]}}

\* The vertices, the faces and the cells of a structured zone of any dimension are as many as
\* there are: a face is one cell wide in all directions but one.
MeshCounted == kind = "sizes" =>
  LET size == Value(tree, Zone)
      dims == DOMAIN size
  IN  /\ n_vtx(tree, Zone) = Cardinality(Parts(size, {}))
      /\ n_face(tree, Zone) = Cardinality(UNION {Parts(size, dims \ {d}) : d \in dims})
      /\ n_cell(tree, Zone) = Cardinality(Parts(size, dims))

\* The subsets of a tree are all found, each once, and read as they were given.
SubsetsExact == SubsetsFound /\ PatchesRead

\* What is counted on a zone, from its sections of elements or its dimensions, is what it has.
ZonesCounted == ElementRangesExact /\ MeshCounted
=============================================================================
