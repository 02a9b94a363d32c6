------------------------------ MODULE SidsAccess ------------------------------
(***************************************************************************)
(* What the functions aware of the standard read in a CGNS tree            *)
(* (maia.pytree.sids node_inspect.py, utils.py and elements_utils.py,      *)
(* walk/generate.py).  p is the position of the node in t.  An answer that *)
(* may be None, or an exception, is << >> or <<x>>.                        *)
(***************************************************************************)
EXTENDS SidsPresets, FiniteSets, FiniteSetsExt

CONSTANT Tolerance   \* 1 / rtol, of the comparison of periodic values

Abs(x) == IF x < 0 THEN -x ELSE x

Value(t, p) == At(t, p).value
ByLabel(labels) == [by |-> "label", of |-> labels]
Named(names, labels) == [by |-> "name_label", names |-> names, labels |-> labels]
get_child_from_label(t, p, label) == get_node_from_predicate(t, p, ByLabel({label}), ChildDepth(Default))
ValueOf(t, found) == IF found = << >> THEN << >> ELSE <<Value(t, found[1])>>
JoinLabel == {"GridConnectivity_t", "GridConnectivity1to1_t"}

-----------------------------------------------------------------------------
(***************************************************************************)
(* utils.py, elements_utils.py                                             *)
(***************************************************************************)

append_unique(list, item) == IF item \in ToSet(list) THEN list ELSE Append(list, item)
bucket_split(list, key, size) == [d \in 1 .. size |-> SelectSeq(list, LAMBDA e : key[e] = d - 1)]
are_overlapping(r1, r2) == r1[1] < r2[2] /\ r2[1] < r1[2]     \* strict
expects_one(list) == IF Len(list) = 1 THEN list ELSE << >>

\* MIXED has none.
element_dim == [NODE |-> <<0>>, BAR_2 |-> <<1>>, TRI_3 |-> <<2>>, QUAD_4 |-> <<2>>, TETRA_4 |-> <<3>>,
                PYRA_5 |-> <<3>>, MIXED |-> << >>, NGON_n |-> <<2>>, NFACE_n |-> <<3>>]

-----------------------------------------------------------------------------
(***************************************************************************)
(* Element, Zone                                                           *)
(***************************************************************************)

CGNSName(t, p) == Value(t, p)
Dimension(t, p) == element_dim[CGNSName(t, p)][1]
EltRange(t, p) == Value(t, get_child_from_name(t, p, "ElementRange")[1])
ElementSize(t, p) == LET er == EltRange(t, p) IN er[2] - er[1] + 1

ZoneKind(t, p) == Value(t, get_child_from_label(t, p, "ZoneType_t")[1])
IndexDimension(t, p) == Len(Value(t, p))

\* One number for an unstructured zone, one for each direction otherwise; k: vertices or cells.
SizePerDirection(t, p, k) ==
  LET sizes == [d \in DOMAIN Value(t, p) |-> Value(t, p)[d][k]]
  IN  IF ZoneKind(t, p) = "Unstructured" THEN <<sizes[1]>> ELSE sizes
VertexSize(t, p) == SizePerDirection(t, p, 1)
CellSize(t, p) == SizePerDirection(t, p, 2)
Prod(s) == FoldLeft(LAMBDA a, b : a * b, 1, s)
n_vtx(t, p) == Prod(VertexSize(t, p))
n_cell(t, p) == Prod(CellSize(t, p))

Sections(t, p) == get_children_from_predicate(t, p, ByLabel({"Elements_t"}))
OfKind(t, p, name) == SelectSeq(Sections(t, p), LAMBDA s : CGNSName(t, s) = name)
NGonNode(t, p) == expects_one(OfKind(t, p, "NGON_n"))
has_ngon_elements(t, p) == OfKind(t, p, "NGON_n") # << >>
has_nface_elements(t, p) == OfKind(t, p, "NFACE_n") # << >>

nface_per_direction(d, vtx_size, cell_size) ==
  LET dim == Len(vtx_size)
  IN  vtx_size[d] * (IF dim >= 2 THEN cell_size[(d % dim) + 1] ELSE 1)
                  * (IF dim = 3 THEN cell_size[((d + 1) % dim) + 1] ELSE 1)

FaceSize(t, p) ==
  IF ZoneKind(t, p) = "Structured"
    THEN [d \in DOMAIN VertexSize(t, p) |-> nface_per_direction(d, VertexSize(t, p), CellSize(t, p))]
    ELSE <<ElementSize(t, NGonNode(t, p)[1])>>
n_face(t, p) == FoldLeft(LAMBDA a, b : a + b, 0, FaceSize(t, p))

get_ordered_elements(t, p) == SortSeq(Sections(t, p), LAMBDA a, b : EltRange(t, a)[1] < EltRange(t, b)[1])
get_ordered_elements_per_dim(t, p) ==
  LET list == get_ordered_elements(t, p) IN bucket_split(list, [e \in ToSet(list) |-> Dimension(t, e)], 4)

\* Mutant: the elements are not sorted first.
RangeOf_First(t, elts) == IF elts = << >> THEN <<0, 0>> ELSE <<EltRange(t, elts[1])[1], EltRange(t, elts[1])[2]>>

RangeOf(t, elts) == IF elts = << >> THEN <<0, 0>> ELSE <<EltRange(t, elts[1])[1], EltRange(t, Last(elts))[2]>>

\* Raises if the elements of two dimensions are interlaced.
get_elt_range_per_dim(t, p) ==
  LET elts == get_ordered_elements_per_dim(t, p)
      range == [d \in 1 .. 4 |-> RangeOf(t, elts[d])]
  IN  IF \E d, e \in 1 .. 4 : d < e /\ are_overlapping(range[d], range[e]) THEN << >> ELSE <<range>>

\* The first and the last dimensions found are compared.
elt_ordering_by_dim(t, p) ==
  LET range == get_elt_range_per_dim(t, p)
      start == SelectSeq([d \in 1 .. 4 |-> range[1][d][1]], LAMBDA s : s > 0)
  IN  IF range = << >> THEN << >>
      ELSE <<IF Len(start) < 2 THEN 0 ELSE IF start[1] < Last(start) THEN 1 ELSE IF start[1] > Last(start) THEN -1 ELSE 0>>

CellDimension(t, p) ==
  LET standard == SelectSeq(Sections(t, p), LAMBDA s : CGNSName(t, s) # "MIXED")
      dims == {Dimension(t, standard[i]) : i \in DOMAIN standard}
  IN  IF ZoneKind(t, p) = "Structured" THEN <<IndexDimension(t, p)>>
      ELSE IF has_nface_elements(t, p) THEN <<3>>
      ELSE IF has_ngon_elements(t, p)
        THEN IF NGonNode(t, p) = << >> THEN << >>
             ELSE <<IF get_child_from_name(t, NGonNode(t, p)[1], "ParentElements") = << >> THEN 2 ELSE 3>>
      ELSE IF dims = {} THEN << >> ELSE <<Max(dims)>>

-----------------------------------------------------------------------------
(***************************************************************************)
(* GridConnectivity, Tree                                                  *)
(***************************************************************************)

GCKind(t, p) ==
  LET type == get_child_from_name(t, p, "GridConnectivityType")
  IN  IF At(t, p).label = "GridConnectivity1to1_t" THEN "Abutting1to1"
      ELSE IF type = << >> THEN "Overset" ELSE Value(t, type[1])
is1to1(t, p) == GCKind(t, p) = "Abutting1to1"

PeriodicNode(t, p) == get_node_from_predicate(t, p, ByLabel({"Periodic_t"}), [Default EXCEPT !.depth = [min |-> 2, max |-> <<2>>]])
isperiodic(t, p) == PeriodicNode(t, p) # << >>
periodic_values(t, p) ==
  LET Read(key) == Value(t, get_child_from_name(t, PeriodicNode(t, p)[1], key)[1])
  IN  <<Read("RotationCenter"), Read("RotationAngle"), Read("Translation")>>

\* The path of the donor may start at its base.
ZoneDonorPath(t, p, cur_base_name) ==
  LET opp == Value(t, p) IN IF Len(opp) = 2 THEN opp ELSE <<cur_base_name>> \o opp

\* Mutant: the groups found are merged in the first one, which keeps only its own zones.
MergeGroups_First(groups, zone_path) ==
  LET found == {i \in DOMAIN groups : zone_path \in ToSet(groups[i])}
      order == SetToSortSeq(found, >)
  IN  IF found = {} THEN groups ELSE Append(DeleteAll(groups, found), groups[Last(order)])

\* The groups that have the zone are merged in one, the last.
MergeGroups(groups, zone_path) ==
  LET found == {i \in DOMAIN groups : zone_path \in ToSet(groups[i])}
      order == SetToSortSeq(found, >)
      merged == FoldLeft(append_unique, << >>, FlattenSeq([k \in DOMAIN order |-> groups[order[k]]]))
  IN  IF found = {} THEN groups ELSE Append(DeleteAll(groups, found), merged)

\* A join with properties is taken for a periodic one.  The zones of a group are sorted by name.
find_connected_zones(t) ==
  LET zones == predicates_to_paths(t, << >>, <<ByLabel({"CGNSBase_t"}), ByLabel({"Zone_t"})>>)
      Joins(zone) == SelectSeq(get_children_from_predicates(t, zone, <<ByLabel({"ZoneGridConnectivity_t"}), ByLabel(JoinLabel)>>),
                               LAMBDA j : is1to1(t, j) /\ get_child_from_label(t, j, "GridConnectivityProperty_t") = << >>)
      Group(path) ==
        LET joins == Joins(get_node_from_path(t, << >>, path)[1])
        IN  FoldLeft(append_unique, <<path>>, [i \in DOMAIN joins |-> ZoneDonorPath(t, joins[i], path[1])])
      groups == FoldLeft(MergeGroups, [i \in DOMAIN zones |-> Group(zones[i])], zones)
  IN  [i \in DOMAIN groups |-> ToSet(groups[i])]

\* np.allclose is relative to its second argument; atol is zero.
Near(a, b) == Tolerance * Abs(a - b) <= Abs(b)
AllClose(v, w) == \A k \in DOMAIN v : \A i \in DOMAIN v[k] : Near(v[k][i], w[k][i])

PeriodicGroup(values, perio) == {i \in DOMAIN values : AllClose(values[i], perio)}

\* A join goes in the first group whose values are close to its own.
find_periodic_jns(t) ==
  LET labels == <<{"CGNSBase_t"}, {"Zone_t"}, {"ZoneGridConnectivity_t"}, JoinLabel>>
      paths == predicates_to_paths(t, << >>, [i \in 1 .. 4 |-> ByLabel(labels[i])])
      joins == SelectSeq(paths, LAMBDA path : isperiodic(t, get_node_from_path(t, << >>, path)[1]))
      Placed(found, path) ==
        LET perio == periodic_values(t, get_node_from_path(t, << >>, path)[1])
            near == PeriodicGroup(found.values, perio)
        IN  IF near = {} THEN [values |-> Append(found.values, perio), jns |-> Append(found.jns, <<path>>)]
            ELSE [found EXCEPT !.jns[Min(near)] = Append(@, path)]
  IN  FoldLeft(Placed, [values |-> << >>, jns |-> << >>], joins)

-----------------------------------------------------------------------------
(***************************************************************************)
(* Subset                                                                  *)
(***************************************************************************)

getPatch(t, p) ==
  LET pl == get_child_from_name(t, p, "PointList")
      pr == get_child_from_name(t, p, "PointRange")
  IN  IF (pl = << >>) # (pr = << >>) THEN pl \o pr ELSE << >>

\* A range may be inverted.
SizePerIndex(range) == [d \in DOMAIN range |-> Abs(range[d][2] - range[d][1]) + 1]

n_elem(t, p) ==
  LET patch == getPatch(t, p)
  IN  IF patch = << >> THEN << >>
      ELSE IF At(t, patch[1]).label = "IndexArray_t" THEN <<Len(Value(t, patch[1]))>>
      ELSE <<Prod(SizePerIndex(Value(t, patch[1])))>>

GridLocation(t, p) ==
  LET node == get_child_from_label(t, p, "GridLocation_t") IN IF node = << >> THEN "Vertex" ELSE Value(t, node[1])

\* Raises if the axis cannot be determined.
normal_axis(t, p) ==
  LET loc == GridLocation(t, p)
      face == {i \in 1 .. 3 : loc = <<"IFaceCenter", "JFaceCenter", "KFaceCenter">>[i]}
      pr == get_child_from_name(t, p, "PointRange")
      cst == {d \in DOMAIN Value(t, pr[1]) : Value(t, pr[1])[d][1] = Value(t, pr[1])[d][2]}
  IN  IF face # {} THEN <<(CHOOSE i \in face : TRUE) - 1>>
      ELSE IF pr # << >> /\ Cardinality(cst) = 1 THEN <<(CHOOSE d \in cst : TRUE) - 1>> ELSE << >>

\* The path from the zone of the node a subregion maps to; it raises if there is not exactly one.
ZSRExtent(t, p, zone) ==
  LET bc == ValueOf(t, get_child_from_name(t, p, "BCRegionName"))
      gc == ValueOf(t, get_child_from_name(t, p, "GridConnectivityRegionName"))
  IN  expects_one(IF bc # << >> THEN predicates_to_paths(t, zone, <<ByLabel({"ZoneBC_t"}), Named({bc[1]}, {"BC_t"})>>)
                  ELSE IF gc # << >> THEN predicates_to_paths(t, zone, <<ByLabel({"ZoneGridConnectivity_t"}), Named({gc[1]}, JoinLabel)>>)
                  ELSE << <<At(t, p).name>> >>)

-----------------------------------------------------------------------------
(***************************************************************************)
(* generate.py                                                             *)
(***************************************************************************)

iter_all_Zone_t(t, p) ==
  CASE At(t, p).label = "CGNSBase_t" -> get_children_from_predicate(t, p, ByLabel({"Zone_t"}))
    [] At(t, p).label = "CGNSTree_t" -> get_children_from_predicates(t, p, <<ByLabel({"CGNSBase_t"}), ByLabel({"Zone_t"})>>)
    [] OTHER -> << >>

eligible_subset_paths ==
  <<<<"CGNSBase_t", "Zone_t", "ZoneBC_t", "BC_t">>, <<"CGNSBase_t", "Zone_t", "ZoneBC_t", "BC_t", "BCDataSet_t">>,
    <<"CGNSBase_t", "Zone_t", "ZoneSubRegion_t">>, <<"CGNSBase_t", "Zone_t", "DiscreteData_t">>,
    <<"CGNSBase_t", "Zone_t", "FlowSolution_t">>, <<"CGNSBase_t", "Zone_t", "ZoneGridConnectivity_t", "GridConnectivity_t">>>>

\* The paths are split as strings: the label ends with the one of the root.  What is left of it
\* is the empty string, or Zone.
Ends(label, root_label) ==
  label = root_label \/ <<label, root_label>> \in {<<"ZoneBC_t", "BC_t">>, <<"ZoneGridConnectivity_t", "GridConnectivity_t">>}
Rest(label, root_label) == IF label = root_label THEN "" ELSE "Zone"

\* path.split(root_label + '/')[1], or << >> if there is none
SplitAfter(path, root_label) ==
  LET at == SetToSortSeq({k \in 1 .. Len(path) - 1 : Ends(path[k], root_label)}, <)
  IN  IF at = << >> THEN << >>
      ELSE IF Len(at) = 1 THEN SubSeq(path, at[1] + 1, Len(path))
      ELSE Append(SubSeq(path, at[1] + 1, at[2] - 1), Rest(path[at[2]], root_label))

HasPatch(t, p) == get_child_from_name(t, p, "PointList") # << >> \/ get_child_from_name(t, p, "PointRange") # << >>

\* filter_loc: << >>, or the locations wanted.
iter_all_subsets(t, p, filter_loc) ==
  LET root_label == At(t, p).label
      Wanted(n) == (filter_loc = << >> \/ GridLocation(t, n) \in filter_loc[1]) /\ HasPatch(t, n)
      eligible == SelectSeq(eligible_subset_paths, LAMBDA path : root_label = "CGNSTree_t" \/ \E k \in DOMAIN path : Ends(path[k], root_label))
      itself == SelectSeq(eligible, LAMBDA path : SplitAfter(path, root_label) = << >> /\ Wanted(p))
      paths == SelectSeq([i \in DOMAIN eligible |-> SplitAfter(eligible[i], root_label)], LAMBDA s : s # << >>)
      Queries(path) == [k \in DOMAIN path |-> IF path[k] \in {"", "Zone"} THEN [by |-> "name", of |-> {path[k]}] ELSE ByLabel({path[k]})]
  IN  [i \in DOMAIN itself |-> p]
       \o FlattenSeq([i \in DOMAIN paths |-> SelectSeq(get_children_from_predicates(t, p, Queries(paths[i])), Wanted)])

=============================================================================
