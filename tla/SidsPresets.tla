----------------------------- MODULE SidsPresets -----------------------------
(***************************************************************************)
(* The functions that create the nodes of a CGNS tree                      *)
(* (maia.pytree.node.presets).                                             *)
(*                                                                         *)
(* A preset attaches the node it creates to its parent, then adds the      *)
(* children of this node one after the other.  An assertion may fail, or a *)
(* name be taken, at any of these steps: the node stays as far as it was   *)
(* made.  An optional argument is << >> or <<x>>.  The parent of a node    *)
(* that does not comply with the standard is only warned about.            *)
(***************************************************************************)
EXTENDS NodeWalk

Leaf(name, label, value) == Node(name, label, value, << >>)

BCType == {"Null", "BCWall", "FamilySpecified"}
GCType == {"Null", "UserDefined", "Overset", "Abutting", "Abutting1to1"}
ZoneType == {"Null", "UserDefined", "Structured", "Unstructured"}
Location == {"Null", "UserDefined", "Vertex", "EdgeCenter", "CellCenter", "IFaceCenter", "JFaceCenter",
             "KFaceCenter", "FaceCenter"}

-----------------------------------------------------------------------------
(***************************************************************************)
(* Steps of a preset: an assertion, then a child                           *)
(***************************************************************************)

Step(holds, kid) == [holds |-> holds, kid |-> kid]
Asserting(holds, step) == [step EXCEPT !.holds = holds /\ @]
Given(arg, Make(_)) == IF arg = << >> THEN << >> ELSE <<Make(arg[1])>>

\* What the steps make of the node: the first that fails is the last.
Complete(node, steps) ==
  FoldLeft(LAMBDA r, s : IF ~r.ok THEN r ELSE IF ~s.holds THEN Edit(r.tree, FALSE) ELSE add_child(r.tree, s.kid),
           Edit(node, TRUE), steps)

\* Where a new child of p comes.
LastOf(t, p) == Append(p, Len(At(t, p).kids) + 1)

new_node(t, p, node, steps) ==
  LET attached == add_child(At(t, p), node)
      done == Complete(node, steps)
  IN  IF attached.ok THEN Edit(Put(Put(t, p, attached.tree), LastOf(t, p), done.tree), done.ok) ELSE Edit(t, FALSE)

-----------------------------------------------------------------------------
(***************************************************************************)
(* Parts of the other nodes                                                *)
(***************************************************************************)

new_GridLocation(loc) == Step(loc \in Location, Leaf("GridLocation", "GridLocation_t", loc))
new_FamilyName(family) == Step(TRUE, Leaf("FamilyName", "FamilyName_t", family))
new_FamilyBC(type) == Step(type \in BCType, Leaf("FamilyBC", "FamilyBC_t", type))
new_GridConnectivityType(type) == Step(type \in GCType, Leaf("GridConnectivityType", "GridConnectivityType_t", type))
new_IndexArray(name, value) == Step(TRUE, Leaf(name, "IndexArray_t", value))
new_DataArray(name, value) == Step(TRUE, Leaf(name, "DataArray_t", value))

Pairs(flat) == [i \in 1 .. Len(flat) \div 2 |-> <<flat[2 * i - 1], flat[2 * i]>>]

\* A range is one row for each direction, or flat.
new_IndexRange(name, range) ==
  Step(TRUE, Leaf(name, "IndexRange_t", IF range.ndim = 1 THEN Pairs(range.value) ELSE range.value))

\* Fields are pairs of a name and a value.
Fields(fields) == [i \in DOMAIN fields |-> new_DataArray(fields[i][1], fields[i][2])]

\* Mutant: nothing is asserted of the other description.
Patch_Both(range_name, list_name, range, list, other) ==
  Given(range, LAMBDA r : new_IndexRange(range_name, r)) \o Given(list, LAMBDA l : new_IndexArray(list_name, l))

\* The patch of a subset, given in one way: nothing else may describe it.
Patch(range_name, list_name, range, list, other) ==
  Given(range, LAMBDA r : Asserting(list = << >> /\ ~other, new_IndexRange(range_name, r)))
   \o Given(list, LAMBDA l : Asserting(range = << >> /\ ~other, new_IndexArray(list_name, l)))

-----------------------------------------------------------------------------
(***************************************************************************)
(* Tree, bases, families and zones                                         *)
(***************************************************************************)

new_CGNSTree == Node("CGNSTree", "CGNSTree_t", << >>,
                     <<Leaf("CGNSLibraryVersion", "CGNSLibraryVersion_t", << >>)>>)

new_CGNSBase(t, p, name, cell_dim, phy_dim) == new_node(t, p, Leaf(name, "CGNSBase_t", <<cell_dim, phy_dim>>), << >>)

new_Family(t, p, name, family_bc) == new_node(t, p, Leaf(name, "Family_t", << >>), Given(family_bc, new_FamilyBC))

\* The type is asserted before the node is made.
new_Zone(t, p, name, type, size, family) ==
  IF type \notin ZoneType THEN Edit(t, FALSE)
  ELSE new_node(t, p, Leaf(name, "Zone_t", size),
                <<Step(TRUE, Leaf("ZoneType", "ZoneType_t", type))>> \o Given(family, new_FamilyName))

new_ZoneBC(t, p) == new_node(t, p, Leaf("ZoneBC", "ZoneBC_t", << >>), << >>)
new_ZoneGridConnectivity(t, p, name) == new_node(t, p, Leaf(name, "ZoneGridConnectivity_t", << >>), << >>)

\* The value is the number of steps, set after the children are there.
new_BaseIterativeData(t, p, time_values, iter_values) ==
  LET n_steps == IF iter_values # << >> THEN Len(iter_values[1])
                 ELSE IF time_values # << >> THEN Len(time_values[1]) ELSE 0
  IN  new_node(t, p, Leaf("BaseIterativeData", "BaseIterativeData_t", n_steps),
               Given(time_values, LAMBDA v : new_DataArray("TimeValues", v))
                \o Given(iter_values, LAMBDA v : new_DataArray("IterationValues", v)))

-----------------------------------------------------------------------------
(***************************************************************************)
(* Elements                                                                *)
(***************************************************************************)

ElementRange(erange) == Given(erange, LAMBDA r : Step(TRUE, Leaf("ElementRange", "IndexRange_t", r)))
Data(name, value) == Given(value, LAMBDA v : new_DataArray(name, v))

new_Elements(t, p, name, type, erange, econn) ==
  new_node(t, p, Leaf(name, "Elements_t", type), ElementRange(erange) \o Data("ElementConnectivity", econn))

new_NGonElements(t, p, name, erange, eso, ec, pe, pepos) ==
  new_node(t, p, Leaf(name, "Elements_t", "NGON_n"),
           ElementRange(erange) \o Data("ElementStartOffset", eso) \o Data("ElementConnectivity", ec)
            \o Data("ParentElements", pe) \o Data("ParentElementsPosition", pepos))

new_NFaceElements(t, p, name, erange, eso, ec) ==
  new_node(t, p, Leaf(name, "Elements_t", "NFACE_n"),
           ElementRange(erange) \o Data("ElementStartOffset", eso) \o Data("ElementConnectivity", ec))

-----------------------------------------------------------------------------
(***************************************************************************)
(* Subsets.  a: the optional arguments                                     *)
(***************************************************************************)

new_BC(t, p, name, type, a) ==
  IF type \notin BCType THEN Edit(t, FALSE)
  ELSE new_node(t, p, Leaf(name, "BC_t", type),
                Given(a.loc, new_GridLocation) \o Given(a.family, new_FamilyName)
                 \o Patch("PointRange", "PointList", a.point_range, a.point_list, FALSE))

new_GridConnectivity(t, p, name, donor_name, type, a) ==
  new_node(t, p, Leaf(name, "GridConnectivity_t", donor_name),
           <<new_GridConnectivityType(type)>> \o Given(a.loc, new_GridLocation)
            \o Patch("PointRange", "PointList", a.point_range, a.point_list, FALSE)
            \o Patch("PointRangeDonor", "PointListDonor", a.point_range_donor, a.point_list_donor, FALSE))

new_GridConnectivity1to1(t, p, name, donor_name, transform, range, range_donor) ==
  new_node(t, p, Leaf(name, "GridConnectivity1to1_t", donor_name),
           Given(transform, LAMBDA v : Step(TRUE, Leaf("Transform", "int[IndexDimension]", v)))
            \o Given(range, LAMBDA r : new_IndexRange("PointRange", r))
            \o Given(range_donor, LAMBDA r : new_IndexRange("PointRangeDonor", r)))

new_Periodic(perio) ==
  Step(TRUE, Node("Periodic", "Periodic_t", << >>,
                  <<Leaf("RotationAngle", "DataArray_t", perio.rotation_angle),
                    Leaf("RotationCenter", "DataArray_t", perio.rotation_center),
                    Leaf("Translation", "DataArray_t", perio.translation)>>))

\* Without a periodic transformation, the properties are empty.
new_GridConnectivityProperty(t, p, periodic) ==
  new_node(t, p, Leaf("GridConnectivityProperty", "GridConnectivityProperty_t", << >>), Given(periodic, new_Periodic))

new_ZoneSubRegion(t, p, name, a, fields) ==
  LET bc == a.bc_name # << >>
      gc == a.gc_name # << >>
      patch == a.point_range # << >> \/ a.point_list # << >>
  IN  new_node(t, p, Leaf(name, "ZoneSubRegion_t", << >>),
               Given(a.loc, new_GridLocation) \o Given(a.family, new_FamilyName)
                \o Patch("PointRange", "PointList", a.point_range, a.point_list, bc \/ gc)
                \o Given(a.bc_name, LAMBDA n : Step(~patch /\ ~gc, Leaf("BCRegionName", "Descriptor_t", n)))
                \o Given(a.gc_name, LAMBDA n : Step(~patch /\ ~bc, Leaf("GridConnectivityRegionName", "Descriptor_t", n)))
                \o Fields(fields))

new_FlowSolution(t, p, name, loc, fields) ==
  new_node(t, p, Leaf(name, "FlowSolution_t", << >>), Given(loc, new_GridLocation) \o Fields(fields))

new_GridCoordinates(t, p, name, fields) == new_node(t, p, Leaf(name, "GridCoordinates_t", << >>), Fields(fields))
=============================================================================
