----------------------------- MODULE MCDistTree -----------------------------
(* Meshes for TLC.  n and m are the sizes that subsets of one zone take.     *)
EXTENDS DistTree

Size(n, m) == [k \in ZoneKeys |-> IF k = "Vertex" THEN n ELSE m]
Length(n, m) == [c \in Subsets |-> IF c \in {"sol", "bc", "gc"} THEN n ELSE m]

Extents(sol, disc, zsr, bc, bcds, gc) ==
  {[c \in Subsets |-> CASE c = "sol" -> s [] c = "disc" -> disc [] c = "zsr" -> z
                        [] c = "bc" -> bc [] c = "bcds" -> b [] c = "gc" -> gc] :
     s \in sol, z \in zsr, b \in bcds}

Zone(structured, dim, n, m, elt, faces, extent) ==
  [structured |-> structured, dim |-> dim, size |-> Size(n, m), elt |-> elt, n_vtx |-> 2,
   faces |-> faces, extent |-> extent, length |-> Length(n, m)]

Sequences(S, n) == UNION {[1 .. k -> S] : k \in 0 .. n}
ListOrNone == {"PointList", "none"}
RangeOrNone == {"PointRange", "none"}
ListOnly == {"PointList"}

\* Unstructured zones: all subsets, no elements; all elements, a few subsets.
Subsetted(zsr, n) ==
  {Zone(FALSE, 3, i, j, "none", << >>, e) : i, j \in 0 .. n,
     e \in Extents(ListOrNone, "absent", zsr, "PointList", ListOrNone, "PointList")}
Meshed(zsr, n) ==
  {Zone(FALSE, 3, 2, 1, "NGON_n", f, e) : f \in Sequences({1, 2}, n),
     e \in Extents({"none"}, "absent", zsr, "PointList", {"none"}, "absent")}
    \cup {Zone(FALSE, 3, 2, 1, "TRI_3", [i \in 1 .. k |-> 2], e) : k \in 0 .. n,
            e \in Extents({"none"}, "absent", zsr, "PointList", {"none"}, "absent")}
Structured(n) ==
  {Zone(TRUE, 3, i, j, "none", << >>, e) : i, j \in 0 .. n,
     e \in Extents({"none"}, "absent", RangeOrNone, "PointRange", RangeOrNone, "PointRange")}

\* Zones without a subregion related to a PointList: _distribute_tree cuts them right.
MCCopied == Subsetted(ListOnly, 3) \cup Meshed(ListOnly, 3) \cup Structured(2)

MCZones == MCCopied \cup Subsetted(ListOrNone, 3) \cup Meshed({"none"}, 3)
=============================================================================
