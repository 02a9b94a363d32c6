----------------------------- MODULE MCPartZoneS -----------------------------
(* Two zones joined along a whole side of the first one, and one zone joined to itself. *)
EXTENDS PartZoneS

CONSTANTS LineSizes, PlaneSizes, BoxSizes, WeightPairs

Side(dims, axis, is_max) ==
  [d \in Dir(dims) |-> IF d # axis THEN <<1, dims[d] + 1>>
                       ELSE IF is_max THEN <<dims[d] + 1, dims[d] + 1>> ELSE <<1, 1>>]

\* The window of the given side at a location.
SideAt(dims, axis, is_max, loc) ==
  [d \in Dir(dims) |->
     IF d # axis THEN <<1, dims[d] + (IF loc = "Vertex" THEN 1 ELSE 0)>>
     ELSE IF ~is_max THEN <<1, 1>>
     ELSE IF loc = "CellCenter" THEN <<dims[d], dims[d]>> ELSE <<dims[d] + 1, dims[d] + 1>>]

Bnd(name, kind, loc, pr) ==
  [name |-> name, kind |-> kind, loc |-> loc, pr |-> pr, prd |-> << >>, tr |-> << >>,
   opp |-> 0, donor |-> ""]
Match(name, pr, prd, tr, opp, donor) ==
  [name |-> name, kind |-> "match", loc |-> "Vertex", pr |-> pr, prd |-> prd, tr |-> tr,
   opp |-> opp, donor |-> donor]

FaceCenter(axis) == <<"IFaceCenter", "JFaceCenter", "KFaceCenter">>[axis]

Transforms(n) == {t \in [1 .. n -> -n .. n] :
                    \A d \in 1 .. n : \E e \in 1 .. n : Abs(t[e]) = d}

Weighted(ws) == [r \in Rank |-> ws[r + 1]]

\* The second zone is as wide as the joined side of the first, or wider by e cells in all
\* directions, of which one is before the first zone.
TwoZones(dims, axis, is_max, t, e, w1, w2, loc) ==
  LET n == Len(dims)
      From(d) == CHOOSE f \in 1 .. n : Abs(t[f]) = d
      axis2 == Abs(t[axis])
      is_max2 == (is_max = (t[axis] < 0))
      dims2 == [d \in 1 .. n |-> IF d = axis2 THEN 2 ELSE dims[From(d)] + e]
      pr == Side(dims, axis, is_max)
      start2 == [d \in 1 .. n |->
                   IF d = axis2 THEN Side(dims2, axis2, is_max2)[d][1]
                   ELSE (IF t[From(d)] > 0 THEN 1 ELSE dims[From(d)] + 1) + (IF e > 0 THEN 1 ELSE 0)]
      prd == gc_transform_window(pr, Corner(pr, 1), start2, t)
      bc == {Bnd("bc", "bc", loc, SideAt(dims, axis, ~is_max, loc)),
             Bnd("ds", "bcds", FaceCenter(axis), SideAt(dims, axis, ~is_max, FaceCenter(axis)))}
      abut == Bnd("abut", "abut", FaceCenter(axis2), SideAt(dims2, axis2, ~is_max2, FaceCenter(axis2)))
      zsrs == {[name |-> "onbc", of |-> "bc"], [name |-> "onjn", of |-> "jn"]}
  IN  [zones |-> << [dims |-> dims, weights |-> Weighted(w1), zsrs |-> zsrs,
                     bnds |-> bc \cup {Match("jn", pr, prd, t, 2, "opp")}],
                    [dims |-> dims2, weights |-> Weighted(w2), zsrs |-> {},
                     bnds |-> {abut, Match("opp", prd, pr, Inverse1to1(t), 1, "jn")}] >>]

\* A zone whose last cells along axis are followed by its first ones.
Periodic(dims, axis, w) ==
  LET mn == Side(dims, axis, FALSE)
      mx == Side(dims, axis, TRUE)
      id == Identity(Len(dims))
  IN  [zones |-> << [dims |-> dims, weights |-> Weighted(w), zsrs |-> {[name |-> "onjn", of |-> "jn"]},
                     bnds |-> {Match("jn", mn, mx, id, 1, "opp"), Match("opp", mx, mn, id, 1, "jn")}] >>]

\* Sizes of the first zone by number of directions: all the transforms and sides of lines and
\* planes, some of boxes.
Lines == UNION {{TwoZones(<<n>>, 1, is_max, <<t>>, 0, w[1], w[2], "Vertex") :
                   is_max \in BOOLEAN, t \in {1, -1}, w \in WeightPairs} : n \in LineSizes}
Planes == UNION {{TwoZones(dims, axis, is_max, t, e, w[1], w[2], IF e = 0 THEN "Vertex" ELSE "CellCenter") :
                   axis \in 1 .. 2, is_max \in BOOLEAN, t \in Transforms(2), e \in {0, 2},
                   w \in WeightPairs} : dims \in PlaneSizes}
Boxes == UNION {{TwoZones(dims, axis, TRUE, t, 0, w[1], w[2], "Vertex") :
                   axis \in 1 .. 3, t \in {<<1, 2, 3>>, <<-2, 3, -1>>, <<3, -1, 2>>},
                   w \in WeightPairs} : dims \in BoxSizes}
Loops == {Periodic(dims, 1, w[1]) : dims \in PlaneSizes, w \in WeightPairs}

Meshes == Lines \cup Planes \cup Boxes \cup Loops

MCPlanes == {<<3, 2>>}
MCBoxes == {<<2, 2, 1>>}

\* One part per rank and one, several parts on the same rank, unequal weights.
PairsOfWeights ==
  { << << <<1>>, <<1>> >>, << << >>, <<1>> >> >>,
    << << <<1, 1>>, <<2>> >>, << <<1>>, <<1>> >> >>,
    << << <<2>>, <<1>> >>, << <<1, 2>>, << >> >> >> }
=============================================================================
