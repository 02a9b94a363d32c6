--------------------------- MODULE StructuredIndex ---------------------------
(***************************************************************************)
(* The numbering of the cells, faces and vertices of a structured block,   *)
(* the windows (PointRange) on it and the transforms between two blocks.   *)
(* A window is a sequence of pairs <<first, last>>, one per direction; a   *)
(* window of a join may be decreasing.                                     *)
(***************************************************************************)
EXTENDS Integers, Sequences, FiniteSets

Least(a, b) == IF a <= b THEN a ELSE b
Abs(a) == IF a < 0 THEN -a ELSE a
Sign(a) == IF a < 0 THEN -1 ELSE IF a = 0 THEN 0 ELSE 1
SumSeq(s) == LET f[i \in 0 .. Len(s)] == IF i = 0 THEN 0 ELSE s[i] + f[i - 1] IN f[Len(s)]
Product(s) == LET p[i \in 0 .. Len(s)] == IF i = 0 THEN 1 ELSE s[i] * p[i - 1] IN p[Len(s)]

Dir(dims) == 1 .. Len(dims)

\* The sequence s itself, whose entries TLC then evaluates once and for all.
Listed(s) == s \o << >>
VertexSize(dims) == [d \in Dir(dims) |-> dims[d] + 1]

-----------------------------------------------------------------------------
(***************************************************************************)
(* maia.utils.numbering.s_numbering_funcs, where ijk and sizes have one    *)
(* entry per direction and a missing direction counts as 1.                *)
(***************************************************************************)

At(s, d) == IF d \in DOMAIN s THEN s[d] ELSE 1

ijk_to_index(ijk, n) ==
  At(ijk, 1) + (At(ijk, 2) - 1) * n[1] + (At(ijk, 3) - 1) * n[1] * At(n, 2)

index_to_ijk(idx, n) ==
  LET k == (idx - 1) \div (n[1] * n[2]) + 1
      j == (idx - (k - 1) * (n[1] * n[2]) - 1) \div n[1] + 1
      i == idx - (j - 1) * n[1] - (k - 1) * (n[1] * n[2])
  IN  <<i, j, k>>

\* The block of the faces normal to axis, and the number of the faces before it.
FaceBlock(axis, n_cell) == [d \in 1 .. 3 |-> IF d = axis THEN n_cell[d] + 1 ELSE n_cell[d]]
FacesBefore(axis, n_cell) ==
  (IF axis > 1 THEN Product(FaceBlock(1, n_cell)) ELSE 0)
    + (IF axis > 2 THEN Product(FaceBlock(2, n_cell)) ELSE 0)

ijk_to_faceIndex(axis, ijk, n_cell) ==
  ijk_to_index(ijk, FaceBlock(axis, n_cell)) + FacesBefore(axis, n_cell)

faceIndex_to_ijk(axis, idx, n_cell) ==
  index_to_ijk(idx - FacesBefore(axis, n_cell), FaceBlock(axis, n_cell))

\* The points of the block of n[d] points per direction from start on, first direction first.
Grid(start, n) ==
  Listed([m \in 1 .. Product(n) |->
    [d \in DOMAIN n |-> start[d] + (((m - 1) \div Product(SubSeq(n, 1, d - 1))) % n[d])]])

-----------------------------------------------------------------------------
(***************************************************************************)
(* maia.utils.numbering.range_to_slab: the boxes (semi open, from 0) that  *)
(* hold the entries of the interval, in their order.  Each step appends a  *)
(* slab of the given size if it is not empty.                              *)
(***************************************************************************)

cell_to_indexes(c, plan, line) ==
  LET k == c \div plan
      j == (c - k * plan) \div line
  IN  <<c - k * plan - j * line, j, k>>

compute_slabs(shape, first, last) ==
  LET nx == shape[1]
      ny == shape[2]
      plan == nx * ny
      mn == cell_to_indexes(first, plan, nx)
      mx == cell_to_indexes(last - 1, plan, nx)
      Line(x0, x1, y, z) == << <<x0, x1>>, <<y, y + 1>>, <<z, z + 1>> >>
      NonEmpty(n, slab) == IF n > 0 THEN <<slab>> ELSE << >>
      n0 == last - first
      line == Least(nx, mn[1] + n0) - mn[1]
      jstart == IF line # nx THEN mn[2] + 1 ELSE mn[2]
      n1 == IF line # nx THEN n0 - line ELSE n0
      start_line == IF line # nx
                    THEN NonEmpty(line, Line(mn[1], mn[1] + line, mn[2], mn[3])) ELSE << >>
      plane == Least(ny, jstart + n1 \div nx) - jstart
      kstart == IF plane # ny THEN mn[3] + 1 ELSE mn[3]
      n2 == IF plane # ny THEN n1 - nx * plane ELSE n1
      start_plane == IF plane # ny
                     THEN NonEmpty(plane, << <<0, nx>>, <<jstart, jstart + plane>>,
                                             <<mn[3], mn[3] + 1>> >>) ELSE << >>
      block == IF Len(shape) = 3 THEN Least(shape[3], kstart + n2 \div plan) - kstart ELSE 0
      n3 == IF block > 0 THEN n2 - plan * block ELSE n2
      central == NonEmpty(block, << <<0, nx>>, <<0, ny>>, <<kstart, kstart + block>> >>)
      end_plane == NonEmpty(n3 \div nx, << <<0, nx>>, <<0, n3 \div nx>>, <<mx[3], mx[3] + 1>> >>)
      n4 == IF n3 >= nx THEN n3 - nx * (n3 \div nx) ELSE n3
      end_line == NonEmpty(n4, Line(0, n4, mx[2], mx[3]))
  IN  start_line \o start_plane \o central \o end_plane \o end_line

-----------------------------------------------------------------------------
(***************************************************************************)
(* Windows: maia.pytree.sids.node_inspect and maia.pytree.utils.           *)
(***************************************************************************)

FaceCenters == {"IFaceCenter", "JFaceCenter", "KFaceCenter"}
AxisOf(loc) == [IFaceCenter |-> 1, JFaceCenter |-> 2, KFaceCenter |-> 3][loc]

\* Another window has a normal, undefined as the code raises unless it is constant in exactly one
\* direction.
normal_axis(pr, loc) ==
  IF loc \in FaceCenters THEN AxisOf(loc)
  ELSE CHOOSE d \in DOMAIN pr : \A e \in DOMAIN pr : pr[e][1] = pr[e][2] <=> e = d

SizePerIndex(pr) == Listed([d \in DOMAIN pr |-> Abs(pr[d][2] - pr[d][1]) + 1])

\* Transform(gc, True) applied to a vector: entry d of the transform t is the axis of the
\* opposite zone, with its sign, that direction d becomes.
TransformVector(t, v) ==
  Listed([e \in DOMAIN t |->
            LET d == CHOOSE d \in DOMAIN t : Abs(t[d]) = e IN Sign(t[d]) * v[d]])

\* The transposed matrix.
TransposedVector(t, v) == Listed([d \in DOMAIN t |-> Sign(t[d]) * v[Abs(t[d])]])

Inverse1to1(t) == [e \in DOMAIN t |-> LET d == CHOOSE d \in DOMAIN t : Abs(t[d]) = e
                                      IN  Sign(t[d]) * d]

\* The points of a window.
Points(w) ==
  LET R(d) == Least(w[d][1], w[d][2]) .. w[d][1] + w[d][2] - Least(w[d][1], w[d][2])
  IN  IF Len(w) = 1 THEN {<<x>> : x \in R(1)}
      ELSE IF Len(w) = 2 THEN {<<x, y>> : x \in R(1), y \in R(2)}
      ELSE {<<x, y, z>> : x \in R(1), y \in R(2), z \in R(3)}

Corner(pr, i) == Listed([d \in DOMAIN pr |-> pr[d][i]])
Minus(u, v) == Listed([d \in DOMAIN u |-> u[d] - v[d]])
Plus(u, v) == Listed([d \in DOMAIN u |-> u[d] + v[d]])
Window(u, v) == Listed([d \in DOMAIN u |-> <<u[d], v[d]>>])

\* _gc_transform_window with the matrix of t (from start1 to start2) and with its transpose.
gc_transform_window(w, start1, start2, t) ==
  LET P(i) == Plus(TransformVector(t, Minus(Corner(w, i), start1)), start2)
  IN  Window(P(1), P(2))
gc_transform_back(w, start1, start2, t) ==
  LET P(i) == Plus(TransposedVector(t, Minus(Corner(w, i), start1)), start2)
  IN  Window(P(1), P(2))

=============================================================================
