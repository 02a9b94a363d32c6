--------------------------- MODULE MCPartTransfer ----------------------------
(***************************************************************************)
(* Zones of two cells in a row, with vertices 1, 3, 5 below and 2, 4, 6    *)
(* above.                                                                  *)
(***************************************************************************)
EXTENDS PartTransfer

MCSlot == {<<0, 0>>, <<0, 1>>, <<1, 0>>}

E(vtx, cells) == [vtx |-> vtx, cells |-> cells]
Cells == <<E(<<1, 2, 3, 4>>, <<1, 0>>), E(<<3, 4, 5, 6>>, <<2, 0>>)>>

Polyhedra ==
  <<[name |-> "NGon", dim |-> 2, er |-> <<1, 5>>,
     elts |-> <<E(<<1, 2>>, <<1, 0>>), E(<<3, 4>>, <<2, 1>>), E(<<5, 6>>, <<2, 0>>),
                E(<<1, 3>>, <<1, 0>>), E(<<3, 5>>, <<2, 0>>)>>],
    [name |-> "NFace", dim |-> 3, er |-> <<6, 7>>, elts |-> Cells]>>

\* Cells first, and the sections are not in the order of their ranges.
CellsFirst ==
  <<[name |-> "Tri", dim |-> 2, er |-> <<4, 5>>, elts |-> <<E(<<1, 3>>, <<1, 0>>), E(<<3, 5>>, <<2, 0>>)>>],
    [name |-> "Hex", dim |-> 3, er |-> <<1, 2>>, elts |-> Cells],
    [name |-> "Quad", dim |-> 2, er |-> <<3, 3>>, elts |-> <<E(<<1, 2>>, <<1, 0>>)>>]>>
CellsLast ==
  <<[name |-> "Quad", dim |-> 2, er |-> <<1, 1>>, elts |-> <<E(<<1, 2>>, <<1, 0>>)>>],
    [name |-> "Tri", dim |-> 2, er |-> <<2, 3>>, elts |-> <<E(<<1, 3>>, <<1, 0>>), E(<<3, 5>>, <<2, 0>>)>>],
    [name |-> "Tetra", dim |-> 3, er |-> <<4, 4>>, elts |-> <<Cells[1]>>],
    [name |-> "Hex", dim |-> 3, er |-> <<5, 5>>, elts |-> <<Cells[2]>>]>>

S(kind, name, loc, pl) ==
  [kind |-> kind, name |-> <<name>>, loc |-> loc, pl |-> pl, of |-> << >>, rel |-> "", one |-> FALSE,
   opp |-> << >>, donor |-> << >>, pld |-> << >>]
On(rel, sub, of) == [sub EXCEPT !.of = <<of>>, !.rel = rel]
Join(name, loc, pl, opp, donor, pld) ==
  [S("GC", name, loc, pl) EXCEPT !.one = TRUE, !.opp = <<opp>>, !.donor = <<donor>>, !.pld = pld]

\* A zone with one field in each container that is not a boundary or a join.
Z(ngon, secs, subs) ==
  LET zone == [ngon |-> ngon, nvtx |-> 6, ncell |-> 2, secs |-> secs, subs |-> subs, data |-> << >>]
      with == {s \in ToSet(subs) : s.kind \notin {"BC", "GC"}}
      Values(s) == [k \in DOMAIN DistEntities(zone, s) |-> <<"f", DistEntities(zone, s)[k], 0>>]
  IN  [zone EXCEPT !.data = [nf \in {<<s.name, "f">> : s \in with} |-> Values(Named(with, nf[1]))]]

Joined ==
  <<Z(TRUE, Polyhedra,
      <<S("BC", "wall", "FaceCenter", <<3, 1>>), On("BC", S("DS", "ds", "FaceCenter", << >>), "wall"),
        On("BC", S("DS", "own", "FaceCenter", <<3>>), "wall"), On("BC", S("ZSR", "zb", "FaceCenter", << >>), "wall"),
        Join("jf", "FaceCenter", <<4, 5>>, 2, "of", <<5, 4>>), Join("jv", "Vertex", <<6, 2, 4>>, 2, "ov", <<2, 6, 4>>),
        On("GC", S("ZSR", "zj", "Vertex", << >>), "jv"),
        S("FS", "fc", "CellCenter", << >>), S("FS", "fp", "CellCenter", <<7>>)>>),
    Z(TRUE, Polyhedra,
      <<Join("of", "FaceCenter", <<5, 4>>, 1, "jf", <<4, 5>>), Join("ov", "Vertex", <<2, 6, 4>>, 1, "jv", <<6, 2, 4>>),
        S("ZSR", "zp", "Vertex", <<3, 1>>)>>)>>

\* A zone joined to itself.
Periodic(secs) ==
  LET Er(name) == SectionOf(secs, name).er[1]
  IN  <<Z(FALSE, secs,
          <<S("BC", "top", "Vertex", <<4, 2>>), On("BC", S("ZSR", "zb", "Vertex", << >>), "top"),
            Join("p", "Vertex", <<1, 2, 4>>, 1, "q", <<5, 6, 4>>), Join("q", "Vertex", <<5, 6, 4>>, 1, "p", <<1, 2, 4>>),
            S("BC", "in", "FaceCenter", <<Er("Tri") + 1, Er("Quad")>>),
            S("FS", "fv", "Vertex", << >>), S("DD", "dd", "CellCenter", << >>),
            S("DD", "dp", "Vertex", <<2>>)>>)>>

Abutting ==
  <<Z(TRUE, Polyhedra, <<S("GC", "ab", "FaceCenter", <<4>>), S("FS", "fv", "Vertex", << >>)>>)>>

\* Two subregions of joins, the name of the second begins with the name of the first.
SameBeginning ==
  <<Z(TRUE, Polyhedra,
      <<Join("jv", "Vertex", <<6, 2, 4>>, 2, "ov", <<2, 6, 4>>), Join("jf", "FaceCenter", <<4, 5>>, 2, "of", <<5, 4>>),
        On("GC", S("ZSR", "z", "Vertex", << >>), "jv"), On("GC", S("ZSR", "z2", "FaceCenter", << >>), "jf")>>),
    Z(TRUE, Polyhedra,
      <<Join("of", "FaceCenter", <<5, 4>>, 1, "jf", <<4, 5>>), Join("ov", "Vertex", <<2, 6, 4>>, 1, "jv", <<6, 2, 4>>)>>)>>
MCNamedMesh == {SameBeginning}

MCLonger == {<<"z", "z2">>}
MCMesh == {Joined, Periodic(CellsFirst), Periodic(CellsLast), Abutting}

All == {"FS", "DD", "ZSR", "DS"}
MCLabelSets == {All, {"FS"}}
MCAdditions == {{}, {<<"fv">>, <<"zb">>, <<"probe">>, <<"zj">>, <<"fc">>}}

=============================================================================
