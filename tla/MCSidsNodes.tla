------------------------------ MODULE MCSidsNodes ------------------------------
(* Four zones of two bases, three of them with periodic joins; three sections  *)
(* of elements, two subsets.                                                   *)
EXTENDS SidsNodes

ZonesOfTree == {<<"A", "z1">>, <<"A", "z2">>, <<"A", "z3">>, <<"B", "z1">>}
FewZonesOfTree == {<<"A", "z1">>, <<"A", "z2">>, <<"B", "z1">>}
=============================================================================
