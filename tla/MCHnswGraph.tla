---------------------------- MODULE MCHnswGraph ----------------------------
(***************************************************************************)
(* Model-checking instances of HnswGraph: points no two of which are       *)
(* equally far from a point or a query.  A query may be as far from a      *)
(* point as another point: <<8, 5>> and <<4, 1>> from <<4, 5>>.            *)
(***************************************************************************)
EXTENDS HnswGraph

Plane   == {<<6, 1>>, <<4, 1>>, <<3, 0>>, <<4, 5>>, <<2, 6>>}
OnPlane == {<<-1, 2>>, <<8, 5>>}

=============================================================================
