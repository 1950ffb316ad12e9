-------------------------- MODULE MCDenseProjection --------------------------
(* DenseProjection on small instances: an event that makes all the pages, one *)
(* that replaces the first, one that invalidates the second.  One tuple of  *)
(* the first page is denied, its earlier and later ones are not.            *)
EXTENDS DenseProjection, TLC

CONSTANTS p1, p2, p3

MCPages == {p1, p2, p3}
Ev(a, b, c) == (p1 :> a) @@ (p2 :> b) @@ (p3 :> c)
MCEvents == {Ev("upsert", "upsert", "upsert"), Ev("upsert", "none", "none"),
             Ev("none", "invalidate", "none")}
MCDenied == {[page |-> p1, version |-> 2]}
=============================================================================
