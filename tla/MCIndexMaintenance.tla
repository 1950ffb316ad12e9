-------------------------- MODULE MCIndexMaintenance --------------------------
(* IndexMaintenance on small instances: two pages, and the events that tell *)
(* an upsert, a later invalidation and a two-page event apart.             *)
EXTENDS IndexMaintenance

CONSTANTS p1, p2

MCPages == {p1, p2}

Ev(a, b) == [p \in MCPages |-> IF p = p1 THEN a ELSE b]

MCEvents == {Ev("upsert", "none"), Ev("invalidate", "upsert")}
MCOneEvent == {Ev("upsert", "none")}
=============================================================================
