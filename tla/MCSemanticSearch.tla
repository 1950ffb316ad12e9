--------------------------- MODULE MCSemanticSearch ---------------------------
(* SemanticSearch on small instances: an event that compiles every page, and *)
(* one that takes the eligibility of the first, rewrites a record that the  *)
(* second cites and compiles the third anew.                                *)
EXTENDS SemanticSearch

CONSTANTS c1, p1, p2, p3

MCCalls == {c1}
MCPages == {p1, p2, p3}
MCEvents == {
    [compiles |-> MCPages, lapses |-> {}, edits |-> {}],
    [compiles |-> {p3}, lapses |-> {p1}, edits |-> {p2}]}
MCMatches == {p1, p2}
MCNear == {p2, p3}
MCRecords == (p1 :> <<1>>) @@ (p2 :> <<2, 1>>) @@ (p3 :> <<5>>)
MCKind == (p1 :> "constraint") @@ (p2 :> "checkpoint") @@ (p3 :> "constraint")
MCAlike == {{p1, p2}}
=============================================================================
