------------------------------ MODULE MCEmbedder ------------------------------
(* Batches of two keys in either order, for TLC.                           *)
EXTENDS Embedder

CONSTANTS k1, k2

MCKeys == {k1, k2}
MCBatches == {<<k1, k2>>, <<k2, k1>>}
=============================================================================
