----------------------------- MODULE MCChunkStep -----------------------------
(* Instances of ChunkStep: four rows in chunks of two, the third filtered. *)
EXTENDS ChunkStep

MCFiltered == {3}
=============================================================================
