--------------------------- MODULE MCVectorErase ---------------------------
(* The erase loop on every vector up to MaxSize and every set of indices. *)
EXTENDS VectorErase
=============================================================================
