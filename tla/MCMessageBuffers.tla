-------------------------- MODULE MCMessageBuffers --------------------------
(* MessageBuffers with a pool that is used up within a few reads. *)
EXTENDS MessageBuffers
=============================================================================
