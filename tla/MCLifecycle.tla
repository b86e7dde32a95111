---------------------------- MODULE MCLifecycle -----------------------------
EXTENDS Lifecycle

(* As many servers as there are commands. *)
FourInstances == 1 .. 4
=============================================================================
