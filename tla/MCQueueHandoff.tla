--------------------------- MODULE MCQueueHandoff ---------------------------
(* QueueHandoff on small bounds. *)
EXTENDS QueueHandoff
=============================================================================
