----------------------------- MODULE VectorOps -----------------------------
(***************************************************************************)
(* Vector<T>::erase(EraseElements), with which MessageHandler takes the    *)
(* processed messages out of QueueMessages, as operators.                  *)
(*                                                                         *)
(* EraseElements holds indices into the vector as it was before the loop,  *)
(* counted from 0, in increasing order.  The loop erases at each of them   *)
(* in turn, although every erasure moves the later elements one place      *)
(* forward.                                                                *)
(*                                                                         *)
(* An index past the end is undefined behaviour.  For the trivially        *)
(* copyable MessageTransfer_t, libstdc++ either computes a negative length *)
(* for memmove(), which kills the process, or (in versions that move only  *)
(* a positive number of elements) moves nothing and drops the last element *)
(* when it decrements the end pointer.                                     *)
(***************************************************************************)
EXTENDS Integers, Sequences, SequencesExt

(* Fault: the element behind the given one goes. *)
EraseAt_Next(s, k) ==
  IF k + 1 < Len(s) THEN RemoveAt(s, k + 2) ELSE Front(s)

(* Fault: the last element takes the erased one's place. *)
EraseAt_Swap(s, k) ==
  IF k + 1 < Len(s) THEN Front([s EXCEPT ![k + 1] = Last(s)]) ELSE Front(s)

(* erase(begin() + k) when the process survives it. *)
EraseAt(s, k) ==
  IF k < Len(s) THEN RemoveAt(s, k + 1) ELSE Front(s)

(* Does some turn of the loop erase past the end?  Each turn before it has *)
(* made the vector one shorter.                                            *)
ErasesPastEnd(s, ks) == \E j \in DOMAIN ks : ks[j] >= Len(s) - (j - 1)
=============================================================================
