--------------------------- MODULE MemoryManager ---------------------------
(***************************************************************************)
(* The pool of equal segments from which the server takes a buffer for     *)
(* every read(), and the performance client one for every message.         *)
(* Nothing is ever given back to it.                                       *)
(***************************************************************************)
EXTENDS Integers

CONSTANT SegmentCount   (* segments of the pool *)

ASSUME MemoryAssumption == SegmentCount \in Nat \ {0}

(* A segment is named by its number; the first begins at the base address. *)
Segments == 0 .. SegmentCount - 1
Base == 0

(* getNextMemPointer advances the offset.  When it has reached the number  *)
(* of segments it stays there: the 0 of the conditional goes nowhere.      *)
NextOffset(offset) == IF offset >= SegmentCount THEN offset ELSE offset + 1

(* Fault: beyond the pool it is the last segment. *)
Pointer_Last(offset) == IF offset < SegmentCount THEN offset ELSE SegmentCount - 1

(* Fault: the offset is not compared with the size of the pool. *)
Pointer_Any(offset) == offset

(* getMemPointer: an offset that is not inside the pool means the base. *)
Pointer(offset) == IF offset < SegmentCount THEN offset ELSE Base
=============================================================================
