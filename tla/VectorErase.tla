---------------------------- MODULE VectorErase ----------------------------
(***************************************************************************)
(* The loop of Vector<T>::erase(EraseElements), one turn per step, started *)
(* on every vector and every list of indices its caller can build.         *)
(***************************************************************************)
EXTENDS VectorOps

CONSTANT MaxSize     (* longest vector the loop is started on *)

ASSUME EraseAssumption == MaxSize \in Nat

VARIABLES original,  (* the vector before the loop: element p is p          *)
          indices,   (* the argument                                        *)
          vector,    (* the vector                                          *)
          turn,      (* loop index i                                        *)
          alive      (* FALSE when the process has died                     *)

vars == <<original, indices, vector, turn, alive>>

(* dispatchMessage is called for index 0, 1, ... of a vector of n messages *)
(* and the indices of those it is done with are pushed back in that order. *)
IndexLists(n) ==
  UNION {{ks \in [1 .. m -> 0 .. n - 1] :
            \A j, l \in 1 .. m : j < l => ks[j] < ks[l]} : m \in 0 .. n}

Init ==
  /\ \E n \in 0 .. MaxSize :
       /\ original = [p \in 1 .. n |-> p]
       /\ indices \in IndexLists(n)
  /\ vector = original
  /\ turn = 0
  /\ alive = TRUE

EraseTurn ==
  /\ alive
  /\ turn < Len(indices)
  /\ turn' = turn + 1
  /\ vector' = EraseAt(vector, indices[turn + 1])
  /\ alive' \in IF indices[turn + 1] < Len(vector) THEN {TRUE} ELSE BOOLEAN
  /\ UNCHANGED <<original, indices>>

(* The behaviour ends when erase() returns or the process has died. *)
Spec == Init /\ [][EraseTurn]_vars

-----------------------------------------------------------------------------
(* Every turn makes the vector exactly one element shorter, also where the *)
(* behaviour is undefined: the end pointer never passes the beginning.     *)
OneShorterPerTurn == alive => Len(vector) = Len(original) - turn

(* What a turn is about to erase: the element that was "turn" places       *)
(* behind the given one.  Only the first turn is sure to erase the right   *)
(* element.                                                                *)
NextIsBehind ==
  alive /\ turn < Len(indices) /\ indices[turn + 1] < Len(vector)
    => vector[indices[turn + 1] + 1] = original[indices[turn + 1] + 1 + turn]

(* Where the erasures really land: turn j removes the original element at  *)
(* indices[j] + j - 1, as long as that is inside the vector, and no turn   *)
(* changes the order of the others.                                        *)
LandsShifted ==
  alive /\ ~ErasesPastEnd(original, indices)
    => /\ Range(vector) = Range(original) \ {original[indices[j] + j] : j \in 1 .. turn}
       /\ \A p, q \in DOMAIN vector : p < q => vector[p] < vector[q]

=============================================================================
