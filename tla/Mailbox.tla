------------------------------ MODULE Mailbox ------------------------------
(***************************************************************************)
(* What the queue shared by the two threads of the message server          *)
(* promises: a mailbox of one slot.  The network thread collects message   *)
(* numbers in "out", and posts all of them at once into an empty mailbox;  *)
(* when the mailbox is still full the collected messages are thrown away.  *)
(* The worker takes the whole content of a full mailbox at once, appends   *)
(* it to "inbox" unaltered, and later removes from its inbox what it has   *)
(* dealt with.                                                             *)
(*                                                                         *)
(* QueueHandoff describes the lock, the loops and the local vectors that   *)
(* implement this, and is shown to refine it.                              *)
(***************************************************************************)
EXTENDS Integers, Sequences

CONSTANTS MaxReads,  (* bound on the messages read in a behaviour            *)
          BatchMax   (* messages one call of processClients can read         *)

VARIABLES nread,     (* messages read so far; the next message's number - 1  *)
          out,       (* read, not yet posted                                 *)
          full,      (* does the mailbox hold a batch?                       *)
          box,       (* the batch in the mailbox                             *)
          inbox      (* the worker's own messages                            *)

vars == <<nread, out, full, box, inbox>>

Init ==
  /\ nread = 0
  /\ out = <<>>
  /\ full = FALSE
  /\ box = <<>>
  /\ inbox = <<>>

(* A client's message is read. *)
Collect ==
  /\ nread < MaxReads
  /\ Len(out) < BatchMax
  /\ nread' = nread + 1
  /\ out' = Append(out, nread')
  /\ UNCHANGED <<full, box, inbox>>

(* Everything collected is posted, in the order it was read. *)
Post ==
  /\ ~full
  /\ full' = TRUE
  /\ box' = out
  /\ out' = <<>>
  /\ UNCHANGED <<nread, inbox>>

(* The worker has not taken the previous batch: the new one is lost. *)
Drop ==
  /\ full
  /\ out' = <<>>
  /\ UNCHANGED <<nread, full, box, inbox>>

(* The worker takes the batch. *)
Take ==
  /\ full
  /\ full' = FALSE
  /\ inbox' = inbox \o box
  /\ box' = <<>>
  /\ UNCHANGED <<nread, out>>

(* The worker keeps some of its messages, in their order, and drops the    *)
(* others.                                                                 *)
Remove ==
  /\ \E n \in 0 .. Len(inbox) : \E at \in [1 .. n -> 1 .. Len(inbox)] :
       /\ \A i, j \in 1 .. n : i < j => at[i] < at[j]
       /\ inbox' = [i \in 1 .. n |-> inbox[at[i]]]
  /\ UNCHANGED <<nread, out, full, box>>

Next == Collect \/ Post \/ Drop \/ Take \/ Remove

(* What may happen. *)
SafeSpec == Init /\ [][Next]_vars

(* And a full mailbox is eventually emptied. *)
Spec == SafeSpec /\ WF_vars(Take)
=============================================================================
