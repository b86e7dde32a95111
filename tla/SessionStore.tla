---------------------------- MODULE SessionStore ----------------------------
(***************************************************************************)
(* What the message server promises of its store: a mailbox per session.   *)
(* A payload that is put is numbered and comes first in its session.  A    *)
(* session's payloads are taken all at once, newest first, if one reply    *)
(* carries them; nothing else removes any.  A session once known is never  *)
(* forgotten, and when Limit sessions are known nothing is put any more.   *)
(*                                                                         *)
(* MessageHandler describes the worker's passes, repeated dispatches and   *)
(* failing replies included, and is shown to refine this.                  *)
(***************************************************************************)
EXTENDS Integers, Sequences, FiniteSets

CONSTANTS Sessions,  (* session ids                                          *)
          Limit,     (* sessions the store takes                             *)
          Carry      (* payloads one reply carries                           *)

VARIABLES known,     (* sessions something was put for                       *)
          store,     (* session -> numbers of its payloads, newest first     *)
          stamp,     (* payloads put so far                                  *)
          taken      (* numbers of the payloads that were taken              *)

vars == <<known, store, stamp, taken>>

Init ==
  /\ known = {}
  /\ store = [s \in Sessions |-> <<>>]
  /\ stamp = 0
  /\ taken = {}

Put(s) ==
  /\ Cardinality(known) < Limit
  /\ known' = known \cup {s}
  /\ stamp' = stamp + 1
  /\ store' = [store EXCEPT ![s] = <<stamp'>> \o @]
  /\ UNCHANGED taken

Take(s) ==
  /\ store[s] # <<>>
  /\ Len(store[s]) <= Carry
  /\ taken' = taken \cup {store[s][p] : p \in DOMAIN store[s]}
  /\ store' = [store EXCEPT ![s] = <<>>]
  /\ UNCHANGED <<known, stamp>>

Next == \E s \in Sessions : Put(s) \/ Take(s)

Spec == Init /\ [][Next]_vars
=============================================================================
