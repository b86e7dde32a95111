---------------------------- MODULE MCMsgServer ----------------------------
EXTENDS MsgServer

CONSTANTS c1, c2, c3, s1

Get == [type |-> "GET", session |-> s1, bytes |-> 67]
Set == [type |-> "SET", session |-> s1, bytes |-> 68]

(* The buffer of a read() that failed is as malloc() left it. *)
NoRequest == [type |-> "other", session |-> s1, bytes |-> 65535]

ClientPackets == {Get, Set}
ServerRequests == {Get, Set, NoRequest}

(* The first client may send twice: store, fetch, and leave. *)
TwoAndOne == [c \in {c1, c2} |-> IF c = c1 THEN 2 ELSE 1]
OneEach == [c \in {c1, c2, c3} |-> 1]
=============================================================================
