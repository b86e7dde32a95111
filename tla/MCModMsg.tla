------------------------------ MODULE MCModMsg ------------------------------
EXTENDS ModMsg

CONSTANTS t1, t2, connSet

BothThreads == {t1, t2}
AllObjects == {t1, t2, connSet}
ThreeRequests == 1 .. 3

(* Prefork, and a process with two threads at least one of which has a SET. *)
SomeProcesses ==
  [threads : {{t1}}, types : [1 .. 3 -> {"GET", "SET"}]]
    \cup [threads : {{t1, t2}}, types : {<<"SET", "SET">>, <<"SET", "GET">>}]

(* What the parameters of a request may measure. *)
SomeSessions == {63, SESSION_ID_BYTES}
SomePayloads == {0, 1}
=============================================================================
