-------------------------- MODULE Lifecycle_proofs --------------------------
(***************************************************************************)
(* Proofs about Lifecycle: for every number of servers, commands and       *)
(* crashes, no two servers set up a socket at a time, and one that was not *)
(* told to stop keeps the path.                                            *)
(***************************************************************************)
EXTENDS Lifecycle, TLAPS

(* A server that runs and was not told to stop is the one in the file of   *)
(* process numbers; one that was told to stop has set up its socket; and   *)
(* the path is free for the one that is about to bind it.                  *)
Untold(i) == Alive(i) /\ RunServer[i]
IInv ==
  /\ TypeOK
  /\ \A i \in Instances : Untold(i) => pidfile = i
  /\ \A i \in Instances : at[i] \in Setup \cup {"none"} => RunServer[i]
  /\ \A i \in Instances : at[i] = "bind" => path = 0
  /\ \A i \in Instances : HasPath(i) /\ RunServer[i] => path = i
  /\ \A i \in Instances : at[i] # "failed"

LEMMA InitInv == ASSUME Init PROVE IInv
<1> USE DEF Init
<1>1. TypeOK
  <2>1. script \in Seq({"daemon", "kill", "chgrp", "chmod"})
    OBVIOUS
  <2>2. 0 \in 0 .. MaxCommands /\ 0 \in 0 .. MaxCrashes
    BY LifecycleAssumption
  <2> QED
    BY <2>1, <2>2 DEF TypeOK
<1>2. \A i \in Instances : ~Alive(i) /\ ~HasPath(i) /\ at[i] = "none" /\ RunServer[i]
  BY DEF Alive, Setup, HasPath, Listening
<1> QED
  BY <1>1, <1>2 DEF IInv, Untold

(* The types survive every step. *)
LEMMA TypeStep == ASSUME TypeOK, [Next]_vars PROVE TypeOK'
<1> USE DEF TypeOK
<1>1. ASSUME NEW i \in Instances, Server(i) PROVE TypeOK'
  BY <1>1 DEF Server, Unlink, Bind, Listen, SetTerminationHandler, DropPrivileges, Leave,
              Goto, scriptVars, fileVars
<1>2. ASSUME NEW i \in Instances, Crash(i) PROVE TypeOK'
  BY <1>2, LifecycleAssumption DEF Crash, Goto, fileVars
<1>3. ASSUME NEW command \in {"start", "stop", "restart"}, Command(command) PROVE TypeOK'
  <2>1. Steps(command) \in Seq({"daemon", "kill", "chgrp", "chmod"})
    <3>1. CASE command = "start"
      BY <3>1 DEF Steps
    <3>2. CASE command = "stop"
      BY <3>2 DEF Steps
    <3>3. CASE command = "restart"
      BY <3>3 DEF Steps
    <3> QED
      BY <3>1, <3>2, <3>3
  <2> QED
    BY <1>3, <2>1, LifecycleAssumption DEF Command, fileVars
<1>4. CASE Script
  <2>1. Tail(script) \in Seq({"daemon", "kill", "chgrp", "chmod"}) \/ script = <<>>
    OBVIOUS
  <2>2. CASE AlreadyRuns
    BY <2>1, <2>2 DEF AlreadyRuns, Step, fileVars
  <2>3. CASE KillDaemon
    BY <2>1, <2>3 DEF KillDaemon, Step
  <2>4. CASE Chgrp
    BY <2>1, <2>4 DEF Chgrp, Step
  <2>5. CASE Chmod
    BY <2>1, <2>5 DEF Chmod, Step
  <2>6. ASSUME NEW i \in Instances, StartDaemon(i) PROVE TypeOK'
    BY <2>1, <2>6 DEF StartDaemon, Step, Goto
  <2> QED
    BY <1>4, <2>2, <2>3, <2>4, <2>5, <2>6 DEF Script
<1>5. CASE UNCHANGED vars
  BY <1>5 DEF vars, scriptVars, fileVars
<1> QED
  BY <1>1, <1>2, <1>3, <1>4, <1>5 DEF Next

LEMMA InvStep == ASSUME IInv, [Next]_vars PROVE IInv'
<1> USE DEF IInv, Untold, Alive, HasPath, Listening, Setup
<1>t. TypeOK /\ TypeOK'
  BY TypeStep
<1>1. ASSUME NEW i \in Instances, Server(i) PROVE IInv'
  <2> USE <1>t DEF TypeOK, Goto, scriptVars, fileVars
  <2>1. CASE Unlink(i)
    BY <2>1 DEF Unlink
  <2>2. CASE Bind(i)
    BY <2>2 DEF Bind
  <2>3. CASE Listen(i) \/ SetTerminationHandler(i) \/ DropPrivileges(i) \/ Leave(i)
    BY <2>3 DEF Listen, SetTerminationHandler, DropPrivileges, Leave
  <2> QED
    BY <1>1, <2>1, <2>2, <2>3 DEF Server
<1>2. ASSUME NEW i \in Instances, Crash(i) PROVE IInv'
  BY <1>t, <1>2 DEF TypeOK, Crash, Goto, fileVars
<1>3. ASSUME NEW command, Command(command) PROVE IInv'
  BY <1>t, <1>3 DEF Command, fileVars
<1>4. CASE Script
  <2>1. CASE AlreadyRuns \/ Chgrp \/ Chmod
    BY <1>t, <2>1 DEF AlreadyRuns, Chgrp, Chmod, fileVars
  <2>2. CASE KillDaemon
    BY <1>t, <2>2, LifecycleAssumption DEF TypeOK, KillDaemon, Found, Unhandled
  <2>3. ASSUME NEW i \in Instances, StartDaemon(i) PROVE IInv'
    BY <1>t, <2>3, LifecycleAssumption DEF TypeOK, StartDaemon, Found, Goto
  <2> QED
    BY <1>4, <2>1, <2>2, <2>3 DEF Script
<1>5. CASE UNCHANGED vars
  BY <1>t, <1>5 DEF vars, scriptVars, fileVars
<1> QED
  BY <1>1, <1>2, <1>3, <1>4, <1>5 DEF Next

(* Types, for every number of servers, commands and crashes. *)
THEOREM TypeCorrect == Spec => []TypeOK
<1>1. Init => TypeOK
  BY InitInv DEF IInv
<1> QED
  BY <1>1, TypeStep, PTL DEF Spec

(* Whatever commands are given and whoever crashes, a server that was not  *)
(* told to stop keeps its path, and bind() never fails.                    *)
THEOREM PathIsKept == Spec => []KeepsPath
<1>1. IInv => KeepsPath
  BY DEF IInv, KeepsPath, Wants, Untold, Alive, HasPath, Listening, Setup
<1> QED
  BY InitInv, InvStep, <1>1, PTL DEF Spec
=============================================================================
