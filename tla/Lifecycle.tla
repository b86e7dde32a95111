----------------------------- MODULE Lifecycle ------------------------------
(***************************************************************************)
(* Instances of the server and the script that starts and stops them: who  *)
(* has the path of the socket, and whether Apache may connect to it.       *)
(*                                                                         *)
(* start-stop-daemon is external.  It writes the number of the process to  *)
(* the file of process numbers before it returns, does not start a second  *)
(* one while that process runs, and, without --retry, does not wait for    *)
(* the one it stops.  The socket's entry in the directory stays when its   *)
(* server is gone.  The script always takes the branch of a server that    *)
(* does not run, because it has no command status.                         *)
(***************************************************************************)
EXTENDS Integers, Sequences

CONSTANTS
  Instances,    (* server processes, in the order in which they are started  *)
  MaxCommands,  (* bound on the commands given to the script                 *)
  MaxCrashes    (* bound on the crashes of servers                           *)

ASSUME LifecycleAssumption ==
  /\ Instances # {} /\ Instances \subseteq Nat \ {0}
  /\ \A i \in Instances : 1 .. i \subseteq Instances
  /\ MaxCommands \in Nat /\ MaxCrashes \in Nat

VARIABLES
  script,     (* what the script still has to do                             *)
  commands,   (* commands that were given                                    *)
  crashes,    (* servers that crashed                                        *)
  pidfile,    (* the instance in the file of process numbers, or 0           *)
  path,       (* the instance whose socket is at the path, or 0              *)
  group,      (* does the socket belong to Apache's group?                   *)
  mode,       (* may the group write to it?                                  *)
  at,         (* instance -> the step of main it is at                       *)
  RunServer   (* instance -> its flag                                        *)

fileVars == <<pidfile, path, group, mode>>
scriptVars == <<script, commands, crashes>>
vars == <<scriptVars, fileVars, at, RunServer>>

(* The steps of main in their order. *)
Setup == {"unlink", "bind", "listen", "handler"}
Alive(i) == at[i] \in Setup \cup {"drop", "loop"}
Listening(i) == at[i] \in {"handler", "drop", "loop"}
HasPath(i) == at[i] = "listen" \/ Listening(i)

Init ==
  /\ script = <<>>
  /\ commands = 0 /\ crashes = 0
  /\ pidfile = 0 /\ path = 0
  /\ group = FALSE /\ mode = FALSE
  /\ at = [i \in Instances |-> "none"]
  /\ RunServer = [i \in Instances |-> TRUE]

-----------------------------------------------------------------------------
(* The server. *)

Goto(i, step) == at' = [at EXCEPT ![i] = step]

(* Fault: the path is left to bind(). *)
Unlink_Never(i) ==
  /\ at[i] = "unlink"
  /\ Goto(i, "bind")
  /\ UNCHANGED <<scriptVars, fileVars, RunServer>>

(* setupSocket removes what is at the path, whosever it is, *)
Unlink(i) ==
  /\ at[i] = "unlink"
  /\ path' = 0
  /\ Goto(i, "bind")
  /\ UNCHANGED <<scriptVars, pidfile, group, mode, RunServer>>

(* and puts its own socket there, which is root's; or it ends. *)
Bind(i) ==
  /\ at[i] = "bind"
  /\ IF path = 0
     THEN path' = i /\ group' = FALSE /\ mode' = FALSE /\ Goto(i, "listen")
     ELSE UNCHANGED <<path, group, mode>> /\ Goto(i, "failed")
  /\ UNCHANGED <<scriptVars, pidfile, RunServer>>

Listen(i) ==
  /\ at[i] = "listen"
  /\ Goto(i, "handler")
  /\ UNCHANGED <<scriptVars, fileVars, RunServer>>

SetTerminationHandler(i) ==
  /\ at[i] = "handler"
  /\ Goto(i, "drop")
  /\ UNCHANGED <<scriptVars, fileVars, RunServer>>

(* The script runs as root, so the privileges can be dropped. *)
DropPrivileges(i) ==
  /\ at[i] = "drop"
  /\ Goto(i, "loop")
  /\ UNCHANGED <<scriptVars, fileVars, RunServer>>

(* The loop ends, the worker is joined, and nothing is removed. *)
Leave(i) ==
  /\ at[i] = "loop"
  /\ ~RunServer[i]
  /\ Goto(i, "gone")
  /\ UNCHANGED <<scriptVars, fileVars, RunServer>>

Server(i) ==
  \/ Unlink(i) \/ Bind(i) \/ Listen(i) \/ SetTerminationHandler(i)
  \/ DropPrivileges(i) \/ Leave(i)

Crash(i) ==
  /\ Alive(i)
  /\ crashes < MaxCrashes
  /\ crashes' = crashes + 1
  /\ Goto(i, "gone")
  /\ UNCHANGED <<script, commands, fileVars, RunServer>>

-----------------------------------------------------------------------------
(* The script. *)

(* restart and force-reload call the script for stop and for start. *)
Steps(command) ==
  (IF command = "start" THEN <<>> ELSE <<"kill">>)
    \o (IF command = "stop" THEN <<>> ELSE <<"daemon", "chgrp", "chmod">>)

Command(command) ==
  /\ script = <<>>
  /\ commands < MaxCommands
  /\ commands' = commands + 1
  /\ script' = Steps(command)
  /\ UNCHANGED <<crashes, fileVars, at, RunServer>>

(* The script goes on with the step it is at. *)
Step(step) ==
  /\ script # <<>> /\ Head(script) = step
  /\ script' = Tail(script)
  /\ UNCHANGED <<commands, crashes>>

(* start-stop-daemon finds the process it is to look for. *)
Found == pidfile # 0 /\ Alive(pidfile)

(* Fault: the script ends when there is nothing to start. *)
AlreadyRuns_Exit ==
  /\ script # <<>> /\ Head(script) = "daemon"
  /\ Found
  /\ script' = <<>>
  /\ UNCHANGED <<commands, crashes, fileVars, at, RunServer>>

(* The script does not look at what start-stop-daemon returns. *)
AlreadyRuns ==
  /\ Step("daemon")
  /\ Found
  /\ UNCHANGED <<fileVars, at, RunServer>>

(* Fault: the process forks to get into the background by itself, and the  *)
(* file has the number of its parent, which is no server.                  *)
StartDaemon_Parent(i) ==
  /\ Step("daemon")
  /\ ~Found
  /\ at[i] = "none"
  /\ \A j \in 1 .. i - 1 : at[j] # "none"
  /\ Goto(i, "unlink")
  /\ pidfile' = -i
  /\ UNCHANGED <<path, group, mode, RunServer>>

(* A new process, which runs main. *)
StartDaemon(i) ==
  /\ Step("daemon")
  /\ ~Found
  /\ at[i] = "none"
  /\ \A j \in 1 .. i - 1 : at[j] # "none"
  /\ Goto(i, "unlink")
  /\ pidfile' = i
  /\ UNCHANGED <<path, group, mode, RunServer>>

(* Fault: the handler is set before the socket. *)
Unhandled_Never(i) == FALSE

(* SIGTERM ends a process that has not set its handler yet. *)
Unhandled(i) == at[i] \in Setup

(* The file of process numbers is removed at once. *)
KillDaemon ==
  /\ Step("kill")
  /\ pidfile' = 0
  /\ at' = IF Found /\ Unhandled(pidfile) THEN [at EXCEPT ![pidfile] = "gone"] ELSE at
  /\ RunServer' = IF Found /\ ~Unhandled(pidfile)
                  THEN [RunServer EXCEPT ![pidfile] = FALSE] ELSE RunServer
  /\ UNCHANGED <<path, group, mode>>

(* chgrp and chmod change what is at the path at the time, if anything is. *)
Chgrp ==
  /\ Step("chgrp")
  /\ group' = (group \/ path # 0)
  /\ UNCHANGED <<pidfile, path, mode, at, RunServer>>

Chmod ==
  /\ Step("chmod")
  /\ mode' = (mode \/ path # 0)
  /\ UNCHANGED <<pidfile, path, group, at, RunServer>>

Script ==
  \/ AlreadyRuns \/ KillDaemon \/ Chgrp \/ Chmod
  \/ \E i \in Instances : StartDaemon(i)

Next ==
  \/ Script
  \/ \E command \in {"start", "stop", "restart"} : Command(command)
  \/ \E i \in Instances : Server(i) \/ Crash(i)

(* The script and the processes are scheduled; nobody need give commands. *)
Spec ==
  /\ Init /\ [][Next]_vars
  /\ WF_vars(Script)
  /\ \A i \in Instances : WF_vars(Server(i))

-----------------------------------------------------------------------------
TypeOK ==
  /\ script \in Seq({"daemon", "kill", "chgrp", "chmod"})
  /\ commands \in 0 .. MaxCommands /\ crashes \in 0 .. MaxCrashes
  /\ {pidfile, path} \subseteq Instances \cup {0}
  /\ {group, mode} \subseteq BOOLEAN
  /\ at \in [Instances -> {"none", "unlink", "bind", "listen", "handler", "drop", "loop",
                           "gone", "failed"}]
  /\ RunServer \in [Instances -> BOOLEAN]

(* restart does not wait for the old server, so two of them run at a time, *)
(* but never two of them set up a socket or want the path: a server that   *)
(* has it and was not told to stop keeps it, and bind() never fails,       *)
(* whatever commands are given and whoever crashes.                        *)
Wants(i) == at[i] \in {"unlink", "bind"} \/ (HasPath(i) /\ RunServer[i])
KeepsPath ==
  /\ \A i, j \in Instances : Wants(i) /\ Wants(j) => i = j
  /\ \A i \in Instances : HasPath(i) /\ RunServer[i] => path = i
  /\ \A i \in Instances : at[i] # "failed"

(* Whatever a server that crashed left behind, one that is started comes   *)
(* to serve at the path.                                                   *)
Disturbed(i) == ~Alive(i) \/ ~RunServer[i]
StartServes ==
  \A i \in Instances : at[i] = "unlink" ~> (Listening(i) /\ path = i) \/ at[i] = "gone"

(* A server that is slower than chgrp and chmod cannot be reached, since   *)
(* nobody repeats them; a second start does, and finds it if it listens.   *)
Reachable(i) == Listening(i) /\ path = i /\ group /\ mode
AgainShares ==
  \A i \in Instances :
    HasPath(i) /\ RunServer[i] /\ script # <<>> /\ Head(script) = "daemon"
      ~> Reachable(i) \/ Disturbed(i)
=============================================================================
