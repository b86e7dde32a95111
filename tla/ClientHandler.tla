--------------------------- MODULE ClientHandler ---------------------------
(***************************************************************************)
(* The network thread of the message server: the loop MsgServer::ServerLoop*)
(* with acceptClient, and ClientHandler's addClient, processClients,       *)
(* readClientData and transferMessages.                                    *)
(*                                                                         *)
(* Each system call on a client's descriptor is a step of its own, so that *)
(* the worker, which writes to and closes the same descriptors, may come   *)
(* in between, as is each test of the flag RunServer.  (poll() is one step *)
(* with accept(): connections only join those that wait.  Of the two       *)
(* fcntl() calls, F_GETFL changes nothing, and F_SETFL fails if it does.)  *)
(* transferMessages is one step: it posts a batch to the one-slot mailbox  *)
(* that QueueHandoff is shown to implement, or drops it.  The buffers that *)
(* read() fills are left out (see MessageBuffers).                         *)
(***************************************************************************)
EXTENDS Sockets

CONSTANTS
  BatchMax,   (* RECEIVER_PROCESS_PER_LOOP_COUNT                             *)
  Phantom     (* what a transfer holds after a read() that failed            *)

ASSUME ClientHandlerAssumption == BatchMax \in Nat \ {0}

VARIABLES
  RunServer,  (* the flag the SIGTERM handler clears                         *)
  net,        (* where the network thread is                                 *)
  Clients,    (* keys of the map of clients, from which none is removed      *)
  adding,     (* the descriptor that addClient is adding, in a set           *)
  events,     (* what is left of EpollEvents: descriptors to read            *)
  Messages,   (* transfers, newest first: [fd, from, req]                    *)
  full,       (* the mailbox: does it hold a batch,                          *)
  box         (* and what is left of it, oldest first                        *)

netVars == <<net, Clients, adding, events, Messages>>
mailVars == <<full, box>>
handlerVars == <<RunServer, netVars, mailVars>>

ClientHandlerInit ==
  /\ RunServer = TRUE
  /\ net = "top"
  /\ Clients = {} /\ adding = {}
  /\ events = <<>>
  /\ Messages = <<>>
  /\ full = FALSE
  /\ box = <<>>

(* The head of the loop. *)
TestRunServer ==
  /\ net = "top"
  /\ net' = IF RunServer THEN "poll" ELSE "join"
  /\ UNCHANGED <<RunServer, Clients, adding, events, Messages, mailVars, socketVars>>

(* A client waits and a descriptor is free: addClient notes the number.    *)
AcceptClient ==
  /\ net = "poll"
  /\ backlog # <<>> /\ FreeFDs # {}
  /\ Accept
  /\ adding' = {LowestFree}
  /\ Clients' = Clients \cup adding'
  /\ net' = "nonblock"
  /\ UNCHANGED <<RunServer, events, Messages, mailVars, clientVars>>

(* No client waits, or accept() fails, which is only logged. *)
AcceptNobody ==
  /\ net = "poll"
  /\ backlog = <<>> \/ FreeFDs = {}
  /\ net' = "wait"
  /\ UNCHANGED <<RunServer, Clients, adding, events, Messages, mailVars, socketVars>>

(* fcntl() fails on a descriptor that the worker has closed meanwhile, and *)
(* that ends the process: exit(EXIT_FAILURE).                              *)
MakeNonblocking(f) ==
  /\ net = "nonblock"
  /\ f \in adding
  /\ net' = IF fdTable[f] = NoConn THEN "exit" ELSE "watch"
  /\ UNCHANGED <<RunServer, Clients, adding, events, Messages, mailVars, socketVars>>

(* Nobody looks at what epoll_ctl() returned. *)
AddToEpoll(f) ==
  /\ net = "watch"
  /\ f \in adding
  /\ Watch(f)
  /\ adding' = {}
  /\ net' = "wait"
  /\ UNCHANGED <<RunServer, Clients, events, Messages, mailVars, clientVars>>

(* Fault: the loop of readClientData ends one descriptor short. *)
EpollWait_OneShort ==
  /\ net = "wait"
  /\ LET n == IF Len(ready) > BatchMax THEN BatchMax ELSE Len(ready)
     IN  /\ events' = SubSeq(ready, 1, n - 1)
         /\ ready' = SubSeq(ready, n + 1, Len(ready))
         /\ net' = IF n = 0 THEN "top" ELSE "read"
  /\ UNCHANGED <<RunServer, Clients, adding, Messages, mailVars, clientVars,
                 backlog, fdTable, cut, rx, tx, resets, watched>>

(* processClients asks for ready descriptors, and is done when there are   *)
(* none.                                                                   *)
EpollWait ==
  /\ net = "wait"
  /\ LET n == IF Len(ready) > BatchMax THEN BatchMax ELSE Len(ready)
     IN  /\ events' = SubSeq(ready, 1, n)
         /\ ready' = SubSeq(ready, n + 1, Len(ready))
         /\ net' = IF n = 0 THEN "top" ELSE "read"
  /\ UNCHANGED <<RunServer, Clients, adding, Messages, mailVars, clientVars,
                 backlog, fdTable, cut, rx, tx, resets, watched>>

(* The loop of readClientData is at descriptor f. *)
Reading(f) == net = "read" /\ events # <<>> /\ f = Head(events)

(* Fault: the transfer names the last descriptor of the batch. *)
Insert_Last(f, c, r) ==
  Messages' = <<[fd |-> Last(events), from |-> c, req |-> r]>> \o Messages

(* A transfer goes to the front of the vector. *)
Insert(f, c, r) == Messages' = <<[fd |-> f, from |-> c, req |-> r]>> \o Messages

HasError(f) == fdTable[f] = NoConn \/ fdTable[f] \in resets

(* read() brings one packet, however many there are. *)
ReadPacket(f) ==
  /\ Reading(f)
  /\ ~HasError(f)
  /\ rx[fdTable[f]] # <<>>
  /\ Insert(f, fdTable[f], Head(rx[fdTable[f]]))
  /\ rx' = [rx EXCEPT ![fdTable[f]] = Tail(@)]
  /\ events' = Tail(events)
  /\ UNCHANGED <<RunServer, net, Clients, adding, mailVars, clientVars,
                 backlog, fdTable, cut, tx, resets, watched, ready>>

(* Fault: the connection is forgotten, but not closed. *)
ReadEnd_NoClose(f) ==
  /\ Reading(f)
  /\ ~HasError(f)
  /\ rx[fdTable[f]] = <<>>
  /\ client[fdTable[f]] = "closed"
  /\ events' = Tail(events)
  /\ UNCHANGED <<RunServer, net, Clients, adding, Messages, mailVars, socketVars>>

(* read() returns 0: the client has closed, and so does the server.        *)
ReadEnd(f) ==
  /\ Reading(f)
  /\ ~HasError(f)
  /\ rx[fdTable[f]] = <<>>
  /\ client[fdTable[f]] = "closed"
  /\ Close(f)
  /\ events' = Tail(events)
  /\ UNCHANGED <<RunServer, net, Clients, adding, Messages, mailVars, clientVars>>

(* read() returns -1, because the worker has closed the descriptor in the  *)
(* meantime, the connection was reset or there is nothing to read: this is *)
(* treated like a message.                                                 *)
ReadError(f) ==
  /\ Reading(f)
  /\ ~HasError(f) => rx[fdTable[f]] = <<>> /\ client[fdTable[f]] # "closed"
  /\ Insert(f, NoConn, Phantom)
  /\ resets' = resets \ {fdTable[f]}
  /\ events' = Tail(events)
  /\ UNCHANGED <<RunServer, net, Clients, adding, mailVars, clientVars,
                 backlog, fdTable, cut, rx, tx, watched, ready>>

(* Fault: the vector is not cleared. *)
TransferMessages_NoClear ==
  /\ net = "read"
  /\ events = <<>>
  /\ net' = "top"
  /\ full' = TRUE
  /\ box' = IF full THEN box ELSE Reverse(Messages)
  /\ UNCHANGED <<RunServer, Clients, adding, events, Messages, socketVars>>

(* transferMessages: the batch is posted in the order it was read if the   *)
(* worker has taken the one before, and dropped otherwise.                 *)
TransferMessages ==
  /\ net = "read"
  /\ events = <<>>
  /\ net' = "top"
  /\ Messages' = <<>>
  /\ full' = TRUE
  /\ box' = IF full THEN box ELSE Reverse(Messages)
  /\ UNCHANGED <<RunServer, Clients, adding, events, socketVars>>

Network ==
  \/ TestRunServer \/ AcceptClient \/ AcceptNobody \/ EpollWait \/ TransferMessages
  \/ \E f \in FDs :
       MakeNonblocking(f) \/ AddToEpoll(f) \/ ReadPacket(f) \/ ReadEnd(f) \/ ReadError(f)

(* SIGTERM. *)
Terminate ==
  /\ RunServer
  /\ RunServer' = FALSE
  /\ UNCHANGED <<netVars, mailVars, socketVars>>
=============================================================================
