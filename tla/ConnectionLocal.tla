-------------------------- MODULE ConnectionLocal --------------------------
(***************************************************************************)
(* The client library: connection objects of the class ConnectionLocal,    *)
(* and what they meet: the descriptors of their process, and a message     *)
(* server that may be stopped and started, may lose a request, answer at   *)
(* the wrong time, and close a connection.                                 *)
(*                                                                         *)
(* A reply carries the name of the request it answers.  The methods are    *)
(* operators here, for the programs that call them.  A system call and the *)
(* notes made of its result are operators of their own, because threads    *)
(* that share an object may come in between.                               *)
(***************************************************************************)
EXTENDS Integers, Sequences

CONSTANTS
  Objects,     (* connection objects of the process                          *)
  Requests,    (* requests that the process may make                         *)
  NoRequest,   (* what an empty buffer holds                                 *)
  MaxSockets,  (* descriptors the process may have                           *)
  MaxFaults    (* bound on the disturbances by the server                    *)

ASSUME ConnectionAssumption ==
  MaxSockets \in Nat \ {0} /\ MaxFaults \in Nat /\ NoRequest \notin Requests

VARIABLES
  (* the objects *)
  ConnStatus, SendStatus, RecvStatus,
  SocketFD,    (* object -> its descriptor, 0 for -1                         *)
  RecvBuffer,  (* object -> the reply read last                              *)
  (* the descriptors *)
  sock,        (* descriptor -> "free"; "idle": not connected; "up";         *)
               (* "broken": closed by the server; "reset": closed with       *)
               (* requests unread, which the next call is told as an error   *)
  outbox,      (* descriptor -> requests to be answered                      *)
  inbox,       (* descriptor -> replies to be read                           *)
  (* the server *)
  up,          (* is it running?                                             *)
  faults,      (* how often it stopped, or disturbed a connection            *)
  (* history *)
  written,     (* request -> how often it was written                        *)
  stray        (* was an answer written that nobody waits for?               *)

statusVars == <<ConnStatus, SendStatus, RecvStatus>>
kernelVars == <<sock, outbox, inbox>>
serverVars == <<up, faults>>
connVars == <<statusVars, SocketFD, RecvBuffer, kernelVars, serverVars, written, stray>>

FDs == 1 .. MaxSockets

ConnTypeOK ==
  /\ {ConnStatus, SendStatus, RecvStatus} \subseteq [Objects -> BOOLEAN]
  /\ SocketFD \in [Objects -> FDs \cup {0}]
  /\ RecvBuffer \in [Objects -> Requests \cup {NoRequest}]
  /\ sock \in [FDs -> {"free", "idle", "up", "broken", "reset"}]
  /\ {outbox, inbox} \subseteq [FDs -> Seq(Requests)]
  /\ up \in BOOLEAN /\ stray \in BOOLEAN
  /\ faults \in 0 .. MaxFaults
  /\ written \in [Requests -> Nat]

-----------------------------------------------------------------------------
(* The methods of an object. *)

(* Fault: socket() is taken to give a descriptor always. *)
NewFD_Always == CHOOSE f \in 1 .. MaxSockets + 1 : \A g \in FDs : sock[g] # "free" => g < f

(* What socket() gives: the lowest free number, or -1.  The descriptor the *)
(* object had is not closed.                                               *)
NewFD ==
  IF \A f \in FDs : sock[f] # "free" THEN 0
  ELSE CHOOSE f \in FDs : sock[f] = "free" /\ \A g \in 1 .. f - 1 : sock[g] # "free"

(* Descriptor f becomes what how says; there is no descriptor 0. *)
Becomes(f, how) == sock' = IF f = 0 THEN sock ELSE [sock EXCEPT ![f] = how]

(* Is o's descriptor in this state? *)
Is(o, state) == SocketFD[o] # 0 /\ sock[SocketFD[o]] = state

(* connect(), up to its first system call, *)
Socket(o) ==
  /\ SocketFD' = [SocketFD EXCEPT ![o] = NewFD]
  /\ Becomes(NewFD, "idle")
  /\ UNCHANGED <<statusVars, RecvBuffer, outbox, inbox, serverVars, written, stray>>

(* Fault: the status is set when connect(2) succeeds. *)
Connect_SetsStatus(o) ==
  LET ok == Is(o, "idle") /\ up
  IN  /\ Becomes(IF ok THEN SocketFD[o] ELSE 0, "up")
      /\ ConnStatus' = [ConnStatus EXCEPT ![o] = ok]
      /\ UNCHANGED <<SendStatus, RecvStatus, SocketFD, RecvBuffer, outbox, inbox,
                     serverVars, written, stray>>

(* and its second one, connect(2), which fails on a descriptor that is     *)
(* connected.  Only failure is noted in ConnStatus.                        *)
Connect(o) ==
  LET ok == Is(o, "idle") /\ up
  IN  /\ Becomes(IF ok THEN SocketFD[o] ELSE 0, "up")
      /\ ConnStatus' = [ConnStatus EXCEPT ![o] = @ /\ ok]
      /\ UNCHANGED <<SendStatus, RecvStatus, SocketFD, RecvBuffer, outbox, inbox,
                     serverVars, written, stray>>

(* A new object, whose ConnStatus is true and whose SendStatus and         *)
(* RecvStatus nobody initializes, and its connect().                       *)
Construct(o) ==
  /\ SocketFD' = [SocketFD EXCEPT ![o] = NewFD]
  /\ Becomes(NewFD, IF up THEN "up" ELSE "idle")
  /\ ConnStatus' = [ConnStatus EXCEPT ![o] = NewFD # 0 /\ up]
  /\ \E b \in BOOLEAN : SendStatus' = [SendStatus EXCEPT ![o] = b]
  /\ \E b \in BOOLEAN : RecvStatus' = [RecvStatus EXCEPT ![o] = b]
  /\ UNCHANGED <<RecvBuffer, outbox, inbox, serverVars, written, stray>>

(* An error is reported once. *)
Reported(f) == Becomes(f, IF f # 0 /\ sock[f] = "reset" THEN "broken" ELSE sock[f])

(* sendMessage(): the write(), which succeeds on a connection that is up,  *)
Write(o, n) ==
  /\ IF Is(o, "up")
     THEN /\ outbox' = [outbox EXCEPT ![SocketFD[o]] = Append(@, n)]
          /\ written' = [written EXCEPT ![n] = @ + 1]
     ELSE UNCHANGED <<outbox, written>>
  /\ Reported(SocketFD[o])
  /\ UNCHANGED <<SocketFD, RecvBuffer, inbox, serverVars, stray>>

(* Fault: the status of the last message is kept when write() fails. *)
SetSendStatus_Keep(o, ok) ==
  /\ ConnStatus' = [ConnStatus EXCEPT ![o] = ok \/ @]
  /\ SendStatus' = [SendStatus EXCEPT ![o] = ok \/ @]

(* Fault: the connection is given up when write() fails. *)
SetSendStatus_Break(o, ok) ==
  /\ ConnStatus' = [ConnStatus EXCEPT ![o] = ok]
  /\ SendStatus' = [SendStatus EXCEPT ![o] = ok]

(* and setSendStatus: a write() of something fails with -1, never 0.       *)
SetSendStatus(o, ok) ==
  /\ ConnStatus' = [ConnStatus EXCEPT ![o] = ok \/ @]
  /\ SendStatus' = [SendStatus EXCEPT ![o] = ok]

(* receiveMessage(): the read() of descriptor f waits for a reply, for the *)
(* end of the connection or for an error,                                  *)
Read(o, f, result) ==
  /\ \/ /\ result = "reply"
        /\ f # 0 /\ sock[f] \in {"up", "broken"} /\ inbox[f] # <<>>
        /\ inbox' = [inbox EXCEPT ![f] = Tail(@)]
        /\ RecvBuffer' = [RecvBuffer EXCEPT ![o] = Head(inbox[f])]
     \/ /\ result = "end"
        /\ f # 0 /\ sock[f] = "broken" /\ inbox[f] = <<>>
        /\ UNCHANGED <<inbox, RecvBuffer>>
     \/ /\ result = "error"
        /\ f # 0 => sock[f] \in {"idle", "reset"}
        /\ UNCHANGED <<inbox, RecvBuffer>>
  /\ Reported(f)
  /\ UNCHANGED <<SocketFD, outbox, serverVars, written, stray>>

(* and the notes: the end leaves RecvStatus as it was, and an error leaves *)
(* ConnStatus.                                                             *)
SetRecvStatus(o, result) ==
  /\ ConnStatus' = [ConnStatus EXCEPT ![o] = (result = "reply") \/ (@ /\ result # "end")]
  /\ RecvStatus' = [RecvStatus EXCEPT ![o] = (result = "reply") \/ (@ /\ result # "error")]

(* close(), and the end of the object: its descriptor is free again. *)
CloseSocket(o) ==
  /\ SocketFD' = [SocketFD EXCEPT ![o] = 0]
  /\ Becomes(SocketFD[o], "free")
  /\ outbox' = [f \in FDs |-> IF f = SocketFD[o] THEN <<>> ELSE outbox[f]]
  /\ inbox' = [f \in FDs |-> IF f = SocketFD[o] THEN <<>> ELSE inbox[f]]
  /\ ConnStatus' = [ConnStatus EXCEPT ![o] = FALSE]
  /\ SendStatus' = [SendStatus EXCEPT ![o] = FALSE]
  /\ RecvStatus' = [RecvStatus EXCEPT ![o] = FALSE]
  /\ RecvBuffer' = [RecvBuffer EXCEPT ![o] = NoRequest]
  /\ UNCHANGED <<serverVars, written, stray>>

-----------------------------------------------------------------------------
(* The server.  What it wrote before it closes a connection can be read,   *)
(* unless it had not read everything itself.                               *)

Broken(f) == IF outbox[f] = <<>> THEN {"broken"} ELSE {"broken", "reset"}

Fault == faults < MaxFaults /\ faults' = faults + 1

Stop ==
  /\ up
  /\ Fault
  /\ up' = FALSE
  /\ sock' \in [FDs -> {"free", "idle", "broken", "reset"}]
  /\ \A f \in FDs : sock'[f] \in IF sock[f] = "up" THEN Broken(f) ELSE {sock[f]}
  /\ outbox' = [f \in FDs |-> <<>>]
  /\ UNCHANGED <<statusVars, SocketFD, RecvBuffer, inbox, written, stray>>

Start ==
  /\ ~up
  /\ up' = TRUE
  /\ UNCHANGED <<statusVars, SocketFD, RecvBuffer, kernelVars, faults, written, stray>>

(* close() of a descriptor number that has become this connection's. *)
Cut(f) ==
  /\ sock[f] = "up"
  /\ Fault
  /\ \E how \in Broken(f) : sock' = [sock EXCEPT ![f] = how]
  /\ outbox' = [outbox EXCEPT ![f] = <<>>]
  /\ UNCHANGED <<statusVars, SocketFD, RecvBuffer, inbox, up, written, stray>>

(* A request is answered; after the answer to a GET the server closes. *)
Answer(f, closes) ==
  /\ sock[f] = "up"
  /\ outbox[f] # <<>>
  /\ inbox' = [inbox EXCEPT ![f] = Append(@, Head(outbox[f]))]
  /\ outbox' = [outbox EXCEPT ![f] = Tail(@)]
  /\ sock' = IF closes THEN [sock EXCEPT ![f] = "broken"] ELSE sock
  /\ UNCHANGED <<statusVars, SocketFD, RecvBuffer, serverVars, written, stray>>

(* A request that was dispatched already is answered once more, on what is *)
(* this connection's number by now.                                        *)
AnswerAgain(f, n) ==
  /\ sock[f] = "up"
  /\ written[n] > 0
  /\ Fault
  /\ stray' = TRUE
  /\ inbox' = [inbox EXCEPT ![f] = Append(@, n)]
  /\ UNCHANGED <<statusVars, SocketFD, RecvBuffer, sock, outbox, up, written>>

(* A request is lost: dropped with its batch, or erased in another's place. *)
LoseRequest(f) ==
  /\ outbox[f] # <<>>
  /\ Fault
  /\ outbox' = [outbox EXCEPT ![f] = Tail(@)]
  /\ UNCHANGED <<statusVars, SocketFD, RecvBuffer, sock, inbox, up, written, stray>>

(* Every way in which the server may disturb its clients. *)
Disturbance ==
  \/ Stop
  \/ Start
  \/ \E f \in FDs : Cut(f) \/ LoseRequest(f) \/ \E n \in Requests : AnswerAgain(f, n)
=============================================================================
