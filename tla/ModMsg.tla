------------------------------- MODULE ModMsg -------------------------------
(***************************************************************************)
(* The Apache module: a child process with one thread of requests          *)
(* (prefork) or several of them (worker, event).  Every SET of the process *)
(* goes through the object ConnSetObj, which is connected when the child   *)
(* is initialized and which nothing guards; a GET makes an object of its   *)
(* own, named like its thread here, and closes it in the end.              *)
(*                                                                         *)
(* The page a request leads to is kept as a history: nothing, the reply    *)
(* to this request or to another one, an empty string, or the error that   *)
(* the module itself reports.                                              *)
(***************************************************************************)
EXTENDS FiniteSets, ConnectionLocal, Protocol

CONSTANTS
  Threads,         (* threads a process may have                             *)
  ConnSetObj,      (* the object of the SETs                                 *)
  Processes,       (* processes to be looked at: the threads of each, and    *)
                   (* the types of the requests that come to it in turn      *)
  SessionLengths,  (* lengths of the parameter Session                       *)
  PayloadLengths   (* lengths of the parameter Payload                       *)

ASSUME ModMsgAssumption ==
  /\ ConnSetObj \notin Threads /\ Objects = Threads \cup {ConnSetObj}
  /\ Processes \subseteq [threads : SUBSET Threads, types : Seq(STRING)]
  /\ \A p \in Processes : DOMAIN p.types \subseteq Requests
  /\ IsFiniteSet(Requests) /\ Requests = 1 .. Cardinality(Requests) /\ NoRequest = 0
  /\ SessionLengths \subseteq Nat /\ PayloadLengths \subseteq Nat

VARIABLES
  process,  (* this process, fixed                                           *)
  last,     (* number of the request that came last                          *)
  (* thread -> its locals *)
  pc,       (* where processMessage is                                       *)
  req,      (* the number of its request                                     *)
  kind,     (* the request's MessageType                                     *)
  fd,       (* the descriptor read() was called with                         *)
  rc,       (* what the last system call gave                                *)
  body,     (* RcvMessage: NoRequest when it is empty, or whom it answers    *)
  (* history *)
  page,     (* request -> what was passed on to the browser                  *)
  lost,     (* descriptors that connect() overwrote                          *)
  crossed   (* SETs during which another SET was under way                   *)

localVars == <<pc, req, kind, fd, rc, body>>
historyVars == <<page, lost, crossed>>
requestVars == <<process, last, localVars, historyVars>>
vars == <<requestVars, connVars>>

pool == process.threads

(* The object of the request of t. *)
Obj(t) == IF kind[t] = "SET" THEN ConnSetObj ELSE t

(* Main::Main connects ConnSetObj to a server that runs or does not. *)
Init ==
  /\ up \in BOOLEAN
  /\ ConnStatus = [o \in Objects |-> o = ConnSetObj /\ up]
  /\ \E b \in BOOLEAN : SendStatus = [o \in Objects |-> o = ConnSetObj /\ b]
  /\ \E b \in BOOLEAN : RecvStatus = [o \in Objects |-> o = ConnSetObj /\ b]
  /\ SocketFD = [o \in Objects |-> IF o = ConnSetObj THEN 1 ELSE 0]
  /\ RecvBuffer = [o \in Objects |-> NoRequest]
  /\ sock = [f \in FDs |-> IF f # 1 THEN "free" ELSE IF up THEN "up" ELSE "idle"]
  /\ outbox = [f \in FDs |-> <<>>]
  /\ inbox = [f \in FDs |-> <<>>]
  /\ faults = 0 /\ stray = FALSE
  /\ written = [n \in Requests |-> 0]
  /\ process \in Processes
  /\ last = 0
  /\ pc = [t \in Threads |-> "idle"]
  /\ req = [t \in Threads |-> NoRequest]
  /\ kind = [t \in Threads |-> "none"]
  /\ fd = [t \in Threads |-> 0]
  /\ rc = [t \in Threads |-> "none"]
  /\ body = [t \in Threads |-> NoRequest]
  /\ page = [n \in Requests |-> "none"]
  /\ lost = 0
  /\ crossed = {}

-----------------------------------------------------------------------------
(* A thread at a request. *)

Goto(t, p) == pc' = [pc EXCEPT ![t] = p]

(* The three early returns of processMessage. *)
Accepts(type, session, payload) ==
  /\ type \in {"GET", "SET"}
  /\ session = SESSION_ID_BYTES
  /\ type = "SET" => payload # 0

(* The other SETs that are under way. *)
OtherSets(t) == {req[u] : u \in {v \in pool \ {t} : kind[v] = "SET"}}

(* A request comes in.  One that is not accepted changes nothing. *)
Begin(t, session, payload) ==
  LET n == last + 1
  IN  /\ pc[t] = "idle"
      /\ n \in DOMAIN process.types
      /\ Accepts(process.types[n], session, payload)
      /\ last' = n
      /\ req' = [req EXCEPT ![t] = n]
      /\ kind' = [kind EXCEPT ![t] = process.types[n]]
      /\ IF process.types[n] = "GET" THEN Construct(t) ELSE UNCHANGED connVars
      /\ crossed' = IF process.types[n] = "SET" /\ OtherSets(t) # {}
                    THEN crossed \cup OtherSets(t) \cup {n} ELSE crossed
      /\ Goto(t, "write")
      /\ UNCHANGED <<process, fd, rc, body, page, lost>>

(* sendMessageReconnect: one turn of its loop, which nothing ends but a    *)
(* message that was sent.  ReconnectCount stays 0.                         *)
Send(t) ==
  /\ pc[t] = "write"
  /\ Write(Obj(t), req[t])
  /\ rc' = [rc EXCEPT ![t] = IF Is(Obj(t), "up") THEN "ok" ELSE "error"]
  /\ Goto(t, "note")
  /\ UNCHANGED <<statusVars, process, last, req, kind, fd, body, historyVars>>

NoteSent(t) ==
  /\ pc[t] = "note"
  /\ SetSendStatus(Obj(t), rc[t] = "ok")
  /\ rc' = [rc EXCEPT ![t] = "none"]
  /\ Goto(t, "check")
  /\ UNCHANGED <<RecvStatus, SocketFD, RecvBuffer, kernelVars, serverVars, written, stray,
                 process, last, req, kind, fd, body, historyVars>>

Sent(t) ==
  /\ pc[t] = "check"
  /\ ConnStatus[Obj(t)] /\ SendStatus[Obj(t)]
  /\ Goto(t, "call")
  /\ UNCHANGED <<connVars, process, last, req, kind, fd, rc, body, historyVars>>

NotSent(t) ==
  /\ pc[t] = "check"
  /\ ~(ConnStatus[Obj(t)] /\ SendStatus[Obj(t)])
  /\ Goto(t, "test")
  /\ UNCHANGED <<connVars, process, last, req, kind, fd, rc, body, historyVars>>

TryAgain(t) ==
  /\ pc[t] = "test"
  /\ ConnStatus[Obj(t)]
  /\ Goto(t, "write")
  /\ UNCHANGED <<connVars, process, last, req, kind, fd, rc, body, historyVars>>

Reopen(t) ==
  /\ pc[t] = "test"
  /\ ~ConnStatus[Obj(t)]
  /\ lost' = IF SocketFD[Obj(t)] = 0 THEN lost ELSE lost + 1
  /\ Socket(Obj(t))
  /\ Goto(t, "connect")
  /\ UNCHANGED <<process, last, req, kind, fd, rc, body, page, crossed>>

Reconnect(t) ==
  /\ pc[t] = "connect"
  /\ Connect(Obj(t))
  /\ Goto(t, "write")
  /\ UNCHANGED <<process, last, req, kind, fd, rc, body, historyVars>>

(* receiveMessage. *)
CallRead(t) ==
  /\ pc[t] = "call"
  /\ fd' = [fd EXCEPT ![t] = SocketFD[Obj(t)]]
  /\ Goto(t, "read")
  /\ UNCHANGED <<connVars, process, last, req, kind, rc, body, historyVars>>

Receive(t) ==
  /\ pc[t] = "read"
  /\ \E result \in {"reply", "end", "error"} :
       Read(Obj(t), fd[t], result) /\ rc' = [rc EXCEPT ![t] = result]
  /\ fd' = [fd EXCEPT ![t] = 0]
  /\ Goto(t, "keep")
  /\ UNCHANGED <<statusVars, process, last, req, kind, body, historyVars>>

(* Fault: what the buffer holds is taken for the reply, whatever read()    *)
(* gave.                                                                   *)
FreshMessage_Keep(t) == RecvBuffer[Obj(t)]

(* RcvMessage is a new string for every request, and stays empty when no   *)
(* reply was read.                                                         *)
FreshMessage(t) == IF rc[t] = "reply" THEN RecvBuffer[Obj(t)] ELSE NoRequest

Keep(t) ==
  /\ pc[t] = "keep"
  /\ body' = [body EXCEPT ![t] = FreshMessage(t)]
  /\ SetRecvStatus(Obj(t), rc[t])
  /\ rc' = [rc EXCEPT ![t] = "none"]
  /\ Goto(t, "respond")
  /\ UNCHANGED <<SendStatus, SocketFD, RecvBuffer, kernelVars, serverVars, written, stray,
                 process, last, req, kind, fd, historyVars>>

(* What the message is to t's request. *)
Content(t) ==
  IF body[t] = NoRequest THEN "empty" ELSE IF body[t] = req[t] THEN "own" ELSE "other"

(* Fault: the descriptor of a GET is not given back. *)
EndRequest_NoClose(t) == UNCHANGED connVars

(* close() of the object of a GET. *)
EndRequest(t) == IF kind[t] = "GET" THEN CloseSocket(t) ELSE UNCHANGED connVars

Respond(t) ==
  /\ pc[t] = "respond"
  /\ page' = [page EXCEPT ![req[t]] = IF RecvStatus[Obj(t)] THEN Content(t)
                                      ELSE IF kind[t] = "GET" THEN "error" ELSE "none"]
  /\ EndRequest(t)
  /\ Goto(t, "idle")
  /\ req' = [req EXCEPT ![t] = NoRequest]
  /\ kind' = [kind EXCEPT ![t] = "none"]
  /\ body' = [body EXCEPT ![t] = NoRequest]
  /\ UNCHANGED <<process, last, fd, rc, lost, crossed>>

(* The steps that thread t owes to its request. *)
Process(t) ==
  \/ Send(t) \/ NoteSent(t) \/ Sent(t) \/ NotSent(t) \/ TryAgain(t) \/ Reopen(t)
  \/ Reconnect(t) \/ CallRead(t) \/ Receive(t) \/ Keep(t) \/ Respond(t)

(* The server closes after its answer to a GET. *)
Server ==
  /\ Disturbance \/ \E f \in FDs : Answer(f, \E t \in Threads : f = SocketFD[t])
  /\ UNCHANGED requestVars

Next ==
  \/ \E t \in pool :
       \/ \E session \in SessionLengths, payload \in PayloadLengths : Begin(t, session, payload)
       \/ Process(t)
  \/ Server

(* Apache runs its threads; the server owes nothing. *)
Spec == Init /\ [][Next]_vars /\ \A t \in Threads : WF_vars(t \in pool /\ Process(t))

-----------------------------------------------------------------------------
TypeOK ==
  /\ ConnTypeOK
  /\ process \in Processes
  /\ last \in Requests \cup {0}
  /\ pc \in [Threads -> {"idle", "write", "note", "check", "test", "connect",
                         "call", "read", "keep", "respond"}]
  /\ {req, body} \subseteq [Threads -> Requests \cup {NoRequest}]
  /\ kind \in [Threads -> {"none", "GET", "SET"}]
  /\ fd \in [Threads -> FDs \cup {0}]
  /\ rc \in [Threads -> {"none", "ok", "reply", "end", "error"}]
  /\ page \in [Requests -> {"none", "own", "other", "empty", "error"}]
  /\ lost \in 0 .. MaxSockets
  /\ crossed \subseteq Requests

(* The retry loop sends a request once: a failure is never repaired by     *)
(* sending twice what the server has got already, and no answer is waited  *)
(* for before the request was written.  Only a SET that shares ConnSetObj  *)
(* with another one at the time may be told the other one's result.        *)
SentOnce ==
  /\ \A n \in Requests \ crossed : written[n] <= 1
  /\ \A t \in pool :
       pc[t] \in {"call", "read", "keep", "respond"} /\ req[t] \notin crossed
         => written[req[t]] = 1

(* All SETs share a connection, and the server may lose a request or close *)
(* on it: still nobody is shown the reply to another one's request, unless *)
(* the server itself wrote an answer that nobody waits for, or two SETs    *)
(* were under way at a time.  A GET is not touched by that.                *)
OwnReply ==
  /\ \A n \in Requests : page[n] = "other" => stray \/ crossed # {}
  /\ \A t \in pool : kind[t] = "GET" /\ body[t] # NoRequest => body[t] = req[t] \/ stray

(* The loop tries for ever: on a connection that was lost while ConnStatus *)
(* is true it never connects again, and when the sockets it left open are  *)
(* all there are it never gets another one.  No server that comes back     *)
(* helps; only another thread could.                                       *)
InLoop(t) ==
  /\ pc[t] \in {"write", "note", "check", "test", "connect"}
  /\ pc[t] = "note" => rc[t] # "ok"
  /\ pc[t] = "check" => ~SendStatus[Obj(t)]
Alone(t) == kind[t] = "GET" \/ pool = {t}
NoSocketLeft == \A f \in FDs : sock[f] # "free"
Hopeless(t) ==
  /\ InLoop(t) /\ ~Is(Obj(t), "up")
  /\ \/ Alone(t) /\ ConnStatus[Obj(t)] /\ pc[t] # "connect"
     \/ pool = {t} /\ NoSocketLeft /\ (pc[t] = "connect" => SocketFD[Obj(t)] = 0)
HopelessForEver == [][\A t \in pool : Hopeless(t) => Hopeless(t)']_vars

(* A descriptor is lost by a reconnection and in no other way: however a   *)
(* GET ends, it gives back the one it has.                                 *)
LostByReconnecting ==
  Cardinality({f \in FDs : sock[f] # "free"})
    = lost + Cardinality({o \in Objects : SocketFD[o] # 0})

(* A request that met a server which did not run is sent when there is one *)
(* that keeps running, unless the retries have used up the descriptors.    *)
(* That is, if no other thread connects ConnSetObj meanwhile: a connection *)
(* which that one loses again puts this one into the loop above.           *)
RefusedIsRetried ==
  \A t \in Threads :
    <>[]up => (t \in pool /\ Alone(t) /\ InLoop(t) /\ ~ConnStatus[Obj(t)] ~> ~InLoop(t) \/ NoSocketLeft)
=============================================================================
