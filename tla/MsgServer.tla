----------------------------- MODULE MsgServer -----------------------------
(***************************************************************************)
(* The message server as a whole: clients and kernel (Sockets), network    *)
(* thread (ClientHandler) and worker thread (MessageHandler).              *)
(*                                                                         *)
(* A worker step is a step of MessageHandler together with what it does to *)
(* the mailbox and to the descriptors, which MessageHandler leaves open.   *)
(***************************************************************************)
EXTENDS ClientHandler, MessageHandler

(* A segment of the pool that no read() has filled is as malloc() gave it, *)
(* which is no request.                                                    *)
ASSUME ServerAssumption ==
  Packets \subseteq Requests /\ Phantom \in Requests /\ Phantom.type = "other"

VARIABLES
  loop,       (* worker: "top" of its loop, "in" it, "pop", "go" on, or      *)
              (* "left" it                                                   *)
  closing,    (* worker: transfer whose descriptor it is about to close       *)
  (* history *)
  transfers,  (* id -> the transfer popped under that id                     *)
  misled      (* connections on which there was a reply to no request        *)

workerVars == <<loop, closing, transfers, misled>>
allVars == <<socketVars, handlerVars, vars, workerVars>>

ServerInit ==
  /\ SocketsInit
  /\ ClientHandlerInit
  /\ Init
  /\ loop = "top"
  /\ closing = {}
  /\ transfers = <<>>
  /\ misled = {}

-----------------------------------------------------------------------------
(* The worker's loop around processMessages, and the drain of the mailbox. *)

(* Fault: the worker finishes its messages first. *)
LeaveWorkerLoop_WhenDone ==
  /\ loop = "top" /\ work = "drain"
  /\ ~RunServer
  /\ QueueMessages = <<>>
  /\ loop' = "left"
  /\ UNCHANGED <<socketVars, handlerVars, vars, closing, transfers, misled>>

LeaveWorkerLoop ==
  /\ loop = "top" /\ work = "drain"
  /\ ~RunServer
  /\ loop' = "left"
  /\ UNCHANGED <<socketVars, handlerVars, vars, closing, transfers, misled>>

EnterWorkerLoop ==
  /\ loop = "top" /\ work = "drain"
  /\ RunServer
  /\ loop' = "in"
  /\ UNCHANGED <<socketVars, handlerVars, vars, closing, transfers, misled>>

TestMailbox ==
  /\ loop = "in"
  /\ full
  /\ loop' = "pop"
  /\ UNCHANGED <<socketVars, handlerVars, vars, closing, transfers, misled>>

PopTransfer ==
  /\ loop = "pop"
  /\ box # <<>>
  /\ Arrive(Head(box).req)
  /\ transfers' = Append(transfers, Head(box))
  /\ box' = Tail(box)
  /\ UNCHANGED <<socketVars, RunServer, netVars, full, loop, closing, misled>>

EmptyMailbox ==
  /\ loop = "pop"
  /\ box = <<>>
  /\ full' = FALSE
  /\ loop' = "go"
  /\ UNCHANGED <<socketVars, RunServer, netVars, box, vars, closing, transfers, misled>>

(* The rest of processMessages begins, at once when there was no batch.    *)
BeginPass ==
  /\ loop = "go" \/ (loop = "in" /\ ~full)
  /\ StartPass
  /\ loop' = "top"
  /\ UNCHANGED <<socketVars, handlerVars, closing, transfers, misled>>

-----------------------------------------------------------------------------
(* dispatchMessage, with its writes.                                       *)

(* The transfer being dispatched. *)
Transfer == transfers[Current.id]

(* A reply, with the connection whose request it answers. *)
Reply == [to |-> Transfer.from, id |-> Current.id]

(* The reply is written on the connection that has the descriptor now.     *)
(* Was there a request on it that has no reply yet?                        *)
Answer ==
  /\ Write(Transfer.fd, Reply)
  /\ misled' = misled \cup
       {c \in Conns : /\ Writable(Transfer.fd) /\ c = fdTable[Transfer.fd]
                      /\ got[c] + Len(tx[c]) >= sent[c] - Len(rx[c])}

(* resultCode: nobody looks at what write() returned. *)
AnswerSet ==
  /\ closing = {}
  /\ RejectFull \/ StoreMessage
  /\ Answer
  /\ UNCHANGED <<clientVars, handlerVars, loop, closing, transfers>>

AnswerNothing ==
  /\ closing = {}
  /\ RejectType \/ IgnoreEmpty \/ RetryGet
  /\ UNCHANGED <<socketVars, handlerVars, workerVars>>

AnswerGet ==
  /\ closing = {}
  /\ Dispatching
  /\ Writable(Transfer.fd)
  /\ Deliver
  /\ Answer
  /\ closing' = {Transfer}
  /\ UNCHANGED <<clientVars, handlerVars, loop, transfers>>

GiveUpGet ==
  /\ closing = {}
  /\ Dispatching
  /\ Writable(Transfer.fd) => TooLarge(Current.req.session)
  /\ FailSend
  /\ UNCHANGED <<socketVars, handlerVars, workerVars>>

(* After a reply to a GET, its descriptor is closed. *)
CloseAnswered ==
  /\ \E t \in closing : Close(t.fd)
  /\ closing' = {}
  /\ UNCHANGED <<clientVars, handlerVars, vars, loop, transfers, misled>>

FinishPass ==
  /\ closing = {}
  /\ EndDispatch \/ EraseTurn \/ EndPass
  /\ UNCHANGED <<socketVars, handlerVars, workerVars>>

Worker ==
  \/ LeaveWorkerLoop \/ EnterWorkerLoop \/ TestMailbox \/ PopTransfer \/ EmptyMailbox
  \/ BeginPass \/ AnswerSet \/ AnswerNothing \/ AnswerGet \/ GiveUpGet \/ CloseAnswered
  \/ FinishPass

-----------------------------------------------------------------------------
(* The process ends when the worker dies in erase() and when the network   *)
(* thread calls exit(), and no thread of it goes on.                       *)
Alive == work # "dead" /\ net # "exit"

NetworkStep == Alive /\ Network /\ UNCHANGED <<vars, workerVars>>
WorkerStep == Alive /\ Worker

ServerNext ==
  \/ AnyClient /\ UNCHANGED <<handlerVars, vars, workerVars>>
  \/ NetworkStep
  \/ Alive /\ Terminate /\ UNCHANGED <<vars, workerVars>>
  \/ WorkerStep

(* Each thread keeps running; clients and the operator do as they like.    *)
ServerSpec ==
  /\ ServerInit
  /\ [][ServerNext]_allVars
  /\ WF_allVars(NetworkStep)
  /\ WF_allVars(WorkerStep)

-----------------------------------------------------------------------------
TransferRecord ==
  [fd : FDs, from : Conns \cup {NoConn}, req : Requests]

ServerTypeOK ==
  /\ TypeOK
  /\ client \in [Conns -> {"new", "open", "closed"}]
  /\ fdTable \in [FDs -> Conns \cup {NoConn}]
  /\ RunServer \in BOOLEAN
  /\ net \in {"top", "poll", "nonblock", "watch", "wait", "read", "join", "exit"}
  /\ watched \cup Clients \cup adding \subseteq FDs
  /\ events \in Seq(FDs) /\ Len(events) <= BatchMax
  /\ Messages \in Seq(TransferRecord)
  /\ full \in BOOLEAN
  /\ box \in Seq(TransferRecord) /\ Len(box) <= BatchMax
  /\ loop \in {"top", "in", "pop", "go", "left"}
  /\ closing \subseteq TransferRecord
  /\ transfers \in Seq(TransferRecord)
  /\ misled \subseteq Conns

(* A reply reaches the client that sent the request, whatever clients do,  *)
(* unless the server has closed that client's connection meanwhile:        *)
(* transfers hold the bare number of a descriptor, which is then given to  *)
(* somebody else.                                                          *)
AstrayOnlyAfterCut ==
  \A c \in Conns : \A k \in DOMAIN tx[c] :
    tx[c][k].to = c \/ tx[c][k].to \in cut

(* "read filedescriptor content": although one packet is read per edge-    *)
(* triggered event, whatever there is to read on an accepted connection of *)
(* a patient client will be read, because its descriptor is on the ready   *)
(* list, among those the network thread is about to read, or about to be   *)
(* registered with epoll.  That is, as long as the client is given no      *)
(* reply too many, another one's or its own a second time: it sends again  *)
(* or leaves then while its last packet is still unread, and one event     *)
(* brings one packet only.                                                 *)
NothingOverlooked ==
  \A f \in FDs :
    /\ fdTable[f] \in Patient \ misled
    /\ rx[fdTable[f]] # <<>> \/ client[fdTable[f]] = "closed"
    => f \in Range(ready) \cup Range(events) \cup adding

(* The server closes a connection only after its client has closed it, or  *)
(* to end the reply to a GET of that client.                               *)
CutForReason ==
  [][\A c \in cut' \ cut :
       \/ client[c] = "closed"
       \/ \E t \in closing : t.from = c]_allVars

(* SIGTERM ends both loops, so that join() returns, unless the process     *)
(* ends before: the worker dies in erase(), or closes the descriptor that  *)
(* the network thread is about to make non-blocking.                       *)
ServerStops ==
  ~RunServer ~> (net = "join" /\ loop = "left") \/ ~Alive

(* A patient client that closes its connection gives a descriptor back,    *)
(* unless it was given a reply too many (see NothingOverlooked).           *)
DescriptorComesBack ==
  \A c \in Patient :
    client[c] = "closed"
      ~> (\A f \in FDs : fdTable[f] # c) \/ ~RunServer \/ c \in misled \/ ~Alive
=============================================================================
