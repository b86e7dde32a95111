------------------------------ MODULE Sockets ------------------------------
(***************************************************************************)
(* What the message server needs of the operating system: connections of a *)
(* UNIX domain SOCK_SEQPACKET socket, the process's table of descriptors,  *)
(* and an epoll instance on which descriptors are registered with          *)
(* EPOLLIN | EPOLLET.  None of it is code of the repository; it is         *)
(* modelled from the calls MessageServer, ClientHandler and MessageHandler *)
(* make.                                                                   *)
(*                                                                         *)
(* Edge-triggered means: a registered descriptor enters the ready list     *)
(* when something happens on its connection, and leaves it when epoll_wait *)
(* reports it, whether or not everything there is to read is then read.    *)
(*                                                                         *)
(* The clients are here as well.  Patient clients are the repository's own *)
(* (lib/, apache/, evaluate/): they wait for the answer to a request       *)
(* before they send another or close.  The others, and those that crash,   *)
(* send and close when they like.                                          *)
(***************************************************************************)
EXTENDS Integers, Sequences, FiniteSets, SequencesExt

CONSTANTS
  Conns,      (* connections that clients open, each at most once            *)
  FDs,        (* numbers of descriptors the process may use for connections  *)
  NoConn,     (* what a free descriptor refers to                            *)
  Packets,    (* packets clients send                                        *)
  MaxSends,   (* connection -> bound on the packets its client sends         *)
  Patient     (* connections whose clients wait for their answers            *)

ASSUME SocketsAssumption ==
  /\ FDs \subseteq Nat \ {0}
  /\ NoConn \notin Conns
  /\ MaxSends \in [Conns -> Nat]
  /\ Patient \subseteq Conns

VARIABLES
  client,     (* connection -> "new", "open" or "closed", the client's end   *)
  sent,       (* connection -> packets its client has sent                   *)
  got,        (* connection -> replies its client has read                   *)
  backlog,    (* connections to be accepted, oldest first                    *)
  fdTable,    (* descriptor -> connection, or NoConn                         *)
  cut,        (* connections whose server end has been closed                *)
  rx,         (* connection -> packets the server can read                   *)
  tx,         (* connection -> replies the client can read                   *)
  resets,     (* connections with an error for the server to read            *)
  watched,    (* descriptors registered with epoll                           *)
  ready       (* its ready list                                              *)

clientVars == <<client, sent, got>>
kernelVars == <<backlog, fdTable, cut, rx, tx, resets, watched, ready>>
socketVars == <<clientVars, kernelVars>>

SocketsInit ==
  /\ client = [c \in Conns |-> "new"]
  /\ sent = [c \in Conns |-> 0]
  /\ got = [c \in Conns |-> 0]
  /\ backlog = <<>>
  /\ fdTable = [f \in FDs |-> NoConn]
  /\ cut = {}
  /\ rx = [c \in Conns |-> <<>>]
  /\ tx = [c \in Conns |-> <<>>]
  /\ resets = {}
  /\ watched = {}
  /\ ready = <<>>

-----------------------------------------------------------------------------
(* The kernel. *)

(* Something happens on c: its descriptor, if it has one that epoll        *)
(* watches, becomes ready.                                                 *)
Notified(c) ==
  LET fs == {f \in watched : fdTable[f] = c}
  IN  IF fs = {} \/ fs \cap Range(ready) # {}
      THEN ready
      ELSE Append(ready, CHOOSE f \in fs : TRUE)

FreeFDs == {f \in FDs : fdTable[f] = NoConn}

LowestFree == CHOOSE n \in FreeFDs : \A m \in FreeFDs : n <= m

(* accept(): the oldest connection gets the lowest free number. *)
Accept ==
  /\ fdTable' = [fdTable EXCEPT ![LowestFree] = Head(backlog)]
  /\ backlog' = Tail(backlog)
  /\ UNCHANGED <<cut, rx, tx, resets, watched, ready>>

(* epoll_ctl(EPOLL_CTL_ADD): without effect on a free descriptor; another  *)
(* one is ready at once if there is something to read.                     *)
Watch(f) ==
  IF fdTable[f] = NoConn
  THEN UNCHANGED kernelVars
  ELSE /\ watched' = watched \cup {f}
       /\ ready' = IF rx[fdTable[f]] = <<>> /\ client[fdTable[f]] = "open"
                   THEN ready ELSE Append(ready, f)
       /\ UNCHANGED <<backlog, fdTable, cut, rx, tx, resets>>

(* close(): without effect on a free descriptor.  The number is free at    *)
(* once; what is unread is gone, and so is the registration with epoll.    *)
(* The ready list holds no number twice.                                   *)
Close(f) ==
  IF fdTable[f] = NoConn
  THEN UNCHANGED kernelVars
  ELSE /\ fdTable' = [fdTable EXCEPT ![f] = NoConn]
       /\ cut' = cut \cup {fdTable[f]}
       /\ rx' = [rx EXCEPT ![fdTable[f]] = <<>>]
       /\ resets' = resets \ {fdTable[f]}
       /\ watched' = watched \ {f}
       /\ ready' = RemoveFirst(ready, f)
       /\ UNCHANGED <<backlog, tx>>

(* Does write() succeed?  Not on a free descriptor, and not when the       *)
(* client has closed its end.                                              *)
Writable(f) == fdTable[f] # NoConn /\ client[fdTable[f]] = "open"

(* write(): without effect when it fails. *)
Write(f, reply) ==
  /\ tx' = IF Writable(f) THEN [tx EXCEPT ![fdTable[f]] = Append(@, reply)] ELSE tx
  /\ UNCHANGED <<backlog, fdTable, cut, rx, resets, watched, ready>>

-----------------------------------------------------------------------------
(* The clients. *)

(* A patient client that has no answer outstanding, or has found that none *)
(* will come because the server has closed the connection.                 *)
AtRest(c) == got[c] >= sent[c] \/ (c \in cut /\ tx[c] = <<>>)

Connect(c) ==
  /\ client[c] = "new"
  /\ client' = [client EXCEPT ![c] = "open"]
  /\ backlog' = Append(backlog, c)
  /\ UNCHANGED <<sent, got, fdTable, cut, rx, tx, resets, watched, ready>>

Send(c, p) ==
  /\ client[c] = "open"
  /\ c \notin cut
  /\ sent[c] < MaxSends[c]
  /\ c \in Patient => AtRest(c)
  /\ sent' = [sent EXCEPT ![c] = @ + 1]
  /\ rx' = [rx EXCEPT ![c] = Append(@, p)]
  /\ ready' = Notified(c)
  /\ UNCHANGED <<client, got, backlog, fdTable, cut, tx, resets, watched>>

Receive(c) ==
  /\ client[c] = "open"
  /\ tx[c] # <<>>
  /\ got' = [got EXCEPT ![c] = @ + 1]
  /\ tx' = [tx EXCEPT ![c] = Tail(@)]
  /\ UNCHANGED <<client, sent, backlog, fdTable, cut, rx, resets, watched, ready>>

(* The client closes, or its process ends.  Unread replies make the kernel *)
(* report an error (ECONNRESET) to the server's next read().               *)
HangUp(c) ==
  /\ client[c] = "open"
  /\ c \in Patient => AtRest(c)
  /\ client' = [client EXCEPT ![c] = "closed"]
  /\ resets' = IF tx[c] # <<>> /\ c \notin cut THEN resets \cup {c} ELSE resets
  /\ tx' = [tx EXCEPT ![c] = <<>>]
  /\ ready' = Notified(c)
  /\ UNCHANGED <<sent, got, backlog, fdTable, cut, rx, watched>>

AnyClient ==
  \E c \in Conns :
    \/ Connect(c)
    \/ \E p \in Packets : Send(c, p)
    \/ Receive(c)
    \/ HangUp(c)
=============================================================================
