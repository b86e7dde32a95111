--------------------------- MODULE MessageHandler ---------------------------
(***************************************************************************)
(* The worker thread's own part of the message server: the second half of  *)
(* MessageHandler::processMessages, dispatchMessage with every way out of  *)
(* it, and the Session and Message objects that store what SET requests    *)
(* bring until a GET request fetches it.                                   *)
(*                                                                         *)
(* The thread works in passes.  A pass dispatches the first messages of    *)
(* QueueMessages one after the other, notes the index of every message it  *)
(* is done with, and at its end erases at the noted indices.  A message    *)
(* that is not done (a GET for which there is nothing yet) is meant to     *)
(* stay and be tried again in the next pass.                               *)
(*                                                                         *)
(* Nothing here is shared with the network thread: the drain of the queue  *)
(* (QueueHandoff) is abstracted to the arrival of messages between passes, *)
(* and the write() of a reply to whether it succeeds.  A reply is a single *)
(* packet, so write() fails for one that is too long; payloads are of one  *)
(* size here, and the size of a reply is the number of payloads in it.     *)
(***************************************************************************)
EXTENDS Sequences, FiniteSets, VectorOps, Protocol

CONSTANTS
  Requests,      (* requests clients send: records [type, session, bytes]    *)
  CLIENTS_MAX,   (* sessions the container takes                             *)
  PER_LOOP,      (* MSGPROCESSOR_PROCESS_PER_LOOP_COUNT                      *)
  PACKET_MAX,    (* payloads a packet of the socket has room for             *)
  MaxReads       (* bound on the messages that arrive in a behaviour         *)

ASSUME HandlerAssumption ==
  /\ \A r \in Requests : r.type \in {"GET", "SET", "other"} /\ r.bytes \in Nat
  /\ CLIENTS_MAX \in Nat
  /\ PER_LOOP \in Nat
  /\ PACKET_MAX \in Nat
  /\ MaxReads \in Nat

VARIABLES
  QueueMessages,   (* the messages to dispatch: [id, req], oldest first      *)
  work,            (* where the worker is                                    *)
  MsgCount,        (* local: messages this pass dispatches                   *)
  i,               (* local: loop index of the dispatch and the erase loop   *)
  DeleteMessages,  (* local: indices (from 0) dispatchMessage is done with   *)
  SessionData,     (* session -> its stored messages, newest first           *)
  (* history, of which the code keeps nothing *)
  nread,           (* messages that arrived; the id of the last one          *)
  clock,           (* payloads stored so far; the MessageTime of the last    *)
  delivered,       (* stored messages that a successful reply has carried    *)
  processed        (* ids dispatchMessage has been done with                 *)

passVars == <<MsgCount, i, DeleteMessages>>
storeVars == <<SessionData, clock, delivered>>
vars == <<QueueMessages, work, passVars, storeVars, nread, processed>>

Init ==
  /\ QueueMessages = <<>>
  /\ work = "drain"
  /\ MsgCount = 0
  /\ i = 0
  /\ DeleteMessages = <<>>
  /\ SessionData = <<>>
  /\ nread = 0
  /\ clock = 0
  /\ delivered = {}
  /\ processed = {}

-----------------------------------------------------------------------------
(* The session container: an unordered_map from session id to the vector   *)
(* of stored messages.                                                     *)

Known(s) == s \in DOMAIN SessionData

(* Session::getMessageObject(s)->getMessages(), empty for an unknown one. *)
StoredFor(s) == IF Known(s) THEN SessionData[s] ELSE <<>>

(* Fault: the limit is off by one. *)
Full_OneMore == Cardinality(DOMAIN SessionData) > CLIENTS_MAX

Full == Cardinality(DOMAIN SessionData) = CLIENTS_MAX

(* Fault: the message is put behind the older ones. *)
AddMessage_AtBack(s, msg) ==
  [t \in DOMAIN SessionData \cup {s} |->
     IF t = s THEN Append(StoredFor(s), msg) ELSE SessionData[t]]

(* Session::add, when s is new, and then addMessage, which inserts at the  *)
(* front of the vector.                                                    *)
AddMessage(s, msg) ==
  [t \in DOMAIN SessionData \cup {s} |->
     IF t = s THEN <<msg>> \o StoredFor(s) ELSE SessionData[t]]

(* The reply with all of s's messages is longer than a packet: reserve()   *)
(* is all that MSG_PER_SESSION_MAX does, and write() gives EMSGSIZE.       *)
TooLarge(s) == Len(StoredFor(s)) > PACKET_MAX

ClearMessages(s) == [SessionData EXCEPT ![s] = <<>>]

-----------------------------------------------------------------------------
(* Fault: the message is put before the older ones. *)
Arrive_AtFront(r) ==
  /\ work = "drain"
  /\ nread < MaxReads
  /\ nread' = nread + 1
  /\ QueueMessages' = <<[id |-> nread', req |-> r]>> \o QueueMessages
  /\ UNCHANGED <<work, passVars, storeVars, processed>>

(* One turn of the drain loop: a message arrives behind the older ones. *)
Arrive(r) ==
  /\ work = "drain"
  /\ nread < MaxReads
  /\ nread' = nread + 1
  /\ QueueMessages' = Append(QueueMessages, [id |-> nread', req |-> r])
  /\ UNCHANGED <<work, passVars, storeVars, processed>>

(* Fault: the pass is not limited to a prefix. *)
StartPass_NoLimit ==
  /\ work = "drain"
  /\ IF QueueMessages = <<>>
     THEN UNCHANGED <<work, passVars>>
     ELSE /\ work' = "dispatch"
          /\ MsgCount' = Len(QueueMessages)
          /\ i' = 0
          /\ DeleteMessages' = <<>>
  /\ UNCHANGED <<QueueMessages, storeVars, nread, processed>>

(* The drain is over.  With nothing to do the thread sleeps and returns;   *)
(* otherwise it starts on a prefix of the vector.                          *)
StartPass ==
  /\ work = "drain"
  /\ IF QueueMessages = <<>>
     THEN UNCHANGED <<work, passVars>>
     ELSE /\ work' = "dispatch"
          /\ MsgCount' = IF Len(QueueMessages) > PER_LOOP
                         THEN PER_LOOP ELSE Len(QueueMessages)
          /\ i' = 0
          /\ DeleteMessages' = <<>>
  /\ UNCHANGED <<QueueMessages, storeVars, nread, processed>>

(* The message at the loop index. *)
Current == QueueMessages[i + 1]

Dispatching == work = "dispatch" /\ i < MsgCount

(* dispatchMessage returns true: the index is noted for deletion. *)
Finish ==
  /\ i' = i + 1
  /\ DeleteMessages' = Append(DeleteMessages, i)
  /\ processed' = processed \cup {Current.id}
  /\ UNCHANGED <<QueueMessages, work, MsgCount, nread>>

(* dispatchMessage returns false: the message is to be tried again. *)
Retry ==
  /\ i' = i + 1
  /\ UNCHANGED <<QueueMessages, work, MsgCount, DeleteMessages, processed, nread>>

(* Neither GET nor SET. *)
RejectType ==
  /\ Dispatching
  /\ Current.req.type = "other"
  /\ Finish
  /\ UNCHANGED storeVars

(* Fault: a refused SET is kept for another try. *)
RejectFull_Retry ==
  /\ Dispatching
  /\ Current.req.type = "SET"
  /\ Full
  /\ Retry
  /\ UNCHANGED storeVars

(* SET while the container is full: the reply is an error, also for a      *)
(* session that is in the container.                                       *)
RejectFull ==
  /\ Dispatching
  /\ Current.req.type = "SET"
  /\ Full
  /\ Finish
  /\ UNCHANGED storeVars

(* SET without a payload: no reply at all. *)
IgnoreEmpty ==
  /\ Dispatching
  /\ Current.req.type = "SET"
  /\ ~Full
  /\ PayloadBytes(Current.req.bytes) = 0
  /\ Finish
  /\ UNCHANGED storeVars

(* Fault: a known session is served although the container is full. *)
StoreMessage_KnownPasses ==
  /\ Dispatching
  /\ Current.req.type = "SET"
  /\ ~Full \/ Known(Current.req.session)
  /\ PayloadBytes(Current.req.bytes) # 0
  /\ clock' = clock + 1
  /\ SessionData' = AddMessage(Current.req.session,
                               [id |-> Current.id, time |-> clock'])
  /\ Finish
  /\ UNCHANGED delivered

(* SET: the payload is stored, then the sender gets I__INSERT_MSG_OK. *)
StoreMessage ==
  /\ Dispatching
  /\ Current.req.type = "SET"
  /\ ~Full
  /\ PayloadBytes(Current.req.bytes) # 0
  /\ clock' = clock + 1
  /\ SessionData' = AddMessage(Current.req.session,
                               [id |-> Current.id, time |-> clock'])
  /\ Finish
  /\ UNCHANGED delivered

(* GET for an unknown session or one without messages. *)
RetryGet ==
  /\ Dispatching
  /\ Current.req.type = "GET"
  /\ StoredFor(Current.req.session) = <<>>
  /\ Retry
  /\ UNCHANGED storeVars

(* GET whose reply cannot be written: the request is given up, the stored  *)
(* messages stay.                                                          *)
FailSend ==
  /\ Dispatching
  /\ Current.req.type = "GET"
  /\ StoredFor(Current.req.session) # <<>>
  /\ Finish
  /\ UNCHANGED storeVars

(* Fault: the messages are sent and kept. *)
Deliver_NoClear ==
  /\ Dispatching
  /\ Current.req.type = "GET"
  /\ StoredFor(Current.req.session) # <<>>
  /\ delivered' = delivered \cup Range(StoredFor(Current.req.session))
  /\ Finish
  /\ UNCHANGED <<SessionData, clock>>

(* Fault: the reply carries what fits, and all messages are cleared. *)
Deliver_WhatFits ==
  /\ Dispatching
  /\ Current.req.type = "GET"
  /\ StoredFor(Current.req.session) # <<>>
  /\ delivered' = delivered \cup
       {StoredFor(Current.req.session)[p] :
          p \in {n \in DOMAIN StoredFor(Current.req.session) : n <= PACKET_MAX}}
  /\ SessionData' = ClearMessages(Current.req.session)
  /\ Finish
  /\ UNCHANGED clock

(* GET: one reply carries all stored messages, which are then cleared, and *)
(* the connection is closed.                                               *)
Deliver ==
  /\ Dispatching
  /\ Current.req.type = "GET"
  /\ StoredFor(Current.req.session) # <<>>
  /\ ~TooLarge(Current.req.session)
  /\ delivered' = delivered \cup Range(StoredFor(Current.req.session))
  /\ SessionData' = ClearMessages(Current.req.session)
  /\ Finish
  /\ UNCHANGED clock

DispatchMessage ==
  \/ RejectType \/ RejectFull \/ IgnoreEmpty \/ StoreMessage
  \/ RetryGet \/ FailSend \/ Deliver

(* The dispatch loop is over; the erase loop starts at its first index. *)
EndDispatch ==
  /\ work = "dispatch"
  /\ i = MsgCount
  /\ work' = "erase"
  /\ i' = 0
  /\ UNCHANGED <<QueueMessages, MsgCount, DeleteMessages, storeVars, nread, processed>>

(* One turn of the erase loop.  Past the end of the vector the process may *)
(* die.                                                                    *)
EraseTurn ==
  /\ work = "erase"
  /\ i < Len(DeleteMessages)
  /\ QueueMessages' = EraseAt(QueueMessages, DeleteMessages[i + 1])
  /\ i' = i + 1
  /\ work' \in IF DeleteMessages[i + 1] < Len(QueueMessages)
               THEN {"erase"} ELSE {"erase", "dead"}
  /\ UNCHANGED <<MsgCount, DeleteMessages, storeVars, nread, processed>>

(* processMessages returns, and is called again. *)
EndPass ==
  /\ work = "erase"
  /\ i = Len(DeleteMessages)
  /\ work' = "drain"
  /\ i' = 0
  /\ MsgCount' = 0
  /\ DeleteMessages' = <<>>
  /\ UNCHANGED <<QueueMessages, storeVars, nread, processed>>

Pass == StartPass \/ DispatchMessage \/ EndDispatch \/ EraseTurn \/ EndPass

Next == Pass \/ \E r \in Requests : Arrive(r)

(* The worker's loop does not stop between two messages; clients need not  *)
(* send anything, and their sockets need not take a reply.                 *)
Spec == Init /\ [][Next]_vars /\ WF_vars(Pass)

-----------------------------------------------------------------------------
(* Types, with the limit of a pass and the indices it may use. *)
Entry == [id : Nat, req : Requests]
Item == [id : Nat, time : Nat]

TypeOK ==
  /\ QueueMessages \in Seq(Entry)
  /\ work \in {"drain", "dispatch", "erase", "dead"}
  /\ MsgCount \in 0 .. PER_LOOP
  /\ i \in 0 .. MsgCount
  /\ DeleteMessages \in Seq(0 .. PER_LOOP - 1)
  /\ DOMAIN SessionData \subseteq {r.session : r \in Requests}
  /\ \A s \in DOMAIN SessionData : SessionData[s] \in Seq(Item)
  /\ nread \in Nat
  /\ clock \in Nat
  /\ delivered \subseteq Item
  /\ processed \subseteq Nat

Stored == UNION {Range(SessionData[s]) : s \in DOMAIN SessionData}

(* Every payload that was stored (and so acknowledged with                 *)
(* I__INSERT_MSG_OK) is from then on in exactly one place: in one session, *)
(* once, or among the messages a successful reply has carried.  No failing *)
(* reply loses one, no reply repeats one.                                  *)
StoredOrDelivered ==
  /\ {m.time : m \in Stored \cup delivered} = 1 .. clock
  /\ \A m \in delivered, n \in Stored : m.time # n.time
  /\ \A s, t \in DOMAIN SessionData :
       \A p \in DOMAIN SessionData[s], q \in DOMAIN SessionData[t] :
         SessionData[s][p].time = SessionData[t][q].time => s = t /\ p = q

(* A session's messages are kept, and so listed in a reply, from the       *)
(* newest to the oldest.                                                   *)
NewestFirst ==
  \A s \in DOMAIN SessionData :
    \A p, q \in DOMAIN SessionData[s] :
      p < q => SessionData[s][p].time > SessionData[s][q].time

(* The container never grows past its limit, although the limit is tested  *)
(* with an equality and before it is known whether the session is new.     *)
SessionsBounded == Cardinality(DOMAIN SessionData) <= CLIENTS_MAX

(* Sessions are never removed, so a full container stays full, and from    *)
(* then on no message is stored for anybody, known sessions included.      *)
FullForEver == [][Full => Full' /\ clock' = clock]_vars

(* A session whose reply has outgrown a packet can never be fetched again: *)
(* no SET is refused because of it, no GET takes less than everything, and *)
(* each GET is given up without a reply.  What is stored for it stays.     *)
TooLargeForEver ==
  [][\A s \in DOMAIN SessionData :
       TooLarge(s) => /\ TooLarge(s)'
                      /\ Range(SessionData[s]) \subseteq Range(SessionData'[s])
                      /\ delivered' \cap Range(SessionData[s]) = {}]_vars

(* The worker's passes, with everything that is dispatched twice, erased   *)
(* in another's place or given up, are steps of a store that does nothing  *)
(* but put one payload or take all of a session.                           *)
Times(s) == [p \in DOMAIN StoredFor(s) |-> StoredFor(s)[p].time]
SessionIds == {r.session : r \in Requests}
Store == INSTANCE SessionStore WITH
  Sessions <- SessionIds, Limit <- CLIENTS_MAX, Carry <- PACKET_MAX,
  known <- DOMAIN SessionData, store <- [s \in SessionIds |-> Times(s)],
  stamp <- clock, taken <- {m.time : m \in delivered}
ImplementsStore == Store!Spec

(* SETs enter the store in the order in which they arrived: before a later *)
(* one is stored, each earlier one that is ever stored has been stored.    *)
StoredInArrivalOrder ==
  \A m, n \in Stored \cup delivered :
    m.id < n.id =>
      \E first \in Stored \cup delivered :
        first.id = m.id /\ first.time < n.time

(* Is the message with id n in the vector? *)
Waiting(n) == \E p \in DOMAIN QueueMessages : QueueMessages[p].id = n

(* Is it a SET that the next pass dispatches? *)
InWindow(n) ==
  \E p \in DOMAIN QueueMessages :
    /\ p <= PER_LOOP
    /\ QueueMessages[p].id = n
    /\ QueueMessages[p].req.type = "SET"

(* A SET among the first PER_LOOP messages leaves the vector unless the    *)
(* process dies, although the erase loop may take another message in its   *)
(* place: every pass takes the first message it is done with, so the ones  *)
(* behind it come forward.                                                 *)
SetLeavesWindow ==
  \A n \in 1 .. MaxReads : InWindow(n) ~> ~Waiting(n) \/ work = "dead"

(* "delete processed messages": a message that dispatchMessage was done    *)
(* with is not dispatched again.                                           *)
ProcessedOnce ==
  [][Dispatching /\ i' = i + 1 => Current.id \notin processed]_vars

(* "if session does not exist, retry until session exists": a GET that     *)
(* waits with a SET for its session somewhere behind it is served by that  *)
(* SET in the end.                                                         *)
GetMeetsSet ==
  \A n, m \in 1 .. MaxReads :
    (\E p, q \in DOMAIN QueueMessages :
       /\ p < q
       /\ QueueMessages[p].id = n /\ QueueMessages[p].req.type = "GET"
       /\ QueueMessages[q].id = m /\ QueueMessages[q].req.type = "SET"
       /\ QueueMessages[p].req.session = QueueMessages[q].req.session)
    ~> ~Waiting(n) \/ ~Waiting(m) \/ work = "dead"
=============================================================================
