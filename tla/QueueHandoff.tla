---------------------------- MODULE QueueHandoff ----------------------------
(***************************************************************************)
(* The hand-over of messages from the network thread to the worker thread: *)
(* ClientHandler::transferMessages on one side, the first half of          *)
(* MessageHandler::processMessages on the other, and between them a        *)
(* std::queue guarded by one atomic integer, QueueLock.                    *)
(*                                                                         *)
(* Every access of a variable that both threads can reach is a step of its *)
(* own.  A message is the number of the read() call that delivered it; the *)
(* fields of MessageTransfer_t play no part in the hand-over.              *)
(*                                                                         *)
(* What surrounds the hand-over is abstracted to what it does to the       *)
(* vectors: reading a client adds a message (ReadMessage), dispatching     *)
(* removes some of the worker's (Dispatch).                                *)
(***************************************************************************)
EXTENDS Integers, Sequences, SequencesExt

CONSTANTS MaxReads,  (* bound on the messages read in a behaviour            *)
          BatchMax   (* RECEIVER_PROCESS_PER_LOOP_COUNT                      *)

ASSUME HandoffAssumption == MaxReads \in Nat /\ BatchMax \in Nat

LOCK_STATE_WROTE_QUEUE == 1
LOCK_STATE_PROCESSED_QUEUE == 2

VARIABLES
  QueueLock,         (* the atomic flag both threads spin on                 *)
  Queue,             (* the shared std::queue                                *)
  (* network thread *)
  net,               (* where the network thread is                          *)
  nread,             (* messages read so far                                 *)
  Messages,          (* ClientHandler::Messages, newest message first        *)
  TransferMessages,  (* local copy of it in transferMessages                 *)
  (* worker thread *)
  work,              (* where the worker is                                  *)
  QueueSize,         (* local: messages this drain will pop                  *)
  popped,            (* local: loop index i of the drain                     *)
  QueueMessages      (* MessageHandler::QueueMessages, oldest message first  *)

netVars == <<net, nread, Messages, TransferMessages>>
workVars == <<work, QueueSize, popped, QueueMessages>>
vars == <<QueueLock, Queue, netVars, workVars>>

Init ==
  /\ QueueLock = LOCK_STATE_PROCESSED_QUEUE
  /\ Queue = <<>>
  /\ net = "read"
  /\ nread = 0
  /\ Messages = <<>>
  /\ TransferMessages = <<>>
  /\ work = "test"
  /\ QueueSize = 0
  /\ popped = 0
  /\ QueueMessages = <<>>

-----------------------------------------------------------------------------
(* The network thread.                                                     *)

(* Fault: the message is added behind the older ones. *)
ReadMessage_AtBack ==
  /\ net = "read"
  /\ nread < MaxReads
  /\ Len(Messages) < BatchMax
  /\ nread' = nread + 1
  /\ Messages' = Append(Messages, nread')
  /\ UNCHANGED <<QueueLock, Queue, net, TransferMessages, workVars>>

(* One turn of the loop in readClientData that received something: the     *)
(* message goes to the front of the vector.                                *)
ReadMessage ==
  /\ net = "read"
  /\ nread < MaxReads
  /\ Len(Messages) < BatchMax
  /\ nread' = nread + 1
  /\ Messages' = <<nread'>> \o Messages
  /\ UNCHANGED <<QueueLock, Queue, net, TransferMessages, workVars>>

(* transferMessages copies the vector and clears it.  The vector is empty  *)
(* when every client of the batch had closed its connection.               *)
CopyMessages ==
  /\ net = "read"
  /\ net' = "test"
  /\ TransferMessages' = Messages
  /\ Messages' = <<>>
  /\ UNCHANGED <<QueueLock, Queue, nread, workVars>>

(* Fault: the state of the lock is not looked at. *)
TestReleased_NoTest ==
  /\ net = "test"
  /\ net' = "push"
  /\ UNCHANGED <<QueueLock, Queue, nread, Messages, TransferMessages, workVars>>

(* The lock decides whether the copy is queued or skipped. *)
TestReleased ==
  /\ net = "test"
  /\ net' = IF QueueLock = LOCK_STATE_PROCESSED_QUEUE THEN "push" ELSE "log"
  /\ UNCHANGED <<QueueLock, Queue, nread, Messages, TransferMessages, workVars>>

(* One message, the oldest, moves from the copy to the queue. *)
PushOldest ==
  /\ net = "push"
  /\ TransferMessages # <<>>
  /\ Queue' = Append(Queue, Last(TransferMessages))
  /\ TransferMessages' = Front(TransferMessages)
  /\ UNCHANGED <<QueueLock, net, nread, Messages, workVars>>

(* Fault: the queue is filled and nobody is told. *)
HandOver_NoSignal ==
  /\ net = "push"
  /\ TransferMessages = <<>>
  /\ net' = "log"
  /\ UNCHANGED <<QueueLock, Queue, nread, Messages, TransferMessages, workVars>>

(* All are queued: the lock passes to the worker. *)
HandOver ==
  /\ net = "push"
  /\ TransferMessages = <<>>
  /\ QueueLock' = LOCK_STATE_WROTE_QUEUE
  /\ net' = "log"
  /\ UNCHANGED <<Queue, nread, Messages, TransferMessages, workVars>>

(* The closing debug line reads Queue->size(), whoever owns the queue; the *)
(* local copy then goes out of scope with whatever is left in it.          *)
LogAndReturn ==
  /\ net = "log"
  /\ net' = "read"
  /\ TransferMessages' = <<>>
  /\ UNCHANGED <<QueueLock, Queue, nread, Messages, workVars>>

Network == ReadMessage \/ CopyMessages \/ TestReleased \/ PushOldest
             \/ HandOver \/ LogAndReturn

-----------------------------------------------------------------------------
(* The worker thread.                                                      *)

(* processMessages looks at the lock and drains only a written queue. *)
TestWrote ==
  /\ work = "test"
  /\ work' = IF QueueLock = LOCK_STATE_WROTE_QUEUE THEN "size" ELSE "dispatch"
  /\ UNCHANGED <<QueueLock, Queue, netVars, QueueSize, popped, QueueMessages>>

(* Fault: the number of turns of the drain loop is one too many. *)
ReadSize_OneTooMany ==
  /\ work = "size"
  /\ work' = "pop"
  /\ QueueSize' = Len(Queue) + 1
  /\ UNCHANGED <<QueueLock, Queue, netVars, popped, QueueMessages>>

(* The size is read once, before the loop. *)
ReadSize ==
  /\ work = "size"
  /\ work' = "pop"
  /\ QueueSize' = Len(Queue)
  /\ UNCHANGED <<QueueLock, Queue, netVars, popped, QueueMessages>>

(* Fault: the message is put in front of the worker's older ones. *)
PopOne_AtFront ==
  /\ work = "pop"
  /\ popped < QueueSize
  /\ QueueMessages' = <<Head(Queue)>> \o QueueMessages
  /\ Queue' = Tail(Queue)
  /\ popped' = popped + 1
  /\ UNCHANGED <<QueueLock, netVars, work, QueueSize>>

(* One message moves from the queue to the worker's vector. *)
PopOne ==
  /\ work = "pop"
  /\ popped < QueueSize
  /\ QueueMessages' = Append(QueueMessages, Head(Queue))
  /\ Queue' = Tail(Queue)
  /\ popped' = popped + 1
  /\ UNCHANGED <<QueueLock, netVars, work, QueueSize>>

(* Fault: the loop variable of the drain is not reset for the next drain. *)
GiveBack_NoReset ==
  /\ work = "pop"
  /\ popped = QueueSize
  /\ QueueLock' = LOCK_STATE_PROCESSED_QUEUE
  /\ work' = "dispatch"
  /\ UNCHANGED <<Queue, netVars, QueueSize, popped, QueueMessages>>

(* Fault: the lock is not given back. *)
GiveBack_NoRelease ==
  /\ work = "pop"
  /\ popped = QueueSize
  /\ work' = "dispatch"
  /\ popped' = 0
  /\ QueueSize' = 0
  /\ UNCHANGED <<QueueLock, Queue, netVars, QueueMessages>>

(* The drain is over: the lock goes back to the network thread.  The loop  *)
(* index and the size are locals of the call and are reset with it.        *)
GiveBack ==
  /\ work = "pop"
  /\ popped = QueueSize
  /\ QueueLock' = LOCK_STATE_PROCESSED_QUEUE
  /\ work' = "dispatch"
  /\ popped' = 0
  /\ QueueSize' = 0
  /\ UNCHANGED <<Queue, netVars, QueueMessages>>

(* The rest of processMessages: some of the worker's messages leave its    *)
(* vector, the others keep their order.  Nothing shared is touched.        *)
Dispatch ==
  /\ work = "dispatch"
  /\ work' = "test"
  /\ \E n \in 0 .. Len(QueueMessages) :
       \E at \in [1 .. n -> 1 .. Len(QueueMessages)] :
         /\ \A i, j \in 1 .. n : i < j => at[i] < at[j]
         /\ QueueMessages' = [i \in 1 .. n |-> QueueMessages[at[i]]]
  /\ UNCHANGED <<QueueLock, Queue, netVars, QueueSize, popped>>

Worker == TestWrote \/ ReadSize \/ PopOne \/ GiveBack \/ Dispatch

-----------------------------------------------------------------------------
Next == Network \/ Worker

(* Both loops run until the server is told to stop, each on its own        *)
(* thread; reading a client is up to the clients.                          *)
Fairness ==
  /\ WF_vars(TestReleased \/ PushOldest \/ HandOver \/ LogAndReturn)
  /\ WF_vars(Worker)

Spec == Init /\ [][Next]_vars /\ Fairness

-----------------------------------------------------------------------------
(* Types, with the range of the drain loop's index. *)
TypeOK ==
  /\ QueueLock \in {LOCK_STATE_WROTE_QUEUE, LOCK_STATE_PROCESSED_QUEUE}
  /\ Queue \in Seq(Nat)
  /\ net \in {"read", "test", "push", "log"}
  /\ nread \in Nat
  /\ Messages \in Seq(Nat)
  /\ TransferMessages \in Seq(Nat)
  /\ work \in {"test", "size", "pop", "dispatch"}
  /\ QueueSize \in Nat
  /\ popped \in 0 .. QueueSize
  /\ QueueMessages \in Seq(Nat)

(* While the network thread pushes, the worker is neither sizing nor       *)
(* popping the queue: the one flag of QueueLock keeps push() and pop() of  *)
(* the unsynchronised std::queue apart.                                    *)
QueueExclusive == ~(net = "push" /\ work \in {"size", "pop"})

(* The drain loop never calls front() or pop() on an empty queue, although *)
(* it never asks whether the queue is empty.                               *)
FrontExists == work = "pop" /\ popped < QueueSize => Queue # <<>>

(* The queue, which nothing limits, never holds more than the messages of  *)
(* one call of processClients: a batch is refused until the one before it  *)
(* has left the queue.                                                     *)
QueueBounded == Len(Queue) <= BatchMax

(* s is in the order of reading. *)
OldestFirst(s) == \A i, j \in 1 .. Len(s) : i < j => s[i] < s[j]

(* s is in the reverse of the order of reading. *)
NewestFirst(s) == \A i, j \in 1 .. Len(s) : i < j => s[i] > s[j]

(* All of s was read before any of t. *)
Before(s, t) == \A i \in 1 .. Len(s), j \in 1 .. Len(t) : s[i] < t[j]

(* Messages keep the order in which they were read, and none is there      *)
(* twice, all the way through the two vectors that are filled at the       *)
(* front, the queue, and the vector that is filled at the back.            *)
InOrder ==
  /\ NewestFirst(Messages)
  /\ NewestFirst(TransferMessages)
  /\ OldestFirst(Queue)
  /\ OldestFirst(QueueMessages)
  /\ Before(QueueMessages, Queue)
  /\ Before(QueueMessages, TransferMessages)
  /\ Before(QueueMessages, Messages)
  /\ Before(Queue, TransferMessages)
  /\ Before(Queue, Messages)

(* A message that is in the queue reaches the worker. *)
QueuedIsTaken ==
  \A n \in 1 .. MaxReads : n \in Range(Queue) ~> n \in Range(QueueMessages)

(* The network thread gets the queue back again and again: no batch makes  *)
(* it skip the hand-over for ever.                                         *)
LockComesBack == []<>(QueueLock = LOCK_STATE_PROCESSED_QUEUE)

(* A message leaves the network thread's copy only into the queue: what    *)
(* the comment "transfer messages to queue" above the call says.           *)
ReadIsQueued ==
  [][\A n \in Range(TransferMessages) :
       n \notin Range(TransferMessages') => n \in Range(Queue')]_vars

-----------------------------------------------------------------------------
(* The mailbox the protocol implements.  The network thread's messages are *)
(* those it holds in the reverse order, preceded by those it has pushed    *)
(* without handing over; a batch is in the mailbox from the hand-over to   *)
(* the release, so that what a drain has popped so far still counts as     *)
(* mailbox content.                                                        *)
Kept == Len(QueueMessages) - popped

MailOut ==
  CASE net = "read" -> Reverse(Messages)
    [] net = "test" -> Reverse(TransferMessages)
    [] net = "push" -> Queue \o Reverse(TransferMessages)
    [] OTHER -> <<>>

MailFull == QueueLock = LOCK_STATE_WROTE_QUEUE

MailBox ==
  IF MailFull
  THEN SubSeq(QueueMessages, Kept + 1, Len(QueueMessages)) \o Queue
  ELSE <<>>

MailInbox == SubSeq(QueueMessages, 1, Kept)

MB == INSTANCE Mailbox
        WITH out <- MailOut, full <- MailFull, box <- MailBox, inbox <- MailInbox

(* The lock protocol behaves as the one-slot mailbox: a batch handed over  *)
(* is taken whole, unaltered and exactly once, and a batch is lost only    *)
(* while the previous one has not been taken.                              *)
ImplementsMailbox == MB!Spec
=============================================================================
