----------------------------- MODULE PerfClient -----------------------------
(***************************************************************************)
(* The performance client: the main thread reads a configuration file,     *)
(* generates the messages of all threads, spawns them, and lets them       *)
(* start; every thread sends its messages one by one on a connection of    *)
(* its own and reads each reply.                                           *)
(*                                                                         *)
(* A Thread object is owned twice, by the vector ThreadObjects and by the  *)
(* shared_ptr its own thread is given, so the end of process() destroys it *)
(* while its thread is joinable: std::terminate ends the process.  For     *)
(* this reason no join() ever returns.  Threads of another connection type *)
(* than "persistent" never connect.                                        *)
(*                                                                         *)
(* Lengths are counted in parts of a message, so that a segment holds few. *)
(***************************************************************************)
EXTENDS FiniteSets, ConnectionLocal

CONSTANTS
  Files,         (* configuration files, as sequences of lines               *)
  FirstID,       (* the vector initID is given                               *)
  DigitBase,     (* values of an element of it, 256 in the code              *)
  SegmentSize,   (* parts in a segment, MSGBUFFER_SIZE                       *)
  HeaderLength,  (* parts of the message type and the session id             *)
  LengthRange,   (* values of the uint16_t MessageLength                     *)
  MaxMessages    (* bound on the messages of a thread                        *)

Threads == Objects
(* Values that are no numbers: the word "persistent", and any other.       *)
Persistent == -2
NotANumber == -1

(* What a key stands for in ConfigData, into which parse() inserts a line  *)
(* only if its key is new; "notfound" is a word like another.              *)
ValueIn(lines, key) ==
  LET found == {l \in DOMAIN lines : lines[l].key = key}
  IN  IF found = {} THEN NotANumber
      ELSE lines[CHOOSE l \in found : \A m \in found : l <= m].value

(* The stoi of it, which throws when that is no number. *)
NumberIn(lines, key) ==
  IF ValueIn(lines, key) \in Nat THEN ValueIn(lines, key) ELSE NotANumber

(* The bounds are large enough for every file. *)
ASSUME PerfAssumption ==
  /\ Files \subseteq Seq([key : STRING, value : Nat \cup {NotANumber, Persistent}])
  /\ {DigitBase, SegmentSize, LengthRange, MaxMessages} \subseteq Nat \ {0}
  /\ HeaderLength \in Nat
  /\ FirstID \in Seq(0 .. DigitBase - 1)
  /\ IsFiniteSet(Threads) /\ Threads = 1 .. Cardinality(Threads)
  /\ Requests = Threads \X (1 .. MaxMessages)
  /\ \A lines \in Files :
       /\ 1 .. NumberIn(lines, "ThreadCount") \subseteq Threads
       /\ NumberIn(lines, "SessionAmount") * NumberIn(lines, "MessageAmount") <= MaxMessages

(* The counter has an id for every session; there are 256^32 of them, and  *)
(* the numbers of threads and sessions are ints.                           *)
ASSUME CounterAssumption ==
  \A lines \in Files :
    NumberIn(lines, "ThreadCount") * NumberIn(lines, "SessionAmount")
      <= Cardinality([DOMAIN FirstID -> 0 .. DigitBase - 1])

VARIABLES
  file,              (* the configuration file                               *)
  main,              (* "generate", "spawn" or "join"                        *)
  process,           (* "running", "ended", "terminated" (std::terminate) or *)
                     (* "killed" (by a signal)                               *)
  ThreadsRun,
  UpcountSessionID,
  made,              (* number of Thread objects                             *)
  MessageItems,      (* thread -> address and length of its messages         *)
  MemMessages,       (* thread -> address -> the message copied there last,  *)
                     (* as the request that it is                            *)
  SessionIDs,        (* history: request -> its session id, or <<>>          *)
  overrun,           (* history: was anything copied past the end of a pool? *)
  state,             (* thread -> "unborn", "connect", "wait", "send",       *)
                     (* "read" or "done"                                     *)
  i                  (* thread -> index of its next message                  *)

generated == <<UpcountSessionID, made, MessageItems, MemMessages, SessionIDs, overrun>>
perfVars == <<file, main, process, ThreadsRun, generated, state, i>>
vars == <<perfVars, connVars>>

-----------------------------------------------------------------------------
(* The configuration. *)

GetParamValue(key) == ValueIn(file, key)

ConnectionType == GetParamValue("ConnectionType")
ThreadCount == NumberIn(file, "ThreadCount")
SessionAmount == NumberIn(file, "SessionAmount")
MessageAmount == NumberIn(file, "MessageAmount")
MessageLengthMin == NumberIn(file, "MessageLengthMin")
MessageLengthMax == NumberIn(file, "MessageLengthMax")

MessageCount == SessionAmount * MessageAmount

(* Fault: the sessions share one spare segment. *)
SegmentAmount_OneSpare == SessionAmount * MessageAmount + 1

(* Fault: nobody counts the segment that getNextMemPointer leaves out. *)
SegmentAmount_NoSpare == SessionAmount * MessageAmount

(* Segments of the pool of one thread. *)
SegmentAmount == SessionAmount * (MessageAmount + 1)

Mem == INSTANCE MemoryManager WITH SegmentCount <- SegmentAmount

Init ==
  /\ file \in Files
  /\ main = "generate" /\ process = "running" /\ ThreadsRun = FALSE
  /\ UpcountSessionID = FirstID
  /\ made = 0
  /\ MessageItems = [t \in Threads |-> <<>>]
  /\ MemMessages = [t \in Threads |-> <<>>]
  /\ SessionIDs = [r \in Requests |-> <<>>]
  /\ overrun = FALSE
  /\ state = [t \in Threads |-> "unborn"]
  /\ i = [t \in Threads |-> 1]
  /\ ConnStatus = [t \in Threads |-> TRUE]
  /\ SendStatus = [t \in Threads |-> FALSE]
  /\ RecvStatus = [t \in Threads |-> FALSE]
  /\ SocketFD = [t \in Threads |-> 0]
  /\ RecvBuffer = [t \in Threads |-> NoRequest]
  /\ sock = [f \in FDs |-> "free"]
  /\ outbox = [f \in FDs |-> <<>>]
  /\ inbox = [f \in FDs |-> <<>>]
  /\ written = [r \in Requests |-> 0]
  /\ up \in BOOLEAN /\ faults = 0 /\ stray = FALSE

-----------------------------------------------------------------------------
(* The main thread. *)

(* The loop of generatePayload is at its head. *)
ThreadComplete ==
  /\ main = "generate"
  /\ made # 0 => Len(MessageItems[made]) = MessageCount

(* An exception of stoi is not caught: main catches a const char* only. *)
BadConfig ==
  /\ ThreadComplete
  /\ \/ ThreadCount = NotANumber
     \/ made < ThreadCount /\ NotANumber \in {SessionAmount, MessageAmount,
                                              MessageLengthMin, MessageLengthMax}
  /\ process' = "terminated"
  /\ UNCHANGED <<file, main, ThreadsRun, generated, state, i, connVars>>

(* Fault: one object too many is made. *)
NewThread_OneMore ==
  /\ ThreadComplete
  /\ made <= ThreadCount
  /\ NotANumber \notin {SessionAmount, MessageAmount, MessageLengthMin, MessageLengthMax}
  /\ made' = made + 1
  /\ MemMessages' = [t \in Threads |-> IF t # made' THEN MemMessages[t]
                       ELSE [a \in 0 .. SegmentAmount * SegmentSize - 1 |-> NoRequest]]
  /\ UNCHANGED <<file, main, process, ThreadsRun, UpcountSessionID, MessageItems,
                 SessionIDs, overrun, state, i, connVars>>

(* A new Thread object and its pool. *)
NewThread ==
  /\ ThreadComplete
  /\ made < ThreadCount
  /\ NotANumber \notin {SessionAmount, MessageAmount, MessageLengthMin, MessageLengthMax}
  /\ made' = made + 1
  /\ MemMessages' = [MemMessages EXCEPT ![made'] =
                       [a \in 0 .. SegmentAmount * SegmentSize - 1 |-> NoRequest]]
  /\ UNCHANGED <<file, main, process, ThreadsRun, UpcountSessionID, MessageItems,
                 SessionIDs, overrun, state, i, connVars>>

(* Fault: a full element is set to 0 and nothing is carried. *)
IncrementID_NoCarry(id) ==
  [id EXCEPT ![Len(id)] = (@ + 1) % DigitBase]

(* incrementID: an element is incremented when all behind it are full. *)
IncrementID(id) ==
  [d \in DOMAIN id |-> IF \A e \in d + 1 .. Len(id) : id[e] = DigitBase - 1
                       THEN (id[d] + 1) % DigitBase
                       ELSE id[d]]

(* The lengths a payload may get: generateRandIntRange(Min, Max) adds a    *)
(* remainder of Max to Min.                                                *)
PayloadLengths ==
  IF MessageLengthMin = MessageLengthMax THEN {MessageLengthMin}
  ELSE MessageLengthMin .. MessageLengthMin + MessageLengthMax - 1

(* generateMessages of the last Thread object, one message: a new session  *)
(* id when the messages of the last session are complete, and the next     *)
(* segment.  A message longer than that goes on in the segments behind it, *)
(* and behind the last of them it destroys what malloc put there: the pool *)
(* of another thread (hit), what nobody looks at, or what ends the process.*)
Generate(payload) ==
  LET t == made
      n == Len(MessageItems[t]) + 1
      last == IF n = 1 THEN 0 ELSE MessageItems[t][n - 1].offset
      offset == Mem!NextOffset(last)
      address == Mem!Pointer(offset) * SegmentSize
      length == (HeaderLength + payload) % LengthRange
      id == IF n % MessageAmount = 1 % MessageAmount
            THEN IncrementID(UpcountSessionID) ELSE UpcountSessionID
      copied == address .. address + length - 1
      past == address + length - SegmentAmount * SegmentSize
  IN  /\ main = "generate" /\ made > 0
      /\ n <= MessageCount
      /\ UpcountSessionID' = id
      /\ SessionIDs' = [SessionIDs EXCEPT ![<<t, n>>] = id]
      /\ MessageItems' = [MessageItems EXCEPT ![t] =
                            Append(@, [offset |-> offset, address |-> address, length |-> length])]
      /\ \E hit \in {s \in 1 .. made : s = t \/ past > 0} :
           MemMessages' = [s \in Threads |-> [a \in DOMAIN MemMessages[s] |->
                             IF \/ s = t /\ a \in copied
                                \/ s = hit /\ s # t /\ a < past
                             THEN <<t, n>> ELSE MemMessages[s][a]]]
      /\ overrun' = (overrun \/ past > 0)
      /\ process' \in IF past > 0 THEN {"running", "killed"} ELSE {"running"}
      /\ UNCHANGED <<file, main, ThreadsRun, made, state, i, connVars>>

(* rand() % 0 is the end. *)
NoRange ==
  /\ main = "generate" /\ made > 0
  /\ Len(MessageItems[made]) < MessageCount
  /\ MessageLengthMax = 0 /\ MessageLengthMin # 0
  /\ process' = "killed"
  /\ UNCHANGED <<file, main, ThreadsRun, generated, state, i, connVars>>

EndGenerate ==
  /\ ThreadComplete
  /\ made = ThreadCount
  /\ main' = "spawn"
  /\ UNCHANGED <<file, process, ThreadsRun, generated, state, i, connVars>>

(* spawnThreads: thread t. *)
Spawn(t) ==
  /\ main = "spawn"
  /\ t <= ThreadCount
  /\ state[t] = "unborn"
  /\ \A s \in 1 .. t - 1 : state[s] # "unborn"
  /\ state' = [state EXCEPT ![t] = "connect"]
  /\ UNCHANGED <<file, main, process, ThreadsRun, generated, i, connVars>>

(* Fault: main goes on to wait for its threads. *)
RunThreads_NotStored ==
  /\ main = "spawn"
  /\ \A t \in 1 .. ThreadCount : state[t] # "unborn"
  /\ main' = "join"
  /\ UNCHANGED <<file, process, ThreadsRun, generated, state, i, connVars>>

(* FileExists is always true, so nothing but time passes before the start. *)
RunThreads ==
  /\ main = "spawn"
  /\ \A t \in 1 .. ThreadCount : state[t] # "unborn"
  /\ ThreadsRun' = TRUE
  /\ main' = "join"
  /\ UNCHANGED <<file, process, generated, state, i, connVars>>

(* waitThreads has nobody to wait for. *)
Return ==
  /\ main = "join"
  /\ ThreadCount = 0
  /\ process' = "ended"
  /\ UNCHANGED <<file, main, ThreadsRun, generated, state, i, connVars>>

Main ==
  \/ BadConfig \/ NewThread \/ NoRange \/ EndGenerate \/ RunThreads \/ Return
  \/ \E payload \in PayloadLengths : Generate(payload)
  \/ \E t \in Threads : Spawn(t)

-----------------------------------------------------------------------------
(* Thread::process of thread t. *)

Persist(t) ==
  /\ state[t] = "connect"
  /\ ConnectionType = Persistent
  /\ Construct(t)
  /\ state' = [state EXCEPT ![t] = "wait"]
  /\ UNCHANGED <<file, main, process, ThreadsRun, generated, i>>

(* Any other type: the object stays without a connection, and its SocketFD *)
(* is whatever was in memory.  No thread has a socket, so that it names    *)
(* none: another file of the process, the terminal, or nothing.            *)
StayUnconnected(t) ==
  /\ state[t] = "connect"
  /\ ConnectionType # Persistent
  /\ \E b \in BOOLEAN : SendStatus' = [SendStatus EXCEPT ![t] = b]
  /\ \E b \in BOOLEAN : RecvStatus' = [RecvStatus EXCEPT ![t] = b]
  /\ state' = [state EXCEPT ![t] = "wait"]
  /\ UNCHANGED <<ConnStatus, SocketFD, RecvBuffer, kernelVars, serverVars, written, stray,
                 file, main, process, ThreadsRun, generated, i>>

Begin(t) ==
  /\ state[t] = "wait"
  /\ ThreadsRun
  /\ state' = [state EXCEPT ![t] = "send"]
  /\ UNCHANGED <<file, main, process, ThreadsRun, generated, i, connVars>>

(* A message whose length is a multiple of LengthRange has no length left. *)
HasNext(t) == i[t] <= MessageCount
NextIsEmpty(t) == MessageItems[t][i[t]].length = 0

(* Does write() succeed?  On what is no socket, it may. *)
Outcomes(t) == IF ConnectionType = Persistent THEN {Is(t, "up")} ELSE BOOLEAN

(* The message whose first part is at the address is sent. *)
Send(t) ==
  /\ state[t] = "send"
  /\ HasNext(t) /\ ~NextIsEmpty(t)
  /\ Write(t, MemMessages[t][MessageItems[t][i[t]].address])
  /\ \E ok \in Outcomes(t) : SetSendStatus(t, ok)
  /\ state' = [state EXCEPT ![t] = "read"]
  /\ UNCHANGED <<RecvStatus, file, main, process, ThreadsRun, generated, i>>

(* A write() of nothing sends an empty packet, and its result 0 is taken   *)
(* for the end of the connection.                                          *)
SendNothing(t) ==
  /\ state[t] = "send"
  /\ HasNext(t) /\ NextIsEmpty(t)
  /\ Reported(SocketFD[t])
  /\ \E ok \in Outcomes(t) :
       /\ ConnStatus' = [ConnStatus EXCEPT ![t] = @ /\ ~ok]
       /\ SendStatus' = [SendStatus EXCEPT ![t] = @ /\ ok]
  /\ state' = [state EXCEPT ![t] = "read"]
  /\ UNCHANGED <<RecvStatus, SocketFD, RecvBuffer, outbox, inbox, serverVars, written,
                 stray, file, main, process, ThreadsRun, generated, i>>

(* Whatever the read() gives, the next message is sent. *)
Receive(t) ==
  /\ state[t] = "read"
  /\ ConnectionType = Persistent
  /\ \E result \in {"reply", "end", "error"} :
       Read(t, SocketFD[t], result) /\ SetRecvStatus(t, result)
  /\ state' = [state EXCEPT ![t] = "send"]
  /\ i' = [i EXCEPT ![t] = @ + 1]
  /\ UNCHANGED <<SendStatus, file, main, process, ThreadsRun, generated>>

(* What is read from elsewhere is no reply. *)
ReceiveElsewhere(t) ==
  /\ state[t] = "read"
  /\ ConnectionType # Persistent
  /\ \E result \in {"reply", "end", "error"} : SetRecvStatus(t, result)
  /\ state' = [state EXCEPT ![t] = "send"]
  /\ i' = [i EXCEPT ![t] = @ + 1]
  /\ UNCHANGED <<SendStatus, SocketFD, RecvBuffer, kernelVars, serverVars, written, stray,
                 file, main, process, ThreadsRun, generated>>

(* Thread::~Thread, called when the shared_ptr of process() is destroyed. *)
Finish(t) ==
  /\ state[t] = "send"
  /\ ~HasNext(t)
  /\ state' = [state EXCEPT ![t] = "done"]
  /\ process' = "terminated"
  /\ UNCHANGED <<file, main, ThreadsRun, generated, i, connVars>>

ThreadStep(t) ==
  \/ Persist(t) \/ StayUnconnected(t) \/ Begin(t) \/ Send(t) \/ SendNothing(t)
  \/ Receive(t) \/ ReceiveElsewhere(t) \/ Finish(t)

(* The server takes an empty packet for the end of a connection as well. *)
CloseAtNothing(t) ==
  /\ state[t] = "read" /\ NextIsEmpty(t) /\ Is(t, "up")
  /\ Becomes(SocketFD[t], "broken")
  /\ UNCHANGED <<statusVars, SocketFD, RecvBuffer, outbox, inbox, serverVars, written,
                 stray, perfVars>>

Server ==
  \/ /\ Stop \/ Start \/ \E f \in FDs : Answer(f, FALSE) \/ Cut(f)
     /\ UNCHANGED perfVars
  \/ \E t \in Threads : CloseAtNothing(t)

Next ==
  /\ process = "running"
  /\ Main \/ Server \/ \E t \in Threads : ThreadStep(t)

(* A read() from elsewhere, say from a terminal, may never return. *)
Elsewhere(t) == state[t] = "read" /\ ConnectionType # Persistent

(* Each thread keeps running.  Of the server nothing is expected: it may   *)
(* leave a request unanswered for ever, since it drops batches.            *)
Spec ==
  /\ Init /\ [][Next]_vars
  /\ WF_vars(process = "running" /\ Main)
  /\ \A t \in Threads : WF_vars(process = "running" /\ ~Elsewhere(t) /\ ThreadStep(t))

-----------------------------------------------------------------------------
TypeOK ==
  /\ ConnTypeOK
  /\ file \in Files
  /\ main \in {"generate", "spawn", "join"}
  /\ process \in {"running", "ended", "terminated", "killed"}
  /\ ThreadsRun \in BOOLEAN /\ overrun \in BOOLEAN
  /\ UpcountSessionID \in [1 .. Len(FirstID) -> 0 .. DigitBase - 1]
  /\ made \in Threads \cup {0}
  /\ MessageItems \in [Threads -> Seq([offset : Nat, address : Nat, length : 0 .. LengthRange - 1])]
  /\ \A t \in Threads : \A a \in DOMAIN MemMessages[t] :
       MemMessages[t][a] \in Requests \cup {NoRequest}
  /\ state \in [Threads -> {"unborn", "connect", "wait", "send", "read", "done"}]
  /\ i \in [Threads -> 1 .. MaxMessages + 1]

(* Messages may be longer than their segments and run into one another:    *)
(* still, what the server reads of a message, the first MSGBUFFER_SIZE     *)
(* bytes at most, is never another one's, as long as none left its pool.   *)
FirstSegmentIsOwn ==
  ~overrun => \A t \in Threads : \A n \in DOMAIN MessageItems[t] :
    LET item == MessageItems[t][n]
    IN  \A p \in 0 .. SegmentSize - 1 :
          p < item.length => MemMessages[t][item.address + p] = <<t, n>>

(* The spare segments take up what runs out of the last ones: only a       *)
(* message of more segments than a thread has sessions leaves the pool.    *)
InsidePool ==
  overrun => \E t \in Threads : \E n \in DOMAIN MessageItems[t] :
               MessageItems[t][n].length > SessionAmount * SegmentSize

(* Messages have the same session id exactly when they belong to the same  *)
(* session of the same thread, however the threads share the counter.      *)
SessionOf(r) == <<r[1], (r[2] - 1) \div MessageAmount>>
SessionsDiffer ==
  \A r, q \in {x \in Requests : SessionIDs[x] # <<>>} :
    SessionIDs[r] = SessionIDs[q] <=> SessionOf(r) = SessionOf(q)

(* A file that can be carried out: threads that connect, all numbers,      *)
(* lengths to choose from, and no message that leaves its pool.            *)
CanBeDone ==
  /\ ConnectionType = Persistent
  /\ NotANumber \notin {ThreadCount, SessionAmount, MessageAmount,
                        MessageLengthMin, MessageLengthMax}
  /\ \/ MessageCount = 0
     \/ /\ MessageLengthMax = 0 => MessageLengthMin = 0
        /\ \A payload \in PayloadLengths :
             (HeaderLength + payload) % LengthRange <= SessionAmount * SegmentSize

(* Thread t waits in read() for what has not come. *)
Unanswered(t) == state[t] = "read" /\ Is(t, "up") /\ inbox[SocketFD[t]] = <<>>

(* Whatever the server does, closes connections or stops, a run with such  *)
(* a file ends, with no threads, or comes to where a thread has been       *)
(* through all its messages, which is the end of it all (see above), or it *)
(* hangs only because the server owes every thread an answer.              *)
GetsThrough ==
  CanBeDone =>
    \/ <>(process = "ended" \/ \E t \in Threads : state[t] = "done")
    \/ <>[](main = "join" /\ ThreadCount # 0 /\ \A t \in 1 .. ThreadCount : Unanswered(t))
=============================================================================
