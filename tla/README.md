# Verification of MessageServer in TLA+

MessageServer is a small session store behind a Unix domain socket. A client
sends `SET<session id><payload>` to leave a message for a session and
`GET<session id>` to fetch everything that is stored for it; a GET for a session
without messages waits until there are some. This directory holds TLA+ models of
the server, of the script that starts and stops it, of its client library, of the
Apache module and of the performance client, the TLC configurations that check them on small instances, and proofs,
checked by the TLA+ proof system, of the safety properties that matter most.

The models were written from the source. Where a definition stands for code,
`PROJECT.json` ("map") names the file and the lines.

## 1. The system

### Components, their state and their operations

| component | source | state | operations |
|---|---|---|---|
| MsgServer | `MessageServer.cpp`, `main.cpp` | `RunServer`, the listening socket and its path, two threads | `Init` (unlink, bind, listen, handler), `dropPrivileges`, `ServerLoop` (poll, `acceptClient`, `processClients`), the worker's loop, `terminate` (SIGTERM) |
| ClientHandler (network thread) | `ClientHandler.cpp` | epoll instance, `Messages` (newest first), `Clients` (from which no entry is removed) | `addClient` with `Socket::makeNonblocking` (`Helper.hpp`), `processClients`, `readClientData`, `transferMessages` |
| Queue and lock | `Global.hpp`, both handlers | `std::queue` of transfers, atomic `QueueLock` | push on one side, size/front/pop on the other |
| MessageHandler (worker thread) | `MessageHandler.cpp` | `QueueMessages`, the session store | `processMessages` (drain, dispatch, erase), `dispatchMessage`, `sendMessages`, `resultCode` |
| Session, Message | `Session.cpp`, `Message.cpp` | session id -> messages, newest first | find, add, add message, clear |
| Vector | `Vector.hpp` | a `std::vector` | `erase` at a list of indices |
| MemoryManager | `MemoryManager.hpp` | `SegmentOffset`, a block of equal segments | `getNextMemPointer` |
| ConnectionLocal | `lib/` | `SocketFD`, `ConnStatus`, `SendStatus`, `RecvStatus` | connect, reconnect, send, send with retries, receive, close |
| Apache module | `apache/` | one connection for all SETs of a child process | one request: filter, send, receive, respond |
| Performance client | `evaluate/performance/` | threads, their messages and connections, a session counter | generate, spawn, start, send/receive, end |
| Configuration file | `evaluate/performance/ConfigFile.cpp` | key -> value, the first line of a key counts | parse, look up |
| Init script | `scripts/msgserver.init` | the process file, the socket's entry in the directory with its group and mode | start, stop, restart |
| Experiments | `evaluate/thread`, `aio`, `search` | none that the others use | - |

### How they interact

    Apache module ----+                        +--------------------- server -----------------------+
    performance ------+-- ConnectionLocal -----| network thread --QueueLock/Queue--> worker thread |
    client            |   (SOCK_SEQPACKET)     |   read(), close()                  write(), close()|
                                               |   MemoryManager segments: written here, read there |
                                               +----------------------------------------------------+

The two server threads share four things: the queue (guarded by `QueueLock`), the
memory segments the queued transfers point to (not guarded), the descriptor table of
the process (numbers travel in the transfers and are closed by both), and the flag
`RunServer` (a plain `bool` written by a signal handler).

Server processes and the init script share the path of the socket, which every server
unlinks before it binds, and the file of process numbers. The threads of an Apache child
share the connection of the SETs, with its flags and its buffer.

### What is hard, and what correctness means

* **Queue and lock.** One atomic integer has to keep two threads apart, keep the
  order of messages through two vectors that are filled at the front, and pass to
  and fro for ever. *Correct*: exclusion, no pop of an empty queue, order, a bound on
  the queue, progress.
* **Erase.** Indices that were noted before the first erasure are used after it; they
  may lie behind the end. *Correct*: what is removed is what was given (it is not);
  what is then true is stated exactly.
* **Worker.** Requests of many clients, limits tested with `==`, replies that fail,
  messages that are dispatched more than once because of the erasure. *Correct*: an
  acknowledged message is stored or delivered, once and in order; limits hold;
  processed messages are not dispatched again (they are).
* **Server.** Edge-triggered events with one `read()` each, descriptors that are closed
  and reused while transfers name them, SIGTERM. *Correct*: nothing readable is
  overlooked, replies reach the client that asked, descriptors come back, both
  threads end.
* **Buffers.** A pool of 4096 segments of which none is given back. *Correct*: a message is
  dispatched as it was read.
* **Client library.** A server that is stopped, restarted, or cuts the connection;
  retries; stale status flags. *Correct*: a request is sent once, its own reply is
  shown, a refused request gets through later.
  With several threads, requests share a connection that nothing guards. *Correct*: only they
  pay for it.
* **Performance client.** Message buffers and session ids of several threads, random
  lengths that no buffer bounds, objects with two owners, a file that may say anything.
  *Correct*: what is sent of a message is its own, sessions are distinct, some thread gets through its messages.
* **Life of the server.** A restart that does not wait, privileges given to a path that may
  not be there yet, remains of a crash. *Correct*: a server that was not told to stop keeps its
  path, and a started one serves.

## 2. Modules

`A <- B`: A extends or instantiates B.

| module | models | reads with |
|---|---|---|
| `Mailbox` | abstract specification: a one-slot mailbox that takes a batch, or drops it when full | |
| `QueueHandoff` <- `Mailbox` | `transferMessages` and the drain of `processMessages`, one step per access of the lock or the queue | `MCQueueHandoff` |
| `QueueHandoff_proofs` | proofs about `QueueHandoff` | |
| `VectorOps` | one erasure, also past the end | |
| `VectorErase` <- `VectorOps` | the loop of `Vector::erase`, one turn per step, from every start | `MCVectorErase` |
| `VectorErase_proofs` | proofs about `VectorErase` | |
| `Protocol` | sizes of a packet, the 16-bit payload length | |
| `SessionStore` | abstract specification: a mailbox per session, put and take | |
| `MessageHandler` <- `VectorOps`, `Protocol`, `SessionStore` | dispatch and erase of `processMessages`, all of `dispatchMessage`, the session store | `MCMessageHandler` |
| `MessageHandler_proofs` | proofs about `MessageHandler` | |
| `Sockets` | external: clients, descriptor table, edge-triggered epoll, connections | |
| `ClientHandler` <- `Sockets` | the network thread, one step per system call | |
| `MsgServer` <- `ClientHandler`, `MessageHandler` | the composition, with the worker's loop and its system calls | `MCMsgServer` |
| `MsgServer_proofs` | proofs about `MsgServer` | |
| `MemoryManager` | offset and pointer of the pool | |
| `MessageBuffers` <- `MemoryManager` | segments written by one thread and read by the other | `MCMessageBuffers` |
| `MessageBuffers_proofs` | proofs about `MessageBuffers` | |
| `ConnectionLocal` | the methods of the client library, and the server as a client sees it | |
| `ModMsg` <- `ConnectionLocal`, `Protocol` | one child process of Apache with one or several threads of requests | `MCModMsg` |
| `ModMsg_proofs` | proofs about `ModMsg` | |
| `PerfClient` <- `ConnectionLocal`, `MemoryManager` | main, its configuration and the threads of the performance client | `MCPerfClient` |
| `PerfClient_proofs` | proofs about `PerfClient` | |
| `Lifecycle` | several server processes from start to end, and the init script | `MCLifecycle` |
| `Lifecycle_proofs` | proofs about `Lifecycle` | |

Definitions with a suffix (`GiveBack_NoReset`, `Insert_Last`, ...) are introduced by a
comment "Fault:". They are variants of the definition below them with a plausible bug, used to show that a
property would notice it; no specification uses them.

### Correspondence of state and steps

**QueueHandoff.** `QueueLock`, `Queue`, `Messages`, `TransferMessages` and `QueueMessages` are
the variables of that name; a message is the number of the `read()` that brought it.
`net` and `work` say where each thread is. Network thread: `ReadMessage`
(`readClientData`), `CopyMessages` (copy and clear), `TestReleased` (the `if`, with the
drop of the copy in the other case), `PushOldest` (back, push, pop_back), `HandOver` (the lock is
set), `LogAndReturn` (the debug line that reads the queue's size after that). Worker:
`TestWrote`, `ReadSize`, `PopOne`, `GiveBack`, and `Dispatch` for all that follows.

**VectorErase.** The vector starts as `1..n`, so an element's value is its original place.
`EraseTurn` is one turn of the loop; an index past the end makes `vector::erase`
undefined, modelled as the two outcomes the build produces: the process dies, or the end
pointer moves by one.

**MessageHandler.** `QueueMessages` holds numbered requests. `StartPass` computes `MsgCount`;
each way out of `dispatchMessage` is an action (`RejectType`, `RejectFull`,
`IgnoreEmpty`, `StoreMessage`, `RetryGet`, `FailSend`, `Deliver`); `EndDispatch`,
`EraseTurn`, `EndPass` are the rest of the pass. `SessionData` maps a session to its
messages. `processed`, `delivered`, `clock` are histories: the code keeps no
trace of what it has answered. The text of a reply is left out; whether `write()`
succeeds is nondeterministic here and determined in `MsgServer`, but for one case: a reply
that carries more than `PACKET_MAX` messages (`TooLarge`) never fits the packet that one `write()`
sends. The constant stands for the sum of the lengths that the socket's send buffer allows.
`Store` maps this state to that of `SessionStore`: a dispatch that stores is a `Put`, a
reply that was written is a `Take`, and every other step, repeated dispatches that are refused
included, is a stutter.

**Sockets, ClientHandler, MsgServer.** `Sockets` is the environment: a client connects,
sends at most `MaxSends` packets, receives and hangs up. The clients of the connections `Patient` wait
for the answer to what they sent before they send again or close, as the repository's own clients do; the
others do as they like. `fdTable` maps descriptor numbers to connections, `watched` are those that
epoll knows, `ready` is its ready list, `rx` and `tx` are the packets on a
connection. `ClientHandler` has one action per system call of the network thread on a client's
descriptor, and one for each test of `RunServer` (`TestRunServer`), so that the worker can close a descriptor
between `epoll_wait` and `read`, and between the calls that make a new client known: `AcceptClient` (`accept`, and the
entry in `Clients`), `MakeNonblocking` (`fcntl`), `AddToEpoll` (`epoll_ctl`). When the worker has closed the number in
between, `fcntl` fails and `makeNonblocking` calls `exit(EXIT_FAILURE)`: `net` is `"exit"` and the
process is no longer `Alive`. When no client waits or no descriptor is free, `AcceptNobody` goes on.
`transferMessages` is one step on the mailbox that `QueueHandoff` implements. In `MsgServer` the worker tests
`RunServer` (`EnterWorkerLoop`) and then the mailbox (`TestMailbox`), and a worker action is
an action of `MessageHandler` together with its system call: `AnswerSet`
writes and ignores the result, `AnswerGet` writes, and `CloseAnswered` closes afterwards.
`Answer` is the effect of such a write on the sockets, with the history `misled`: the connections
that were given a reply although none was outstanding, a stray one or a second one for a request.
When the worker dies in `erase` the process is dead as well, so that the network thread stops, too
(`Alive`). A failing `read()` queues the segment it was to fill, as `malloc` gave it: not a
request (`ServerAssumption`). This is so for the first 4096 reads; `MessageBuffers` says what
the segments hold after that.

**MemoryManager, MessageBuffers.** `NextOffset` and `Pointer` are `getNextMemPointer` and
`getMemPointer`. `Receive`, `ReceiveEnd` and `ReceiveError` each take a segment, as
`readClientData` does before it looks at the result of `read()`. Neither side is one access: the kernel writes the
parts of a packet one by one (`Copy`), and `dispatchMessage` looks at the type (`MessageHandler.cpp:67`), the
session (`:76`) and the payload (`:100`) one after the other, and at each part by part (`Look`), with reads and
copies possible between any two. `TypeEnd`, `SessionEnd` and `PayloadEnd` are the last parts of the three.
`EndDispatch` may come behind each of them, as the code returns early.

**ConnectionLocal, ModMsg.** An object is a row of the variables `ConnStatus`, `SendStatus`,
`RecvStatus`, `SocketFD`, `RecvBuffer`; `SendStatus` and `RecvStatus` of a new object
have any value, since nobody initializes them. A descriptor is a row of `sock`, `outbox` and
`inbox`, so that a thread which was reading a descriptor goes on to read it when another
thread gives the object a new one. Each system call is a step (`Send`, `Reopen` and `Reconnect`,
`Receive`) and the notes taken of its result another (`NoteSent`, `Keep`), because
threads that share `ConnSetObj` may come in between. `ReconnectCount` is never incremented in
`sendMessageReconnect`, so no step leaves its loop because of it. `Respond` passes on the page
and closes the object of a GET. The server is `Disturbance` (stops, starts, cuts, loses,
answers again) and `Answer`: what the runs of the server show it may do to a client.

**PerfClient.** `file` is the configuration, and `GetParamValue` what `parse` and
`getParamValue` make of it; a value that `stoi` throws at ends the process (`BadConfig`), as `main`
catches nothing but `const char*`. `Generate` produces one message, with its session
id, segment and length: the length is any that `generateRandIntRange` may give, cut to the
`uint16_t` of `MessageItem`, and `memcpy` writes it into the pool byte by byte, past the end
of the segment where it is longer. Past the end of the pool it writes into another thread's pool
(`hit`), into nothing that matters, or the process is killed. A length that was cut to 0
makes an empty packet: `SendNothing` takes the result 0 of its `write()` for the end of the connection, and
the server takes the packet for the same (`CloseAtNothing`). `NoRange` is the division by a `MessageLengthMax` of 0.
`Spawn`, `RunThreads`, and per thread `Persist`, `Begin`, `Send`, `Receive`, `Finish`
follow. With another `ConnectionType` than `persistent` a thread never connects (`StayUnconnected`): its descriptor is
whatever was in memory, a `write()` to it may succeed (`Outcomes`), and what a `read()` brings is no reply and may
never come (`ReceiveElsewhere`, `Elsewhere`). `Finish` ends the process: the `Thread` object is deleted by the `shared_ptr` that
`spawn` made of `this`, and its destructor meets a joinable `std::thread`. Hence
no `join()` returns, and the model has no step for what comes after it. A `write()` on a
connection that the server closed ends no thread: on a SEQPACKET socket it is an error without
a signal.

**Lifecycle.** `at[i]` is the step of `main` that process i is at, `path` the process whose
socket is at `SERVER_SOCKET`, `group` and `mode` what `chgrp` and `chmod` did to that
entry, `pidfile` the number start-stop-daemon wrote. The script is a list of steps, one per
external command. `start-stop-daemon` is modelled from its options in the script: with
`--start` it does nothing while the process of the file runs (`AlreadyRuns`), with `--stop` and
no `--retry` it sends SIGTERM and returns (`KillDaemon`). The test `$0 status` always fails, as
the script has no such command. SIGTERM before `setTerminationHandler` ends the process.

## 3. Runs

Every property comes with a mutant, a change of the model on which TLC finds it violated.

| run | question | instance |
|---|---|---|
| `handoff` | does the lock protocol work? | 5 reads, batches up to 3 |
| `handoff_queued` | violation: is every message that was read queued? | 3 reads, batches up to 2 |
| `erase` | what does the multi-element erase erase? | every vector up to 6, every list of indices |
| `handler` | what does the worker guarantee? | 6 kinds of request, 3 sessions, limit 2, window 3, 2 messages in a reply, 5 messages |
| `handler_once` | violation: is a processed message done with? | 1 session, window 2, 3 messages |
| `handler_window` | violation: does a waiting GET meet its SET? | 1 session, window 1, 2 messages |
| `server_live` | is anything readable overlooked, whom does a reply reach, do threads and descriptors come back? | 2 clients, a patient one with 2 requests and an impatient one with 1, 2 descriptors, batches of 2 |
| `server_cut` | violation: is a connection closed for its own reasons only? | 3 patient clients with 1 request each, 2 descriptors |
| `buffers` | is a message dispatched as it was read? | 3 segments, 4 packets of 3 parts, any number of failing reads |
| `client` | what does the retry loop of the Apache module do? | one thread with 3 requests, or two with a SET each or a SET and a GET; 3 descriptors, 1 disturbance |
| `perf` | what does the performance client guarantee? | 13 configuration files, up to 2 threads and 2 sessions of 2 messages, 2 cuts or stops |
| `lifecycle` | who has the path, and can Apache connect? | 4 commands, 4 processes, 2 crashes |

### What they show

* `handoff`: push and pop never overlap (`QueueExclusive`), the drain never pops an empty
  queue (`FrontExists`), messages keep their order through three vectors and the queue (`InOrder`), what is queued is
  taken (`QueuedIsTaken`), the lock comes back (`LockComesBack`), and the whole is a
  one-slot mailbox (`ImplementsMailbox`).
* `handoff_queued`: a batch read while the worker has not given the lock back is
  destroyed with the copy (`ClientHandler.cpp:135`).
* `erase`: turn t removes the element t places behind the given one (`NextIsBehind`), so that
  exactly the elements at the shifted places are gone in the end and the others keep their
  order (`LandsShifted`). The result is right for no index, one index, or all of them, and
  otherwise wrong.
* `handler`: whatever the erasure does, a payload that was acknowledged is in exactly one
  place (`StoredOrDelivered`), and the worker is a store into which payloads are put and from
  which they are taken all at once, newest first (`ImplementsStore`). SETs are
  stored in the order of arrival even when dispatched twice (`StoredInArrivalOrder`), the
  container keeps its limit (`SessionsBounded`), and once full it refuses everything for
  ever, known sessions included (`FullForEver`). A session whose payloads do not fit one
  reply is out of reach for ever, for it only grows (`TooLargeForEver`). A SET among the first messages of the
  vector leaves it (`SetLeavesWindow`).
* `handler_once`, `handler_window`: a processed message is dispatched again; waiting
  GETs at the head hide the SET behind them.
* `server_live`: one read per edge-triggered event overlooks nothing when clients wait for
  their answers, even across reuse of descriptor numbers (`NothingOverlooked`). There are two
  conditions, and both are needed: the clients are patient, and the server did not give the client a reply
  too many. A client that was given the answer of another one, or a second answer to one request,
  sends its next request, or leaves, before the first was read: one of two packets stays unread,
  or the only `read()` of the connection fails with ECONNRESET, which is taken for a
  message, and the descriptor is never closed. Likewise
  a descriptor is given back when its client is patient and was not misled
  (`DescriptorComesBack`). A reply goes astray only
  after the server itself closed the connection it was meant for (`AstrayOnlyAfterCut`); after
  SIGTERM both threads leave their loops (`ServerStops`) unless the process ends first: by the worker in `erase`, or by the
  network thread, which calls `exit` when the worker has closed the number of the client it is about to add.
* `server_cut`: the worker closes a number that belongs to another client by now.
* `buffers`: a message in its own segment is dispatched whole and as read
  (`DispatchedAsRead`), which as long as the pool lasts all are; afterwards what is dispatched may have
  the type of one message, the session of a second and the payload of a third, but none of them is earlier than
  the message dispatched (`NeverOlder`).
* `client`: the retry loop sends once and never waits for what was not sent
  (`SentOnce`), shows no other request's reply unless the server wrote one astray
  (`OwnReply`), except to SETs of two threads that were under way at a time: these may both be
  lost or told each other's result, and a GET is never touched by it. The loop
  loses descriptors by reconnecting only (`LostByReconnecting`), gets a refused request
  through when the server comes back (`RefusedIsRetried`), and is beyond help when the
  connection breaks while `ConnStatus` is true or when the descriptors are used up
  (`HopelessForEver`).
* `perf`: messages may be longer than a segment, but the first `MSGBUFFER_SIZE` bytes of each,
  which are what the server reads, are its own (`FirstSegmentIsOwn`), because the next message is
  copied later, unless one leaves its pool and destroys another thread's; nothing is written outside of the pool unless a message is longer than
  as many segments as a thread has sessions (`InsidePool`), where the code has no check; session
  ids tell sessions apart (`SessionsDiffer`), and with a file that can be carried out (`CanBeDone`) a thread gets through all its messages
  whatever the server does, or every thread waits for an answer the server owes it (`GetsThrough`). That thread's end is
  the end of the process, by `std::terminate` and not by `return`: the property says how far a run comes, not that
  it ends well.
* `lifecycle`: although a restart lets two servers run for a while, never do two want the path,
  and `bind()` never fails (`KeepsPath`): the window in which a server could remove its
  successor's path lies before the handler is set, where SIGTERM ends it at once. What a crash
  leaves behind does not prevent a start (`StartServes`). A socket that `chgrp` and `chmod` missed
  because the server was slow stays closed to Apache until somebody gives the command again
  (`AgainShares`).

### Bounds, and why they are enough

* `handoff`: three batches can be on their way at once (collected, queued, drained), and
  5 reads fill them with different sizes; only the order of messages matters, not how many there are. The
  theorems cover every number.
* `erase`: an index is affected only by those before it; with six elements every pattern
  of up to three shifts followed by an overrun occurs.
* `handler`: 5 messages with a window of 3 make passes shorter and longer than the
  vector, erasures of the wrong message and past the end; 3 sessions against a limit of 2
  reach the full container and requests for known and unknown sessions after that; three SETs of
  a session exceed a reply of 2.
* `server*`: in `server_cut` one more client than descriptors forces reuse of a number; in
  `server_live` a client that left gives its number to the other one, and the patient client may store and then
  fetch. The impatient one gives every way to leave early. The worker's late `close` meets each step of
  `addClient`, the `exit` included. 8 transfers at most (`MaxReads`), which phantom transfers share; a container
  of one session and a reply of one message reach the limits. Descriptors never run out in this run.
* `buffers`: two segments behind the first are used up after two reads; the third and fourth packet go to
  the first. One part each for type, session and payload makes a dispatch of three looks, so that it may see three
  messages; a longer look only repeats them.
* `client`: three requests of one thread give a GET between two SETs; two threads with two
  requests give every overlap of a SET with a SET or a GET, since more threads only wait for the
  same object. One disturbance breaks a connection at each place, and restarts are not counted;
  three descriptors are used up within the run. The safety properties were also checked with two
  disturbances and two requests.
* `perf`: two threads share the counter, with digits 0 and 1 and a start that needs a carry in the
  second session; messages have up to four segments of two parts; the files have each key
  missing or repeated, and each of the numbers 0 once; one has threads that never connect; one makes messages of length 0, and in one
  the message of the second thread reaches that of the first.
* `lifecycle`: four commands give a restart while the server of a restart before is still
  setting up, and a start after a crash; two crashes hit the old and the new server.

Deadlock is checked in `handoff` and `buffers`. The other systems may really stop: the worker
dies or has seen all messages (`handler`), the server has ended (`server*`), a client waits for ever for
a lost answer (`client`), the process has ended (`perf`), no more commands are given (`lifecycle`), the loop has returned (`erase`).

### Fairness

* `QueueHandoff`: each thread's own steps are weakly fair, because both loops run until
  SIGTERM on threads of their own; reading a client is not fair, as clients owe nothing.
* `MessageHandler`: the worker's pass is weakly fair; arrivals are not.
* `MsgServer`: the network thread and the worker are weakly fair while the process lives;
  clients and SIGTERM are not.
  `ServerStops` takes for granted that a thread sees `RunServer` change; the flag is a plain `bool`,
  a data race in C++, and both loops call functions of other translation units, so that builds
  read it anew in every turn.
* `ModMsg`: each thread with a request is weakly fair; the server and the users are not.
  `RefusedIsRetried` assumes `<>[]up`, a server that is started and stays.
* `PerfClient`: main and each thread are weakly fair, but for a `read()` from a descriptor nobody initialized, which may
  never return. Nothing is assumed of the server: it may leave a request unanswered for ever, as it drops batches
  (`handoff_queued`), and `GetsThrough` allows a run to hang for that reason and for no other.
* `Lifecycle`: the script and every server process are weakly fair; commands and crashes are not.

## 4. Proofs

Each `*_proofs` module states its inductive invariant, proves one lemma per action or per
conjunct, and derives the properties. Assumptions are the ASSUMEs on the constants
(natural numbers, no upper bounds).

* **QueueHandoff_proofs.** `QueueExclusive` is not inductive: that the worker is not in the
  queue follows from the value of the lock, and that the value is right from where both threads are
  (`LockInv`). `FrontExists` needs that the queue holds exactly what the drain has
  still to pop (`ContentInv`), `OneBatch` (the queue holds at most one batch) that a batch does not grow on its way
  (`BatchInv`), `InOrder` that no vector holds a number not given out yet
  (`GivenOut`). `Refinement` shows that initial states map to initial states of `Mailbox` and every
  step to a step or a stutter. `BatchIsTaken` counts the steps of the worker until the lock is back: at
  most `BatchMax` + 4, each one takes one away, and none of the network thread adds one.
* **VectorErase_proofs.** `ErasesBehind` needs the shape of the vector after t turns, for vectors and
  lists of any length: the elements before the next index plus t places are shifted by t.
  `Shrinks` says that each turn takes out one element. `WhatIsErased` gives the result of the whole
  loop without an induction over the list: the inductive invariant says of every turn that the
  vector is its start without the shifted places of the indices that were used, and that what
  is left is ascending; one turn inside the vector keeps that (`EraseInside`, `TurnLands`).
  `DiesPastEnd` says that only a turn past the end kills the process, which vector and indices decide
  beforehand, and `PrefixPastEnd` when that is so if the indices are the first m of n places, as they
  are when every message of a pass before the first one left was done with:
  when 2 * (m - 1) >= n, hence never for m = 1, and always for two messages of two.
* **MessageHandler_proofs.** `NothingLost` is proved together with the bounds of the two loops
  (`LoopInv`: an index that was noted is inside the vector, one erasure per noted
  index), with `ClockAhead` (every stored message is older than the clock) and the order in a session;
  `ArrivalOrder` adds `OrderInv`: the requests of the vector stand in the order of arrival; a
  SET that is still there although a later one was stored was itself stored before that one; and the
  SETs that the pass has been through were stored, unless the container is full. Erasing any place
  keeps an order (`ErasePlaces`), so the proof does not depend on which elements an erasure hits.
  `ContainerLimit` needs that the set of sessions is finite and grows by one. `NoWayBack` is
  the action property `FullForEver`, `OutOfReach` is `TooLargeForEver`. `OneIsSafe` and `FirstIsRight` say how far the
  erase loop can be trusted: until its first turn the noted places are those of processed messages (`Noted`), so that the
  first erasure is the one that was meant, and a pass that was done with one message only never
  ends the process. `PassesEnd` gives the steps that a pass has left, `PassLeft`. `StoreRefinement` maps every
  action to a step of `SessionStore` or to a stutter; it needs the types, the limit
  of the container, and that the container is finite.
* **MessageBuffers_proofs.** `OwnBuffer`: a segment other than the first is not behind the
  offset, and every part of it is of the message of its transfer; `Unused`: behind the offset nothing was
  read; `Copying`: what was copied of a packet is in the segment taken last, which no transfer points to
  unless it is the first. `NeverOlder` (theorem `OnlyNewer`) is about every look of a dispatch, so it needs of the segments
  that no part of a transfer's segment is of an earlier packet, at any time between two looks. For any number of segments,
  4096 in the server, and any sizes of type, session and payload; `PoolSuffices` says that until the
  pool is used up every message has a segment of its own.
* **MsgServer_proofs.** About the composition of both threads and the sockets, for any number of clients,
  connections, descriptors and packets. The
  invariant `NetInv` has the types of each part (`SocketTypes`, `BatchTypes`, `WorkerTypes`), that a
  transfer can be traced to the connection it was read from (`Traced`), that a connection is
  at one descriptor number at most (`OnePlace`), that a descriptor is known to epoll or about to be made known to it
  (`Registered`), and what is on the way between a patient client that was not
  misled and the server: one request or its answer (`CalmClients`). One lemma per step of the
  sockets shows what it does to these, and the steps of the threads are combined from them.
  `NothingOverlooked` (theorem `EveryPacketRead`) follows as an edge is in the ready list whenever a packet came
  to a connection that had none. `ServerStep` shows that each step of the composition is a step
  of `MessageHandler` or leaves its variables alone (`WorkerIsHandler`), so the invariant of the worker and the theorems
  that rest on it hold in the server: `ServerLosesNothing`, `ServerKeepsOrder`, `ServerKeepsStore`,
  `ServerBounded`, `ServerOutOfReach`, `ServerSurvivesOne`, `ServerPassesEnd`. The action properties
  among them are proved from the step lemmas of `MessageHandler_proofs`, as a step of the server is one of
  the worker or a stutter of its variables.
* **ModMsg_proofs.** `SentOnce` needs how often a request was written at each place of its thread
  (`Placed`: not yet in the loop, once after it, and in between as the result of `write()` or the status of
  the object says), that two threads have different requests, and that they share an object
  only when both have a SET, which are crossed then. So the steps of one thread do not
  disturb another one's place (`Within`). `LostByReconnecting` is the count `Descriptors`, with two facts that
  keep it: an object's descriptor is not free, and two objects have different ones. That
  `socket()` gives a free number rests on the least number principle, from well-foundedness
  of the numbers. `HopelessForEver` follows from these: the server brings no connection up
  (`ServerLeaves`), another thread touches neither the object nor the descriptor of a GET
  (`OthersLeave`), and each step of the thread itself leads back into the loop (`OwnLeaves`). `OwnReply` (theorem `ShownOwnReply`) needs what the buffers of every descriptor hold
  (`RInv`): as long as no reply went astray, a connection that is not shared by two SETs under way
  holds nothing, the one request of its thread, or the answer to it (`Holds`); after the
  read it is empty and the reply is that of the thread's request (`ReplyTo`); and the connection of the SETs is
  empty while no thread has one (`AtRest`). A thread disturbs none of this for another one
  (`Bystander`, `RWithin`). For any
  number of threads, requests, descriptors and disturbances.
* **PerfClient_proofs.** For any files, numbers of threads, sessions, messages and segments, and any lengths.
  `FirstSegmentIsOwn` and `InsidePool` need where each message lies: number n of a thread in segment n, as
  `getNextMemPointer` leaves out the first, which is in the pool because there is one spare segment
  for every session (`Items`, `NextSegment`, `Fits`); a later message is copied to higher addresses only
  (`Apart`). The types (`PerfTypes`) need that a thread starts when all messages are complete (`Made`,
  `Places`), so that what it writes is a message, damaged or not; the first attempt at this
  proof failed at a message of length 0, which the model did not have. `PerfAssumption` says that the bounds are
  large enough for the files. `SessionsDiffer` (theorem `SessionsDistinct`) needs the invariant `CountInv`: every
  message that was made carries the id of its session's number, counted over all threads, and the counter
  shows the number of the session begun last. An id is traced to a number by its digits
  (`Shown`, `ShowsNumber`): counting up adds 1 to the number the digits show,
  or starts again from 0 when all are the last one (`AfterOther`, `AfterLast`), so two ids are
  equal only when as many sessions lie between them as there are ids (`OneNumber`).
  `CounterAssumption` says that the files ask for no more
  sessions than that: there are 256^32 ids in the code, and the numbers of threads and sessions are ints.
  Where a digit is carried over is proved with the least number principle for sets, in place of an
  induction. `ThreadsFinish` and
  `GenerationEnds` count the steps that a thread and the main thread have left.
* **Lifecycle_proofs.** `KeepsPath` is not inductive. It needs that a process which runs and was
  not told to stop is the one in the file of process numbers, that one which was told to stop has set
  up its socket, and that the path is free for the one that is about to bind it. For any number of
  commands, crashes and processes.

Liveness is out of the prover's reach, but half of it is not: that a loop cannot go on for ever once its
thread runs. `BatchIsTaken`, `PassesEnd`, `ServerPassesEnd`, `ThreadsFinish` and `GenerationEnds` state a
measure that is bounded, that every step of the thread lowers (or raises towards its bound), and that no step of
another one raises. What is left to fairness is only that the thread runs and that nothing blocks it.

Only model-checked: the properties under fairness (`QueuedIsTaken`, `LockComesBack`, `SetLeavesWindow`,
`ServerStops`, `DescriptorComesBack`, `RefusedIsRetried`, `GetsThrough`, `StartServes`, `AgainShares`, and the liveness
half of `ImplementsMailbox`), which the prover does not reach. Every safety property of a passing run is the statement of a theorem.

## 5. What the models say about the code

Four runs end in a counterexample to what a comment of the code says; they are the
"findings" of `PROJECT.json`. Beyond these, the models contain behaviour that is
not stated as a property:

* `LogAndReturn` reads the queue's size while the worker may pop (`ClientHandler.cpp:157`).
* The multi-element erase removes wrong elements as soon as there are two indices and a
  third element (`Vector.hpp:33`), which is behind both `handler_once` and lost GETs.
* A reply too many, which the repeated dispatch and the wrong `close` both produce, makes a client
  that behaves send or leave early; then one of its packets is overlooked, or its end is read as
  a message (`ClientHandler.cpp:40`, `:102`) and its descriptor is lost. The first
  version of `NothingOverlooked` did not exempt these clients, and its proof failed here.
* A failing `read()` makes a transfer of 65535 bytes (`ClientHandler.cpp:102`) that
  is dispatched like a message.
* After 4096 reads all messages share a segment; the server has no larger pool. What is dispatched then may be put
  together of three messages, since `dispatchMessage` looks at the buffer three times (`MessageHandler.cpp:67`, `:76`, `:100`).
* The worker's late `close` (`MessageHandler.cpp:148`) can hit the number of a client that `addClient` is about to add; then
  `makeNonblocking` ends the server (`Helper.hpp:18`).
* No `join()` of the performance client returns, and what `PerformanceSet.cpp` prints behind it is never printed
  (`:140`, `:154`): a thread that is done destroys its joinable `Thread` object, `std::terminate`.
* At the end of a connection an empty string is passed on as the reply of a request when
  `RecvStatus` is true from an earlier one, or uninitialized (`ConnectionLocal.cpp:116`).
* Sessions and messages live in the server's memory only: a restart loses what is stored, and a
  GET that waits is never answered.
* Two SETs of one Apache child at a time may be given one result, each other's, or none
  (`Request.cpp:79`); only `OwnReply` and `SentOnce` bound who is concerned.
* `main` never waits for the file it says it waits for (`PerformanceSet.cpp:121`), so that only two
  seconds separate the last thread's start from the first message.
* A message of the performance client whose length is a multiple of 65536 ends its connection
  (`Message.hpp:13`); the messages after it are written to a closed one, and no one notices.
* `testconfig.cfg` names parameters (`SessionPerThreadCount`, `MessagesPerSessionCount`) that
  `PerformanceSet.cpp:40` does not ask for.

## 6. What is not modelled

* The values of what is set up once: cpu affinity, user and group ids, the path.
* The text of replies, logging, and the content of payloads.
* The times in `Clients`, which are written and never read.
* The `MessageType` of a performance test's file: `HeaderLength` is one number for all files, that of `SET`.
* What a thread of the performance client does to whatever its uninitialized descriptor names.
* A reply longer than the `MSGBUFFER_SIZE` bytes that a client reads: its rest is dropped by the
  socket, and the content of replies is not modelled.
* `ConnectionTCP` (empty), random content, the script that adds a group, the build files.
* The experiments: `evaluate/thread` shows a lock whose test and set are two accesses, which is
  visible without a search; `aio` and `search` call a library.

## 7. Plan

Done, in this order: the hand-over and its abstract mailbox with proofs; the erase loop with
proofs; the worker with proofs; sockets, network thread and composition; buffers with proofs;
client library and Apache module; performance client; the abstract session store, with a proof that
the worker implements it; threads of the Apache module; configuration and message lengths of the
performance client; the life of server processes with proofs; proofs about the Apache module;
proofs about the composed server; what the erase loop leaves, the order of arrival and the replies of the Apache
module, proved; proofs about the performance client; its session counter; how far the erase loop can be trusted,
and measures for the loops of worker, server and performance client, proved.

Next:

1. `MsgServer`: connect `MessageBuffers` to the composition, so that a phantom transfer carries
   what its segment holds; a run in which the descriptors run out.
2. `ConnectionLocal`: the types of the library's operations are proved in `PerfClient_proofs` and again in
   `ModMsg_proofs`; one module of lemmas about them, and about the least number that `socket()` gives, would do.
   Likewise the lemmas about moves between sequences stand at the head of each module that needs them
   (`QueueHandoff_proofs`, `MessageHandler_proofs`, `VectorErase_proofs`).
