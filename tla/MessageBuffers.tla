--------------------------- MODULE MessageBuffers ---------------------------
(***************************************************************************)
(* The buffers behind the messages: readClientData takes a segment for     *)
(* every read() and puts its address into the transfer, and the worker     *)
(* looks into the segment when it dispatches the transfer, once or (for a  *)
(* GET that has to wait) many times, while the network thread goes on      *)
(* reading.                                                                *)
(*                                                                         *)
(* A packet is the number of the read() that brought it, and fills its     *)
(* buffer.  Neither read() nor dispatchMessage is one access: the kernel   *)
(* writes the parts of the buffer one by one, and the worker looks for the *)
(* type, for the session, and for the payload, at one part after the       *)
(* other.  A part may be as small as a byte.  The ways of a transfer from  *)
(* the one thread to the other are left out (see QueueHandoff): it is      *)
(* held, dispatched as often as the worker likes, and gone at some time.   *)
(***************************************************************************)
EXTENDS MemoryManager

CONSTANTS
  TypeEnd,      (* last part of the message type,                            *)
  SessionEnd,   (* of the session id behind it,                              *)
  PayloadEnd,   (* and of the payload                                        *)
  MaxReads      (* bound on the packets received in a behaviour              *)

ASSUME BuffersAssumption ==
  /\ MaxReads \in Nat
  /\ {TypeEnd, SessionEnd, PayloadEnd} \subseteq Nat
  /\ 0 < TypeEnd /\ TypeEnd < SessionEnd /\ SessionEnd < PayloadEnd

Parts == 1 .. PayloadEnd

VARIABLES
  SegmentOffset,  (* of the pool                                             *)
  memory,         (* segment -> part -> packet it is of; 0 is what malloc()  *)
                  (* left there                                              *)
  nread,          (* packets that came so far                                *)
  copying,        (* parts that read() has yet to write                      *)
  held,           (* transfers on their way: [id, segment]                   *)
  current,        (* the transfer dispatched last, in a set                  *)
  dispatching,    (* is it still?                                            *)
  looked,         (* last part of it that the worker has looked at,          *)
  seen            (* part -> the packet it was of                            *)

netVars == <<SegmentOffset, memory, nread, copying>>
workVars == <<current, dispatching, looked, seen>>
vars == <<netVars, held, workVars>>

Init ==
  /\ SegmentOffset = 0
  /\ memory = [s \in Segments |-> [p \in Parts |-> 0]]
  /\ nread = 0
  /\ copying = {}
  /\ held = {}
  /\ current = {}
  /\ dispatching = FALSE
  /\ looked = 0
  /\ seen = [p \in Parts |-> 0]

-----------------------------------------------------------------------------
(* The network thread. *)

(* The segment of the next read(), and the one of the last. *)
NextSegment == Pointer(NextOffset(SegmentOffset))
Segment == Pointer(SegmentOffset)

(* A packet has come, and read() begins to copy it. *)
Receive ==
  /\ copying = {}
  /\ nread < MaxReads
  /\ nread' = nread + 1
  /\ copying' = Parts
  /\ SegmentOffset' = NextOffset(SegmentOffset)
  /\ UNCHANGED <<memory, held, workVars>>

(* Fault: the transfer is made as soon as there is something in its buffer. *)
Copy_Early(p) ==
  /\ p \in copying
  /\ memory' = [memory EXCEPT ![Segment][p] = nread]
  /\ copying' = copying \ {p}
  /\ held' = IF copying = Parts THEN held \cup {[id |-> nread, segment |-> Segment]}
                                ELSE held
  /\ UNCHANGED <<SegmentOffset, nread, workVars>>

(* It copies a part; behind the last one there is a transfer. *)
Copy(p) ==
  /\ p \in copying
  /\ memory' = [memory EXCEPT ![Segment][p] = nread]
  /\ copying' = copying \ {p}
  /\ held' = IF copying = {p} THEN held \cup {[id |-> nread, segment |-> Segment]}
                              ELSE held
  /\ UNCHANGED <<SegmentOffset, nread, workVars>>

(* read() fails: a segment is taken and nothing is put into it, but there  *)
(* is a transfer with its address.                                         *)
ReceiveError ==
  /\ copying = {}
  /\ SegmentOffset' = NextOffset(SegmentOffset)
  /\ held' = held \cup {[id |-> 0, segment |-> NextSegment]}
  /\ UNCHANGED <<memory, nread, copying, workVars>>

(* The client has closed: a segment is taken for nothing. *)
ReceiveEnd ==
  /\ copying = {}
  /\ SegmentOffset' = NextOffset(SegmentOffset)
  /\ UNCHANGED <<memory, nread, copying, held, workVars>>

-----------------------------------------------------------------------------
(* The worker. *)

DispatchMessage(t) ==
  /\ ~dispatching
  /\ t \in held
  /\ dispatching' = TRUE
  /\ current' = {t}
  /\ looked' = 0
  /\ UNCHANGED <<netVars, held, seen>>

(* It looks at the next part. *)
Look(t) ==
  /\ dispatching
  /\ t \in current
  /\ looked < PayloadEnd
  /\ looked' = looked + 1
  /\ seen' = [seen EXCEPT ![looked'] = memory[t.segment][looked']]
  /\ UNCHANGED <<netVars, held, current, dispatching>>

(* A wrong type is all it looks at; a GET, and a SET that is refused, has  *)
(* no payload to look at.  The message is done, or kept for another try.   *)
EndDispatch ==
  /\ dispatching
  /\ looked \in {TypeEnd, SessionEnd, PayloadEnd}
  /\ dispatching' = FALSE
  /\ held' \in {held, held \ current}
  /\ UNCHANGED <<netVars, current, looked, seen>>

(* A transfer that is not being dispatched is lost with its batch, or by   *)
(* the erasure of the wrong message.                                       *)
Lose(t) ==
  /\ t \in held
  /\ dispatching => t \notin current
  /\ held' = held \ {t}
  /\ UNCHANGED <<netVars, workVars>>

Next ==
  \/ Receive \/ ReceiveError \/ ReceiveEnd \/ EndDispatch
  \/ \E p \in Parts : Copy(p)
  \/ \E t \in held : DispatchMessage(t) \/ Lose(t)
  \/ \E t \in current : Look(t)

Spec == Init /\ [][Next]_vars

-----------------------------------------------------------------------------
TransferType == [id : Nat, segment : Segments]

(* Types; in particular, no offset leads outside of the pool. *)
TypeOK ==
  /\ SegmentOffset \in 0 .. SegmentCount
  /\ memory \in [Segments -> [Parts -> Nat]]
  /\ nread \in Nat
  /\ copying \subseteq Parts
  /\ held \subseteq TransferType
  /\ current \subseteq TransferType
  /\ dispatching \in BOOLEAN
  /\ looked \in 0 .. PayloadEnd
  /\ seen \in [Parts -> Nat]

(* A message in any segment but the first is dispatched as it was read,    *)
(* every part of it, however late and however often: no read() writes to   *)
(* its segment again.                                                      *)
DispatchedAsRead ==
  \A t \in current : t.segment # Base => \A p \in 1 .. looked : seen[p] = t.id

(* Until the pool is used up every message has a segment of its own.       *)
FirstReadsAreSafe ==
  SegmentOffset < SegmentCount =>
    \A t \in held :
      t.segment # Base /\ \A u \in held : u.segment = t.segment => u = t

(* From then on all are read into the first segment.  What is dispatched   *)
(* in place of such a message may have the type of one message, the        *)
(* session of a second and the payload of a third, in any order and mixed  *)
(* within each, since read() writes while the worker looks; but each of    *)
(* them came after the message or is the message, never before it.         *)
NeverOlder ==
  \A t \in current : \A p \in 1 .. looked : seen[p] >= t.id
=============================================================================
