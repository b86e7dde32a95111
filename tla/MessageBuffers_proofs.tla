------------------------ MODULE MessageBuffers_proofs ------------------------
(***************************************************************************)
(* Proofs of the safety properties of MessageBuffers, for a pool of any    *)
(* size, any number of reads, and buffers of any number of parts, which    *)
(* may be bytes.                                                           *)
(***************************************************************************)
EXTENDS MessageBuffers, TLAPS

(* Behind the offset nothing was read yet, and nothing is newer than the   *)
(* last read().                                                            *)
Unused ==
  \A s \in Segments : \A p \in Parts :
    memory[s][p] <= nread /\ (s > SegmentOffset => memory[s][p] = 0)

(* A segment that is not the first is not behind the offset and holds the  *)
(* message of the transfer that points to it; the first holds parts of     *)
(* that one or of later ones.                                              *)
OwnBuffer ==
  \A t \in held \cup current :
    /\ t.segment # Base => t.segment <= SegmentOffset
    /\ \A p \in Parts :
         /\ t.id <= memory[t.segment][p]
         /\ t.segment # Base => memory[t.segment][p] = t.id

(* While read() copies, what it has copied is there, and nobody else has   *)
(* its segment, unless it is the first one.                                *)
Copying ==
  copying # {} =>
    /\ SegmentOffset # 0
    /\ \A p \in Parts \ copying : memory[Segment][p] = nread
    /\ Segment # Base => \A t \in held \cup current : t.segment # Segment

(* There is one transfer at a time. *)
OneCurrent == \A t, u \in current : t = u

IInv ==
  /\ TypeOK /\ Unused /\ OwnBuffer /\ Copying /\ OneCurrent
  /\ FirstReadsAreSafe /\ DispatchedAsRead /\ NeverOlder

-----------------------------------------------------------------------------
(* getNextMemPointer never leads outside of the pool, and as long as the   *)
(* pool lasts it gives the segment behind the offset.                      *)
LEMMA PointerInPool ==
  ASSUME NEW offset \in 0 .. SegmentCount
  PROVE  /\ NextOffset(offset) \in 0 .. SegmentCount
         /\ NextOffset(offset) >= offset /\ NextOffset(offset) # 0
         /\ Pointer(offset) \in Segments
         /\ Pointer(offset) # Base => Pointer(offset) = offset
         /\ offset < SegmentCount => Pointer(offset) = offset
         /\ Pointer(NextOffset(offset)) \in Segments
         /\ Pointer(NextOffset(offset)) # Base =>
              /\ Pointer(NextOffset(offset)) = offset + 1
              /\ NextOffset(offset) = offset + 1
         /\ NextOffset(offset) < SegmentCount => Pointer(NextOffset(offset)) = offset + 1
BY MemoryAssumption DEF NextOffset, Pointer, Segments, Base

(* Init establishes the invariant: there are no transfers. *)
LEMMA InitIInv == Init => IInv
<1> SUFFICES ASSUME Init PROVE IInv
  OBVIOUS
<1>1. TypeOK
  <2>1. SegmentOffset \in 0 .. SegmentCount /\ looked \in 0 .. PayloadEnd
    BY MemoryAssumption, BuffersAssumption DEF Init
  <2>2. /\ memory \in [Segments -> [Parts -> Nat]] /\ seen \in [Parts -> Nat]
        /\ held \subseteq TransferType /\ current \subseteq TransferType
    BY DEF Init
  <2> QED BY <2>1, <2>2 DEF Init, TypeOK
<1>2. Unused
  BY MemoryAssumption DEF Init, Unused, Segments
<1>3. OwnBuffer /\ Copying /\ OneCurrent /\ FirstReadsAreSafe /\ DispatchedAsRead /\ NeverOlder
  BY DEF Init, OwnBuffer, Copying, OneCurrent, FirstReadsAreSafe, DispatchedAsRead, NeverOlder
<1> QED BY <1>1, <1>2, <1>3 DEF IInv

(* What the types say of one transfer. *)
LEMMA TransferTypes ==
  ASSUME IInv, NEW t \in held \cup current
  PROVE  /\ t \in TransferType /\ t.segment \in Segments /\ t.id \in Nat
         /\ t.segment \in Nat
<1>1. t \in TransferType
  BY DEF IInv, TypeOK
<1>2. t.segment \in Segments /\ t.id \in Nat
  BY <1>1 DEF TransferType
<1> QED
  BY <1>1, <1>2, MemoryAssumption DEF Segments

(* The network thread takes the next segment, for a packet, for an error   *)
(* or for nothing.                                                         *)
LEMMA TakesSegment ==
  ASSUME IInv, copying = {},
         SegmentOffset' = NextOffset(SegmentOffset),
         UNCHANGED <<memory, workVars>>,
         \/ nread' = nread + 1 /\ copying' = Parts /\ held' = held
         \/ /\ UNCHANGED <<nread, copying>>
            /\ held' \in {held, held \cup {[id |-> 0, segment |-> NextSegment]}}
  PROVE  IInv'
<1> DEFINE new == [id |-> 0, segment |-> NextSegment]
<1>1. /\ SegmentOffset \in 0 .. SegmentCount
      /\ memory \in [Segments -> [Parts -> Nat]]
      /\ nread \in Nat /\ nread' \in Nat /\ nread' >= nread
      /\ held \subseteq TransferType /\ copying' \subseteq Parts
  BY DEF IInv, TypeOK
<1>2. /\ SegmentOffset' \in 0 .. SegmentCount
      /\ SegmentOffset' >= SegmentOffset /\ SegmentOffset' # 0
      /\ NextSegment \in Segments
      /\ NextSegment # Base => NextSegment = SegmentOffset + 1 /\ SegmentOffset' = SegmentOffset + 1
      /\ SegmentOffset' < SegmentCount => NextSegment = SegmentOffset + 1
      /\ Segment' = NextSegment
  BY <1>1, PointerInPool DEF NextSegment, Segment
<1>3. new \in TransferType /\ held' \subseteq held \cup {new}
  BY <1>2 DEF TransferType
<1>4. TypeOK'
  <2>1. held' \subseteq TransferType
    BY <1>1, <1>3
  <2> QED BY <1>1, <1>2, <2>1 DEF IInv, TypeOK, workVars
<1>5. Unused'
  BY <1>1, <1>2, MemoryAssumption DEF IInv, Unused, Segments
<1>6. ASSUME NEW t \in held \cup current
      PROVE  t.segment # Base => t.segment # NextSegment /\ t.segment <= SegmentOffset
  <2>1. t.segment \in Nat
    BY TransferTypes
  <2>2. t.segment # Base => t.segment <= SegmentOffset
    BY DEF IInv, OwnBuffer
  <2> QED BY <2>1, <2>2, <1>1, <1>2
<1>7. OwnBuffer'
  <2> SUFFICES ASSUME NEW t \in held' \cup current'
               PROVE  /\ t.segment # Base => t.segment <= SegmentOffset'
                      /\ \A p \in Parts : /\ t.id <= memory[t.segment][p]
                                          /\ t.segment # Base => memory[t.segment][p] = t.id
    BY DEF OwnBuffer
  <2>1. CASE t \in held \cup current
    <3>1. t.segment \in Nat
      BY <2>1, TransferTypes
    <3> QED BY <2>1, <3>1, <1>1, <1>2 DEF IInv, OwnBuffer
  <2>2. CASE t = new
    <3>1. t.id = 0 /\ t.segment = NextSegment
      BY <2>2
    <3>2. \A p \in Parts : memory[NextSegment][p] \in Nat
      BY <1>1, <1>2
    <3>3. NextSegment # Base => \A p \in Parts : memory[NextSegment][p] = 0
      BY <1>1, <1>2 DEF IInv, Unused
    <3> QED BY <1>1, <1>2, <3>1, <3>2, <3>3
  <2> QED BY <2>1, <2>2, <1>3 DEF workVars
<1>8. Copying'
  <2> SUFFICES ASSUME copying' # {} PROVE Copying'
    BY DEF Copying
  <2>1. copying' = Parts /\ held' = held /\ current' = current
    BY DEF workVars
  <2>2. Segment' # Base => \A t \in held \cup current : t.segment # Segment'
    BY <1>2, <1>6
  <2> QED BY <1>2, <2>1, <2>2 DEF Copying
<1>9. FirstReadsAreSafe'
  <2> SUFFICES ASSUME SegmentOffset' < SegmentCount, NEW t \in held', NEW u \in held'
               PROVE  t.segment # Base /\ (u.segment = t.segment => u = t)
    BY DEF FirstReadsAreSafe
  <2>1. SegmentOffset < SegmentCount /\ NextSegment = SegmentOffset + 1
    BY <1>1, <1>2, MemoryAssumption
  <2>2. ASSUME NEW v \in held PROVE v.segment # Base /\ v.segment # NextSegment
    BY <2>1, <2>2, <1>6 DEF IInv, FirstReadsAreSafe
  <2>3. new.segment = NextSegment /\ NextSegment # Base
    BY <2>1, <1>1 DEF Base
  <2>4. CASE t \in held /\ u \in held
    BY <2>4, <2>1 DEF IInv, FirstReadsAreSafe
  <2>5. CASE t = new \/ u = new
    BY <2>5, <2>2, <2>3, <1>3
  <2> QED BY <2>4, <2>5, <1>3
<1>10. OneCurrent' /\ DispatchedAsRead' /\ NeverOlder'
  BY DEF IInv, OneCurrent, DispatchedAsRead, NeverOlder, workVars
<1> QED BY <1>4, <1>5, <1>7, <1>8, <1>9, <1>10 DEF IInv

(* read() copies a part of its packet. *)
LEMMA CopiesPart ==
  ASSUME IInv, NEW p \in Parts, Copy(p)
  PROVE  IInv'
<1> DEFINE new == [id |-> nread, segment |-> Segment]
<1>1. /\ SegmentOffset \in 0 .. SegmentCount
      /\ memory \in [Segments -> [Parts -> Nat]]
      /\ nread \in Nat /\ held \subseteq TransferType /\ copying \subseteq Parts
  BY DEF IInv, TypeOK
<1>2. /\ Segment \in Segments
      /\ Segment # Base => Segment = SegmentOffset
      /\ SegmentOffset < SegmentCount => Segment = SegmentOffset
  BY <1>1, PointerInPool DEF Segment
<1>3. /\ p \in copying /\ copying' = copying \ {p}
      /\ memory' = [memory EXCEPT ![Segment][p] = nread]
      /\ held' = IF copying = {p} THEN held \cup {new} ELSE held
      /\ UNCHANGED <<SegmentOffset, nread, current, dispatching, looked, seen>>
  BY DEF Copy, workVars
<1>4. /\ SegmentOffset # 0
      /\ \A q \in Parts \ copying : memory[Segment][q] = nread
      /\ Segment # Base => \A t \in held \cup current : t.segment # Segment
  BY <1>3 DEF IInv, Copying
<1>5. /\ memory' \in [Segments -> [Parts -> Nat]]
      /\ \A s \in Segments : \A q \in Parts :
           memory'[s][q] = IF s = Segment /\ q = p THEN nread ELSE memory[s][q]
  BY <1>1, <1>2, <1>3
<1>6. \A s \in Segments : \A q \in Parts :
        memory[s][q] \in Nat /\ memory[s][q] <= nread /\ memory'[s][q] >= memory[s][q]
  BY <1>1, <1>5 DEF IInv, Unused
<1>7. new \in TransferType /\ new.id = nread /\ new.segment = Segment
  BY <1>1, <1>2 DEF TransferType
<1>8. TypeOK'
  <2>1. held' \subseteq TransferType /\ copying' \subseteq Parts
    BY <1>1, <1>3, <1>7
  <2> QED BY <1>3, <1>5, <2>1 DEF IInv, TypeOK
<1>9. Segment <= SegmentOffset /\ ~(Segment > SegmentOffset)
  BY <1>1, <1>2 DEF Base
<1>10. Unused'
  <2> SUFFICES ASSUME NEW s \in Segments, NEW q \in Parts
               PROVE  memory'[s][q] <= nread /\ (s > SegmentOffset => memory'[s][q] = 0)
    BY <1>3 DEF Unused
  <2>1. s > SegmentOffset => s # Segment
    BY <1>9
  <2>2. memory[s][q] <= nread /\ (s > SegmentOffset => memory[s][q] = 0)
    BY DEF IInv, Unused
  <2> QED BY <1>1, <1>5, <2>1, <2>2
<1>11. ASSUME NEW t \in held \cup current, NEW q \in Parts
       PROVE  /\ t.id <= memory'[t.segment][q]
              /\ t.segment # Base => memory'[t.segment][q] = t.id
  <2>1. t.segment \in Segments /\ t.id \in Nat
    BY TransferTypes
  <2>2. t.id <= memory[t.segment][q] /\ (t.segment # Base => memory[t.segment][q] = t.id)
    BY DEF IInv, OwnBuffer
  <2>3. t.segment = Segment => t.segment = Base
    BY <1>4
  <2> QED BY <1>1, <1>5, <1>6, <2>1, <2>2, <2>3
<1>12. copying = {p} => \A q \in Parts : memory'[Segment][q] = nread
  BY <1>2, <1>4, <1>5
<1>13. OwnBuffer'
  <2> SUFFICES ASSUME NEW t \in held' \cup current'
               PROVE  /\ t.segment # Base => t.segment <= SegmentOffset
                      /\ \A q \in Parts : /\ t.id <= memory'[t.segment][q]
                                          /\ t.segment # Base => memory'[t.segment][q] = t.id
    BY <1>3 DEF OwnBuffer
  <2>1. CASE t \in held \cup current
    BY <2>1, <1>11 DEF IInv, OwnBuffer
  <2>2. CASE t = new /\ copying = {p}
    BY <2>2, <1>1, <1>7, <1>9, <1>12
  <2> QED BY <2>1, <2>2, <1>3
<1>14. Copying'
  <2>1. Segment' = Segment
    BY <1>3 DEF Segment
  <2> SUFFICES ASSUME copying' # {}
               PROVE  /\ \A q \in Parts \ copying' : memory'[Segment][q] = nread
                      /\ Segment # Base => \A t \in held' \cup current' : t.segment # Segment
    BY <1>3, <1>4, <2>1 DEF Copying
  <2>2. held' = held
    BY <1>3
  <2> QED BY <1>2, <1>3, <1>4, <1>5, <2>2
<1>15. FirstReadsAreSafe'
  <2> SUFFICES ASSUME SegmentOffset < SegmentCount, NEW t \in held', NEW u \in held'
               PROVE  t.segment # Base /\ (u.segment = t.segment => u = t)
    BY <1>3 DEF FirstReadsAreSafe
  <2>1. Segment # Base
    BY <1>2, <1>4 DEF Base
  <2>2. \A v \in held : v.segment # Base /\ v.segment # Segment
    BY <1>4, <2>1 DEF IInv, FirstReadsAreSafe
  <2>3. CASE t \in held /\ u \in held
    BY <2>3 DEF IInv, FirstReadsAreSafe
  <2>4. CASE t = new \/ u = new
    BY <2>1, <2>2, <2>4, <1>3, <1>7
  <2> QED BY <2>3, <2>4, <1>3
<1>16. OneCurrent' /\ DispatchedAsRead' /\ NeverOlder'
  BY <1>3 DEF IInv, OneCurrent, DispatchedAsRead, NeverOlder
<1> QED BY <1>8, <1>10, <1>13, <1>14, <1>15, <1>16 DEF IInv

(* The worker looks at a part: it is of the message, or of a later one     *)
(* when the buffer is the first segment.                                   *)
LEMMA LooksAtPart ==
  ASSUME IInv, NEW t \in current, Look(t)
  PROVE  IInv'
<1>1. /\ looked \in 0 .. PayloadEnd /\ seen \in [Parts -> Nat]
      /\ memory \in [Segments -> [Parts -> Nat]] /\ PayloadEnd \in Nat
  BY BuffersAssumption DEF IInv, TypeOK
<1>2. PICK n \in Parts : n = looked + 1
  BY <1>1 DEF Look, Parts
<1>3. /\ looked' = n /\ seen' = [seen EXCEPT ![n] = memory[t.segment][n]]
      /\ UNCHANGED <<SegmentOffset, memory, nread, copying, held, current, dispatching>>
  BY <1>2 DEF Look, netVars
<1>4. /\ t.segment \in Segments /\ t.id \in Nat
      /\ t.id <= memory[t.segment][n] /\ (t.segment # Base => memory[t.segment][n] = t.id)
  BY TransferTypes DEF IInv, OwnBuffer
<1>5. /\ seen' \in [Parts -> Nat] /\ looked' \in 0 .. PayloadEnd
      /\ seen'[n] = memory[t.segment][n]
      /\ \A p \in 1 .. n - 1 : p \in 1 .. looked /\ seen'[p] = seen[p]
  <2>1. memory[t.segment][n] \in Nat
    BY <1>1, <1>4
  <2> QED BY <1>1, <1>2, <1>3, <2>1 DEF Parts
<1>6. TypeOK' /\ Unused' /\ OwnBuffer' /\ Copying' /\ OneCurrent' /\ FirstReadsAreSafe'
  BY <1>3, <1>5 DEF IInv, TypeOK, Unused, OwnBuffer, Copying, Segment, OneCurrent,
                    FirstReadsAreSafe
<1>7. \A p \in 1 .. looked' : p = n \/ p \in 1 .. n - 1
  BY <1>2, <1>3 DEF Parts
<1>8. current = {t}
  BY DEF IInv, OneCurrent
<1>9. ASSUME NEW p \in 1 .. looked'
      PROVE  seen'[p] >= t.id /\ (t.segment # Base => seen'[p] = t.id)
  <2>1. CASE p = n
    BY <1>1, <1>4, <1>5, <2>1
  <2>2. CASE p \in 1 .. n - 1
    BY <1>5, <2>2 DEF IInv, DispatchedAsRead, NeverOlder
  <2> QED BY <1>7, <2>1, <2>2
<1>10. DispatchedAsRead' /\ NeverOlder'
  BY <1>3, <1>8, <1>9 DEF DispatchedAsRead, NeverOlder
<1> QED BY <1>6, <1>10 DEF IInv

(* Every step keeps the invariant. *)
LEMMA NextIInv == IInv /\ [Next]_vars => IInv'
<1> SUFFICES ASSUME IInv, [Next]_vars PROVE IInv'
  OBVIOUS
<1>1. CASE Receive
  BY <1>1, TakesSegment DEF Receive
<1>2. CASE ReceiveError
  BY <1>2, TakesSegment DEF ReceiveError
<1>3. CASE ReceiveEnd
  BY <1>3, TakesSegment DEF ReceiveEnd
<1>4. CASE \E p \in Parts : Copy(p)
  BY <1>4, CopiesPart
<1>5. ASSUME NEW t \in held, DispatchMessage(t) PROVE IInv'
  <2>1. t \in TransferType
    BY TransferTypes
  <2>2. current' = {t} /\ looked' = 0 /\ dispatching' = TRUE
    BY <1>5 DEF DispatchMessage
  <2>3. UNCHANGED <<SegmentOffset, memory, nread, copying, held, seen>>
    BY <1>5 DEF DispatchMessage, netVars
  <2>4. TypeOK'
    BY <2>1, <2>2, <2>3, BuffersAssumption DEF IInv, TypeOK
  <2>5. Unused' /\ FirstReadsAreSafe' /\ OwnBuffer' /\ OneCurrent'
    BY <2>2, <2>3 DEF IInv, Unused, FirstReadsAreSafe, OwnBuffer, OneCurrent
  <2>6. Copying'
    BY <2>2, <2>3 DEF IInv, Copying, Segment
  <2>7. DispatchedAsRead' /\ NeverOlder'
    BY <2>2 DEF DispatchedAsRead, NeverOlder
  <2> QED BY <2>4, <2>5, <2>6, <2>7 DEF IInv
<1>6. ASSUME NEW t \in current, Look(t) PROVE IInv'
  BY <1>6, LooksAtPart
<1>7. ASSUME held' \subseteq held, dispatching' \in BOOLEAN,
             UNCHANGED <<netVars, current, looked, seen>>
      PROVE  IInv'
  BY <1>7 DEF IInv, TypeOK, Unused, OwnBuffer, Copying, Segment, OneCurrent,
              FirstReadsAreSafe, DispatchedAsRead, NeverOlder, netVars
<1>8. CASE EndDispatch
  BY <1>7, <1>8 DEF EndDispatch
<1>9. ASSUME NEW t \in held, Lose(t) PROVE IInv'
  BY <1>7, <1>9 DEF Lose, workVars, IInv, TypeOK
<1>10. CASE UNCHANGED vars
  BY <1>7, <1>10 DEF vars, workVars, IInv, TypeOK
<1> QED BY <1>1, <1>2, <1>3, <1>4, <1>5, <1>6, <1>8, <1>9, <1>10 DEF Next

(* The invariant holds in every behaviour. *)
LEMMA Invariance == Spec => []IInv
BY InitIInv, NextIInv, PTL DEF Spec

-----------------------------------------------------------------------------
(* Types are kept; no read() is given an address outside of the pool. *)
THEOREM TypeCorrect == Spec => []TypeOK
<1>1. IInv => TypeOK
  BY DEF IInv
<1> QED BY <1>1, Invariance, PTL

(* A message that has a segment of its own is dispatched as it was read,   *)
(* byte for byte.                                                          *)
THEOREM NoReuse == Spec => []DispatchedAsRead
<1>1. IInv => DispatchedAsRead
  BY DEF IInv
<1> QED BY <1>1, Invariance, PTL

(* Until the pool is used up every message has one. *)
THEOREM PoolSuffices == Spec => []FirstReadsAreSafe
<1>1. IInv => FirstReadsAreSafe
  BY DEF IInv
<1> QED BY <1>1, Invariance, PTL

(* Afterwards what is dispatched in place of a message may be mixed from   *)
(* several, even within its type or its session, but of none that came     *)
(* before it.                                                              *)
THEOREM OnlyNewer == Spec => []NeverOlder
<1>1. IInv => NeverOlder
  BY DEF IInv
<1> QED BY <1>1, Invariance, PTL
=============================================================================
