----------------------- MODULE MessageHandler_proofs -----------------------
(***************************************************************************)
(* The worker's passes and the store of sessions, for every number of      *)
(* requests, sessions and messages per pass.                               *)
(*                                                                         *)
(* The inductive invariant IInv adds to the properties where the loops of  *)
(* a pass are (LoopInv), that the container is a finite map (StoreFinite)  *)
(* and that the clock is ahead of every stored message (ClockAhead).       *)
(***************************************************************************)
EXTENDS MessageHandler, FiniteSetTheorems, TLAPS

-----------------------------------------------------------------------------
(* What the operations on vectors and queues do, as facts about functions  *)
(* on an interval: the form in which the proofs below use them.            *)

(* An element of a sequence over S is in S. *)
LEMMA SeqElement ==
  ASSUME NEW S, NEW s \in Seq(S), NEW k \in 1 .. Len(s)
  PROVE  s[k] \in S
OBVIOUS

(* Putting an element in front: vector::insert at begin(). *)
LEMMA ConsFcn ==
  ASSUME NEW S, NEW s \in Seq(S), NEW x \in S
  PROVE  /\ <<x>> \o s \in Seq(S)
         /\ Len(<<x>> \o s) = Len(s) + 1
         /\ (<<x>> \o s)[1] = x
         /\ \A k \in 2 .. Len(s) + 1 : (<<x>> \o s)[k] = s[k - 1]
OBVIOUS

(* Putting an element behind: vector::push_back, queue::push. *)
LEMMA AppendFcn ==
  ASSUME NEW S, NEW s \in Seq(S), NEW x \in S
  PROVE  /\ Append(s, x) \in Seq(S)
         /\ Len(Append(s, x)) = Len(s) + 1
         /\ Append(s, x)[Len(s) + 1] = x
         /\ \A k \in 1 .. Len(s) : Append(s, x)[k] = s[k]
OBVIOUS

(* Taking the first element off: queue::pop. *)
LEMMA TailFcn ==
  ASSUME NEW S, NEW s \in Seq(S), s # <<>>
  PROVE  /\ Len(s) \in Nat \ {0}
         /\ Tail(s) \in Seq(S)
         /\ Len(Tail(s)) = Len(s) - 1
         /\ \A k \in 1 .. Len(s) - 1 : Tail(s)[k] = s[k + 1]
         /\ Head(s) = s[1] /\ s[1] \in S
OBVIOUS

(* Taking the last element off: vector::pop_back. *)
LEMMA FrontFcn ==
  ASSUME NEW S, NEW s \in Seq(S), s # <<>>
  PROVE  /\ Len(s) \in Nat \ {0}
         /\ Front(s) \in Seq(S)
         /\ Len(Front(s)) = Len(s) - 1
         /\ \A k \in 1 .. Len(s) - 1 : Front(s)[k] = s[k]
         /\ Last(s) = s[Len(s)] /\ s[Len(s)] \in S
<1>1. PICK n \in Nat \ {0} : n = Len(s)
  OBVIOUS
<1>2. \A k \in 1 .. n - 1 : s[k] \in S
  BY <1>1
<1>3. /\ SubSeq(s, 1, n - 1) \in Seq(S)
      /\ Len(SubSeq(s, 1, n - 1)) = n - 1
      /\ \A k \in 1 .. n - 1 : SubSeq(s, 1, n - 1)[k] = s[k]
  BY <1>2
<1>4. s[n] \in S
  BY <1>1
<1>5. QED
  BY <1>1, <1>3, <1>4 DEF Front, Last

(* Two sequences are equal when they have the same length and elements. *)
LEMMA SameSeq ==
  ASSUME NEW S, NEW s \in Seq(S), NEW t \in Seq(S), Len(s) = Len(t),
         \A k \in 1 .. Len(s) : s[k] = t[k]
  PROVE  s = t
OBVIOUS

(* Reverse, without the length in it. *)
LEMMA ReverseFcn ==
  ASSUME NEW S, NEW s \in Seq(S)
  PROVE  /\ Reverse(s) \in Seq(S)
         /\ Len(Reverse(s)) = Len(s)
         /\ \A k \in 1 .. Len(s) : Reverse(s)[k] = s[Len(s) - k + 1]
<1>1. PICK m \in Nat : m = Len(s)
  OBVIOUS
<1>2. \A k \in 1 .. m : m - k + 1 \in 1 .. m
  OBVIOUS
<1>3. \A k \in 1 .. m : s[m - k + 1] \in S
  BY <1>1, <1>2
<1>4. QED
  BY <1>1, <1>3 DEF Reverse

(* One sequence behind the other. *)
LEMMA ConcatFcn ==
  ASSUME NEW S, NEW s \in Seq(S), NEW t \in Seq(S)
  PROVE  /\ s \o t \in Seq(S)
         /\ Len(s \o t) = Len(s) + Len(t)
         /\ \A k \in 1 .. Len(s) : (s \o t)[k] = s[k]
         /\ \A k \in Len(s) + 1 .. Len(s) + Len(t) : (s \o t)[k] = t[k - Len(s)]
OBVIOUS

(* A part of a sequence. *)
LEMMA SubSeqFcn ==
  ASSUME NEW S, NEW s \in Seq(S), NEW m \in 1 .. Len(s) + 1, NEW n \in 0 .. Len(s), m <= n + 1
  PROVE  /\ SubSeq(s, m, n) \in Seq(S)
         /\ Len(SubSeq(s, m, n)) = n - m + 1
         /\ \A k \in 1 .. n - m + 1 : SubSeq(s, m, n)[k] = s[m + k - 1]
<1>1. \A k \in m .. n : s[k] \in S
  OBVIOUS
<1>2. m \in Int /\ n \in Int
  OBVIOUS
<1>3. QED
  BY <1>1, <1>2

(* One erasure of the erase loop, inside the vector and past its end. *)
LEMMA EraseAtFcn ==
  ASSUME NEW S, NEW s \in Seq(S), s # <<>>, NEW k \in Nat
  PROVE  /\ EraseAt(s, k) \in Seq(S)
         /\ Len(EraseAt(s, k)) = Len(s) - 1
         /\ \A p \in 1 .. Len(s) - 1 :
              p > k => k < Len(s) /\ EraseAt(s, k)[p] = s[p + 1]
<1>1. CASE k < Len(s)
  <2> DEFINE a == SubSeq(s, 1, k)
             b == SubSeq(s, k + 2, Len(s))
  <2>1. PICK n \in Nat : n = Len(s) /\ k < n
    BY <1>1
  <2>2. /\ a \in Seq(S) /\ Len(a) = k
    <3>1. 1 \in 1 .. Len(s) + 1 /\ k \in 0 .. Len(s) /\ 1 <= k + 1
      BY <2>1
    <3>2. QED
      BY <3>1, SubSeqFcn
  <2>3. /\ b \in Seq(S) /\ Len(b) = n - (k + 1)
        /\ \A p \in 1 .. n - (k + 1) : b[p] = s[p + k + 1]
    <3>1. /\ k + 2 \in 1 .. Len(s) + 1 /\ Len(s) \in 0 .. Len(s)
          /\ k + 2 <= Len(s) + 1
      BY <2>1
    <3>2. /\ b \in Seq(S) /\ Len(b) = Len(s) - (k + 2) + 1
          /\ \A p \in 1 .. Len(s) - (k + 2) + 1 : b[p] = s[(k + 2) + p - 1]
      BY <3>1, SubSeqFcn
    <3>3. \A p \in 1 .. n - (k + 1) : (k + 2) + p - 1 = p + k + 1
      BY <2>1
    <3>4. n - (k + 1) = Len(s) - (k + 2) + 1
      BY <2>1
    <3>5. QED
      BY <3>2, <3>3, <3>4
  <2>4. EraseAt(s, k) = a \o b
    <3>1. (k + 1) - 1 = k /\ (k + 1) + 1 = k + 2
      OBVIOUS
    <3>2. EraseAt(s, k) = SubSeq(s, 1, (k + 1) - 1) \o SubSeq(s, (k + 1) + 1, Len(s))
      BY <1>1 DEF EraseAt, RemoveAt
    <3>3. QED
      BY <3>1, <3>2
  <2> HIDE DEF a, b
  <2>5. /\ a \o b \in Seq(S)
        /\ Len(a \o b) = n - 1
        /\ \A p \in k + 1 .. n - 1 : (a \o b)[p] = b[p - k]
    <3>1. Len(a) + Len(b) = n - 1
      BY <2>1, <2>2, <2>3
    <3>2. /\ a \o b \in Seq(S) /\ Len(a \o b) = Len(a) + Len(b)
          /\ \A p \in Len(a) + 1 .. Len(a) + Len(b) : (a \o b)[p] = b[p - Len(a)]
      <4>1. a \in Seq(S) /\ b \in Seq(S)
        BY <2>2, <2>3
      <4>2. QED
        BY <4>1, ConcatFcn
    <3>3. QED
      BY <2>2, <3>1, <3>2
  <2>6. \A p \in k + 1 .. n - 1 :
          p - k \in 1 .. n - (k + 1) /\ (p - k) + k + 1 = p + 1
    BY <2>1
  <2>7. \A p \in k + 1 .. n - 1 : (a \o b)[p] = s[p + 1]
    BY <2>3, <2>5, <2>6
  <2>8. /\ EraseAt(s, k) \in Seq(S)
        /\ Len(EraseAt(s, k)) = Len(s) - 1
    BY <2>1, <2>4, <2>5
  <2>9. ASSUME NEW p \in 1 .. Len(s) - 1, p > k
        PROVE  EraseAt(s, k)[p] = s[p + 1]
    <3>1. p \in k + 1 .. n - 1
      BY <2>1, <2>9
    <3>2. QED
      BY <2>4, <2>7, <3>1
  <2>10. QED
    BY <1>1, <2>8, <2>9
<1>2. CASE ~(k < Len(s))
  <2>1. EraseAt(s, k) = Front(s)
    BY <1>2 DEF EraseAt
  <2>2. QED
    BY <1>2, <2>1, FrontFcn
<1>3. QED
  BY <1>1, <1>2

(* An erasure inside the vector: the elements before it stay, those behind *)
(* it come one place forward.                                              *)
LEMMA EraseInside ==
  ASSUME NEW S, NEW s \in Seq(S), NEW k \in Nat, k < Len(s)
  PROVE  /\ EraseAt(s, k) \in Seq(S) /\ Len(EraseAt(s, k)) = Len(s) - 1
         /\ \A p \in 1 .. k : EraseAt(s, k)[p] = s[p]
         /\ \A p \in k + 1 .. Len(s) - 1 : EraseAt(s, k)[p] = s[p + 1]
<1> DEFINE a == SubSeq(s, 1, k)
           b == SubSeq(s, k + 2, Len(s))
<1>1. PICK n \in Nat : n = Len(s) /\ k < n
  OBVIOUS
<1>2. a \in Seq(S) /\ Len(a) = k /\ \A p \in 1 .. k : a[p] = s[p]
  BY <1>1, SubSeqFcn
<1>3. b \in Seq(S) /\ Len(b) \in Nat
  BY <1>1, SubSeqFcn
<1>4. EraseAt(s, k) = a \o b
  <2>1. (k + 1) - 1 = k /\ (k + 1) + 1 = k + 2
    OBVIOUS
  <2>2. EraseAt(s, k) = SubSeq(s, 1, (k + 1) - 1) \o SubSeq(s, (k + 1) + 1, Len(s))
    BY DEF EraseAt, RemoveAt
  <2> QED
    BY <2>1, <2>2
<1> HIDE DEF a, b
<1>5. \A p \in 1 .. k : (a \o b)[p] = a[p]
  <2>1. \A p \in 1 .. Len(a) : (a \o b)[p] = a[p]
    BY <1>2, <1>3, ConcatFcn
  <2> QED
    BY <1>2, <2>1
<1>6. /\ EraseAt(s, k) \in Seq(S) /\ Len(EraseAt(s, k)) = Len(s) - 1
      /\ \A p \in 1 .. Len(s) - 1 : p > k => EraseAt(s, k)[p] = s[p + 1]
  <2>1. s # <<>>
    BY <1>1
  <2> QED
    BY <2>1, EraseAtFcn
<1>7. \A p \in k + 1 .. Len(s) - 1 : p \in 1 .. Len(s) - 1 /\ p > k
  BY <1>1
<1> QED
  BY <1>2, <1>4, <1>5, <1>6, <1>7

-----------------------------------------------------------------------------
(* The dispatch loop stays inside the vector and notes at most one index   *)
(* per turn; every noted index has an element left that can be erased.     *)
LoopInv ==
  /\ work = "dispatch" => /\ MsgCount <= Len(QueueMessages)
                          /\ Len(DeleteMessages) <= i
  /\ work = "erase" => /\ i <= Len(DeleteMessages)
                       /\ Len(DeleteMessages) <= MsgCount
                       /\ Len(DeleteMessages) - i <= Len(QueueMessages)

StoreFinite == IsFiniteSet(DOMAIN SessionData)

ClockAhead ==
  \A s \in DOMAIN SessionData :
    \A p \in DOMAIN SessionData[s] : SessionData[s][p].time \in 1 .. clock

IInv ==
  /\ TypeOK
  /\ LoopInv
  /\ StoreFinite
  /\ SessionsBounded
  /\ ClockAhead
  /\ NewestFirst
  /\ StoredOrDelivered

-----------------------------------------------------------------------------
(* Types and loop bounds. *)

(* A message the loop dispatches is one of the vector. *)
LEMMA CurrentType ==
  ASSUME TypeOK, LoopInv, Dispatching
  PROVE  /\ Current \in Entry
         /\ Current.id \in Nat
         /\ Current.req \in Requests
         /\ i \in 0 .. PER_LOOP - 1
         /\ i + 1 \in 0 .. MsgCount
<1>1. i \in Nat /\ MsgCount \in Nat /\ i < MsgCount /\ MsgCount <= PER_LOOP
  BY HandlerAssumption DEF TypeOK, Dispatching
<1>2. QueueMessages \in Seq(Entry) /\ i + 1 \in 1 .. Len(QueueMessages)
  BY <1>1 DEF TypeOK, LoopInv, Dispatching
<1>3. Current \in Entry
  BY <1>2 DEF Current
<1>4. Current.id \in Nat /\ Current.req \in Requests
  BY <1>3 DEF Entry
<1>5. QED
  BY <1>1, <1>3, <1>4, HandlerAssumption

(* A turn of the dispatch loop, by the way dispatchMessage returns. *)
LEMMA FinishTypes ==
  ASSUME TypeOK, LoopInv, Dispatching, Finish
  PROVE  /\ QueueMessages' \in Seq(Entry)
         /\ work' \in {"drain", "dispatch", "erase", "dead"}
         /\ MsgCount' \in 0 .. PER_LOOP
         /\ i' \in 0 .. MsgCount'
         /\ DeleteMessages' \in Seq(0 .. PER_LOOP - 1)
         /\ nread' \in Nat
         /\ processed' \subseteq Nat
         /\ LoopInv'
<1>1. /\ Current.id \in Nat
      /\ i \in 0 .. PER_LOOP - 1
      /\ i + 1 \in 0 .. MsgCount
  BY CurrentType
<1>2. /\ DeleteMessages \in Seq(0 .. PER_LOOP - 1)
      /\ Len(DeleteMessages) \in Nat
  BY DEF TypeOK
<1>3. /\ DeleteMessages' \in Seq(0 .. PER_LOOP - 1)
      /\ Len(DeleteMessages') = Len(DeleteMessages) + 1
  BY <1>1, <1>2, AppendFcn DEF Finish
<1>4. LoopInv'
  BY <1>1, <1>2, <1>3 DEF LoopInv, Finish, Dispatching
<1>5. QED
  BY <1>1, <1>3, <1>4 DEF TypeOK, Finish

LEMMA RetryTypes ==
  ASSUME TypeOK, LoopInv, Dispatching, Retry
  PROVE  /\ QueueMessages' \in Seq(Entry)
         /\ work' \in {"drain", "dispatch", "erase", "dead"}
         /\ MsgCount' \in 0 .. PER_LOOP
         /\ i' \in 0 .. MsgCount'
         /\ DeleteMessages' \in Seq(0 .. PER_LOOP - 1)
         /\ nread' \in Nat
         /\ processed' \subseteq Nat
         /\ LoopInv'
<1>1. i + 1 \in 0 .. MsgCount /\ i \in Nat
  BY CurrentType
<1>2. Len(DeleteMessages) \in Nat
  BY DEF TypeOK
<1>3. LoopInv'
  BY <1>1, <1>2 DEF LoopInv, Retry, Dispatching
<1>4. QED
  BY <1>1, <1>3 DEF TypeOK, Retry

(* What the store may hold, stated apart: most steps leave it alone. *)
StoreType ==
  /\ DOMAIN SessionData \subseteq {r.session : r \in Requests}
  /\ \A s \in DOMAIN SessionData : SessionData[s] \in Seq(Item)
  /\ clock \in Nat
  /\ delivered \subseteq Item

(* The message a SET stores. *)
NewItem == [id |-> Current.id, time |-> clock + 1]

LEMMA StoredForType ==
  ASSUME StoreType, NEW s
  PROVE  StoredFor(s) \in Seq(Item)
BY DEF StoreType, StoredFor, Known

(* What a SET does to the container, session by session. *)
LEMMA StoreStep ==
  ASSUME TypeOK, LoopInv, StoreMessage
  PROVE  LET s == Current.req.session
         IN  /\ NewItem \in Item
             /\ s \in {r.session : r \in Requests}
             /\ DOMAIN SessionData' = DOMAIN SessionData \cup {s}
             /\ SessionData'[s] = <<NewItem>> \o StoredFor(s)
             /\ \A t \in DOMAIN SessionData : t # s => SessionData'[t] = SessionData[t]
             /\ clock' = clock + 1
             /\ delivered' = delivered
<1> DEFINE s == Current.req.session
<1>1. /\ Current.id \in Nat /\ Current.req \in Requests
  BY CurrentType DEF StoreMessage
<1>2. clock \in Nat
  BY DEF TypeOK
<1>3. NewItem \in Item
  BY <1>1, <1>2 DEF NewItem, Item
<1>4. clock' = clock + 1 /\ delivered' = delivered
  BY DEF StoreMessage
<1>5. SessionData' = [t \in DOMAIN SessionData \cup {s} |->
                        IF t = s THEN <<NewItem>> \o StoredFor(s) ELSE SessionData[t]]
  BY <1>4 DEF StoreMessage, AddMessage, NewItem
<1>6. QED
  BY <1>1, <1>3, <1>4, <1>5

(* What a successful reply does to the container. *)
LEMMA DeliverStep ==
  ASSUME Deliver
  PROVE  LET s == Current.req.session
         IN  /\ s \in DOMAIN SessionData
             /\ DOMAIN SessionData' = DOMAIN SessionData
             /\ SessionData'[s] = <<>>
             /\ \A t \in DOMAIN SessionData : t # s => SessionData'[t] = SessionData[t]
             /\ clock' = clock
             /\ delivered' = delivered \cup Range(SessionData[s])
BY DEF Deliver, ClearMessages, StoredFor, Known

-----------------------------------------------------------------------------
LEMMA InitInv == Init => IInv
<1> SUFFICES ASSUME Init PROVE IInv
  OBVIOUS
<1>1. SessionData = <<>> /\ DOMAIN SessionData = {}
  BY DEF Init
<1>2. StoreFinite /\ SessionsBounded
  BY <1>1, FS_EmptySet, HandlerAssumption DEF StoreFinite, SessionsBounded
<1>3. TypeOK
  BY <1>1, HandlerAssumption DEF Init, TypeOK
<1>4. LoopInv
  BY DEF Init, LoopInv
<1>5. ClockAhead /\ NewestFirst
  BY <1>1 DEF ClockAhead, NewestFirst
<1>6. StoredOrDelivered
  <2>1. Stored = {} /\ delivered = {} /\ clock = 0
    BY <1>1 DEF Init, Stored
  <2>2. QED
    BY <1>1, <2>1 DEF StoredOrDelivered
<1>7. QED
  BY <1>2, <1>3, <1>4, <1>5, <1>6 DEF IInv

(* A step keeps the types and the loops inside the vector. *)
LEMMA TypeStep == TypeOK /\ LoopInv /\ [Next]_vars => TypeOK' /\ LoopInv'
<1> SUFFICES ASSUME TypeOK, LoopInv, [Next]_vars PROVE TypeOK' /\ LoopInv'
  OBVIOUS
<1>0. StoreType
  BY DEF TypeOK, StoreType
<1>a. ASSUME Dispatching, Finish \/ Retry, StoreType'
      PROVE  TypeOK' /\ LoopInv'
  BY <1>a, FinishTypes, RetryTypes DEF TypeOK, StoreType
<1>b. ASSUME UNCHANGED storeVars PROVE StoreType'
  BY <1>0, <1>b DEF StoreType, storeVars
<1>1. ASSUME NEW r \in Requests, Arrive(r) PROVE TypeOK' /\ LoopInv'
  <2>1. QueueMessages \in Seq(Entry) /\ [id |-> nread + 1, req |-> r] \in Entry
    BY <1>1 DEF TypeOK, Entry
  <2>2. QueueMessages' \in Seq(Entry)
    BY <1>1, <2>1, AppendFcn DEF Arrive
  <2>3. TypeOK'
    BY <1>1, <2>2 DEF TypeOK, Arrive, passVars, storeVars
  <2>4. QED
    BY <1>1, <2>3 DEF LoopInv, Arrive
<1>2. CASE StartPass
  <2>1. /\ MsgCount' \in 0 .. PER_LOOP /\ i' \in 0 .. MsgCount'
        /\ DeleteMessages' \in Seq(0 .. PER_LOOP - 1)
        /\ work' \in {"drain", "dispatch", "erase", "dead"}
    <3>1. CASE QueueMessages = <<>>
      BY <1>2, <3>1 DEF TypeOK, StartPass, passVars
    <3>2. CASE QueueMessages # <<>>
      <4>1. Len(QueueMessages) \in Nat
        BY DEF TypeOK
      <4>2. QED
        BY <1>2, <3>2, <4>1, HandlerAssumption DEF StartPass
    <3>3. QED
      BY <3>1, <3>2
  <2>2. TypeOK'
    BY <1>2, <2>1 DEF TypeOK, StartPass, storeVars
  <2>3. LoopInv'
    BY <1>2, HandlerAssumption DEF TypeOK, LoopInv, StartPass, passVars
  <2>4. QED
    BY <2>2, <2>3
<1>3. CASE RejectType
  BY <1>3, <1>a, <1>b DEF RejectType
<1>4. CASE RejectFull
  BY <1>4, <1>a, <1>b DEF RejectFull
<1>5. CASE IgnoreEmpty
  BY <1>5, <1>a, <1>b DEF IgnoreEmpty
<1>6. CASE StoreMessage
  <2> DEFINE s == Current.req.session
  <2>1. /\ NewItem \in Item
        /\ s \in {r.session : r \in Requests}
        /\ DOMAIN SessionData' = DOMAIN SessionData \cup {s}
        /\ SessionData'[s] = <<NewItem>> \o StoredFor(s)
        /\ \A t \in DOMAIN SessionData : t # s => SessionData'[t] = SessionData[t]
        /\ clock' = clock + 1
        /\ delivered' = delivered
    BY <1>6, StoreStep
  <2> HIDE DEF s
  <2>2. StoredFor(s) \in Seq(Item)
    BY <1>0, StoredForType
  <2>3. SessionData'[s] \in Seq(Item)
    BY <2>1, <2>2, ConsFcn
  <2>4. StoreType'
    <3>1. \A t \in DOMAIN SessionData' : SessionData'[t] \in Seq(Item)
      <4> SUFFICES ASSUME NEW t \in DOMAIN SessionData', t # s
                   PROVE  SessionData'[t] \in Seq(Item)
        BY <2>3
      <4>1. t \in DOMAIN SessionData /\ SessionData'[t] = SessionData[t]
        BY <2>1
      <4>2. SessionData[t] \in Seq(Item)
        BY <1>0, <4>1 DEF StoreType
      <4>3. QED
        BY <4>1, <4>2
    <3>2. clock' \in Nat /\ delivered' \subseteq Item
      BY <1>0, <2>1 DEF StoreType
    <3>3. DOMAIN SessionData' \subseteq {r.session : r \in Requests}
      BY <1>0, <2>1 DEF StoreType
    <3>4. QED
      BY <3>1, <3>2, <3>3 DEF StoreType
  <2>5. QED
    BY <1>6, <1>a, <2>4 DEF StoreMessage
<1>7. CASE RetryGet
  BY <1>7, <1>a, <1>b DEF RetryGet
<1>8. CASE FailSend
  BY <1>8, <1>a, <1>b DEF FailSend
<1>9. CASE Deliver
  <2> DEFINE s == Current.req.session
  <2>1. /\ s \in DOMAIN SessionData
        /\ DOMAIN SessionData' = DOMAIN SessionData
        /\ SessionData'[s] = <<>>
        /\ \A t \in DOMAIN SessionData : t # s => SessionData'[t] = SessionData[t]
        /\ clock' = clock
        /\ delivered' = delivered \cup Range(SessionData[s])
    BY <1>9, DeliverStep
  <2> HIDE DEF s
  <2>2. SessionData[s] \in Seq(Item)
    BY <1>0, <2>1 DEF StoreType
  <2>3. Range(SessionData[s]) \subseteq Item
    BY <2>2 DEF Range
  <2>4. StoreType'
    <3>1. \A t \in DOMAIN SessionData' : SessionData'[t] \in Seq(Item)
      <4> SUFFICES ASSUME NEW t \in DOMAIN SessionData'
                   PROVE  SessionData'[t] \in Seq(Item)
        OBVIOUS
      <4>1. CASE t = s
        BY <2>1, <4>1
      <4>2. CASE t # s
        <5>1. t \in DOMAIN SessionData /\ SessionData'[t] = SessionData[t]
          BY <2>1, <4>2
        <5>2. SessionData[t] \in Seq(Item)
          BY <1>0, <5>1 DEF StoreType
        <5>3. QED
          BY <5>1, <5>2
      <4>3. QED
        BY <4>1, <4>2
    <3>2. QED
      BY <1>0, <2>1, <2>3, <3>1 DEF StoreType
  <2>5. QED
    BY <1>9, <1>a, <2>4 DEF Deliver
<1>10. CASE EndDispatch
  <2>1. TypeOK'
    BY <1>10, HandlerAssumption DEF TypeOK, EndDispatch, storeVars
  <2>2. LoopInv'
    BY <1>10 DEF TypeOK, LoopInv, EndDispatch
  <2>3. QED
    BY <2>1, <2>2
<1>11. CASE EraseTurn
  <2> DEFINE k == DeleteMessages[i + 1]
  <2>1. /\ i \in Nat /\ MsgCount \in Nat /\ Len(DeleteMessages) \in Nat
        /\ i < Len(DeleteMessages) /\ Len(DeleteMessages) <= MsgCount
        /\ Len(DeleteMessages) - i <= Len(QueueMessages)
        /\ QueueMessages \in Seq(Entry)
    BY <1>11, HandlerAssumption DEF TypeOK, LoopInv, EraseTurn
  <2>2. k \in Nat
    <3>1. i + 1 \in 1 .. Len(DeleteMessages)
      BY <2>1
    <3>2. DeleteMessages \in Seq(0 .. PER_LOOP - 1)
      BY DEF TypeOK
    <3>3. k \in 0 .. PER_LOOP - 1
      BY <3>1, <3>2, SeqElement
    <3>4. QED
      BY <3>3, HandlerAssumption
  <2>3. QueueMessages # <<>>
    BY <2>1
  <2> HIDE DEF k
  <2>4. /\ EraseAt(QueueMessages, k) \in Seq(Entry)
        /\ Len(EraseAt(QueueMessages, k)) = Len(QueueMessages) - 1
    <3>1. QueueMessages \in Seq(Entry)
      BY <2>1
    <3>2. QED
      BY <3>1, <2>2, <2>3, EraseAtFcn
  <2>5. QueueMessages' = EraseAt(QueueMessages, k) /\ i' = i + 1
        /\ work' \in {"erase", "dead"}
        /\ UNCHANGED <<MsgCount, DeleteMessages, storeVars, nread, processed>>
    BY <1>11 DEF EraseTurn, k
  <2>6. i' \in 0 .. MsgCount
    BY <2>1, <2>5
  <2>7. TypeOK'
    BY <2>4, <2>5, <2>6 DEF TypeOK, storeVars
  <2>8. LoopInv'
    BY <2>1, <2>4, <2>5 DEF LoopInv
  <2>9. QED
    BY <2>7, <2>8
<1>12. CASE EndPass
  BY <1>12, HandlerAssumption DEF TypeOK, LoopInv, EndPass, storeVars
<1>13. CASE UNCHANGED vars
  <2>1. TypeOK'
    BY <1>13 DEF TypeOK, vars, passVars, storeVars
  <2>2. LoopInv'
    BY <1>13 DEF LoopInv, vars, passVars
  <2>3. QED
    BY <2>1, <2>2
<1>14. QED
  BY <1>1, <1>2, <1>3, <1>4, <1>5, <1>6, <1>7, <1>8, <1>9, <1>10, <1>11, <1>12, <1>13
  DEF Next, Pass, DispatchMessage

(* Only two of the steps touch the store. *)
LEMMA OtherSteps == [Next]_vars => StoreMessage \/ Deliver \/ UNCHANGED storeVars
BY DEF Next, Pass, DispatchMessage, vars, Arrive, StartPass, RejectType, RejectFull,
       IgnoreEmpty, RetryGet, FailSend, EndDispatch, EraseTurn, EndPass

(* A step keeps the container finite and within its limit. *)
LEMMA BoundStep ==
  TypeOK /\ LoopInv /\ StoreFinite /\ SessionsBounded /\ [Next]_vars
    => StoreFinite' /\ SessionsBounded'
<1> SUFFICES ASSUME TypeOK, LoopInv, StoreFinite, SessionsBounded, [Next]_vars
             PROVE  StoreFinite' /\ SessionsBounded'
  OBVIOUS
<1>1. CASE StoreMessage
  <2> DEFINE s == Current.req.session
             d == DOMAIN SessionData
             n == Cardinality(d)
  <2>1. DOMAIN SessionData' = d \cup {s}
    BY <1>1, StoreStep
  <2>2. IsFiniteSet(d) /\ n <= CLIENTS_MAX /\ n # CLIENTS_MAX
    BY <1>1 DEF StoreFinite, SessionsBounded, StoreMessage, Full
  <2> HIDE DEF s, d
  <2>3. /\ IsFiniteSet(d \cup {s}) /\ n \in Nat
        /\ Cardinality(d \cup {s}) \in {n, n + 1}
    <3>1. n \in Nat
      BY <2>2, FS_CardinalityType
    <3>2. s \in d => d \cup {s} = d
      OBVIOUS
    <3>3. /\ IsFiniteSet(d \cup {s})
          /\ Cardinality(d \cup {s}) = IF s \in d THEN n ELSE n + 1
      BY <2>2, FS_AddElement
    <3>4. QED
      BY <3>1, <3>3
  <2>4. Cardinality(d \cup {s}) <= CLIENTS_MAX
    BY <2>2, <2>3, HandlerAssumption
  <2>5. QED
    BY <2>1, <2>3, <2>4 DEF StoreFinite, SessionsBounded
<1>2. CASE Deliver
  <2>1. DOMAIN SessionData' = DOMAIN SessionData
    BY <1>2, DeliverStep
  <2>2. QED
    BY <2>1 DEF StoreFinite, SessionsBounded
<1>3. CASE UNCHANGED storeVars
  BY <1>3 DEF StoreFinite, SessionsBounded, storeVars
<1>4. QED
  BY <1>1, <1>2, <1>3, OtherSteps

(* A step keeps every session sorted and behind the clock. *)
LEMMA OrderStep ==
  TypeOK /\ LoopInv /\ ClockAhead /\ NewestFirst /\ [Next]_vars
    => ClockAhead' /\ NewestFirst'
<1> SUFFICES ASSUME TypeOK, LoopInv, ClockAhead, NewestFirst, [Next]_vars
             PROVE  ClockAhead' /\ NewestFirst'
  OBVIOUS
<1> DEFINE s == Current.req.session
           old == StoredFor(s)
           new == <<NewItem>> \o old
<1>0. clock \in Nat
  BY DEF TypeOK
<1>1. CASE StoreMessage
  <2>1. /\ NewItem \in Item
        /\ DOMAIN SessionData' = DOMAIN SessionData \cup {s}
        /\ SessionData'[s] = new
        /\ \A t \in DOMAIN SessionData : t # s => SessionData'[t] = SessionData[t]
        /\ clock' = clock + 1
    BY <1>1, StoreStep
  <2>2. old \in Seq(Item)
    BY StoredForType DEF TypeOK, StoreType
  <2>3. \A p \in DOMAIN old : old[p].time \in 1 .. clock
    BY DEF ClockAhead, StoredFor, Known
  <2>4. \A p, q \in DOMAIN old : p < q => old[p].time > old[q].time
    BY DEF NewestFirst, StoredFor, Known
  <2>5. NewItem.time = clock + 1
    BY DEF NewItem
  <2> HIDE DEF s, old
  <2>6. /\ DOMAIN old = 1 .. Len(old) /\ Len(old) \in Nat
        /\ DOMAIN new = 1 .. Len(old) + 1
        /\ new[1] = NewItem
        /\ \A p \in 2 .. Len(old) + 1 : new[p] = old[p - 1] /\ p - 1 \in 1 .. Len(old)
    <3>1. /\ new \in Seq(Item) /\ Len(new) = Len(old) + 1 /\ new[1] = NewItem
          /\ \A p \in 2 .. Len(old) + 1 : new[p] = old[p - 1]
      BY <2>1, <2>2, ConsFcn
    <3>2. Len(old) \in Nat /\ DOMAIN old = 1 .. Len(old)
      BY <2>2
    <3>3. \A p \in 2 .. Len(old) + 1 : p - 1 \in 1 .. Len(old)
      BY <3>2
    <3> HIDE DEF new
    <3>4. DOMAIN new = 1 .. Len(new)
      BY <3>1
    <3>5. QED
      BY <3>1, <3>2, <3>3, <3>4
  <2> HIDE DEF new
  <2>7. \A p \in DOMAIN new : new[p].time \in 1 .. clock + 1
    <3> SUFFICES ASSUME NEW p \in 1 .. Len(old) + 1 PROVE new[p].time \in 1 .. clock + 1
      BY <2>6
    <3>1. CASE p = 1
      BY <1>0, <2>5, <2>6, <3>1
    <3>2. CASE p # 1
      <4>1. p \in 2 .. Len(old) + 1 /\ p - 1 \in DOMAIN old /\ new[p] = old[p - 1]
        BY <2>6, <3>2
      <4>2. old[p - 1].time \in 1 .. clock
        BY <2>3, <4>1
      <4>3. QED
        BY <1>0, <4>1, <4>2
    <3>3. QED
      BY <3>1, <3>2
  <2>8. \A p, q \in DOMAIN new : p < q => new[p].time > new[q].time
    <3> SUFFICES ASSUME NEW p \in 1 .. Len(old) + 1, NEW q \in 1 .. Len(old) + 1, p < q
                 PROVE  new[p].time > new[q].time
      BY <2>6
    <3>1. q \in 2 .. Len(old) + 1 /\ q - 1 \in DOMAIN old /\ new[q] = old[q - 1]
      BY <2>6
    <3>2. CASE p = 1
      <4>1. old[q - 1].time \in 1 .. clock
        BY <2>3, <3>1
      <4>2. QED
        BY <1>0, <2>5, <2>6, <3>1, <3>2, <4>1
    <3>3. CASE p # 1
      <4>1. p \in 2 .. Len(old) + 1 /\ p - 1 \in DOMAIN old /\ new[p] = old[p - 1]
            /\ p - 1 < q - 1
        BY <2>6, <3>3
      <4>2. QED
        BY <2>4, <3>1, <4>1
    <3>4. QED
      BY <3>2, <3>3
  <2>9. ClockAhead'
    <3> SUFFICES ASSUME NEW t \in DOMAIN SessionData', NEW p \in DOMAIN SessionData'[t]
                 PROVE  SessionData'[t][p].time \in 1 .. clock'
      BY DEF ClockAhead
    <3>1. CASE t = s
      BY <2>1, <2>7, <3>1
    <3>2. CASE t # s
      <4>1. t \in DOMAIN SessionData /\ SessionData'[t] = SessionData[t]
        BY <2>1, <3>2
      <4>2. SessionData[t][p].time \in 1 .. clock
        BY <4>1 DEF ClockAhead
      <4>3. QED
        BY <1>0, <2>1, <4>1, <4>2
    <3>3. QED
      BY <3>1, <3>2
  <2>10. NewestFirst'
    <3> SUFFICES ASSUME NEW t \in DOMAIN SessionData'
                 PROVE  \A p, q \in DOMAIN SessionData'[t] :
                          p < q => SessionData'[t][p].time > SessionData'[t][q].time
      BY DEF NewestFirst
    <3>1. CASE t = s
      BY <2>1, <2>8, <3>1
    <3>2. CASE t # s
      <4>1. t \in DOMAIN SessionData /\ SessionData'[t] = SessionData[t]
        BY <2>1, <3>2
      <4>2. QED
        BY <4>1 DEF NewestFirst
    <3>3. QED
      BY <3>1, <3>2
  <2>11. QED
    BY <2>9, <2>10
<1>2. CASE Deliver
  <2>1. /\ DOMAIN SessionData' = DOMAIN SessionData
        /\ SessionData'[s] = <<>>
        /\ \A t \in DOMAIN SessionData : t # s => SessionData'[t] = SessionData[t]
        /\ clock' = clock
    BY <1>2, DeliverStep
  <2> HIDE DEF s
  <2>2. QED
    BY <2>1 DEF ClockAhead, NewestFirst
<1>3. CASE UNCHANGED storeVars
  BY <1>3 DEF ClockAhead, NewestFirst, storeVars
<1>4. QED
  BY <1>1, <1>2, <1>3, OtherSteps

(* What is in the store, element by element. *)
LEMMA InStored ==
  ASSUME NEW D, NEW x
  PROVE  x \in UNION {Range(D[s]) : s \in DOMAIN D}
           <=> \E s \in DOMAIN D : \E p \in DOMAIN D[s] : x = D[s][p]
BY DEF Range

(* A SET adds its message to the store, in one place. *)
LEMMA StoreAddsOne ==
  ASSUME TypeOK, LoopInv, StoreMessage
  PROVE  /\ Stored' = Stored \cup {NewItem}
         /\ \E s \in DOMAIN SessionData' : \E n \in Nat :
              /\ DOMAIN SessionData'[s] = 1 .. n + 1
              /\ SessionData'[s][1] = NewItem
              /\ \A p \in 2 .. n + 1 : /\ s \in DOMAIN SessionData
                                       /\ p - 1 \in DOMAIN SessionData[s]
                                       /\ SessionData'[s][p] = SessionData[s][p - 1]
              /\ s \in DOMAIN SessionData => DOMAIN SessionData[s] = 1 .. n
              /\ \A t \in DOMAIN SessionData' :
                   t # s => t \in DOMAIN SessionData /\ SessionData'[t] = SessionData[t]
              /\ DOMAIN SessionData \subseteq DOMAIN SessionData'
<1> DEFINE s == Current.req.session
           old == StoredFor(s)
           new == <<NewItem>> \o old
<1>1. /\ NewItem \in Item
      /\ DOMAIN SessionData' = DOMAIN SessionData \cup {s}
      /\ SessionData'[s] = new
      /\ \A t \in DOMAIN SessionData : t # s => SessionData'[t] = SessionData[t]
  BY StoreStep
<1>2. old \in Seq(Item)
  BY StoredForType DEF TypeOK, StoreType
<1>3. s \in DOMAIN SessionData => old = SessionData[s]
  BY DEF StoredFor, Known
<1>4. s \notin DOMAIN SessionData => old = <<>>
  BY DEF StoredFor, Known
<1> HIDE DEF s, old
<1>5. PICK n \in Nat : n = Len(old) /\ DOMAIN old = 1 .. n
  BY <1>2
<1>6. /\ DOMAIN new = 1 .. n + 1
      /\ new[1] = NewItem
      /\ \A p \in 2 .. n + 1 : new[p] = old[p - 1] /\ p - 1 \in 1 .. n
  <2>1. /\ new \in Seq(Item) /\ Len(new) = n + 1 /\ new[1] = NewItem
        /\ \A p \in 2 .. n + 1 : new[p] = old[p - 1]
    BY <1>1, <1>2, <1>5, ConsFcn
  <2> HIDE DEF new
  <2>2. QED
    BY <2>1, <1>5
<1> HIDE DEF new
<1>7. \A p \in 2 .. n + 1 : /\ s \in DOMAIN SessionData
                            /\ p - 1 \in DOMAIN SessionData[s]
                            /\ SessionData'[s][p] = SessionData[s][p - 1]
  <2> SUFFICES ASSUME NEW p \in 2 .. n + 1
               PROVE  /\ s \in DOMAIN SessionData
                      /\ p - 1 \in DOMAIN SessionData[s]
                      /\ SessionData'[s][p] = SessionData[s][p - 1]
    OBVIOUS
  <2>1. p - 1 \in DOMAIN old /\ new[p] = old[p - 1]
    BY <1>5, <1>6
  <2>2. s \in DOMAIN SessionData
    BY <1>4, <2>1
  <2>3. QED
    BY <1>1, <1>3, <2>1, <2>2
<1>8. Stored' = Stored \cup {NewItem}
  <2>1. \A x : x \in Stored <=> \E t \in DOMAIN SessionData :
                                  \E p \in DOMAIN SessionData[t] : x = SessionData[t][p]
    BY InStored DEF Stored
  <2>2. \A x : x \in Stored' <=> \E t \in DOMAIN SessionData' :
                                  \E p \in DOMAIN SessionData'[t] : x = SessionData'[t][p]
    BY InStored DEF Stored
  <2>3. ASSUME NEW x \in Stored' PROVE x \in Stored \cup {NewItem}
    <3>0. PICK t \in DOMAIN SessionData' : \E p \in DOMAIN SessionData'[t] : x = SessionData'[t][p]
      BY <2>2, <2>3
    <3>1. PICK p \in DOMAIN SessionData'[t] : x = SessionData'[t][p]
      BY <3>0
    <3>2. CASE t # s
      BY <1>1, <2>1, <3>1, <3>2
    <3>3. CASE t = s /\ p = 1
      BY <1>1, <1>6, <3>1, <3>3
    <3>4. CASE t = s /\ p # 1
      <4>1. p \in 2 .. n + 1
        BY <1>1, <1>5, <1>6, <3>4
      <4>2. QED
        BY <1>7, <2>1, <3>1, <3>4, <4>1
    <3>5. QED
      BY <3>2, <3>3, <3>4
  <2>4. ASSUME NEW x \in Stored PROVE x \in Stored'
    <3>0. PICK t \in DOMAIN SessionData : \E p \in DOMAIN SessionData[t] : x = SessionData[t][p]
      BY <2>1, <2>4
    <3>1. PICK p \in DOMAIN SessionData[t] : x = SessionData[t][p]
      BY <3>0
    <3>2. CASE t # s
      BY <1>1, <2>2, <3>1, <3>2
    <3>3. CASE t = s
      <4>1. p \in 1 .. n /\ p + 1 \in 2 .. n + 1 /\ (p + 1) - 1 = p
        BY <1>3, <1>5, <3>1, <3>3
      <4>2. /\ p + 1 \in DOMAIN SessionData'[s] /\ SessionData'[s][p + 1] = SessionData[s][p]
        BY <1>1, <1>5, <1>6, <1>7, <4>1
      <4>3. s \in DOMAIN SessionData'
        BY <1>1
      <4>4. QED
        BY <2>2, <3>1, <3>3, <4>2, <4>3
    <3>4. QED
      BY <3>2, <3>3
  <2>5. NewItem \in Stored'
    <3>1. s \in DOMAIN SessionData' /\ 1 \in DOMAIN SessionData'[s]
      BY <1>1, <1>5, <1>6
    <3>2. SessionData'[s][1] = NewItem
      BY <1>1, <1>6
    <3>3. QED
      BY <2>2, <3>1, <3>2
  <2>6. QED
    BY <2>3, <2>4, <2>5
<1>9. s \in DOMAIN SessionData => DOMAIN SessionData[s] = 1 .. n
  BY <1>3, <1>5
<1>10. QED
  BY <1>1, <1>5, <1>6, <1>7, <1>8, <1>9

(* A successful reply moves its session's messages, and no other. *)
LEMMA DeliverMoves ==
  ASSUME Deliver
  PROVE  \E s \in DOMAIN SessionData :
           /\ DOMAIN SessionData' = DOMAIN SessionData
           /\ SessionData'[s] = <<>>
           /\ \A t \in DOMAIN SessionData : t # s => SessionData'[t] = SessionData[t]
           /\ delivered' = delivered \cup Range(SessionData[s])
           /\ Stored' \cup delivered' = Stored \cup delivered
           /\ \A x \in Stored' : \E t \in DOMAIN SessionData :
                t # s /\ \E p \in DOMAIN SessionData[t] : x = SessionData[t][p]
<1> DEFINE s == Current.req.session
<1>1. /\ s \in DOMAIN SessionData
      /\ DOMAIN SessionData' = DOMAIN SessionData
      /\ SessionData'[s] = <<>>
      /\ \A t \in DOMAIN SessionData : t # s => SessionData'[t] = SessionData[t]
      /\ delivered' = delivered \cup Range(SessionData[s])
  BY DeliverStep
<1> HIDE DEF s
<1>2. \A x : x \in Stored <=> \E t \in DOMAIN SessionData :
                                \E p \in DOMAIN SessionData[t] : x = SessionData[t][p]
  BY InStored DEF Stored
<1>3. \A x : x \in Stored' <=> \E t \in DOMAIN SessionData' :
                                \E p \in DOMAIN SessionData'[t] : x = SessionData'[t][p]
  BY InStored DEF Stored
<1>4. \A x : x \in Range(SessionData[s]) <=> \E p \in DOMAIN SessionData[s] : x = SessionData[s][p]
  BY DEF Range
<1>5. DOMAIN <<>> = {}
  OBVIOUS
<1>6. \A x \in Stored' : \E t \in DOMAIN SessionData :
        t # s /\ \E p \in DOMAIN SessionData[t] : x = SessionData[t][p]
  BY <1>1, <1>3, <1>5
<1>7. \A x \in Stored : x \in Stored' \/ x \in Range(SessionData[s])
  BY <1>1, <1>2, <1>3, <1>4
<1>8. \A x \in Stored' : x \in Stored
  BY <1>2, <1>6
<1>9. \A x \in Range(SessionData[s]) : x \in Stored
  BY <1>1, <1>2, <1>4
<1>10. Stored' \cup delivered' = Stored \cup delivered
  BY <1>1, <1>7, <1>8, <1>9
<1>11. QED
  BY <1>1, <1>6, <1>10

(* A step neither loses a stored message nor keeps a delivered one. *)
LEMMA ConserveStep ==
  TypeOK /\ LoopInv /\ ClockAhead /\ StoredOrDelivered /\ [Next]_vars
    => StoredOrDelivered'
<1> SUFFICES ASSUME TypeOK, LoopInv, ClockAhead, StoredOrDelivered, [Next]_vars
             PROVE  StoredOrDelivered'
  OBVIOUS
<1>0. clock \in Nat
  BY DEF TypeOK
<1>1. /\ {m.time : m \in Stored \cup delivered} = 1 .. clock
      /\ \A m \in delivered, n \in Stored : m.time # n.time
      /\ \A s, t \in DOMAIN SessionData :
           \A p \in DOMAIN SessionData[s], q \in DOMAIN SessionData[t] :
             SessionData[s][p].time = SessionData[t][q].time => s = t /\ p = q
  BY DEF StoredOrDelivered
<1>2. CASE StoreMessage
  <2>1. clock' = clock + 1 /\ delivered' = delivered /\ NewItem.time = clock + 1
    BY <1>2, StoreStep DEF NewItem
  <2>2. Stored' = Stored \cup {NewItem}
    BY <1>2, StoreAddsOne
  <2>3. PICK s \in DOMAIN SessionData' : \E n \in Nat :
              /\ DOMAIN SessionData'[s] = 1 .. n + 1
              /\ SessionData'[s][1] = NewItem
              /\ \A p \in 2 .. n + 1 : /\ s \in DOMAIN SessionData
                                       /\ p - 1 \in DOMAIN SessionData[s]
                                       /\ SessionData'[s][p] = SessionData[s][p - 1]
              /\ \A t \in DOMAIN SessionData' :
                   t # s => t \in DOMAIN SessionData /\ SessionData'[t] = SessionData[t]
    BY <1>2, StoreAddsOne
  <2>4. PICK n \in Nat :
              /\ DOMAIN SessionData'[s] = 1 .. n + 1
              /\ SessionData'[s][1] = NewItem
              /\ \A p \in 2 .. n + 1 : /\ s \in DOMAIN SessionData
                                       /\ p - 1 \in DOMAIN SessionData[s]
                                       /\ SessionData'[s][p] = SessionData[s][p - 1]
              /\ \A t \in DOMAIN SessionData' :
                   t # s => t \in DOMAIN SessionData /\ SessionData'[t] = SessionData[t]
    BY <2>3
  <2>5. {m.time : m \in Stored' \cup delivered'} = 1 .. clock'
    <3>1. {m.time : m \in Stored' \cup delivered'}
            = {m.time : m \in Stored \cup delivered} \cup {NewItem.time}
      BY <2>1, <2>2
    <3>2. (1 .. clock) \cup {clock + 1} = 1 .. clock + 1
      BY <1>0
    <3>3. QED
      BY <1>1, <2>1, <3>1, <3>2
  <2>6. \A m \in delivered', x \in Stored' : m.time # x.time
    <3>1. \A m \in delivered : m.time \in 1 .. clock
      BY <1>1
    <3>2. \A m \in delivered : m.time # clock + 1
      BY <1>0, <3>1
    <3>3. QED
      BY <1>1, <2>1, <2>2, <3>2
  <2>7. ASSUME NEW a \in DOMAIN SessionData', NEW b \in DOMAIN SessionData',
               NEW p \in DOMAIN SessionData'[a], NEW q \in DOMAIN SessionData'[b],
               SessionData'[a][p].time = SessionData'[b][q].time
        PROVE  a = b /\ p = q
    <3>1. ASSUME NEW c \in DOMAIN SessionData', NEW r \in DOMAIN SessionData'[c],
                 ~(c = s /\ r = 1)
          PROVE  /\ c \in DOMAIN SessionData
                 /\ c = s => r \in Nat /\ r - 1 \in DOMAIN SessionData[c]
                             /\ SessionData'[c][r] = SessionData[c][r - 1]
                 /\ c # s => r \in DOMAIN SessionData[c]
                             /\ SessionData'[c][r] = SessionData[c][r]
                 /\ SessionData'[c][r].time \in 1 .. clock
      <4>1. CASE c = s
        <5>1. r \in 2 .. n + 1
          BY <2>4, <3>1, <4>1
        <5>2. /\ c \in DOMAIN SessionData /\ r - 1 \in DOMAIN SessionData[c]
              /\ SessionData'[c][r] = SessionData[c][r - 1]
          BY <2>4, <4>1, <5>1
        <5>3. SessionData[c][r - 1].time \in 1 .. clock
          BY <5>2 DEF ClockAhead
        <5>4. QED
          BY <4>1, <5>1, <5>2, <5>3
      <4>2. CASE c # s
        <5>1. c \in DOMAIN SessionData /\ SessionData'[c] = SessionData[c]
          BY <2>4, <4>2
        <5>2. r \in DOMAIN SessionData[c]
          BY <5>1
        <5>3. SessionData[c][r].time \in 1 .. clock
          BY <5>1, <5>2 DEF ClockAhead
        <5>4. QED
          BY <4>2, <5>1, <5>2, <5>3
      <4>3. QED
        BY <4>1, <4>2
    <3>2. SessionData'[s][1].time = clock + 1
      BY <2>1, <2>4
    <3>3. clock + 1 \notin 1 .. clock
      BY <1>0
    <3>4. CASE a = s /\ p = 1
      BY <2>7, <3>1, <3>2, <3>3, <3>4
    <3>5. CASE b = s /\ q = 1
      BY <2>7, <3>1, <3>2, <3>3, <3>5
    <3>6. CASE ~(a = s /\ p = 1) /\ ~(b = s /\ q = 1)
      <4>1. CASE a = s /\ b = s
        <5>1. /\ p \in Nat /\ q \in Nat
              /\ p - 1 \in DOMAIN SessionData[s] /\ q - 1 \in DOMAIN SessionData[s]
              /\ s \in DOMAIN SessionData
              /\ SessionData[s][p - 1].time = SessionData[s][q - 1].time
          BY <2>7, <3>1, <3>6, <4>1
        <5>2. p - 1 = q - 1
          BY <1>1, <5>1
        <5>3. QED
          BY <4>1, <5>1, <5>2
      <4>2. CASE a = s /\ b # s
        <5>1. /\ p - 1 \in DOMAIN SessionData[a] /\ q \in DOMAIN SessionData[b]
              /\ a \in DOMAIN SessionData /\ b \in DOMAIN SessionData
              /\ SessionData[a][p - 1].time = SessionData[b][q].time
          BY <2>7, <3>1, <3>6, <4>2
        <5>2. QED
          BY <1>1, <4>2, <5>1
      <4>3. CASE a # s /\ b = s
        <5>1. /\ p \in DOMAIN SessionData[a] /\ q - 1 \in DOMAIN SessionData[b]
              /\ a \in DOMAIN SessionData /\ b \in DOMAIN SessionData
              /\ SessionData[a][p].time = SessionData[b][q - 1].time
          BY <2>7, <3>1, <3>6, <4>3
        <5>2. QED
          BY <1>1, <4>3, <5>1
      <4>4. CASE a # s /\ b # s
        <5>1. /\ p \in DOMAIN SessionData[a] /\ q \in DOMAIN SessionData[b]
              /\ a \in DOMAIN SessionData /\ b \in DOMAIN SessionData
              /\ SessionData[a][p].time = SessionData[b][q].time
          BY <2>7, <3>1, <3>6, <4>4
        <5>2. QED
          BY <1>1, <5>1
      <4>5. QED
        BY <4>1, <4>2, <4>3, <4>4
    <3>7. QED
      BY <3>4, <3>5, <3>6
  <2>8. QED
    BY <2>5, <2>6, <2>7 DEF StoredOrDelivered
<1>3. CASE Deliver
  <2>1. PICK s \in DOMAIN SessionData :
           /\ DOMAIN SessionData' = DOMAIN SessionData
           /\ SessionData'[s] = <<>>
           /\ \A t \in DOMAIN SessionData : t # s => SessionData'[t] = SessionData[t]
           /\ delivered' = delivered \cup Range(SessionData[s])
           /\ Stored' \cup delivered' = Stored \cup delivered
           /\ \A x \in Stored' : \E t \in DOMAIN SessionData :
                t # s /\ \E p \in DOMAIN SessionData[t] : x = SessionData[t][p]
    BY <1>3, DeliverMoves
  <2>2. clock' = clock
    BY <1>3 DEF Deliver
  <2>3. {m.time : m \in Stored' \cup delivered'} = 1 .. clock'
    BY <1>1, <2>1, <2>2
  <2>4. \A m \in delivered', x \in Stored' : m.time # x.time
    <3>1. \A x : x \in Stored <=> \E t \in DOMAIN SessionData :
                                    \E p \in DOMAIN SessionData[t] : x = SessionData[t][p]
      BY InStored DEF Stored
    <3>2. ASSUME NEW m \in Range(SessionData[s]), NEW x \in Stored' PROVE m.time # x.time
      <4>1. PICK p \in DOMAIN SessionData[s] : m = SessionData[s][p]
        BY DEF Range
      <4>2. PICK t \in DOMAIN SessionData :
              t # s /\ \E q \in DOMAIN SessionData[t] : x = SessionData[t][q]
        BY <2>1
      <4>3. PICK q \in DOMAIN SessionData[t] : x = SessionData[t][q]
        BY <4>2
      <4>4. QED
        BY <1>1, <4>1, <4>2, <4>3
    <3>3. \A x \in Stored' : x \in Stored
      BY <2>1, <3>1
    <3>4. QED
      BY <1>1, <2>1, <3>2, <3>3
  <2>5. ASSUME NEW a \in DOMAIN SessionData', NEW b \in DOMAIN SessionData',
               NEW p \in DOMAIN SessionData'[a], NEW q \in DOMAIN SessionData'[b],
               SessionData'[a][p].time = SessionData'[b][q].time
        PROVE  a = b /\ p = q
    <3>1. DOMAIN <<>> = {}
      OBVIOUS
    <3>2. a # s /\ b # s /\ a \in DOMAIN SessionData /\ b \in DOMAIN SessionData
      BY <2>1, <3>1
    <3>3. SessionData'[a] = SessionData[a] /\ SessionData'[b] = SessionData[b]
      BY <2>1, <3>2
    <3>4. QED
      BY <1>1, <2>5, <3>2, <3>3
  <2>6. QED
    BY <2>3, <2>4, <2>5 DEF StoredOrDelivered
<1>4. CASE UNCHANGED storeVars
  <2>1. Stored' = Stored /\ SessionData' = SessionData
        /\ delivered' = delivered /\ clock' = clock
    BY <1>4 DEF storeVars, Stored
  <2>2. QED
    BY <1>1, <2>1 DEF StoredOrDelivered
<1>5. QED
  BY <1>2, <1>3, <1>4, OtherSteps

-----------------------------------------------------------------------------
(* The invariant holds in every behaviour of the worker. *)
THEOREM Invariance == Spec => []IInv
<1>1. IInv /\ [Next]_vars => IInv'
  BY TypeStep, BoundStep, OrderStep, ConserveStep DEF IInv
<1>2. QED
  BY <1>1, InitInv, PTL DEF Spec

(* Every variable keeps its type; no pass dispatches more than PER_LOOP    *)
(* messages, or notes an index outside of them.                            *)
THEOREM TypeCorrect == Spec => []TypeOK
<1>1. IInv => TypeOK
  BY DEF IInv
<1>2. QED
  BY <1>1, Invariance, PTL

(* The session container never exceeds its limit: an equality is enough as *)
(* the test, because sessions come one at a time.                          *)
THEOREM ContainerLimit == Spec => []SessionsBounded
<1>1. IInv => SessionsBounded
  BY DEF IInv
<1>2. QED
  BY <1>1, Invariance, PTL

(* No acknowledged message is lost, whatever replies fail, and none is     *)
(* handed out twice.                                                       *)
THEOREM NothingLost == Spec => []StoredOrDelivered
<1>1. IInv => StoredOrDelivered
  BY DEF IInv
<1>2. QED
  BY <1>1, Invariance, PTL

(* A session's messages are listed from the newest to the oldest.          *)
THEOREM SessionOrder == Spec => []NewestFirst
<1>1. IInv => NewestFirst
  BY DEF IInv
<1>2. QED
  BY <1>1, Invariance, PTL

(* A full container stays full. *)
LEMMA StaysFull == [Next]_vars /\ Full => Full' /\ clock' = clock
<1> SUFFICES ASSUME [Next]_vars, Full PROVE Full' /\ clock' = clock
  OBVIOUS
<1>1. CASE StoreMessage
  BY <1>1 DEF StoreMessage
<1>2. CASE Deliver
  BY <1>2, DeliverStep DEF Full
<1>3. CASE UNCHANGED storeVars
  BY <1>3 DEF Full, storeVars
<1> QED
  BY <1>1, <1>2, <1>3, OtherSteps

(* A full container is full for ever and stores nothing any more.          *)
THEOREM NoWayBack == Spec => FullForEver
BY StaysFull, PTL DEF Spec, FullForEver

-----------------------------------------------------------------------------
(* The refinement of SessionStore. *)

(* The numbers of the messages of a session. *)
LEMMA TimesFcn ==
  ASSUME NEW q \in Seq(Item)
  PROVE  LET l == [p \in DOMAIN q |-> q[p].time]
         IN  /\ l \in Seq(Nat)
             /\ Len(l) = Len(q)
             /\ DOMAIN l = 1 .. Len(q)
             /\ \A p \in 1 .. Len(q) : l[p] = q[p].time
<1>1. \A p \in 1 .. Len(q) : q[p] \in Item
  OBVIOUS
<1>2. \A m \in Item : m.time \in Nat
  BY DEF Item
<1>3. \A p \in 1 .. Len(q) : q[p].time \in Nat
  BY <1>1, <1>2
<1>4. QED
  BY <1>3

(* One more message in front is one more number in front. *)
LEMMA TimesCons ==
  ASSUME NEW q \in Seq(Item), NEW m \in Item
  PROVE  LET r == <<m>> \o q
         IN  [p \in DOMAIN r |-> r[p].time]
               = <<m.time>> \o [p \in DOMAIN q |-> q[p].time]
<1> DEFINE r == <<m>> \o q
           short == [p \in DOMAIN q |-> q[p].time]
           left == [p \in DOMAIN r |-> r[p].time]
           right == <<m.time>> \o short
<1>1. PICK n \in Nat : n = Len(q)
  OBVIOUS
<1>2. /\ r \in Seq(Item) /\ Len(r) = n + 1 /\ r[1] = m
      /\ \A p \in 2 .. n + 1 : r[p] = q[p - 1]
  BY <1>1, ConsFcn
<1>3. /\ short \in Seq(Nat) /\ Len(short) = n
      /\ \A p \in 1 .. n : short[p] = q[p].time
  BY <1>1, TimesFcn
<1> HIDE DEF r
<1>4. /\ left \in Seq(Nat) /\ Len(left) = n + 1
      /\ \A p \in 1 .. n + 1 : left[p] = r[p].time
  BY <1>2, TimesFcn
<1>5. m.time \in Nat
  BY DEF Item
<1> HIDE DEF short, left
<1>6. /\ right \in Seq(Nat) /\ Len(right) = n + 1 /\ right[1] = m.time
      /\ \A p \in 2 .. n + 1 : right[p] = short[p - 1]
  BY <1>3, <1>5, ConsFcn
<1> HIDE DEF right
<1>7. ASSUME NEW p \in 1 .. n + 1 PROVE left[p] = right[p]
  <2>1. CASE p = 1
    BY <1>2, <1>4, <1>6, <2>1
  <2>2. CASE p # 1
    <3>1. p \in 2 .. n + 1 /\ p - 1 \in 1 .. n
      BY <2>2
    <3>2. left[p] = q[p - 1].time
      BY <1>2, <1>4, <3>1
    <3>3. right[p] = q[p - 1].time
      BY <1>3, <1>6, <3>1
    <3>4. QED
      BY <3>2, <3>3
  <2>3. QED
    BY <2>1, <2>2
<1>8. left = right
  BY <1>4, <1>6, <1>7, SameSeq
<1>9. QED
  BY <1>8 DEF left, right, short, r

LEMMA StoreInit == Init => Store!Init
<1> SUFFICES ASSUME Init PROVE Store!Init
  OBVIOUS
<1>1. SessionData = <<>> /\ DOMAIN SessionData = {} /\ clock = 0 /\ delivered = {}
  BY DEF Init
<1>2. \A s : StoredFor(s) = <<>>
  BY <1>1 DEF StoredFor, Known
<1>3. \A s : Times(s) = <<>>
  BY <1>2 DEF Times
<1>4. QED
  BY <1>1, <1>3 DEF Store!Init

(* A SET that is stored is a Put. *)
LEMMA PutStep ==
  ASSUME IInv, StoreMessage
  PROVE  \E s \in SessionIds : Store!Put(s)
<1>1. PICK s \in SessionIds :
        /\ NewItem \in Item
        /\ DOMAIN SessionData' = DOMAIN SessionData \cup {s}
        /\ SessionData'[s] = <<NewItem>> \o StoredFor(s)
        /\ \A t \in DOMAIN SessionData : t # s => SessionData'[t] = SessionData[t]
        /\ clock' = clock + 1
        /\ delivered' = delivered
  BY StoreStep DEF IInv, SessionIds
<1>2. Cardinality(DOMAIN SessionData) < CLIENTS_MAX
  <2>1. Cardinality(DOMAIN SessionData) \in Nat
    BY FS_CardinalityType DEF IInv, StoreFinite
  <2>2. QED
    BY <2>1, HandlerAssumption DEF IInv, SessionsBounded, StoreMessage, Full
<1>3. StoredFor(s) \in Seq(Item)
  BY StoredForType DEF IInv, TypeOK, StoreType
<1>4. StoredFor(s)' = <<NewItem>> \o StoredFor(s)
  BY <1>1 DEF StoredFor, Known
<1>5. \A t : t # s => StoredFor(t)' = StoredFor(t)
  BY <1>1 DEF StoredFor, Known
<1>6. Times(s)' = <<clock'>> \o Times(s)
  <2>1. NewItem.time = clock'
    BY <1>1 DEF NewItem
  <2>2. LET r == <<NewItem>> \o StoredFor(s)
        IN  [p \in DOMAIN r |-> r[p].time] = <<NewItem.time>> \o Times(s)
    BY <1>1, <1>3, TimesCons DEF Times
  <2>3. QED
    BY <1>4, <2>1, <2>2 DEF Times
<1>7. \A t : t # s => Times(t)' = Times(t)
  BY <1>5 DEF Times
<1>8. [t \in SessionIds |-> Times(t)]'
        = [[t \in SessionIds |-> Times(t)] EXCEPT ![s] = <<clock'>> \o @]
  <2>1. [t \in SessionIds |-> Times(t)'] 
          = [[t \in SessionIds |-> Times(t)] EXCEPT ![s] = <<clock'>> \o @]
    BY <1>6, <1>7
  <2>2. QED
    BY <2>1 DEF SessionIds
<1>9. Store!Cardinality(DOMAIN SessionData) = Cardinality(DOMAIN SessionData)
  BY DEF Store!Cardinality, Cardinality
<1>10. Store!Put(s)
  <2>1. {m.time : m \in delivered}' = {m.time : m \in delivered}
    BY <1>1
  <2>2. QED
    BY <1>1, <1>2, <1>8, <1>9, <2>1 DEF Store!Put
<1>11. QED
  BY <1>10

(* A GET that is answered is a Take. *)
LEMMA TakeStep ==
  ASSUME IInv, Deliver
  PROVE  \E s \in SessionIds : Store!Take(s)
<1>1. StoreType
  BY DEF IInv, TypeOK, StoreType
<1>2. PICK s \in DOMAIN SessionData :
        /\ DOMAIN SessionData' = DOMAIN SessionData
        /\ SessionData'[s] = <<>>
        /\ \A t \in DOMAIN SessionData : t # s => SessionData'[t] = SessionData[t]
        /\ clock' = clock
        /\ delivered' = delivered \cup Range(SessionData[s])
        /\ StoredFor(s) # <<>>
        /\ ~ (Len(StoredFor(s)) > PACKET_MAX)
  BY DeliverStep DEF Deliver, TooLarge
<1>3. s \in SessionIds
  BY <1>1, <1>2 DEF StoreType, SessionIds
<1>4. StoredFor(s) = SessionData[s] /\ StoredFor(s)' = <<>>
  BY <1>2 DEF StoredFor, Known
<1>5. \A t : t # s => StoredFor(t)' = StoredFor(t)
  BY <1>2 DEF StoredFor, Known
<1>6. Times(s)' = <<>>
  BY <1>4 DEF Times
<1>7. \A t : t # s => Times(t)' = Times(t)
  BY <1>5 DEF Times
<1>8. /\ Times(s) # <<>>
      /\ Len(Times(s)) <= PACKET_MAX
      /\ DOMAIN Times(s) = DOMAIN SessionData[s]
      /\ \A p \in DOMAIN SessionData[s] : Times(s)[p] = SessionData[s][p].time
  <2>1. StoredFor(s) \in Seq(Item)
    BY <1>1, StoredForType
  <2>2. PICK n \in Nat : n = Len(StoredFor(s)) /\ DOMAIN StoredFor(s) = 1 .. n
    BY <2>1
  <2>3. /\ Times(s) \in Seq(Nat)
        /\ Len(Times(s)) = n
        /\ DOMAIN Times(s) = 1 .. n
        /\ \A p \in 1 .. n : Times(s)[p] = StoredFor(s)[p].time
    BY <2>1, <2>2, TimesFcn DEF Times
  <2>4. n # 0
    BY <1>2, <2>1, <2>2
  <2>5. Times(s) # <<>>
    BY <2>3, <2>4
  <2>6. Len(Times(s)) <= PACKET_MAX
    BY <1>2, <2>2, <2>3, HandlerAssumption
  <2>7. QED
    BY <1>4, <2>2, <2>3, <2>5, <2>6
<1>9. {m.time : m \in delivered'}
        = {m.time : m \in delivered} \cup {Times(s)[p] : p \in DOMAIN Times(s)}
  <2>1. {Times(s)[p] : p \in DOMAIN Times(s)} = {m.time : m \in Range(SessionData[s])}
    BY <1>8 DEF Range
  <2>2. QED
    BY <1>2, <2>1
<1>10. [t \in SessionIds |-> Times(t)]'
         = [[t \in SessionIds |-> Times(t)] EXCEPT ![s] = <<>>]
  <2>1. [t \in SessionIds |-> Times(t)']
          = [[t \in SessionIds |-> Times(t)] EXCEPT ![s] = <<>>]
    BY <1>6, <1>7
  <2>2. QED
    BY <2>1 DEF SessionIds
<1>11. Store!Take(s)
  <2>1. [t \in SessionIds |-> Times(t)][s] = Times(s)
    BY <1>3
  <2>2. {m.time : m \in delivered}'
          = {m.time : m \in delivered} \cup
            {[t \in SessionIds |-> Times(t)][s][p] :
               p \in DOMAIN [t \in SessionIds |-> Times(t)][s]}
    BY <1>9, <2>1
  <2>3. UNCHANGED <<DOMAIN SessionData, clock>>
    BY <1>2
  <2>4. QED
    BY <1>8, <1>10, <2>1, <2>2, <2>3 DEF Store!Take
<1>12. QED
  BY <1>3, <1>11

(* A step of the worker is a step of the store or none. *)
LEMMA KeepsStore == IInv /\ [Next]_vars => [Store!Next]_(Store!vars)
<1> SUFFICES ASSUME IInv, [Next]_vars PROVE [Store!Next]_(Store!vars)
  OBVIOUS
<1>1. CASE StoreMessage
  BY <1>1, PutStep DEF Store!Next
<1>2. CASE Deliver
  BY <1>2, TakeStep DEF Store!Next
<1>3. CASE UNCHANGED storeVars
  <2>1. \A s : Times(s)' = Times(s)
    BY <1>3 DEF Times, StoredFor, Known, storeVars
  <2>2. [s \in SessionIds |-> Times(s)]' = [s \in SessionIds |-> Times(s)]
    BY <2>1
  <2>3. QED
    BY <1>3, <2>2 DEF storeVars, Store!vars
<1>4. QED
  BY <1>1, <1>2, <1>3, OtherSteps

(* The worker implements the store: whatever is dispatched twice, erased   *)
(* in another's place or given up, a session's payloads are put one by one *)
(* and taken all at once.                                                  *)
THEOREM StoreRefinement == Spec => ImplementsStore
BY KeepsStore, StoreInit, Invariance, PTL DEF Spec, ImplementsStore, Store!Spec

(* What is stored was not delivered, and is stored in one session only. *)
LEMMA StoredApart ==
  ASSUME StoredOrDelivered, NEW s \in DOMAIN SessionData
  PROVE  /\ delivered \cap Range(SessionData[s]) = {}
         /\ \A t \in DOMAIN SessionData :
              t # s => Range(SessionData[t]) \cap Range(SessionData[s]) = {}
<1>1. \A x \in Range(SessionData[s]) : x \in Stored
  BY DEF Stored
<1>2. \A m \in delivered : m \notin Range(SessionData[s])
  BY <1>1 DEF StoredOrDelivered
<1>3. ASSUME NEW t \in DOMAIN SessionData, t # s, NEW x \in Range(SessionData[t]),
             x \in Range(SessionData[s])
      PROVE  FALSE
  <2>1. PICK p \in DOMAIN SessionData[t] : x = SessionData[t][p]
    BY DEF Range
  <2>2. PICK q \in DOMAIN SessionData[s] : x = SessionData[s][q]
    BY <1>3 DEF Range
  <2>3. SessionData[t][p].time = SessionData[s][q].time
    BY <2>1, <2>2
  <2>4. QED
    BY <1>3, <2>3 DEF StoredOrDelivered
<1>4. QED
  BY <1>2, <1>3

(* A SET makes no session's reply shorter, and removes no message. *)
LEMMA StoreGrows ==
  ASSUME IInv, StoreMessage, NEW t \in DOMAIN SessionData
  PROVE  /\ TooLarge(t) => TooLarge(t)'
         /\ Range(SessionData[t]) \subseteq Range(SessionData'[t])
<1>1. PICK s \in SessionIds :
        /\ NewItem \in Item
        /\ DOMAIN SessionData' = DOMAIN SessionData \cup {s}
        /\ SessionData'[s] = <<NewItem>> \o StoredFor(s)
        /\ \A u \in DOMAIN SessionData : u # s => SessionData'[u] = SessionData[u]
  BY StoreStep DEF IInv, SessionIds
<1>2. StoredFor(t) = SessionData[t] /\ StoredFor(t)' = SessionData'[t]
  BY <1>1 DEF StoredFor, Known
<1>3. CASE t # s
  <2>1. SessionData'[t] = SessionData[t]
    BY <1>1, <1>3
  <2>2. QED
    BY <1>2, <2>1 DEF TooLarge
<1>4. CASE t = s
  <2> DEFINE old == SessionData[t]
             new == SessionData'[t]
  <2>1. old \in Seq(Item) /\ new = <<NewItem>> \o old
    BY <1>1, <1>2, <1>4 DEF IInv, TypeOK
  <2>2. PICK n \in Nat : n = Len(old) /\ DOMAIN old = 1 .. n
    BY <2>1
  <2> HIDE DEF old, new
  <2>3. /\ new \in Seq(Item) /\ Len(new) = n + 1
        /\ \A p \in 2 .. n + 1 : new[p] = old[p - 1]
    BY <1>1, <2>1, <2>2, ConsFcn
  <2>4. DOMAIN new = 1 .. n + 1
    BY <2>3
  <2>5. n > PACKET_MAX => n + 1 > PACKET_MAX
    BY HandlerAssumption
  <2>6. ASSUME NEW x \in Range(old) PROVE x \in Range(new)
    <3>1. PICK p \in 1 .. n : x = old[p]
      BY <2>2 DEF Range
    <3>2. p + 1 \in 1 .. n + 1 /\ new[p + 1] = x
      <4>1. p + 1 \in 2 .. n + 1 /\ (p + 1) - 1 = p
        OBVIOUS
      <4>2. new[p + 1] = old[p]
        BY <2>3, <4>1
      <4>3. QED
        BY <3>1, <4>1, <4>2
    <3>3. QED
      BY <2>4, <3>2 DEF Range
  <2>7. TooLarge(t) => TooLarge(t)'
    BY <1>2, <2>2, <2>3, <2>5 DEF TooLarge, old, new
  <2>8. QED
    BY <2>6, <2>7 DEF old, new
<1>5. QED
  BY <1>3, <1>4

LEMMA OutOfReachStep ==
  IInv /\ [Next]_vars =>
    [\A s \in DOMAIN SessionData :
       TooLarge(s) => /\ TooLarge(s)'
                      /\ Range(SessionData[s]) \subseteq Range(SessionData'[s])
                      /\ delivered' \cap Range(SessionData[s]) = {}]_vars
<1> DEFINE Kept(t) ==
      TooLarge(t) => /\ TooLarge(t)'
                     /\ Range(SessionData[t]) \subseteq Range(SessionData'[t])
                     /\ delivered' \cap Range(SessionData[t]) = {}
<1>1. ASSUME IInv, [Next]_vars, NEW t \in DOMAIN SessionData PROVE Kept(t)
  <2>1. delivered \cap Range(SessionData[t]) = {}
    BY <1>1, StoredApart DEF IInv
  <2>2. CASE StoreMessage
    <3>1. delivered' = delivered
      BY <2>2 DEF StoreMessage
    <3>2. QED
      BY <1>1, <2>1, <2>2, <3>1, StoreGrows
  <2>3. CASE Deliver
    <3>1. PICK s \in DOMAIN SessionData :
            /\ DOMAIN SessionData' = DOMAIN SessionData
            /\ \A u \in DOMAIN SessionData : u # s => SessionData'[u] = SessionData[u]
            /\ delivered' = delivered \cup Range(SessionData[s])
            /\ ~TooLarge(s)
      BY <2>3, DeliverStep DEF Deliver
    <3>2. CASE t = s
      BY <3>1, <3>2
    <3>3. CASE t # s
      <4>1. SessionData'[t] = SessionData[t]
        BY <3>1, <3>3
      <4>2. StoredFor(t)' = StoredFor(t)
        BY <3>1, <4>1 DEF StoredFor, Known
      <4>3. TooLarge(t) => TooLarge(t)'
        BY <4>2 DEF TooLarge
      <4>4. Range(SessionData[t]) \cap Range(SessionData[s]) = {}
        BY <1>1, <3>1, <3>3, StoredApart DEF IInv
      <4>5. delivered' \cap Range(SessionData[t]) = {}
        BY <2>1, <3>1, <4>4
      <4>6. QED
        BY <4>1, <4>3, <4>5
    <3>4. QED
      BY <3>2, <3>3
  <2>4. CASE UNCHANGED storeVars
    <3>1. TooLarge(t) => TooLarge(t)'
      BY <2>4 DEF TooLarge, StoredFor, Known, storeVars
    <3>2. QED
      BY <2>1, <2>4, <3>1 DEF storeVars
  <2>5. QED
    BY <1>1, <2>2, <2>3, <2>4, OtherSteps
<1> QED
  BY <1>1

(* A session that has outgrown a packet is out of reach for ever. *)
THEOREM OutOfReach == Spec => TooLargeForEver
BY OutOfReachStep, Invariance, PTL DEF Spec, TooLargeForEver

-----------------------------------------------------------------------------
(* The order of SETs. *)

(* Whatever was stored at some time. *)
Ever == Stored \cup delivered

(* A message that is stored unless the container is full. *)
Storable(e) == e.req.type = "SET" /\ PayloadBytes(e.req.bytes) # 0

(* The vector is in the order of arrival.  A SET that is still in it while *)
(* a later one has been stored was stored before that one, and what a pass *)
(* has gone through was stored as well, unless the container is full,      *)
(* which it will always be.                                                *)
OrderInv ==
  /\ \A p, q \in DOMAIN QueueMessages :
       p < q => QueueMessages[p].id < QueueMessages[q].id
  /\ \A p \in DOMAIN QueueMessages : QueueMessages[p].id <= nread
  /\ \A m \in Ever : m.id <= nread
  /\ \A p \in DOMAIN QueueMessages : Storable(QueueMessages[p]) =>
       \A n \in Ever : QueueMessages[p].id < n.id =>
         \E first \in Ever : first.id = QueueMessages[p].id /\ first.time < n.time
  /\ work = "dispatch" => \A p \in 1 .. i :
       Storable(QueueMessages[p]) =>
         Full \/ \E first \in Ever : first.id = QueueMessages[p].id

(* What is stored stays stored or was delivered. *)
LEMMA EverStep ==
  ASSUME IInv, [Next]_vars
  PROVE  /\ StoreMessage => Ever' = Ever \cup {NewItem}
         /\ ~StoreMessage => Ever' = Ever
<1>1. CASE StoreMessage
  <2>1. Stored' = Stored \cup {NewItem}
    BY <1>1, StoreAddsOne DEF IInv
  <2>2. delivered' = delivered
    BY <1>1 DEF StoreMessage
  <2> QED
    BY <1>1, <2>1, <2>2 DEF Ever
<1>2. CASE Deliver
  <2>1. Stored' \cup delivered' = Stored \cup delivered
    BY <1>2, DeliverMoves
  <2>2. ~StoreMessage
    BY <1>2 DEF StoreMessage, Deliver
  <2> QED
    BY <2>1, <2>2 DEF Ever
<1>3. CASE ~StoreMessage /\ UNCHANGED storeVars
  BY <1>3 DEF Ever, Stored, storeVars
<1> QED
  BY <1>1, <1>2, <1>3, OtherSteps

(* Numbers and times of what was stored. *)
LEMMA EverType ==
  ASSUME IInv
  PROVE  \A m \in Ever : m.id \in Nat /\ m.time \in 1 .. clock
<1>1. \A m \in Ever : m.time \in 1 .. clock
  BY DEF IInv, StoredOrDelivered, Ever
<1>2. ASSUME NEW m \in Stored PROVE m \in Item
  <2>1. PICK s \in DOMAIN SessionData : m \in Range(SessionData[s])
    BY DEF Stored
  <2>2. SessionData[s] \in Seq(Item)
    BY DEF IInv, TypeOK
  <2> QED
    BY <2>1, <2>2 DEF Range
<1>3. \A m \in Ever : m \in Item
  BY <1>2 DEF Ever, IInv, TypeOK
<1> QED
  BY <1>1, <1>3 DEF Item

(* An erasure leaves the others in their order. *)
LEMMA ErasePlaces ==
  ASSUME NEW S, NEW s \in Seq(S), s # <<>>, NEW k \in Nat
  PROVE  \E at \in [1 .. Len(s) - 1 -> 1 .. Len(s)] :
           /\ DOMAIN EraseAt(s, k) = 1 .. Len(s) - 1
           /\ \A p \in 1 .. Len(s) - 1 : EraseAt(s, k)[p] = s[at[p]]
           /\ \A p, q \in 1 .. Len(s) - 1 : p < q => at[p] < at[q]
<1>1. PICK n \in Nat : n = Len(s) - 1 /\ Len(s) = n + 1
  BY TailFcn
<1>2. EraseAt(s, k) \in Seq(S) /\ DOMAIN EraseAt(s, k) = 1 .. n
  <2> DEFINE e == EraseAt(s, k)
  <2>1. e \in Seq(S) /\ Len(e) = n
    BY <1>1, EraseAtFcn
  <2> HIDE DEF e
  <2>2. DOMAIN e = 1 .. n
    BY <2>1
  <2> QED
    BY <2>1, <2>2 DEF e
<1>3. CASE k < Len(s)
  <2> DEFINE at == [p \in 1 .. n |-> IF p > k THEN p + 1 ELSE p]
  <2>1. at \in [1 .. n -> 1 .. n + 1]
    OBVIOUS
  <2>2. \A p, q \in 1 .. n : p < q => at[p] < at[q]
    OBVIOUS
  <2>3. ASSUME NEW p \in 1 .. n PROVE EraseAt(s, k)[p] = s[at[p]]
    <3>1. CASE p > k
      BY <1>1, <1>3, <3>1, EraseInside
    <3>2. CASE ~(p > k)
      <4>1. p \in 1 .. k
        BY <3>2
      <4> QED
        BY <1>3, <3>2, <4>1, EraseInside
    <3> QED
      BY <3>1, <3>2
  <2> HIDE DEF at
  <2> QED
    BY <1>1, <1>2, <2>1, <2>2, <2>3
<1>4. CASE ~(k < Len(s))
  <2> DEFINE at == [p \in 1 .. n |-> p]
  <2>1. at \in [1 .. n -> 1 .. n + 1]
    OBVIOUS
  <2>2. EraseAt(s, k) = Front(s)
    BY <1>4 DEF EraseAt
  <2>3. \A p \in 1 .. n : EraseAt(s, k)[p] = s[at[p]]
    BY <1>1, <2>2, FrontFcn
  <2>4. \A p, q \in 1 .. n : p < q => at[p] < at[q]
    OBVIOUS
  <2> HIDE DEF at
  <2> QED
    BY <1>1, <1>2, <2>1, <2>3, <2>4
<1> QED
  BY <1>3, <1>4

(* Every step keeps that, and the order in which SETs were stored: what is *)
(* stored last arrived after everything that is not stored yet, and the    *)
(* vector's SETs before it have been stored in this pass or an earlier one.*)
LEMMA OrderStepInv ==
  ASSUME IInv, OrderInv, StoredInArrivalOrder, [Next]_vars
  PROVE  OrderInv' /\ StoredInArrivalOrder'
<1>1. PICK l \in Nat : l = Len(QueueMessages) /\ DOMAIN QueueMessages = 1 .. l
  BY DEF IInv, TypeOK
<1>2. /\ QueueMessages \in Seq(Entry) /\ nread \in Nat /\ i \in Nat /\ clock \in Nat
      /\ \A p \in 1 .. l : QueueMessages[p].id \in Nat
  <2>1. \A p \in 1 .. l : QueueMessages[p] \in Entry
    BY <1>1 DEF IInv, TypeOK
  <2> QED
    BY <2>1 DEF Entry, IInv, TypeOK
<1>3. Full => Full'
  BY StaysFull
<1>4. ASSUME Ever' = Ever PROVE StoredInArrivalOrder'
  BY <1>4 DEF StoredInArrivalOrder, Ever
<1>5. ASSUME UNCHANGED <<QueueMessages, nread>>, Ever' = Ever,
             work' = "dispatch" => \A p \in 1 .. i' : Storable(QueueMessages[p]) =>
               Full' \/ \E first \in Ever : first.id = QueueMessages[p].id
      PROVE  OrderInv' /\ StoredInArrivalOrder'
  <2>1. OrderInv'
    BY <1>5 DEF OrderInv, Storable
  <2> QED
    BY <1>4, <1>5, <2>1
<1>6. ASSUME NEW r \in Requests, Arrive(r) PROVE OrderInv' /\ StoredInArrivalOrder'
  <2>1. ~StoreMessage /\ Ever' = Ever
    BY <1>6, EverStep DEF StoreMessage, Arrive, Dispatching
  <2>2. /\ nread' = nread + 1 /\ work' = "drain"
        /\ QueueMessages' = Append(QueueMessages, [id |-> nread + 1, req |-> r])
    BY <1>6 DEF Arrive
  <2>3. [id |-> nread + 1, req |-> r] \in Entry
    BY <1>2 DEF Entry
  <2>4. /\ DOMAIN QueueMessages' = 1 .. l + 1
        /\ QueueMessages'[l + 1].id = nread + 1
        /\ \A p \in 1 .. l : QueueMessages'[p] = QueueMessages[p]
    BY <1>1, <1>2, <2>2, <2>3, AppendFcn
  <2>5. \A p \in 1 .. l + 1 : p \in 1 .. l \/ p = l + 1
    OBVIOUS
  <2>6. \A p \in 1 .. l : QueueMessages[p].id < nread + 1
    BY <1>1, <1>2 DEF OrderInv
  <2>7. \A m \in Ever : m.id <= nread /\ m.id \in Nat
    BY EverType DEF OrderInv
  <2>8. \A p, q \in 1 .. l + 1 : p < q => QueueMessages'[p].id < QueueMessages'[q].id
    <3> SUFFICES ASSUME NEW p \in 1 .. l + 1, NEW q \in 1 .. l + 1, p < q
                 PROVE  QueueMessages'[p].id < QueueMessages'[q].id
      OBVIOUS
    <3>1. p \in 1 .. l
      OBVIOUS
    <3> QED
      BY <1>1, <2>4, <2>5, <2>6, <3>1 DEF OrderInv
  <2>9. \A p \in 1 .. l + 1 : QueueMessages'[p].id <= nread'
    BY <1>2, <2>2, <2>4, <2>5, <2>6
  <2>10. \A m \in Ever : m.id <= nread'
    BY <1>2, <2>2, <2>7
  <2>11. ASSUME NEW p \in 1 .. l + 1, Storable(QueueMessages'[p]),
                NEW n \in Ever, QueueMessages'[p].id < n.id
         PROVE  \E first \in Ever : first.id = QueueMessages'[p].id /\ first.time < n.time
    <3>1. p # l + 1
      BY <1>2, <2>4, <2>7, <2>11
    <3>2. p \in 1 .. l
      BY <2>5, <3>1
    <3> QED
      BY <1>1, <2>4, <2>11, <3>2 DEF OrderInv
  <2>12. OrderInv'
    BY <2>1, <2>2, <2>4, <2>8, <2>9, <2>10, <2>11 DEF OrderInv, Storable
  <2> QED
    BY <1>4, <2>1, <2>12
<1>7. CASE StartPass
  <2>1. ~StoreMessage /\ Ever' = Ever
    BY <1>7, EverStep DEF StoreMessage, StartPass, Dispatching
  <2>2. UNCHANGED <<QueueMessages, nread>> /\ (work' = "dispatch" => i' = 0)
    BY <1>7 DEF StartPass
  <2> QED
    BY <1>5, <2>1, <2>2
<1>8. ASSUME Dispatching, Finish \/ Retry, ~StoreMessage, Storable(Current) => Full
      PROVE  OrderInv' /\ StoredInArrivalOrder'
  <2>1. UNCHANGED <<QueueMessages, nread>> /\ i' = i + 1 /\ work = "dispatch"
    BY <1>8 DEF Finish, Retry, Dispatching
  <2>2. ASSUME NEW p \in 1 .. i', Storable(QueueMessages[p])
        PROVE  Full' \/ \E first \in Ever : first.id = QueueMessages[p].id
    <3>1. p \in 1 .. i \/ p = i + 1
      BY <1>2, <2>1
    <3> QED
      BY <1>3, <1>8, <2>1, <2>2, <3>1 DEF OrderInv, Current
  <2> QED
    BY <1>5, <1>8, <2>1, <2>2, EverStep
<1>9. CASE RejectType \/ RejectFull \/ IgnoreEmpty \/ RetryGet \/ FailSend \/ Deliver
  <2>1. Dispatching /\ (Finish \/ Retry)
    BY <1>9 DEF RejectType, RejectFull, IgnoreEmpty, RetryGet, FailSend, Deliver
  <2>2. Storable(Current) => Full /\ ~StoreMessage
    BY <1>9 DEF RejectType, RejectFull, IgnoreEmpty, RetryGet, FailSend, Deliver,
                Storable, StoreMessage
  <2>3. StoreMessage => Storable(Current)
    BY DEF StoreMessage, Storable
  <2> QED
    BY <1>8, <2>1, <2>2, <2>3
<1>10. CASE StoreMessage
  <2>1. Ever' = Ever \cup {NewItem}
    BY <1>10, EverStep
  <2>2. /\ UNCHANGED <<QueueMessages, nread>> /\ i' = i + 1 /\ work = "dispatch"
        /\ ~Full /\ i + 1 \in 1 .. l /\ Storable(Current) /\ clock' = clock + 1
    <3>1. i < MsgCount /\ MsgCount <= l /\ MsgCount \in Nat
      BY <1>1, <1>10, HandlerAssumption DEF StoreMessage, Dispatching, IInv, LoopInv, TypeOK
    <3>2. i + 1 \in 1 .. l
      BY <1>1, <1>2, <3>1
    <3> QED
      BY <1>10, <3>2 DEF StoreMessage, Storable, Finish, Dispatching
  <2>3. NewItem.id = QueueMessages[i + 1].id /\ NewItem.time = clock + 1
    BY DEF NewItem, Current
  <2>4. \A m \in Ever : m.id \in Nat /\ m.time \in 1 .. clock /\ m.time < clock + 1
    BY <1>2, EverType
  <2>5. ASSUME NEW p \in 1 .. l, Storable(QueueMessages[p]),
               NEW n \in Ever', QueueMessages[p].id < n.id
        PROVE  \E first \in Ever' : first.id = QueueMessages[p].id /\ first.time < n.time
    <3>1. CASE n \in Ever
      BY <1>1, <2>1, <2>5, <3>1 DEF OrderInv
    <3>2. CASE n = NewItem
      <4>1. p < i + 1
        <5>1. p # i + 1
          BY <1>2, <2>2, <2>3, <2>5, <3>2
        <5>2. ~(i + 1 < p)
          <6>1. i + 1 < p => QueueMessages[i + 1].id < QueueMessages[p].id
            BY <1>1, <2>2 DEF OrderInv
          <6> QED
            BY <1>2, <2>2, <2>3, <2>5, <3>2, <6>1
        <5> QED
          BY <1>2, <5>1, <5>2
      <4>2. p \in 1 .. i
        BY <1>2, <4>1
      <4>3. PICK first \in Ever : first.id = QueueMessages[p].id
        BY <2>2, <2>5, <4>2 DEF OrderInv
      <4> QED
        BY <2>1, <2>3, <2>4, <3>2, <4>3
    <3> QED
      BY <2>1, <3>1, <3>2
  <2>6. StoredInArrivalOrder'
    <3> SUFFICES ASSUME NEW m \in Ever', NEW n \in Ever', m.id < n.id
                 PROVE  \E first \in Ever' : first.id = m.id /\ first.time < n.time
      BY DEF StoredInArrivalOrder, Ever
    <3>1. CASE m = NewItem
      BY <2>2, <2>3, <2>5, <3>1 DEF Current
    <3>2. CASE m \in Ever /\ n = NewItem
      BY <2>1, <2>3, <2>4, <3>2
    <3>3. CASE m \in Ever /\ n \in Ever
      BY <2>1, <3>3 DEF StoredInArrivalOrder, Ever
    <3> QED
      BY <2>1, <3>1, <3>2, <3>3
  <2>7. \A m \in Ever' : m.id <= nread
    BY <1>1, <2>1, <2>2, <2>3 DEF OrderInv
  <2>8. ASSUME NEW p \in 1 .. i', Storable(QueueMessages[p])
        PROVE  \E first \in Ever' : first.id = QueueMessages[p].id
    <3>1. p \in 1 .. i \/ p = i + 1
      BY <1>2, <2>2
    <3> QED
      BY <2>1, <2>2, <2>3, <2>8, <3>1 DEF OrderInv
  <2>9. OrderInv'
    BY <1>1, <2>2, <2>5, <2>7, <2>8 DEF OrderInv, Storable
  <2> QED
    BY <2>6, <2>9
<1>11. CASE EndDispatch \/ EndPass
  <2>1. ~StoreMessage /\ Ever' = Ever
    BY <1>11, EverStep DEF StoreMessage, EndDispatch, EndPass, Dispatching, Finish
  <2>2. UNCHANGED <<QueueMessages, nread>> /\ work' # "dispatch"
    BY <1>11 DEF EndDispatch, EndPass
  <2> QED
    BY <1>5, <2>1, <2>2
<1>12. CASE EraseTurn
  <2>1. ~StoreMessage /\ Ever' = Ever
    BY <1>12, EverStep DEF StoreMessage, EraseTurn, Dispatching
  <2>2. /\ QueueMessages' = EraseAt(QueueMessages, DeleteMessages[i + 1])
        /\ nread' = nread /\ work' # "dispatch"
    BY <1>12 DEF EraseTurn
  <2>3. QueueMessages # <<>> /\ DeleteMessages[i + 1] \in Nat
    <3>1. /\ i \in Nat /\ i < Len(DeleteMessages) /\ work = "erase"
          /\ DeleteMessages \in Seq(0 .. PER_LOOP - 1) /\ Len(DeleteMessages) \in Nat
      BY <1>2, <1>12 DEF EraseTurn, IInv, TypeOK
    <3>2. i + 1 \in 1 .. Len(DeleteMessages)
      BY <3>1
    <3>3. l # 0
      BY <1>1, <3>1 DEF IInv, LoopInv
    <3> QED
      BY <1>1, <1>2, <3>1, <3>2, <3>3, HandlerAssumption
  <2>4. PICK at \in [1 .. l - 1 -> 1 .. l] :
          /\ DOMAIN QueueMessages' = 1 .. l - 1
          /\ \A p \in 1 .. l - 1 : QueueMessages'[p] = QueueMessages[at[p]]
          /\ \A p, q \in 1 .. l - 1 : p < q => at[p] < at[q]
    <3> DEFINE q == QueueMessages
               e == EraseAt(QueueMessages, DeleteMessages[i + 1])
    <3>1. \E at \in [1 .. Len(q) - 1 -> 1 .. Len(q)] :
            /\ DOMAIN e = 1 .. Len(q) - 1
            /\ \A p \in 1 .. Len(q) - 1 : e[p] = q[at[p]]
            /\ \A p, r \in 1 .. Len(q) - 1 : p < r => at[p] < at[r]
      BY <1>2, <2>3, ErasePlaces
    <3>2. e = QueueMessages' /\ Len(q) = l
      BY <1>1, <2>2
    <3> HIDE DEF e
    <3> QED
      BY <3>1, <3>2
  <2>5. \A p \in 1 .. l - 1 : at[p] \in 1 .. l
    BY <2>4
  <2>6. \A p, q \in DOMAIN QueueMessages' :
          p < q => QueueMessages'[p].id < QueueMessages'[q].id
    BY <1>1, <2>4, <2>5 DEF OrderInv
  <2>7. \A p \in DOMAIN QueueMessages' : QueueMessages'[p].id <= nread
    BY <1>1, <2>4, <2>5 DEF OrderInv
  <2>8. \A p \in DOMAIN QueueMessages' : Storable(QueueMessages'[p]) =>
          \A n \in Ever : QueueMessages'[p].id < n.id =>
            \E first \in Ever : first.id = QueueMessages'[p].id /\ first.time < n.time
    BY <1>1, <2>4, <2>5 DEF OrderInv
  <2>9. \A m \in Ever : m.id <= nread
    BY DEF OrderInv
  <2>10. OrderInv'
    BY <2>1, <2>2, <2>6, <2>7, <2>8, <2>9 DEF OrderInv, Storable
  <2> QED
    BY <1>4, <2>1, <2>10
<1>13. CASE UNCHANGED vars
  <2>1. ~StoreMessage => Ever' = Ever
    BY EverStep
  <2>2. ~StoreMessage
    BY <1>2, <1>13 DEF StoreMessage, vars, storeVars
  <2> QED
    BY <1>3, <1>5, <1>13, <2>1, <2>2 DEF vars, passVars, OrderInv
<1> QED
  BY <1>6, <1>7, <1>9, <1>10, <1>11, <1>12, <1>13 DEF Next, Pass, DispatchMessage

LEMMA OrderStart == Init => OrderInv /\ StoredInArrivalOrder
<1> SUFFICES ASSUME Init PROVE OrderInv /\ StoredInArrivalOrder
  OBVIOUS
<1>1. Ever = {} /\ DOMAIN QueueMessages = {} /\ work # "dispatch"
  BY DEF Init, Ever, Stored
<1> QED
  BY <1>1 DEF OrderInv, StoredInArrivalOrder, Ever

(* SETs are stored in the order of their arrival, although some of them    *)
(* are dispatched twice and others are erased before they are dispatched.  *)
THEOREM ArrivalOrder == Spec => []StoredInArrivalOrder
BY OrderStart, OrderStepInv, Invariance, PTL DEF Spec

-----------------------------------------------------------------------------
(* The end of a pass. *)

(* The indices a pass has noted are those of messages it is done with, and *)
(* each is inside the vector until the first erasure.                      *)
Noted ==
  /\ work = "dispatch" => \A p \in DOMAIN DeleteMessages :
       DeleteMessages[p] < i /\ QueueMessages[DeleteMessages[p] + 1].id \in processed
  /\ work = "erase" /\ i = 0 => \A p \in DOMAIN DeleteMessages :
       /\ DeleteMessages[p] < Len(QueueMessages)
       /\ QueueMessages[DeleteMessages[p] + 1].id \in processed
  /\ work = "dead" => Len(DeleteMessages) >= 2

LEMMA NotedStep == IInv /\ Noted /\ [Next]_vars => Noted'
<1> SUFFICES ASSUME IInv, Noted, [Next]_vars PROVE Noted'
  OBVIOUS
<1>1. /\ TypeOK /\ LoopInv
      /\ DeleteMessages \in Seq(0 .. PER_LOOP - 1) /\ i \in Nat
      /\ DOMAIN DeleteMessages = 1 .. Len(DeleteMessages) /\ Len(DeleteMessages) \in Nat
  BY HandlerAssumption DEF IInv, TypeOK
<1>2. \A p \in DOMAIN DeleteMessages : DeleteMessages[p] \in Nat
  BY <1>1, HandlerAssumption
<1>3. ASSUME NEW r \in Requests, Arrive(r) PROVE Noted'
  BY <1>3 DEF Arrive, Noted
<1>4. CASE StartPass
  <2>1. CASE QueueMessages = <<>>
    BY <1>4, <2>1 DEF StartPass, passVars, Noted
  <2>2. CASE QueueMessages # <<>>
    BY <1>4, <2>2 DEF StartPass, Noted
  <2> QED
    BY <2>1, <2>2
<1>5. ASSUME Dispatching, Finish PROVE Noted'
  <2>1. i \in 0 .. PER_LOOP - 1
    BY <1>1, <1>5, CurrentType
  <2>2. /\ Len(DeleteMessages') = Len(DeleteMessages) + 1
        /\ DeleteMessages'[Len(DeleteMessages) + 1] = i
        /\ \A p \in 1 .. Len(DeleteMessages) : DeleteMessages'[p] = DeleteMessages[p]
        /\ DOMAIN DeleteMessages' = 1 .. Len(DeleteMessages')
    <3>1. DeleteMessages' = Append(DeleteMessages, i)
      BY <1>5 DEF Finish
    <3> QED
      BY <1>1, <2>1, <3>1, AppendFcn
  <2>3. work = "dispatch" /\ work' = "dispatch" /\ i' = i + 1 /\ QueueMessages' = QueueMessages
        /\ processed' = processed \cup {QueueMessages[i + 1].id}
    BY <1>5 DEF Dispatching, Finish, Current
  <2>4. ASSUME NEW p \in DOMAIN DeleteMessages'
        PROVE  /\ DeleteMessages'[p] < i'
               /\ QueueMessages'[DeleteMessages'[p] + 1].id \in processed'
    <3>1. CASE p = Len(DeleteMessages) + 1
      BY <1>1, <2>2, <2>3, <3>1
    <3>2. CASE p # Len(DeleteMessages) + 1
      <4>1. p \in DOMAIN DeleteMessages /\ DeleteMessages'[p] = DeleteMessages[p]
        BY <1>1, <2>2, <3>2
      <4>2. /\ DeleteMessages[p] < i /\ DeleteMessages[p] \in Nat
            /\ QueueMessages[DeleteMessages[p] + 1].id \in processed
        BY <1>2, <2>3, <4>1 DEF Noted
      <4> QED
        BY <1>1, <2>3, <4>1, <4>2
    <3> QED
      BY <3>1, <3>2
  <2> QED
    BY <2>3, <2>4 DEF Noted
<1>6. ASSUME Dispatching, Retry PROVE Noted'
  <2>1. /\ work = "dispatch" /\ work' = "dispatch" /\ i' = i + 1 /\ QueueMessages' = QueueMessages
        /\ processed' = processed /\ DeleteMessages' = DeleteMessages
    BY <1>6 DEF Dispatching, Retry
  <2>2. ASSUME NEW p \in DOMAIN DeleteMessages PROVE DeleteMessages[p] < i + 1
    BY <1>1, <1>2, <2>1 DEF Noted
  <2> QED
    BY <2>1, <2>2 DEF Noted
<1>7. CASE EndDispatch
  <2>1. /\ work = "dispatch" /\ work' = "erase" /\ i = MsgCount /\ QueueMessages' = QueueMessages
        /\ processed' = processed /\ DeleteMessages' = DeleteMessages
    BY <1>7 DEF EndDispatch
  <2>2. MsgCount \in Nat /\ MsgCount <= Len(QueueMessages) /\ Len(QueueMessages) \in Nat
    BY <1>1, <2>1, HandlerAssumption DEF LoopInv, TypeOK
  <2>3. ASSUME NEW p \in DOMAIN DeleteMessages
        PROVE  /\ DeleteMessages[p] < Len(QueueMessages)
               /\ QueueMessages[DeleteMessages[p] + 1].id \in processed
    BY <1>1, <1>2, <2>1, <2>2 DEF Noted
  <2> QED
    BY <2>1, <2>3 DEF Noted
<1>8. CASE EraseTurn
  <2>1. /\ work = "erase" /\ i' = i + 1 /\ DeleteMessages' = DeleteMessages
        /\ i < Len(DeleteMessages) /\ work' \in {"erase", "dead"}
        /\ DeleteMessages[i + 1] < Len(QueueMessages) => work' = "erase"
    BY <1>8 DEF EraseTurn
  <2>2. i = 0 => work' = "erase"
    BY <1>1, <2>1 DEF Noted
  <2>3. i # 0 => Len(DeleteMessages) >= 2
    BY <1>1, <2>1
  <2> QED
    BY <1>1, <2>1, <2>2, <2>3 DEF Noted
<1>9. CASE EndPass
  BY <1>9 DEF EndPass, Noted
<1>10. CASE UNCHANGED vars
  BY <1>10 DEF vars, passVars, Noted
<1>11. CASE DispatchMessage
  BY <1>5, <1>6, <1>11
  DEF DispatchMessage, RejectType, RejectFull, IgnoreEmpty, StoreMessage, RetryGet, FailSend,
      Deliver
<1> QED
  BY <1>3, <1>4, <1>7, <1>8, <1>9, <1>10, <1>11 DEF Next, Pass

LEMMA NotedStart == Init => Noted
BY DEF Init, Noted

(* A pass that is done with one message at most never kills the process.   *)
THEOREM OneIsSafe == Spec => [](work = "dead" => Len(DeleteMessages) >= 2)
<1>1. Noted => (work = "dead" => Len(DeleteMessages) >= 2)
  BY DEF Noted
<1> QED
  BY <1>1, NotedStart, NotedStep, Invariance, PTL DEF Spec

(* The first erasure of a pass removes a message that the pass is done     *)
(* with, the one that was meant, and the process survives it.              *)
FirstErased ==
  work = "erase" /\ i = 0 /\ DeleteMessages # <<>>
    => /\ QueueMessages[DeleteMessages[1] + 1].id \in processed
       /\ QueueMessages' = RemoveAt(QueueMessages, DeleteMessages[1] + 1)
       /\ work' = "erase"

LEMMA FirstStep == IInv /\ Noted /\ [Next]_vars => [FirstErased]_vars
<1> SUFFICES ASSUME IInv, Noted, Next, work = "erase", i = 0, DeleteMessages # <<>>
             PROVE  /\ QueueMessages[DeleteMessages[1] + 1].id \in processed
                    /\ QueueMessages' = RemoveAt(QueueMessages, DeleteMessages[1] + 1)
                    /\ work' = "erase"
  BY DEF FirstErased
<1>1. DeleteMessages \in Seq(0 .. PER_LOOP - 1)
  BY DEF IInv, TypeOK
<1>2. Len(DeleteMessages) \in Nat /\ 1 \in DOMAIN DeleteMessages /\ i # Len(DeleteMessages)
  BY <1>1
<1>3. EraseTurn
  BY <1>2 DEF Next, Pass, Arrive, StartPass, DispatchMessage, RejectType, RejectFull, IgnoreEmpty,
              StoreMessage, RetryGet, FailSend, Deliver, Dispatching, EndDispatch, EndPass
<1>4. /\ DeleteMessages[1] < Len(QueueMessages)
      /\ QueueMessages[DeleteMessages[1] + 1].id \in processed
  BY <1>2 DEF Noted
<1>5. i + 1 = 1
  OBVIOUS
<1> QED
  BY <1>3, <1>4, <1>5 DEF EraseTurn, EraseAt

THEOREM FirstIsRight == Spec => [][FirstErased]_vars
BY NotedStart, NotedStep, FirstStep, Invariance, PTL DEF Spec

(* Steps that a pass still takes at most: a pass that was begun comes to   *)
(* its end.                                                                *)
PassLeft ==
  CASE work = "dispatch" -> (MsgCount - i) + PER_LOOP + 2
    [] work = "erase" -> (Len(DeleteMessages) - i) + 1
    [] OTHER -> 0

Shortened == work \in {"dispatch", "erase"} => PassLeft' < PassLeft

LEMMA PassBound == IInv => PassLeft \in 0 .. 2 * PER_LOOP + 2
<1> SUFFICES ASSUME IInv PROVE PassLeft \in 0 .. 2 * PER_LOOP + 2
  OBVIOUS
<1>1. /\ PER_LOOP \in Nat /\ MsgCount \in 0 .. PER_LOOP /\ i \in 0 .. MsgCount
      /\ Len(DeleteMessages) \in Nat
      /\ work = "erase" => i <= Len(DeleteMessages) /\ Len(DeleteMessages) <= MsgCount
  BY HandlerAssumption DEF IInv, TypeOK, LoopInv
<1> QED
  BY <1>1 DEF PassLeft

LEMMA PassStep == IInv /\ [Next]_vars => [Shortened]_vars
<1> SUFFICES ASSUME IInv, Next, work \in {"dispatch", "erase"} PROVE PassLeft' < PassLeft
  BY DEF Shortened
<1>1. /\ PER_LOOP \in Nat /\ MsgCount \in 0 .. PER_LOOP /\ i \in 0 .. MsgCount /\ i \in Nat
      /\ Len(DeleteMessages) \in Nat
      /\ work = "dispatch" => Len(DeleteMessages) <= i
      /\ work = "erase" => i <= Len(DeleteMessages)
  BY HandlerAssumption DEF IInv, TypeOK, LoopInv
<1>2. CASE DispatchMessage
  <2>1. /\ work = "dispatch" /\ work' = "dispatch" /\ i' = i + 1 /\ MsgCount' = MsgCount
    BY <1>2 DEF DispatchMessage, RejectType, RejectFull, IgnoreEmpty, StoreMessage, RetryGet,
                FailSend, Deliver, Dispatching, Finish, Retry
  <2> QED
    BY <1>1, <2>1 DEF PassLeft
<1>3. CASE EndDispatch
  <2>1. /\ work = "dispatch" /\ work' = "erase" /\ i' = 0 /\ i = MsgCount
        /\ DeleteMessages' = DeleteMessages
    BY <1>3 DEF EndDispatch
  <2> QED
    BY <1>1, <2>1 DEF PassLeft
<1>4. CASE EraseTurn
  <2>1. /\ work = "erase" /\ work' \in {"erase", "dead"} /\ i' = i + 1 /\ i < Len(DeleteMessages)
        /\ DeleteMessages' = DeleteMessages
    BY <1>4 DEF EraseTurn
  <2> QED
    BY <1>1, <2>1 DEF PassLeft
<1>5. CASE EndPass
  <2>1. work = "erase" /\ work' = "drain"
    BY <1>5 DEF EndPass
  <2> QED
    BY <1>1, <2>1 DEF PassLeft
<1> QED
  BY <1>2, <1>3, <1>4, <1>5 DEF Next, Pass, Arrive, StartPass

(* Every pass ends, after at most 2 * PER_LOOP + 2 steps.                  *)
THEOREM PassesEnd == Spec => [](PassLeft \in 0 .. 2 * PER_LOOP + 2) /\ [][Shortened]_vars
BY PassBound, PassStep, Invariance, PTL DEF Spec
=============================================================================
