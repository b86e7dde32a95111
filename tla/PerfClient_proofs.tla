-------------------------- MODULE PerfClient_proofs --------------------------
(***************************************************************************)
(* Proofs of the safety properties of PerfClient, for every set of         *)
(* configuration files and any sizes, lengths and numbers of threads.      *)
(***************************************************************************)
EXTENDS PerfClient, FiniteSetTheorems, WellFoundedInduction, TLAPS

-----------------------------------------------------------------------------
(* Numbers. *)

(* A set of numbers has a least one. *)
LEMMA Least ==
  ASSUME NEW S \in SUBSET Nat, S # {}
  PROVE  \E x \in S : \A y \in S : x <= y
<1>1. PICK R : R = OpToRel(<, Nat)
  OBVIOUS
<1>2. IsWellFoundedOn(R, Nat)
  BY <1>1, NatLessThanWellFounded
<1>3. PICK x \in S : \A y \in S : ~(<<y, x>> \in R)
  BY <1>2, WFMin
<1>4. \A y \in S : y < x => <<y, x>> \in R
  BY <1>1 DEF OpToRel
<1>5. \A y \in S : ~(y < x)
  BY <1>3, <1>4
<1> QED
  BY <1>5

(* Segments of S parts do not overlap. *)
LEMMA Apart ==
  ASSUME NEW S \in Nat, NEW p \in Nat, NEW q \in Nat, p < q
  PROVE  p * S + S <= q * S
<1>1. PICK d \in Nat : q = p + 1 + d
  <2>1. q - (p + 1) \in Nat /\ q = p + 1 + (q - (p + 1))
    OBVIOUS
  <2> QED
    BY <2>1
<1>2. q * S = p * S + S + d * S
  BY <1>1
<1>3. d * S \in Nat /\ p * S \in Nat
  OBVIOUS
<1> QED
  BY <1>2, <1>3

(* Induction on the numbers up to n, as a fact about sets of them. *)
LEMMA Upwards ==
  ASSUME NEW n \in Nat, NEW T, 0 \in T, \A d \in 1 .. n : d - 1 \in T => d \in T
  PROVE  0 .. n \subseteq T
<1> SUFFICES ASSUME (0 .. n) \ T # {} PROVE FALSE
  OBVIOUS
<1>1. (0 .. n) \ T \in SUBSET Nat
  OBVIOUS
<1>2. PICK d \in (0 .. n) \ T : \A e \in (0 .. n) \ T : d <= e
  BY <1>1, Least
<1>3. d \in 1 .. n /\ d - 1 \in 0 .. n /\ ~(d <= d - 1)
  BY <1>2
<1>4. d - 1 \in T
  BY <1>2, <1>3
<1> QED
  BY <1>2, <1>3, <1>4

(* Multiples keep the order. *)
LEMMA Multiples ==
  ASSUME NEW b \in Nat, NEW p \in Nat, NEW q \in Nat, p <= q
  PROVE  p * b \in Nat /\ q * b \in Nat /\ p * b <= q * b
<1>1. p * b \in Nat /\ q * b \in Nat
  OBVIOUS
<1>2. CASE p < q
  <2>1. p * b + b <= q * b
    BY <1>2, Apart
  <2> QED
    BY <1>1, <2>1
<1>3. CASE p = q
  BY <1>1, <1>3
<1> QED
  BY <1>2, <1>3

(* Division with a remainder. *)
LEMMA Division ==
  ASSUME NEW a \in Nat, NEW b \in Nat \ {0}
  PROVE  /\ a \div b \in Nat /\ a % b \in 0 .. b - 1
         /\ a = (a \div b) * b + (a % b)
OBVIOUS

(* Its two results, as numbers to pick. *)
LEMMA Parts ==
  ASSUME NEW a \in Nat, NEW b \in Nat \ {0}
  PROVE  \E q \in Nat, r \in 0 .. b - 1 : q = a \div b /\ r = a % b /\ a = q * b + r
<1> DEFINE q == a \div b
           r == a % b
<1>1. q \in Nat /\ r \in 0 .. b - 1 /\ a = q * b + r
  BY Division
<1> HIDE DEF q, r
<1>2. \E x \in Nat, y \in 0 .. b - 1 : x = q /\ y = r /\ a = x * b + y
  BY <1>1
<1> QED
  BY <1>2 DEF q, r

(* No other two numbers are its results. *)
LEMMA OneWay ==
  ASSUME NEW b \in Nat, NEW p \in Nat, NEW q \in Nat,
         NEW d \in 0 .. b - 1, NEW e \in 0 .. b - 1, p * b + d = q * b + e
  PROVE  p = q /\ d = e
<1>1. p * b \in Nat /\ q * b \in Nat
  OBVIOUS
<1>2. ~(p < q)
  <2> SUFFICES ASSUME p < q PROVE FALSE
    OBVIOUS
  <2>1. p * b + b <= q * b
    BY Apart
  <2> QED
    BY <1>1, <2>1
<1>3. ~(q < p)
  <2> SUFFICES ASSUME q < p PROVE FALSE
    OBVIOUS
  <2>1. q * b + b <= p * b
    BY Apart
  <2> QED
    BY <1>1, <2>1
<1>4. p = q
  BY <1>2, <1>3
<1> QED
  BY <1>1, <1>4

(* The segment of a message is inside the pool, and so is a message that   *)
(* is no longer than as many segments as there are sessions.               *)
LEMMA Fits ==
  ASSUME NEW SA \in Nat, NEW MA \in Nat, NEW S \in Nat, NEW n \in 1 .. SA * MA
  PROVE  /\ n < SA * (MA + 1)
         /\ n * S \in Nat /\ (SA * (MA + 1)) * S \in Nat
         /\ n * S + S <= (SA * (MA + 1)) * S
         /\ \A l \in Nat : l <= SA * S => n * S + l <= (SA * (MA + 1)) * S
<1>1. SA # 0
  <2>1. SA = 0 => SA * MA = 0
    OBVIOUS
  <2> QED
    BY <2>1
<1>2. SA * (MA + 1) = SA * MA + SA /\ SA * MA \in Nat
  OBVIOUS
<1>3. PICK all \in Nat : all = SA * MA
  BY <1>2
<1>4. n \in Nat /\ n <= all /\ n < all + SA
  BY <1>1, <1>3
<1>5. n * S + S <= (all + SA) * S
  BY <1>4, Apart
<1>6. PICK d \in Nat : all = n + d
  <2>1. all - n \in Nat /\ all = n + (all - n)
    BY <1>4
  <2> QED
    BY <2>1
<1>7. (all + SA) * S = n * S + d * S + SA * S
  BY <1>4, <1>6
<1>8. d * S \in Nat /\ n * S \in Nat /\ SA * S \in Nat /\ (all + SA) * S \in Nat
  BY <1>4
<1>9. \A l \in Nat : l <= SA * S => n * S + l <= (all + SA) * S
  BY <1>7, <1>8
<1> QED
  BY <1>2, <1>3, <1>4, <1>5, <1>8, <1>9

-----------------------------------------------------------------------------
(* The configuration. *)

(* What a key stands for is a number or a word, and what stoi makes of it  *)
(* is a number or an exception.                                            *)
LEMMA ValueType ==
  ASSUME NEW lines \in Files, NEW key
  PROVE  /\ ValueIn(lines, key) \in Nat \cup {NotANumber, Persistent}
         /\ NumberIn(lines, key) \in Nat \cup {NotANumber}
<1> DEFINE found == {l \in DOMAIN lines : lines[l].key = key}
<1>1. lines \in Seq([key : STRING, value : Nat \cup {NotANumber, Persistent}])
  BY PerfAssumption
<1>2. found = {} => ValueIn(lines, key) \in Nat \cup {NotANumber, Persistent}
  BY DEF ValueIn
<1>3. ASSUME found # {}
      PROVE  ValueIn(lines, key) \in Nat \cup {NotANumber, Persistent}
  <2>1. found \in SUBSET Nat
    BY <1>1
  <2>2. \E l \in found : \A m \in found : l <= m
    BY <1>3, <2>1, Least
  <2>3. PICK l \in found : l = CHOOSE k \in found : \A m \in found : k <= m
    BY <2>2
  <2>4. lines[l].value \in Nat \cup {NotANumber, Persistent}
    <3>1. l \in DOMAIN lines
      BY <2>3
    <3>2. PICK R : R = [key : STRING, value : Nat \cup {NotANumber, Persistent}]
      OBVIOUS
    <3>3. lines \in Seq(R)
      BY <1>1, <3>2
    <3>4. lines[l] \in R
      BY <3>1, <3>3
    <3> QED
      BY <3>2, <3>4
  <2>5. ValueIn(lines, key) = lines[l].value
    BY <1>3, <2>3 DEF ValueIn
  <2> QED
    BY <2>4, <2>5
<1>4. NumberIn(lines, key) \in Nat \cup {NotANumber}
  BY DEF NumberIn
<1> QED
  BY <1>2, <1>3, <1>4

LEMMA Values ==
  ASSUME file \in Files
  PROVE  /\ {ThreadCount, SessionAmount, MessageAmount, MessageLengthMin, MessageLengthMax}
              \subseteq Nat \cup {NotANumber}
         /\ 1 .. ThreadCount \subseteq Threads
         /\ MessageCount <= MaxMessages
<1>1. \A key : NumberIn(file, key) \in Nat \cup {NotANumber}
  BY ValueType
<1>2. {ThreadCount, SessionAmount, MessageAmount, MessageLengthMin, MessageLengthMax}
        \subseteq Nat \cup {NotANumber}
  BY <1>1 DEF ThreadCount, SessionAmount, MessageAmount, MessageLengthMin, MessageLengthMax
<1> QED
  BY <1>2, PerfAssumption
  DEF ThreadCount, SessionAmount, MessageAmount, MessageCount

LEMMA Sizes ==
  /\ DigitBase \in Nat \ {0} /\ SegmentSize \in Nat \ {0} /\ LengthRange \in Nat \ {0}
  /\ MaxMessages \in Nat \ {0} /\ HeaderLength \in Nat
  /\ Threads \subseteq Nat \ {0}
  /\ Requests = Threads \X (1 .. MaxMessages)
<1>1. Cardinality(Threads) \in Nat
  BY PerfAssumption, FS_CardinalityType
<1>2. Threads \subseteq Nat \ {0}
  <2>1. PICK n \in Nat : Threads = 1 .. n
    BY <1>1, PerfAssumption
  <2> QED
    BY <2>1
<1> QED
  BY <1>2, PerfAssumption

-----------------------------------------------------------------------------
(* The invariant. *)

PoolSize == SegmentAmount * SegmentSize
Item == [offset : Nat, address : Nat, length : 0 .. LengthRange - 1]

MainTypes ==
  /\ file \in Files
  /\ main \in {"generate", "spawn", "join"}
  /\ process \in {"running", "ended", "terminated", "killed"}
  /\ ThreadsRun \in BOOLEAN /\ overrun \in BOOLEAN
  /\ UpcountSessionID \in [1 .. Len(FirstID) -> 0 .. DigitBase - 1]

(* Threads are made one after another, and all but the last have all their *)
(* messages; so has the last when main goes on.                            *)
Made ==
  /\ made \in Nat
  /\ made # 0 => /\ made <= ThreadCount
                 /\ {SessionAmount, MessageAmount, MessageLengthMin, MessageLengthMax} \subseteq Nat
  /\ \A t \in Threads : Len(MessageItems[t]) <= IF t <= made THEN MessageCount ELSE 0
  /\ \A t \in Threads : t < made \/ (t = made /\ main # "generate")
                          => Len(MessageItems[t]) = MessageCount
  /\ main # "generate" => made = ThreadCount

(* Message n of a thread lies in segment n of its pool. *)
Items ==
  /\ MessageItems \in [Threads -> Seq(Item)]
  /\ \A t \in Threads : \A n \in DOMAIN MessageItems[t] :
       LET item == MessageItems[t][n]
       IN  /\ item.offset = n /\ item.address = n * SegmentSize
           /\ item.length # 0 => MemMessages[t][item.address] \in Requests

Pools ==
  /\ MemMessages = [t \in Threads |-> MemMessages[t]]
  /\ \A t \in Threads : \A a \in DOMAIN MemMessages[t] :
       MemMessages[t][a] \in Requests \cup {NoRequest}
  /\ \A t \in Threads : t <= made => DOMAIN MemMessages[t] = 0 .. PoolSize - 1

GInv == MainTypes /\ Made /\ Items /\ Pools /\ FirstSegmentIsOwn /\ InsidePool

(* A thread runs when the messages of all are there, and has one left when *)
(* it waits for a reply.                                                   *)
Places ==
  /\ state \in [Threads -> {"unborn", "connect", "wait", "send", "read", "done"}]
  /\ i \in [Threads -> 1 .. MaxMessages + 1]
  /\ \A t \in Threads : state[t] # "unborn" => t <= made /\ main # "generate"
  /\ \A t \in Threads : state[t] = "read" => i[t] <= MessageCount

(* The objects of the client library. *)
Connections ==
  /\ ConnStatus \in [Objects -> BOOLEAN]
  /\ SendStatus \in [Objects -> BOOLEAN]
  /\ RecvStatus \in [Objects -> BOOLEAN]
  /\ SocketFD \in [Objects -> FDs \cup {0}]
  /\ RecvBuffer \in [Objects -> Requests \cup {NoRequest}]
  /\ sock \in [FDs -> {"free", "idle", "up", "broken", "reset"}]
  /\ outbox \in [FDs -> Seq(Requests)]
  /\ inbox \in [FDs -> Seq(Requests)]
  /\ up \in BOOLEAN /\ stray \in BOOLEAN
  /\ faults \in 0 .. MaxFaults
  /\ written \in [Requests -> Nat]

PInv == GInv /\ Places /\ Connections

(* What the configuration says does not change. *)
LEMMA SameFile ==
  ASSUME file' = file
  PROVE  /\ ThreadCount' = ThreadCount /\ SessionAmount' = SessionAmount
         /\ MessageAmount' = MessageAmount /\ MessageLengthMin' = MessageLengthMin
         /\ MessageLengthMax' = MessageLengthMax /\ MessageCount' = MessageCount
         /\ PoolSize' = PoolSize
BY DEF ThreadCount, SessionAmount, MessageAmount, MessageLengthMin,
       MessageLengthMax, MessageCount, PoolSize, SegmentAmount

(* Steps that leave the messages alone. *)
LEMMA MessagesStay ==
  ASSUME GInv, UNCHANGED <<file, generated>>,
         main' \in {"generate", "spawn", "join"}, main' = "generate" => main = "generate",
         process' \in {"running", "ended", "terminated", "killed"}, ThreadsRun' \in BOOLEAN,
         main' # main /\ main = "generate" => ThreadComplete /\ made = ThreadCount
  PROVE  GInv'
<1>1. /\ made' = made /\ MessageItems' = MessageItems /\ MemMessages' = MemMessages
      /\ overrun' = overrun /\ UpcountSessionID' = UpcountSessionID /\ file' = file
  BY DEF generated
<1>2. MainTypes'
  BY <1>1 DEF GInv, MainTypes
<1>3. Made'
  BY <1>1, SameFile, Sizes DEF GInv, Made, MainTypes, ThreadComplete
<1>4. Items' /\ Pools' /\ FirstSegmentIsOwn'
  BY <1>1, SameFile DEF GInv, Items, Pools, FirstSegmentIsOwn
<1>5. InsidePool'
  BY <1>1, SameFile DEF GInv, InsidePool
<1> QED
  BY <1>2, <1>3, <1>4, <1>5 DEF GInv

LEMMA InitPInv == ASSUME Init PROVE PInv
<1>1. FirstID \in [1 .. Len(FirstID) -> 0 .. DigitBase - 1]
  BY PerfAssumption
<1>2. MainTypes
  BY <1>1 DEF Init, MainTypes
<1>3. Made
  BY Sizes DEF Init, Made
<1>4. Items /\ Pools /\ FirstSegmentIsOwn /\ InsidePool
  <2>1. \A t \in Threads : MessageItems[t] = <<>> /\ MemMessages[t] = <<>>
    BY DEF Init
  <2>2. \A t \in Threads : DOMAIN MessageItems[t] = {} /\ DOMAIN MemMessages[t] = {}
    BY <2>1
  <2>3. \A t \in Threads : ~(t <= made)
    BY Sizes DEF Init
  <2>4. MessageItems \in [Threads -> Seq(Item)]
    <3>1. <<>> \in Seq(Item)
      OBVIOUS
    <3> QED
      BY <3>1 DEF Init
  <2>5. MemMessages = [t \in Threads |-> MemMessages[t]]
    BY DEF Init
  <2> QED
    BY <2>2, <2>3, <2>4, <2>5 DEF Init, Items, Pools, FirstSegmentIsOwn, InsidePool
<1>5. Places
  BY Sizes DEF Init, Places
<1>6. Connections
  <2>1. <<>> \in Seq(Requests) /\ 0 \in 0 .. MaxFaults
    BY ConnectionAssumption
  <2> QED
    BY <2>1 DEF Init, Connections, Threads
<1> QED
  BY <1>2, <1>3, <1>4, <1>5, <1>6 DEF GInv, PInv

-----------------------------------------------------------------------------
(* The main thread. *)

LEMMA NewThreadKeeps == ASSUME GInv, NewThread PROVE GInv'
<1>1. /\ main = "generate" /\ main' = main /\ file' = file /\ process' = process
      /\ ThreadsRun' = ThreadsRun /\ UpcountSessionID' = UpcountSessionID
      /\ overrun' = overrun /\ MessageItems' = MessageItems
      /\ made' = made + 1 /\ made < ThreadCount
      /\ made # 0 => Len(MessageItems[made]) = MessageCount
  BY DEF NewThread, ThreadComplete
<1>2. made \in Nat /\ file \in Files
  BY DEF GInv, Made, MainTypes
<1>3. /\ ThreadCount \in Nat /\ made + 1 \in Threads
      /\ {SessionAmount, MessageAmount, MessageLengthMin, MessageLengthMax} \subseteq Nat
  <2>1. ThreadCount \in Nat
    BY <1>1, <1>2, Values DEF NotANumber
  <2>2. {SessionAmount, MessageAmount, MessageLengthMin, MessageLengthMax} \subseteq Nat
    BY <1>2, Values DEF NewThread
  <2>3. made + 1 \in 1 .. ThreadCount
    BY <1>1, <1>2, <2>1
  <2> QED
    BY <1>2, <2>1, <2>2, <2>3, Values
<1>4. MainTypes'
  BY <1>1 DEF GInv, MainTypes
<1>5. \A t \in Threads : t \in Nat /\ t # 0
  BY Sizes
<1>6. MessageCount \in Nat
  BY <1>3 DEF MessageCount
<1>7. Made'
  <2>1. \A t \in Threads : Len(MessageItems[t]) <= IF t <= made + 1 THEN MessageCount ELSE 0
    BY <1>2, <1>5, <1>6 DEF GInv, Made
  <2>2. \A t \in Threads : t < made + 1 => Len(MessageItems[t]) = MessageCount
    BY <1>1, <1>2, <1>5 DEF GInv, Made
  <2>3. /\ MessageCount' = MessageCount /\ ThreadCount' = ThreadCount
        /\ SessionAmount' = SessionAmount /\ MessageAmount' = MessageAmount
        /\ MessageLengthMin' = MessageLengthMin /\ MessageLengthMax' = MessageLengthMax
    BY <1>1, SameFile
  <2>4. made + 1 <= ThreadCount /\ made + 1 \in Nat
    BY <1>1, <1>2, <1>3
  <2> QED
    BY <1>1, <1>3, <1>5, <2>1, <2>2, <2>3, <2>4 DEF Made
<1>8. /\ made + 1 \notin 0 .. made
      /\ MemMessages' = [MemMessages EXCEPT ![made + 1] = [a \in 0 .. PoolSize - 1 |-> NoRequest]]
  BY <1>1, <1>2 DEF NewThread, PoolSize
<1>9. Len(MessageItems[made + 1]) = 0 /\ DOMAIN MessageItems[made + 1] = {}
  <2>1. MessageItems[made + 1] \in Seq(Item)
    BY <1>3 DEF GInv, Items
  <2>2. Len(MessageItems[made + 1]) <= 0
    BY <1>2, <1>3, <1>5 DEF GInv, Made
  <2> QED
    BY <2>1, <2>2
<1>10. \A t \in Threads : t # made + 1 => MemMessages'[t] = MemMessages[t]
  BY <1>8 DEF GInv, Pools
<1>11. MemMessages'[made + 1] = [a \in 0 .. PoolSize - 1 |-> NoRequest]
  BY <1>3, <1>8 DEF GInv, Pools
<1>12. Items'
  BY <1>1, <1>9, <1>10 DEF GInv, Items
<1>13. Pools'
  <2>1. MemMessages' = [t \in Threads |-> MemMessages'[t]]
    BY <1>8 DEF GInv, Pools
  <2>2. \A t \in Threads : t <= made + 1 => t = made + 1 \/ t <= made
    BY <1>2, <1>5
  <2>3. PoolSize' = PoolSize
    BY <1>1, SameFile
  <2>4. \A t \in Threads : \A a \in DOMAIN MemMessages'[t] :
          MemMessages'[t][a] \in Requests \cup {NoRequest}
    <3> SUFFICES ASSUME NEW t \in Threads, NEW a \in DOMAIN MemMessages'[t]
                 PROVE  MemMessages'[t][a] \in Requests \cup {NoRequest}
      OBVIOUS
    <3>1. CASE t = made + 1
      BY <1>11, <3>1
    <3>2. CASE t # made + 1
      BY <1>10, <3>2 DEF GInv, Pools
    <3> QED
      BY <3>1, <3>2
  <2>5. \A t \in Threads : t <= made + 1 => DOMAIN MemMessages'[t] = 0 .. PoolSize - 1
    BY <1>10, <1>11, <2>2 DEF GInv, Pools
  <2> QED
    BY <1>1, <2>1, <2>3, <2>4, <2>5 DEF Pools
<1>14. FirstSegmentIsOwn'
  <2> SUFFICES ASSUME ~overrun, NEW t \in Threads, NEW n \in DOMAIN MessageItems[t],
                      NEW p \in 0 .. SegmentSize - 1, p < MessageItems[t][n].length
               PROVE  MemMessages'[t][MessageItems[t][n].address + p] = <<t, n>>
    BY <1>1 DEF FirstSegmentIsOwn
  <2>1. MemMessages[t][MessageItems[t][n].address + p] = <<t, n>>
    BY DEF GInv, FirstSegmentIsOwn
  <2>2. t # made + 1
    BY <1>9
  <2> QED
    BY <1>10, <2>1, <2>2
<1>15. InsidePool'
  BY <1>1, SameFile DEF GInv, InsidePool
<1> QED
  BY <1>4, <1>7, <1>12, <1>13, <1>14, <1>15 DEF GInv

(* incrementID gives an id again. *)
LEMMA Increment ==
  ASSUME NEW id \in [1 .. Len(FirstID) -> 0 .. DigitBase - 1]
  PROVE  IncrementID(id) \in [1 .. Len(FirstID) -> 0 .. DigitBase - 1]
<1>1. \A d \in Nat : d % DigitBase \in 0 .. DigitBase - 1
  BY Sizes
<1>2. \A d \in 1 .. Len(FirstID) : (id[d] + 1) % DigitBase \in 0 .. DigitBase - 1
  <2> TAKE d \in 1 .. Len(FirstID)
  <2>1. id[d] \in 0 .. DigitBase - 1
    OBVIOUS
  <2>2. id[d] + 1 \in Nat
    BY <2>1, Sizes
  <2> QED
    BY <1>1, <2>2
<1> QED
  BY <1>2 DEF IncrementID

(* The next message is given the next segment, which is in the pool. *)
LEMMA NextSegment ==
  ASSUME GInv, made # 0, made \in Threads,
         NEW n \in Nat, n = Len(MessageItems[made]) + 1, n <= MessageCount
  PROVE  LET last == IF n = 1 THEN 0 ELSE MessageItems[made][n - 1].offset
         IN  Mem!NextOffset(last) = n /\ Mem!Pointer(n) = n
<1>1. SessionAmount \in Nat /\ MessageAmount \in Nat /\ n \in 1 .. SessionAmount * MessageAmount
  <2>1. SessionAmount \in Nat /\ MessageAmount \in Nat
    BY DEF GInv, Made
  <2>2. MessageItems[made] \in Seq(Item)
    BY DEF GInv, Items
  <2>3. n >= 1
    BY <2>2
  <2> QED
    BY <2>1, <2>3 DEF MessageCount
<1>2. n < SegmentAmount /\ SegmentAmount \in Nat
  BY <1>1, Fits DEF SegmentAmount
<1>3. CASE n = 1
  BY <1>2, <1>3 DEF Mem!NextOffset, Mem!Pointer
<1>4. CASE n # 1
  <2>1. n - 1 \in DOMAIN MessageItems[made]
    <3>1. MessageItems[made] \in Seq(Item)
      BY DEF GInv, Items
    <3> QED
      BY <1>1, <1>4, <3>1
  <2>2. MessageItems[made][n - 1].offset = n - 1
    BY <2>1 DEF GInv, Items
  <2>3. Mem!NextOffset(n - 1) = n /\ Mem!Pointer(n) = n
    BY <1>1, <1>2, <1>4 DEF Mem!NextOffset, Mem!Pointer
  <2> QED
    BY <1>4, <2>2, <2>3
<1> QED
  BY <1>3, <1>4

(* What generateMessages writes, with the numbers that it computes. *)
Writes(n, length, hit) ==
  LET address == n * SegmentSize
      past == address + length - PoolSize
  IN  /\ MessageItems' = [MessageItems EXCEPT ![made] =
                            Append(@, [offset |-> n, address |-> address, length |-> length])]
      /\ MemMessages' = [s \in Threads |-> [a \in DOMAIN MemMessages[s] |->
                           IF \/ s = made /\ a \in address .. address + length - 1
                              \/ s = hit /\ s # made /\ a < past
                           THEN <<made, n>> ELSE MemMessages[s][a]]]
      /\ hit = made \/ past > 0
      /\ overrun' = (overrun \/ past > 0)

LEMMA GenerateWrites ==
  ASSUME GInv, NEW payload \in PayloadLengths, Generate(payload)
  PROVE  /\ main = "generate" /\ main' = main /\ file' = file /\ ThreadsRun' = ThreadsRun
         /\ made' = made /\ made # 0 /\ made \in Threads
         /\ process' \in {"running", "killed"}
         /\ UpcountSessionID' \in [1 .. Len(FirstID) -> 0 .. DigitBase - 1]
         /\ \E length \in 0 .. LengthRange - 1, hit \in 1 .. made :
              /\ Len(MessageItems[made]) + 1 <= MessageCount
              /\ Writes(Len(MessageItems[made]) + 1, length, hit)
<1>1. /\ main = "generate" /\ main' = main /\ file' = file /\ ThreadsRun' = ThreadsRun
      /\ made' = made /\ made > 0 /\ process' \in {"running", "killed"}
      /\ Len(MessageItems[made]) + 1 <= MessageCount
  BY DEF Generate
<1>2. /\ made \in Nat /\ made # 0 /\ made <= ThreadCount /\ file \in Files
      /\ MessageLengthMin \in Nat /\ MessageLengthMax \in Nat
  BY <1>1 DEF GInv, Made, MainTypes
<1>3. made \in Threads
  <2>1. ThreadCount \in Nat \cup {NotANumber}
    BY <1>2, Values
  <2>2. made \in 1 .. ThreadCount
    BY <1>2, <2>1 DEF NotANumber
  <2> QED
    BY <1>2, <2>2, Values
<1>4. UpcountSessionID' \in [1 .. Len(FirstID) -> 0 .. DigitBase - 1]
  <2>1. UpcountSessionID \in [1 .. Len(FirstID) -> 0 .. DigitBase - 1]
    BY DEF GInv, MainTypes
  <2>2. UpcountSessionID' \in {UpcountSessionID, IncrementID(UpcountSessionID)}
    BY DEF Generate
  <2> QED
    BY <2>1, <2>2, Increment
<1>5. payload \in Nat
  <2>1. CASE MessageLengthMin = MessageLengthMax
    BY <1>2, <2>1 DEF PayloadLengths
  <2>2. CASE MessageLengthMin # MessageLengthMax
    BY <1>2, <2>2 DEF PayloadLengths
  <2> QED
    BY <2>1, <2>2
<1>6. PICK length \in 0 .. LengthRange - 1 : length = (HeaderLength + payload) % LengthRange
  <2>1. HeaderLength + payload \in Nat /\ LengthRange \in Nat \ {0}
    BY <1>5, Sizes
  <2>2. (HeaderLength + payload) % LengthRange \in 0 .. LengthRange - 1
    BY <2>1
  <2> QED
    BY <2>2
<1>7. PICK n \in Nat : n = Len(MessageItems[made]) + 1
  BY <1>3 DEF GInv, Items
<1>8. PICK last : last = IF n = 1 THEN 0 ELSE MessageItems[made][n - 1].offset
  OBVIOUS
<1>9. Mem!NextOffset(last) = n /\ Mem!Pointer(Mem!NextOffset(last)) = n
  BY <1>1, <1>2, <1>3, <1>7, <1>8, NextSegment
<1>10. \E hit \in 1 .. made : Writes(n, length, hit)
  <2>1. PICK hit \in 1 .. made :
          /\ hit = made \/ n * SegmentSize + length - PoolSize > 0
          /\ MemMessages' = [s \in Threads |-> [a \in DOMAIN MemMessages[s] |->
                 IF \/ s = made /\ a \in n * SegmentSize .. n * SegmentSize + length - 1
                    \/ s = hit /\ s # made /\ a < n * SegmentSize + length - PoolSize
                 THEN <<made, n>> ELSE MemMessages[s][a]]]
    BY <1>6, <1>7, <1>8, <1>9 DEF Generate, PoolSize
  <2>2. MessageItems' = [MessageItems EXCEPT ![made] =
           Append(@, [offset |-> n, address |-> n * SegmentSize, length |-> length])]
    BY <1>6, <1>7, <1>8, <1>9 DEF Generate
  <2>3. overrun' = (overrun \/ n * SegmentSize + length - PoolSize > 0)
    BY <1>6, <1>7, <1>8, <1>9 DEF Generate, PoolSize
  <2> QED
    BY <2>1, <2>2, <2>3 DEF Writes
<1> QED
  BY <1>1, <1>2, <1>3, <1>4, <1>6, <1>7, <1>10

(* The segments of messages are in the pool. *)
LEMMA InPool ==
  ASSUME GInv, made # 0, NEW t \in Threads, t <= made, NEW n \in 1 .. MessageCount
  PROVE  /\ n \in Nat /\ n * SegmentSize \in Nat /\ PoolSize \in Nat
         /\ n * SegmentSize + SegmentSize <= PoolSize
         /\ \A l \in Nat : l <= SessionAmount * SegmentSize => n * SegmentSize + l <= PoolSize
         /\ DOMAIN MemMessages[t] = 0 .. PoolSize - 1
<1>1. SessionAmount \in Nat /\ MessageAmount \in Nat /\ SegmentSize \in Nat
  BY Sizes DEF GInv, Made
<1>2. n \in 1 .. SessionAmount * MessageAmount
  BY DEF MessageCount
<1>3. DOMAIN MemMessages[t] = 0 .. PoolSize - 1
  BY DEF GInv, Pools
<1>4. n \in Nat
  BY <1>1, <1>2
<1> QED
  BY <1>1, <1>2, <1>3, <1>4, Fits DEF PoolSize, SegmentAmount

LEMMA ItemInPool ==
  ASSUME GInv, NEW t \in Threads, NEW k \in DOMAIN MessageItems[t]
  PROVE  made # 0 /\ t <= made /\ k \in 1 .. MessageCount
<1>1. MessageItems[t] \in Seq(Item) /\ t \in Nat /\ t # 0 /\ made \in Nat
  BY Sizes DEF GInv, Items, Made
<1>2. PICK len \in Nat : len = Len(MessageItems[t]) /\ k \in 1 .. len
  BY <1>1
<1>3. len <= IF t <= made THEN MessageCount ELSE 0
  BY <1>2 DEF GInv, Made
<1>4. t <= made
  BY <1>2, <1>3
<1>5. SessionAmount \in Nat /\ MessageAmount \in Nat
  BY <1>1, <1>4 DEF GInv, Made
<1>6. MessageCount \in Nat
  BY <1>5 DEF MessageCount
<1> QED
  BY <1>1, <1>2, <1>3, <1>4, <1>6

LEMMA GenerateKeeps ==
  ASSUME GInv, NEW payload \in PayloadLengths, Generate(payload)
  PROVE  GInv'
<1>1. /\ main = "generate" /\ main' = main /\ file' = file /\ ThreadsRun' = ThreadsRun
      /\ made' = made /\ made # 0 /\ made \in Threads /\ process' \in {"running", "killed"}
      /\ UpcountSessionID' \in [1 .. Len(FirstID) -> 0 .. DigitBase - 1]
  BY GenerateWrites
<1>2. PICK length \in 0 .. LengthRange - 1, hit \in 1 .. made :
        /\ Len(MessageItems[made]) + 1 <= MessageCount
        /\ Writes(Len(MessageItems[made]) + 1, length, hit)
  BY GenerateWrites
<1>3. PICK n \in Nat : n = Len(MessageItems[made]) + 1
  BY <1>1 DEF GInv, Items
<1>4. /\ made \in Nat /\ length \in Nat /\ SegmentSize \in Nat \ {0}
      /\ SessionAmount \in Nat /\ MessageAmount \in Nat
  BY <1>1, Sizes DEF GInv, Made
<1>5. MessageCount \in Nat /\ n \in 1 .. MessageCount
  <2>1. MessageCount \in Nat
    BY <1>4 DEF MessageCount
  <2>2. Len(MessageItems[made]) \in Nat
    BY <1>1 DEF GInv, Items
  <2> QED
    BY <1>2, <1>3, <2>1, <2>2
<1>6. /\ n * SegmentSize \in Nat /\ PoolSize \in Nat
      /\ n * SegmentSize + SegmentSize <= PoolSize
      /\ length <= SessionAmount * SegmentSize => n * SegmentSize + length <= PoolSize
      /\ DOMAIN MemMessages[made] = 0 .. PoolSize - 1
  <2>1. made <= made
    BY <1>4
  <2>2. \A l \in Nat : l <= SessionAmount * SegmentSize => n * SegmentSize + l <= PoolSize
    BY <1>1, <1>5, <2>1, InPool
  <2> QED
    BY <1>1, <1>4, <1>5, <2>1, <2>2, InPool
<1>7. PICK address \in Nat : address = n * SegmentSize
  BY <1>6
<1>a. PICK limit \in Nat : limit = SessionAmount * SegmentSize
  BY <1>4
<1>b. /\ SegmentSize \in Nat \ {0} /\ length \in Nat /\ address \in Nat /\ PoolSize \in Nat
      /\ address + SegmentSize <= PoolSize
      /\ length <= limit => address + length <= PoolSize
      /\ DOMAIN MemMessages[made] = 0 .. PoolSize - 1
  BY <1>4, <1>6, <1>7, <1>a
<1>8. PICK new : new = [offset |-> n, address |-> address, length |-> length]
  OBVIOUS
<1>9. /\ MessageItems' = [MessageItems EXCEPT ![made] = Append(@, new)]
      /\ MemMessages' = [s \in Threads |-> [a \in DOMAIN MemMessages[s] |->
                           IF \/ s = made /\ a \in address .. address + length - 1
                              \/ s = hit /\ s # made /\ a < address + length - PoolSize
                           THEN <<made, n>> ELSE MemMessages[s][a]]]
      /\ hit = made \/ address + length - PoolSize > 0
      /\ overrun' = (overrun \/ address + length - PoolSize > 0)
  BY <1>2, <1>3, <1>7, <1>8 DEF Writes
<1>10. new \in Item /\ new.offset = n /\ new.address = address /\ new.length = length
  BY <1>8 DEF Item
<1>11. <<made, n>> \in Requests
  <2>1. MessageCount <= MaxMessages
    BY Values DEF GInv, MainTypes
  <2>2. n \in 1 .. MaxMessages
    BY <1>5, <2>1, Sizes
  <2> QED
    BY <1>1, <2>2, Sizes
<1>12. /\ MessageItems' \in [Threads -> Seq(Item)]
       /\ Len(MessageItems'[made]) = n /\ DOMAIN MessageItems'[made] = 1 .. n
       /\ MessageItems'[made][n] = new
       /\ \A k \in 1 .. n - 1 : k \in DOMAIN MessageItems[made]
                                /\ MessageItems'[made][k] = MessageItems[made][k]
       /\ \A t \in Threads : t # made => MessageItems'[t] = MessageItems[t]
  <2>1. MessageItems \in [Threads -> Seq(Item)]
    BY DEF GInv, Items
  <2>2. PICK s \in Seq(Item) : s = MessageItems[made]
    BY <1>1, <2>1
  <2>3. /\ Append(s, new) \in Seq(Item) /\ Len(s) = n - 1 /\ Len(Append(s, new)) = n
        /\ Append(s, new)[n] = new
        /\ \A k \in 1 .. n - 1 : k \in DOMAIN s /\ Append(s, new)[k] = s[k]
        /\ DOMAIN Append(s, new) = 1 .. n
    BY <1>3, <1>10, <2>2
  <2>4. MessageItems'[made] = Append(s, new)
    BY <1>1, <1>9, <2>1, <2>2
  <2>5. \A t \in Threads : t # made => MessageItems'[t] = MessageItems[t]
    BY <1>9, <2>1
  <2>6. MessageItems' \in [Threads -> Seq(Item)]
    BY <1>9, <2>1, <2>2, <2>3
  <2> QED
    BY <2>2, <2>3, <2>4, <2>5, <2>6
<1>13. /\ \A s \in Threads : DOMAIN MemMessages'[s] = DOMAIN MemMessages[s]
       /\ \A s \in Threads : \A a \in DOMAIN MemMessages[s] :
            MemMessages'[s][a] \in {<<made, n>>, MemMessages[s][a]}
       /\ \A a \in DOMAIN MemMessages[made] : a \in address .. address + length - 1
            => MemMessages'[made][a] = <<made, n>>
  BY <1>1, <1>9
<1>14. MainTypes'
  BY <1>1, <1>9 DEF GInv, MainTypes
<1>15. Made'
  <2>1. \A t \in Threads : Len(MessageItems'[t]) <= IF t <= made THEN MessageCount ELSE 0
    BY <1>4, <1>5, <1>12 DEF GInv, Made
  <2>2. \A t \in Threads : t < made => Len(MessageItems'[t]) = MessageCount
    BY <1>4, <1>12 DEF GInv, Made
  <2> QED
    BY <1>1, <2>1, <2>2, SameFile DEF GInv, Made
<1>16. \A t \in Threads : \A k \in DOMAIN MessageItems'[t] : t # made \/ k # n =>
         /\ k \in DOMAIN MessageItems[t] /\ MessageItems'[t][k] = MessageItems[t][k]
         /\ made # 0 /\ t <= made /\ k \in 1 .. MessageCount /\ (t = made => k < n)
  <2> SUFFICES ASSUME NEW t \in Threads, NEW k \in DOMAIN MessageItems'[t], t # made \/ k # n
               PROVE  /\ k \in DOMAIN MessageItems[t] /\ MessageItems'[t][k] = MessageItems[t][k]
                      /\ made # 0 /\ t <= made /\ k \in 1 .. MessageCount /\ (t = made => k < n)
    OBVIOUS
  <2>1. CASE t # made
    BY <1>12, <2>1, ItemInPool
  <2>2. CASE t = made
    <3>1. k \in 1 .. n - 1
      BY <1>5, <1>12, <2>2
    <3> QED
      BY <1>12, <2>2, <3>1, ItemInPool
  <2> QED
    BY <2>1, <2>2
<1>17. /\ address \in DOMAIN MemMessages[made]
       /\ \A p \in 0 .. SegmentSize - 1 : address + p \in DOMAIN MemMessages[made]
  BY <1>b
<1>18. Items'
  <2> SUFFICES ASSUME NEW t \in Threads, NEW k \in DOMAIN MessageItems'[t]
               PROVE  /\ MessageItems'[t][k].offset = k
                      /\ MessageItems'[t][k].address = k * SegmentSize
                      /\ MessageItems'[t][k].length # 0
                           => MemMessages'[t][MessageItems'[t][k].address] \in Requests
    BY <1>12 DEF Items
  <2>1. CASE t = made /\ k = n
    <3>1. length # 0 => address \in address .. address + length - 1
      BY <1>4, <1>7
    <3>2. length # 0 => MemMessages'[made][address] = <<made, n>>
      BY <1>13, <1>17, <3>1
    <3> QED
      BY <1>7, <1>10, <1>11, <1>12, <2>1, <3>2
  <2>2. CASE t # made \/ k # n
    <3>1. PICK item : item = MessageItems[t][k]
      OBVIOUS
    <3>2. /\ k \in DOMAIN MessageItems[t] /\ MessageItems'[t][k] = item
          /\ made # 0 /\ t <= made /\ k \in 1 .. MessageCount
      BY <1>16, <2>2, <3>1
    <3>3. /\ item.offset = k /\ item.address = k * SegmentSize
          /\ item.length # 0 => MemMessages[t][item.address] \in Requests
      BY <3>1, <3>2 DEF GInv, Items
    <3>4. k * SegmentSize \in DOMAIN MemMessages[t]
      <4>1. /\ k * SegmentSize \in Nat /\ k * SegmentSize + SegmentSize <= PoolSize
            /\ DOMAIN MemMessages[t] = 0 .. PoolSize - 1
        BY <3>2, InPool
      <4> QED
        BY <1>4, <1>6, <4>1
    <3>5. MemMessages'[t][item.address] \in {<<made, n>>, MemMessages[t][item.address]}
      BY <1>13, <3>3, <3>4
    <3> QED
      BY <1>11, <3>2, <3>3, <3>5
  <2> QED
    BY <2>1, <2>2
<1>19. Pools'
  <2>1. MemMessages' = [t \in Threads |-> MemMessages'[t]]
    BY <1>9
  <2>2. \A t \in Threads : \A a \in DOMAIN MemMessages'[t] :
          MemMessages'[t][a] \in Requests \cup {NoRequest}
    BY <1>11, <1>13 DEF GInv, Pools
  <2>3. PoolSize' = PoolSize
    BY <1>1, SameFile
  <2> QED
    BY <1>1, <1>13, <2>1, <2>2, <2>3 DEF GInv, Pools
<1>20. FirstSegmentIsOwn'
  <2> SUFFICES ASSUME ~overrun', NEW t \in Threads, NEW k \in DOMAIN MessageItems'[t],
                      NEW p \in 0 .. SegmentSize - 1, p < MessageItems'[t][k].length
               PROVE  MemMessages'[t][MessageItems'[t][k].address + p] = <<t, k>>
    BY DEF FirstSegmentIsOwn
  <2>1. ~overrun /\ hit = made /\ p \in Nat /\ p < SegmentSize
    <3>1. ~overrun /\ ~(address + length - PoolSize > 0)
      BY <1>9, Zenon
    <3>2. p \in Nat /\ p < SegmentSize
      BY <1>4
    <3> QED
      BY <1>9, <3>1, <3>2, Zenon
  <2>2. CASE t = made /\ k = n
    <3>1. p < length /\ MessageItems'[t][k].address = address
      BY <1>10, <1>12, <2>2
    <3>2. address + p \in address .. address + length - 1
      BY <1>4, <1>7, <2>1, <3>1
    <3> QED
      BY <1>13, <1>17, <2>2, <3>1, <3>2
  <2>3. CASE t # made \/ k # n
    <3>1. /\ k \in DOMAIN MessageItems[t] /\ MessageItems'[t][k] = MessageItems[t][k]
          /\ made # 0 /\ t <= made /\ k \in 1 .. MessageCount /\ (t = made => k < n)
      BY <1>16, <2>3
    <3>2. PICK a : a = MessageItems[t][k].address + p
      OBVIOUS
    <3>3. MessageItems[t][k].address = k * SegmentSize /\ MemMessages[t][a] = <<t, k>>
      BY <2>1, <3>1, <3>2 DEF GInv, Items, FirstSegmentIsOwn
    <3>4. /\ k \in Nat /\ k * SegmentSize \in Nat /\ k * SegmentSize + SegmentSize <= PoolSize
          /\ DOMAIN MemMessages[t] = 0 .. PoolSize - 1
      BY <3>1, InPool
    <3>5. a = k * SegmentSize + p /\ a \in DOMAIN MemMessages[t]
      <4>1. PICK start \in Nat : start = k * SegmentSize
        BY <3>4
      <4>2. start + SegmentSize <= PoolSize /\ a = start + p
        BY <3>2, <3>3, <3>4, <4>1
      <4>3. a \in 0 .. PoolSize - 1
        BY <1>b, <2>1, <4>2
      <4> QED
        BY <3>4, <4>1, <4>2, <4>3
    <3>6. t = made => a < address
      <4>1. t = made => k * SegmentSize + SegmentSize <= n * SegmentSize
        BY <1>4, <3>1, <3>4, Apart
      <4>2. PICK start \in Nat : start = k * SegmentSize
        BY <3>4
      <4>3. t = made => start + SegmentSize <= address
        BY <1>7, <4>1, <4>2
      <4>4. a = start + p
        BY <3>5, <4>2
      <4> QED
        BY <1>b, <2>1, <4>3, <4>4
    <3>7. ~(t = made /\ a \in address .. address + length - 1)
      <4>1. a \in Nat
        BY <2>1, <3>4, <3>5
      <4> QED
        BY <1>b, <3>6, <4>1
    <3>8. MemMessages'[t][a] = MemMessages[t][a]
      BY <1>9, <2>1, <3>5, <3>7
    <3> QED
      BY <3>1, <3>2, <3>3, <3>8
  <2> QED
    BY <2>2, <2>3
<1>21. InsidePool'
  <2> SUFFICES ASSUME overrun'
               PROVE  \E t \in Threads : \E k \in DOMAIN MessageItems'[t] :
                        MessageItems'[t][k].length > SessionAmount * SegmentSize
    BY <1>1, SameFile DEF InsidePool
  <2>1. CASE overrun
    <3>a. PICK t \in Threads : \E k \in DOMAIN MessageItems[t] :
            MessageItems[t][k].length > SessionAmount * SegmentSize
      BY <2>1 DEF GInv, InsidePool
    <3>1. PICK k \in DOMAIN MessageItems[t] :
            MessageItems[t][k].length > SessionAmount * SegmentSize
      BY <3>a
    <3>2. k \in DOMAIN MessageItems'[t] /\ MessageItems'[t][k] = MessageItems[t][k]
      <4>1. CASE t # made
        BY <1>12, <4>1
      <4>2. CASE t = made
        <5>1. k \in 1 .. n - 1
          BY <1>1, <1>3, <3>1, <4>2 DEF GInv, Items
        <5> QED
          BY <1>5, <1>12, <4>2, <5>1
      <4> QED
        BY <4>1, <4>2
    <3> QED
      BY <3>1, <3>2
  <2>2. CASE ~overrun
    <3>1. address + length - PoolSize > 0
      BY <1>9, <2>2
    <3>2. length > limit
      BY <1>b, <3>1
    <3>3. length > SessionAmount * SegmentSize
      BY <1>a, <3>2
    <3>4. n \in DOMAIN MessageItems'[made] /\ MessageItems'[made][n].length = length
      BY <1>5, <1>10, <1>12
    <3> QED
      BY <1>1, <3>3, <3>4
  <2> QED
    BY <2>1, <2>2
<1> QED
  BY <1>14, <1>15, <1>18, <1>19, <1>20, <1>21 DEF GInv

LEMMA ConnectionsStay == ASSUME Connections, UNCHANGED connVars PROVE Connections'
BY DEF Connections, connVars, statusVars, kernelVars, serverVars

LEMMA PlacesStay ==
  ASSUME Places, UNCHANGED <<file, state, i>>,
         main # "generate" => made' = made /\ main' # "generate"
  PROVE  Places'
BY SameFile DEF Places

LEMMA MainKeeps == ASSUME PInv, Main PROVE PInv'
<1>1. GInv /\ Places /\ Connections
  BY DEF PInv
<1>2. main \in {"generate", "spawn", "join"} /\ ThreadsRun \in BOOLEAN /\ process \in {"running", "ended", "terminated", "killed"}
  BY <1>1 DEF GInv, MainTypes
<1>3. ASSUME BadConfig \/ NoRange \/ Return PROVE PInv'
  <2>1. /\ UNCHANGED <<file, main, ThreadsRun, generated, state, i, connVars>>
        /\ process' \in {"running", "ended", "terminated", "killed"} /\ made' = made
    BY <1>3 DEF BadConfig, NoRange, Return, generated
  <2>2. GInv'
    BY <1>1, <1>2, <2>1, MessagesStay
  <2>3. Places'
    BY <1>1, <2>1, PlacesStay
  <2> QED
    BY <1>1, <2>1, <2>2, <2>3, ConnectionsStay DEF PInv
<1>4. ASSUME NewThread PROVE PInv'
  <2>1. UNCHANGED <<file, state, i>> /\ UNCHANGED connVars /\ main = "generate"
    BY <1>4 DEF NewThread, ThreadComplete
  <2>2. GInv'
    BY <1>1, <1>4, NewThreadKeeps
  <2>3. Places'
    BY <1>1, <2>1, PlacesStay
  <2>4. Connections'
    BY <1>1, <2>1, ConnectionsStay
  <2> QED
    BY <2>2, <2>3, <2>4 DEF PInv
<1>5. ASSUME NEW payload \in PayloadLengths, Generate(payload) PROVE PInv'
  <2>1. UNCHANGED <<file, state, i>> /\ UNCHANGED connVars /\ main = "generate"
    BY <1>5 DEF Generate
  <2>2. GInv'
    BY <1>1, <1>5, GenerateKeeps
  <2>3. Places'
    BY <1>1, <2>1, PlacesStay
  <2>4. Connections'
    BY <1>1, <2>1, ConnectionsStay
  <2> QED
    BY <2>2, <2>3, <2>4 DEF PInv
<1>6. ASSUME EndGenerate PROVE PInv'
  <2>1. /\ UNCHANGED <<file, process, ThreadsRun, generated, state, i, connVars>>
        /\ main = "generate" /\ main' = "spawn" /\ ThreadComplete /\ made = ThreadCount
    BY <1>6 DEF EndGenerate, ThreadComplete
  <2>2. GInv'
    BY <1>1, <1>2, <2>1, MessagesStay
  <2>3. Places'
    BY <1>1, <2>1, PlacesStay
  <2> QED
    BY <1>1, <2>1, <2>2, <2>3, ConnectionsStay DEF PInv
<1>7. ASSUME RunThreads PROVE PInv'
  <2>1. /\ UNCHANGED <<file, process, generated, state, i, connVars>>
        /\ main = "spawn" /\ main' = "join" /\ ThreadsRun' \in BOOLEAN /\ made' = made
    BY <1>7 DEF RunThreads, generated
  <2>2. GInv'
    BY <1>1, <1>2, <2>1, MessagesStay
  <2>3. Places'
    BY <1>1, <2>1, PlacesStay
  <2> QED
    BY <1>1, <2>1, <2>2, <2>3, ConnectionsStay DEF PInv
<1>8. ASSUME NEW t \in Threads, Spawn(t) PROVE PInv'
  <2>1. /\ UNCHANGED <<file, main, process, ThreadsRun, generated, i, connVars>>
        /\ main = "spawn" /\ t <= ThreadCount /\ state[t] = "unborn"
        /\ state' = [state EXCEPT ![t] = "connect"]
    BY <1>8 DEF Spawn
  <2>2. GInv'
    BY <1>1, <1>2, <2>1, MessagesStay
  <2>3. t <= made
    BY <1>1, <2>1 DEF GInv, Made
  <2>4. Places'
    BY <1>1, <2>1, <2>3, SameFile DEF Places, generated
  <2> QED
    BY <1>1, <2>1, <2>2, <2>4, ConnectionsStay DEF PInv
<1> QED
  BY <1>3, <1>4, <1>5, <1>6, <1>7, <1>8 DEF Main

-----------------------------------------------------------------------------
(* Threads. *)

(* socket() gives a descriptor or none. *)
LEMMA NewFDType == NewFD \in FDs \cup {0}
<1>1. CASE \A f \in FDs : sock[f] # "free"
  BY <1>1 DEF NewFD
<1>2. CASE ~ \A f \in FDs : sock[f] # "free"
  <2>1. PICK S : S = {f \in FDs : sock[f] = "free"}
    OBVIOUS
  <2>2. S \in SUBSET Nat /\ S # {}
    BY <1>2, <2>1 DEF FDs
  <2>3. PICK f \in S : \A g \in S : f <= g
    BY <2>2, Least
  <2>4. f \in FDs /\ sock[f] = "free" /\ \A g \in 1 .. f - 1 : sock[g] # "free"
    BY <2>1, <2>3, ConnectionAssumption DEF FDs
  <2>5. NewFD = CHOOSE g \in FDs : sock[g] = "free" /\ \A h \in 1 .. g - 1 : sock[h] # "free"
    BY <1>2 DEF NewFD
  <2> QED
    BY <2>4, <2>5
<1> QED
  BY <1>1, <1>2

(* The library's operations keep the types. *)
LEMMA ConstructTypes == ASSUME Connections, NEW t \in Objects, Construct(t) PROVE Connections'
<1>1. PICK f \in FDs \cup {0} : f = NewFD
  BY NewFDType
<1>2. /\ SocketFD' = [SocketFD EXCEPT ![t] = f]
      /\ sock' = IF f = 0 THEN sock ELSE [sock EXCEPT ![f] = IF up THEN "up" ELSE "idle"]
      /\ ConnStatus' = [ConnStatus EXCEPT ![t] = f # 0 /\ up]
      /\ \E b \in BOOLEAN : SendStatus' = [SendStatus EXCEPT ![t] = b]
      /\ \E b \in BOOLEAN : RecvStatus' = [RecvStatus EXCEPT ![t] = b]
      /\ UNCHANGED <<RecvBuffer, outbox, inbox, serverVars, written, stray>>
  BY <1>1 DEF Construct, Becomes
<1>3. ConnStatus' \in [Objects -> BOOLEAN] /\ SendStatus' \in [Objects -> BOOLEAN]
      /\ RecvStatus' \in [Objects -> BOOLEAN]
  BY <1>2 DEF Connections
<1>4. SocketFD' \in [Objects -> FDs \cup {0}]
      /\ sock' \in [FDs -> {"free", "idle", "up", "broken", "reset"}]
  BY <1>2 DEF Connections
<1> QED
  BY <1>2, <1>3, <1>4 DEF Connections, serverVars

LEMMA ReportedTypes ==
  ASSUME Connections, NEW t \in Objects, Reported(SocketFD[t])
  PROVE  sock' \in [FDs -> {"free", "idle", "up", "broken", "reset"}]
<1>1. PICK f \in FDs \cup {0} : f = SocketFD[t]
  BY DEF Connections
<1>2. PICK how : sock' = IF f = 0 THEN sock ELSE [sock EXCEPT ![f] = how]
  BY <1>1 DEF Reported, Becomes
<1> QED
  BY <1>1 DEF Connections, Reported, Becomes

LEMMA WriteTypes ==
  ASSUME Connections, NEW t \in Objects, NEW n \in Requests, Write(t, n),
         NEW ok \in BOOLEAN, SetSendStatus(t, ok), UNCHANGED RecvStatus
  PROVE  Connections'
<1>1. sock' \in [FDs -> {"free", "idle", "up", "broken", "reset"}]
  BY ReportedTypes DEF Write
<1>2. outbox' \in [FDs -> Seq(Requests)] /\ written' \in [Requests -> Nat]
  <2>1. CASE Is(t, "up")
    <3>1. PICK f \in FDs : f = SocketFD[t]
      BY <2>1 DEF Is, Connections
    <3>2. /\ outbox' = [outbox EXCEPT ![f] = Append(@, n)]
          /\ written' = [written EXCEPT ![n] = @ + 1]
      BY <2>1, <3>1 DEF Write
    <3>3. Append(outbox[f], n) \in Seq(Requests)
      BY <3>1 DEF Connections
    <3>4. written[n] + 1 \in Nat
      BY DEF Connections
    <3> QED
      BY <3>2, <3>3, <3>4 DEF Connections
  <2>2. CASE ~Is(t, "up")
    BY <2>2 DEF Write, Connections
  <2> QED
    BY <2>1, <2>2
<1>3. ConnStatus' \in [Objects -> BOOLEAN] /\ SendStatus' \in [Objects -> BOOLEAN]
  <2>1. ConnStatus' = [ConnStatus EXCEPT ![t] = ok \/ @] /\ SendStatus' = [SendStatus EXCEPT ![t] = ok]
    BY DEF SetSendStatus
  <2> QED
    BY <2>1 DEF Connections
<1>4. UNCHANGED <<SocketFD, RecvBuffer, inbox, up, faults, stray>>
  BY DEF Write, serverVars
<1> QED
  BY <1>1, <1>2, <1>3, <1>4 DEF Connections

LEMMA ReadTypes ==
  ASSUME Connections, NEW t \in Objects, NEW result \in {"reply", "end", "error"},
         Read(t, SocketFD[t], result), SetRecvStatus(t, result), UNCHANGED SendStatus
  PROVE  Connections'
<1>1. sock' \in [FDs -> {"free", "idle", "up", "broken", "reset"}]
  BY ReportedTypes DEF Read
<1>2. inbox' \in [FDs -> Seq(Requests)] /\ RecvBuffer' \in [Objects -> Requests \cup {NoRequest}]
  <2>1. CASE result = "reply"
    <3>1. PICK f \in FDs : f = SocketFD[t]
      BY <2>1 DEF Read, Connections
    <3>2. /\ inbox[f] # <<>> /\ inbox' = [inbox EXCEPT ![f] = Tail(@)]
          /\ RecvBuffer' = [RecvBuffer EXCEPT ![t] = Head(inbox[f])]
      BY <2>1, <3>1 DEF Read
    <3>3. inbox[f] \in Seq(Requests)
      BY DEF Connections
    <3>4. Tail(inbox[f]) \in Seq(Requests) /\ Head(inbox[f]) \in Requests
      BY <3>2, <3>3
    <3> QED
      BY <3>2, <3>4 DEF Connections
  <2>2. CASE result # "reply"
    BY <2>2 DEF Read, Connections
  <2> QED
    BY <2>1, <2>2
<1>3. ConnStatus' \in [Objects -> BOOLEAN] /\ RecvStatus' \in [Objects -> BOOLEAN]
  <2>1. PICK x \in BOOLEAN, y \in BOOLEAN, z \in BOOLEAN :
          x = (result = "reply") /\ y = (result # "end") /\ z = (result # "error")
    OBVIOUS
  <2>2. /\ ConnStatus' = [ConnStatus EXCEPT ![t] = x \/ (@ /\ y)]
        /\ RecvStatus' = [RecvStatus EXCEPT ![t] = x \/ (@ /\ z)]
    BY <2>1 DEF SetRecvStatus
  <2> QED
    BY <2>2 DEF Connections
<1>4. UNCHANGED <<SocketFD, outbox, up, faults, written, stray>>
  BY DEF Read, serverVars
<1> QED
  BY <1>1, <1>2, <1>3, <1>4 DEF Connections

(* What a thread that sends has to send is a message of its own. *)
LEMMA NextItem ==
  ASSUME GInv, Places, NEW t \in Threads, state[t] \in {"send", "read"}, HasNext(t)
  PROVE  /\ i[t] \in DOMAIN MessageItems[t] /\ i[t] \in 1 .. MaxMessages
         /\ ~NextIsEmpty(t) => MemMessages[t][MessageItems[t][i[t]].address] \in Requests
<1>1. t <= made /\ main # "generate" /\ t \in Nat /\ t # 0 /\ made \in Nat
  BY Sizes DEF Places, GInv, Made
<1>2. Len(MessageItems[t]) = MessageCount /\ MessageItems[t] \in Seq(Item)
  BY <1>1 DEF GInv, Made, Items
<1>3. i[t] \in 1 .. MaxMessages + 1 /\ MaxMessages \in Nat
  BY Sizes DEF Places
<1>4. MessageCount \in Nat /\ MessageCount <= MaxMessages
  BY <1>2, Values DEF GInv, MainTypes
<1>5. i[t] \in 1 .. MaxMessages /\ i[t] \in DOMAIN MessageItems[t]
  BY <1>2, <1>3, <1>4 DEF HasNext
<1> QED
  BY <1>5 DEF GInv, Items, NextIsEmpty

LEMMA OutcomesType == ASSUME NEW t PROVE Outcomes(t) \subseteq BOOLEAN
BY DEF Outcomes, Is

LEMMA ThreadKeeps ==
  ASSUME PInv, NEW t \in Threads, ThreadStep(t)
  PROVE  PInv'
<1>1. GInv /\ Places /\ Connections /\ t \in Objects
  BY DEF PInv, Threads
<1>2. /\ UNCHANGED <<file, main, ThreadsRun, generated>>
      /\ process' \in {"running", "ended", "terminated", "killed"} /\ made' = made
  BY <1>1 DEF ThreadStep, Persist, StayUnconnected, Begin, Send, SendNothing, Receive,
              ReceiveElsewhere, Finish, generated, GInv, MainTypes
<1>3. GInv'
  <2>1. main \in {"generate", "spawn", "join"} /\ ThreadsRun \in BOOLEAN
    BY <1>1 DEF GInv, MainTypes
  <2> QED
    BY <1>1, <1>2, <2>1, MessagesStay
<1>4. MessageCount' = MessageCount
  BY <1>2, SameFile
<1>5. CASE Persist(t)
  <2>1. Connections'
    BY <1>1, <1>5, ConstructTypes DEF Persist
  <2>2. Places'
    BY <1>1, <1>2, <1>4, <1>5 DEF Persist, Places
  <2> QED
    BY <1>3, <2>1, <2>2 DEF PInv
<1>6. CASE Begin(t)
  <2>1. Connections'
    BY <1>1, <1>6, ConnectionsStay DEF Begin
  <2>2. Places'
    BY <1>1, <1>2, <1>4, <1>6 DEF Begin, Places
  <2> QED
    BY <1>3, <2>1, <2>2 DEF PInv
<1>7. CASE Send(t)
  <2>1. PICK n \in Requests : n = MemMessages[t][MessageItems[t][i[t]].address]
    BY <1>1, <1>7, NextItem DEF Send
  <2>2. Connections'
    <3>1. PICK ok \in BOOLEAN : SetSendStatus(t, ok)
      BY <1>7, OutcomesType DEF Send
    <3> QED
      BY <1>1, <1>7, <2>1, <3>1, WriteTypes DEF Send
  <2>3. Places'
    BY <1>1, <1>2, <1>4, <1>7 DEF Send, HasNext, Places
  <2> QED
    BY <1>3, <2>2, <2>3 DEF PInv
<1>8. CASE SendNothing(t)
  <2>1. sock' \in [FDs -> {"free", "idle", "up", "broken", "reset"}]
    BY <1>1, <1>8, ReportedTypes DEF SendNothing
  <2>2. PICK ok \in BOOLEAN : /\ ConnStatus' = [ConnStatus EXCEPT ![t] = @ /\ ~ok]
                               /\ SendStatus' = [SendStatus EXCEPT ![t] = @ /\ ok]
    BY <1>8, OutcomesType DEF SendNothing
  <2>3. UNCHANGED <<RecvStatus, SocketFD, RecvBuffer, outbox, inbox, up, faults, written, stray>>
    BY <1>8 DEF SendNothing, serverVars
  <2>4. ConnStatus' \in [Objects -> BOOLEAN] /\ SendStatus' \in [Objects -> BOOLEAN]
    BY <1>1, <2>2 DEF Connections
  <2>5. Connections'
    BY <1>1, <2>1, <2>3, <2>4 DEF Connections
  <2>6. Places'
    BY <1>1, <1>2, <1>4, <1>8 DEF SendNothing, HasNext, Places
  <2> QED
    BY <1>3, <2>5, <2>6 DEF PInv
<1>9. ASSUME state[t] = "read", state' = [state EXCEPT ![t] = "send"],
              i' = [i EXCEPT ![t] = @ + 1]
       PROVE  Places'
  <2>1. i[t] + 1 \in 1 .. MaxMessages + 1
    <3>1. HasNext(t)
      BY <1>1, <1>9 DEF Places, HasNext
    <3>2. i[t] \in 1 .. MaxMessages
      BY <1>1, <1>9, <3>1, NextItem
    <3> QED
      BY <3>2, Sizes
  <2> QED
    BY <1>1, <1>2, <1>4, <1>9, <2>1 DEF Places
<1>10. CASE Receive(t)
  <2>1. PICK result \in {"reply", "end", "error"} :
          Read(t, SocketFD[t], result) /\ SetRecvStatus(t, result)
    BY <1>10 DEF Receive
  <2>2. Connections'
    BY <1>1, <1>10, <2>1, ReadTypes DEF Receive
  <2>3. Places'
    BY <1>10, <1>9 DEF Receive
  <2> QED
    BY <1>3, <2>2, <2>3 DEF PInv
<1>11. CASE ReceiveElsewhere(t)
  <2>1. PICK result \in {"reply", "end", "error"} : SetRecvStatus(t, result)
    BY <1>11 DEF ReceiveElsewhere
  <2>2. PICK x \in BOOLEAN, y \in BOOLEAN, z \in BOOLEAN :
          x = (result = "reply") /\ y = (result # "end") /\ z = (result # "error")
    OBVIOUS
  <2>3. /\ ConnStatus' = [ConnStatus EXCEPT ![t] = x \/ (@ /\ y)]
        /\ RecvStatus' = [RecvStatus EXCEPT ![t] = x \/ (@ /\ z)]
    BY <2>1, <2>2 DEF SetRecvStatus
  <2>4. ConnStatus' \in [Objects -> BOOLEAN] /\ RecvStatus' \in [Objects -> BOOLEAN]
    BY <1>1, <2>3 DEF Connections
  <2>5. UNCHANGED <<SendStatus, SocketFD, RecvBuffer, sock, outbox, inbox, up, faults,
                    written, stray>>
    BY <1>11 DEF ReceiveElsewhere, kernelVars, serverVars
  <2>6. Connections'
    BY <1>1, <2>4, <2>5 DEF Connections
  <2>7. Places'
    BY <1>9, <1>11 DEF ReceiveElsewhere
  <2> QED
    BY <1>3, <2>6, <2>7 DEF PInv
<1>12. CASE StayUnconnected(t)
  <2>1. /\ \E b \in BOOLEAN : SendStatus' = [SendStatus EXCEPT ![t] = b]
        /\ \E b \in BOOLEAN : RecvStatus' = [RecvStatus EXCEPT ![t] = b]
        /\ UNCHANGED <<ConnStatus, SocketFD, RecvBuffer, sock, outbox, inbox, up, faults,
                       written, stray>>
    BY <1>12 DEF StayUnconnected, kernelVars, serverVars
  <2>2. SendStatus' \in [Objects -> BOOLEAN] /\ RecvStatus' \in [Objects -> BOOLEAN]
    BY <1>1, <2>1 DEF Connections
  <2>3. Connections'
    BY <1>1, <2>1, <2>2 DEF Connections
  <2>4. Places'
    BY <1>1, <1>2, <1>4, <1>12 DEF StayUnconnected, Places
  <2> QED
    BY <1>3, <2>3, <2>4 DEF PInv
<1>13. CASE Finish(t)
  <2>1. Connections'
    BY <1>1, <1>13, ConnectionsStay DEF Finish
  <2>2. Places'
    BY <1>1, <1>2, <1>4, <1>13 DEF Finish, Places
  <2> QED
    BY <1>3, <2>1, <2>2 DEF PInv
<1> QED
  BY <1>5, <1>6, <1>7, <1>8, <1>10, <1>11, <1>12, <1>13 DEF ThreadStep

-----------------------------------------------------------------------------
(* The server, and the theorems. *)

LEMMA ServerKeeps == ASSUME PInv, Server PROVE PInv'
<1>1. GInv /\ Places /\ Connections
  BY DEF PInv
<1>2. UNCHANGED perfVars
  BY DEF Server, CloseAtNothing
<1>3. /\ file' = file /\ main' = main /\ process' = process /\ ThreadsRun' = ThreadsRun
      /\ generated' = generated /\ state' = state /\ i' = i /\ made' = made
  BY <1>2 DEF perfVars, generated
<1>4. GInv'
  <2>1. /\ main \in {"generate", "spawn", "join"} /\ ThreadsRun \in BOOLEAN
        /\ process \in {"running", "ended", "terminated", "killed"}
    BY <1>1 DEF GInv, MainTypes
  <2> QED
    BY <1>1, <1>3, <2>1, MessagesStay
<1>5. Places'
  BY <1>1, <1>3, PlacesStay
<1>6. ASSUME Stop PROVE Connections'
  <2>1. sock' \in [FDs -> {"free", "idle", "up", "broken", "reset"}]
    BY <1>6 DEF Stop
  <2>2. outbox' \in [FDs -> Seq(Requests)]
    <3>1. <<>> \in Seq(Requests)
      OBVIOUS
    <3> QED
      BY <1>6, <3>1 DEF Stop
  <2>3. faults' \in 0 .. MaxFaults
    BY <1>1, <1>6, ConnectionAssumption DEF Stop, Fault, Connections
  <2> QED
    BY <1>1, <1>6, <2>1, <2>2, <2>3 DEF Stop, statusVars, Connections
<1>7. ASSUME Start PROVE Connections'
  BY <1>1, <1>7 DEF Start, statusVars, kernelVars, Connections
<1>8. ASSUME NEW f \in FDs, Answer(f, FALSE) PROVE Connections'
  <2>1. outbox[f] \in Seq(Requests) /\ outbox[f] # <<>> /\ inbox[f] \in Seq(Requests)
    BY <1>1, <1>8 DEF Answer, Connections
  <2>2. PICK b \in Seq(Requests), c \in Seq(Requests) :
          b = Tail(outbox[f]) /\ c = Append(inbox[f], Head(outbox[f]))
    <3>1. Head(outbox[f]) \in Requests /\ Tail(outbox[f]) \in Seq(Requests)
      BY <2>1
    <3>2. Append(inbox[f], Head(outbox[f])) \in Seq(Requests)
      BY <2>1, <3>1
    <3> QED
      BY <3>1, <3>2
  <2>3. /\ outbox' = [outbox EXCEPT ![f] = b] /\ inbox' = [inbox EXCEPT ![f] = c]
        /\ sock' = sock
        /\ UNCHANGED <<statusVars, SocketFD, RecvBuffer, serverVars, written, stray>>
    BY <1>8, <2>2 DEF Answer
  <2>4. outbox' \in [FDs -> Seq(Requests)] /\ inbox' \in [FDs -> Seq(Requests)]
    BY <1>1, <2>3 DEF Connections
  <2> QED
    BY <1>1, <2>3, <2>4 DEF statusVars, serverVars, Connections
<1>9. ASSUME NEW f \in FDs, Cut(f) PROVE Connections'
  <2>1. PICK how \in {"broken", "reset"} : sock' = [sock EXCEPT ![f] = how]
    BY <1>9 DEF Cut, Broken
  <2>2. sock' \in [FDs -> {"free", "idle", "up", "broken", "reset"}]
    BY <1>1, <2>1 DEF Connections
  <2>3. outbox' \in [FDs -> Seq(Requests)]
    <3>1. <<>> \in Seq(Requests)
      OBVIOUS
    <3> QED
      BY <1>1, <1>9, <3>1 DEF Cut, Connections
  <2>4. faults' \in 0 .. MaxFaults
    BY <1>1, <1>9, ConnectionAssumption DEF Cut, Fault, Connections
  <2> QED
    BY <1>1, <1>9, <2>2, <2>3, <2>4 DEF Cut, statusVars, Connections
<1>10. ASSUME NEW t \in Threads, CloseAtNothing(t) PROVE Connections'
  <2>1. PICK f \in FDs : f = SocketFD[t]
    BY <1>1, <1>10 DEF CloseAtNothing, Is, Connections, Threads
  <2>2. sock' = [sock EXCEPT ![f] = "broken"]
    BY <1>10, <2>1 DEF CloseAtNothing, Becomes, FDs
  <2>3. sock' \in [FDs -> {"free", "idle", "up", "broken", "reset"}]
    BY <1>1, <2>2 DEF Connections
  <2> QED
    BY <1>1, <1>10, <2>3 DEF CloseAtNothing, statusVars, serverVars, Connections
<1>11. Connections'
  BY <1>6, <1>7, <1>8, <1>9, <1>10 DEF Server
<1> QED
  BY <1>4, <1>5, <1>11 DEF PInv

LEMMA PInvariance == Spec => []PInv
<1>1. Init => PInv
  BY InitPInv
<1>2. PInv /\ [Next]_vars => PInv'
  <2> SUFFICES ASSUME PInv, [Next]_vars PROVE PInv'
    OBVIOUS
  <2>1. CASE Main
    BY <2>1, MainKeeps
  <2>2. CASE Server
    BY <2>2, ServerKeeps
  <2>3. ASSUME NEW t \in Threads, ThreadStep(t) PROVE PInv'
    BY <2>3, ThreadKeeps
  <2>4. CASE UNCHANGED vars
    <3>1. UNCHANGED perfVars /\ UNCHANGED connVars
      BY <2>4 DEF vars
    <3>2. /\ file' = file /\ main' = main /\ process' = process /\ ThreadsRun' = ThreadsRun
          /\ generated' = generated /\ state' = state /\ i' = i /\ made' = made
      BY <3>1 DEF perfVars, generated
    <3>3. GInv /\ Places /\ Connections
      BY DEF PInv
    <3>4. GInv'
      <4>1. /\ main \in {"generate", "spawn", "join"} /\ ThreadsRun \in BOOLEAN
            /\ process \in {"running", "ended", "terminated", "killed"}
        BY <3>3 DEF GInv, MainTypes
      <4> QED
        BY <3>2, <3>3, <4>1, MessagesStay
    <3> QED
      BY <3>1, <3>2, <3>3, <3>4, PlacesStay, ConnectionsStay DEF PInv
  <2> QED
    BY <2>1, <2>2, <2>3, <2>4 DEF Next
<1> QED
  BY <1>1, <1>2, PTL DEF Spec

(* The performance client is type-correct: each thread counts its own      *)
(* messages only, every value it generates has its type, and what it       *)
(* writes to a connection is one of the messages in its pool.              *)
THEOREM PerfTypes == Spec => []TypeOK
<1>1. PInv => TypeOK
  <2> SUFFICES ASSUME PInv PROVE TypeOK
    OBVIOUS
  <2>1. ConnTypeOK
    BY DEF PInv, Connections, ConnTypeOK
  <2>2. made \in Threads \cup {0}
    <3>1. CASE made # 0
      <4>1. made \in Nat /\ made <= ThreadCount
        BY <3>1 DEF PInv, GInv, Made
      <4>2. ThreadCount \in Nat \cup {NotANumber} /\ 1 .. ThreadCount \subseteq Threads
        BY Values DEF PInv, GInv, MainTypes
      <4>3. made \in 1 .. ThreadCount
        BY <3>1, <4>1, <4>2 DEF NotANumber
      <4> QED
        BY <4>2, <4>3
    <3> QED
      BY <3>1
  <2> QED
    BY <2>1, <2>2 DEF PInv, GInv, MainTypes, Items, Item, Pools, Places, TypeOK
<1> QED
  BY <1>1, PInvariance, PTL

(* As long as no message left its pool, the first segment of every message *)
(* holds that message, for messages of any lengths.                        *)
THEOREM OwnSegment == Spec => []FirstSegmentIsOwn
<1>1. PInv => FirstSegmentIsOwn
  BY DEF PInv, GInv
<1> QED
  BY <1>1, PInvariance, PTL

(* Only a message longer than as many segments as a thread has sessions    *)
(* leaves the pool, for any numbers of sessions and messages.              *)
THEOREM PoolIsKept == Spec => []InsidePool
<1>1. PInv => InsidePool
  BY DEF PInv, GInv
<1> QED
  BY <1>1, PInvariance, PTL

-----------------------------------------------------------------------------
(* The counter of sessions. *)

IDs == [1 .. Len(FirstID) -> 0 .. DigitBase - 1]

(* The numbers that the first 0, 1, ... elements of an id show. *)
Shown(id, g) ==
  /\ g \in [0 .. Len(FirstID) -> Nat]
  /\ g[0] = 0
  /\ \A d \in 1 .. Len(FirstID) : g[d] = g[d - 1] * DigitBase + id[d]

Prefixes(id) == CHOOSE g \in [0 .. Len(FirstID) -> Nat] : Shown(id, g)

NumberOf(id) == Prefixes(id)[Len(FirstID)]

LastID == [d \in 1 .. Len(FirstID) |-> DigitBase - 1]

LEMMA Length == Len(FirstID) \in Nat /\ FirstID \in IDs /\ LastID \in IDs
<1>1. FirstID \in Seq(0 .. DigitBase - 1)
  BY PerfAssumption
<1> QED
  BY <1>1, Sizes DEF IDs, LastID

LEMMA Digits ==
  ASSUME NEW id \in IDs, NEW d \in 1 .. Len(FirstID)
  PROVE  id[d] \in 0 .. DigitBase - 1 /\ id[d] \in Nat
BY Sizes DEF IDs

(* Every id shows a number. *)
LEMMA ShowsNumber ==
  ASSUME NEW id \in IDs
  PROVE  Shown(id, Prefixes(id)) /\ NumberOf(id) \in Nat
<1> DEFINE Upto(d, g) == /\ g \in [0 .. d -> Nat] /\ g[0] = 0
                         /\ \A e \in 1 .. d : g[e] = g[e - 1] * DigitBase + id[e]
           T == {d \in 0 .. Len(FirstID) : \E g : Upto(d, g)}
<1>1. Upto(0, [e \in 0 .. 0 |-> 0])
  OBVIOUS
<1>2. 0 \in T
  <2>1. 0 \in 0 .. Len(FirstID)
    BY Length
  <2>2. \E g : Upto(0, g)
    BY <1>1
  <2> HIDE DEF Upto
  <2> QED
    BY <2>1, <2>2
<1>3. ASSUME NEW d \in 1 .. Len(FirstID), d - 1 \in T PROVE d \in T
  <2>1. PICK g : Upto(d - 1, g)
    BY <1>3
  <2>2. PICK x \in Nat : x = g[d - 1] * DigitBase + id[d]
    <3>1. g[d - 1] \in Nat /\ id[d] \in Nat
      BY <2>1, Digits
    <3> QED
      BY <3>1, Sizes
  <2> DEFINE h == [e \in 0 .. d |-> IF e = d THEN x ELSE g[e]]
  <2>3. h \in [0 .. d -> Nat] /\ h[0] = 0
    BY <2>1
  <2>4. ASSUME NEW e \in 1 .. d PROVE h[e] = h[e - 1] * DigitBase + id[e]
    <3>1. CASE e = d
      BY <2>2, <3>1
    <3>2. CASE e # d
      <4>1. e \in 1 .. d - 1 /\ e - 1 \in 0 .. d /\ e - 1 # d /\ e \in 0 .. d
        BY <3>2
      <4>2. g[e] = g[e - 1] * DigitBase + id[e]
        BY <2>1, <4>1
      <4>3. h[e] = g[e] /\ h[e - 1] = g[e - 1]
        BY <3>2, <4>1
      <4> QED
        BY <4>2, <4>3
    <3> QED
      BY <3>1, <3>2
  <2> HIDE DEF h
  <2>5. Upto(d, h)
    BY <2>3, <2>4
  <2>6. d \in 0 .. Len(FirstID)
    BY Length
  <2> QED
    BY <2>5, <2>6
<1>4. Len(FirstID) \in T
  <2> HIDE DEF T
  <2>1. 0 .. Len(FirstID) \subseteq T
    BY <1>2, <1>3, Length, Upwards
  <2> QED
    BY <2>1, Length
<1>5. \E g \in [0 .. Len(FirstID) -> Nat] : Shown(id, g)
  BY <1>4 DEF Shown
<1>6. Shown(id, Prefixes(id))
  BY <1>5 DEF Prefixes
<1> QED
  BY <1>6, Length DEF Shown, NumberOf

(* What an id shows is at most what the last one shows. *)
LEMMA AtMostLast ==
  ASSUME NEW id \in IDs
  PROVE  NumberOf(id) <= NumberOf(LastID)
<1> DEFINE g == Prefixes(id)
           h == Prefixes(LastID)
           T == {d \in 0 .. Len(FirstID) : g[d] <= h[d]}
<1>1. Shown(id, g) /\ Shown(LastID, h)
  BY ShowsNumber, Length
<1> HIDE DEF g, h
<1>2. 0 \in T
  BY <1>1, Length DEF Shown
<1>3. ASSUME NEW d \in 1 .. Len(FirstID), d - 1 \in T PROVE d \in T
  <2>1. d - 1 \in 0 .. Len(FirstID) /\ d \in 0 .. Len(FirstID)
    BY Length
  <2>2. g[d - 1] \in Nat /\ h[d - 1] \in Nat /\ g[d - 1] <= h[d - 1]
    BY <1>1, <1>3, <2>1 DEF Shown
  <2>3. PICK p \in Nat, q \in Nat : p = g[d - 1] * DigitBase /\ q = h[d - 1] * DigitBase /\ p <= q
    BY <2>2, Multiples, Sizes
  <2>4. g[d] = p + id[d] /\ h[d] = q + (DigitBase - 1)
    BY <1>1, <2>3 DEF Shown, LastID
  <2>5. id[d] \in 0 .. DigitBase - 1
    BY Digits
  <2>6. g[d] <= h[d]
    BY <2>3, <2>4, <2>5, Sizes
  <2> QED
    BY <2>1, <2>6
<1>4. Len(FirstID) \in T
  <2> HIDE DEF T
  <2>1. 0 .. Len(FirstID) \subseteq T
    BY <1>2, <1>3, Length, Upwards
  <2> QED
    BY <2>1, Length
<1> QED
  BY <1>4 DEF NumberOf, g, h

(* Two ids show two numbers. *)
LEMMA SameNumber ==
  ASSUME NEW id \in IDs, NEW od \in IDs, NumberOf(id) = NumberOf(od)
  PROVE  id = od
<1> DEFINE g == Prefixes(id)
           h == Prefixes(od)
<1>1. PICK n \in Nat : n = Len(FirstID)
  BY Length
<1>2. Shown(id, g) /\ Shown(od, h) /\ g[n] = h[n]
  BY <1>1, ShowsNumber DEF NumberOf
<1> HIDE DEF g, h
<1>3. ASSUME NEW d \in 1 .. n, g[d] = h[d] PROVE g[d - 1] = h[d - 1] /\ id[d] = od[d]
  <2>1. d \in 1 .. Len(FirstID) /\ d - 1 \in 0 .. Len(FirstID)
    BY <1>1
  <2>2. PICK p \in Nat, q \in Nat : p = g[d - 1] /\ q = h[d - 1]
    BY <1>2, <2>1 DEF Shown
  <2>3. g[d] = p * DigitBase + id[d] /\ h[d] = q * DigitBase + od[d]
    BY <1>2, <2>1, <2>2 DEF Shown
  <2>4. id[d] \in 0 .. DigitBase - 1 /\ od[d] \in 0 .. DigitBase - 1
    BY <2>1, Digits
  <2>5. DigitBase \in Nat /\ p * DigitBase + id[d] = q * DigitBase + od[d]
    BY <1>3, <2>3, Sizes
  <2>6. p = q /\ id[d] = od[d]
    BY <2>4, <2>5, OneWay
  <2> QED
    BY <2>2, <2>6
<1> DEFINE T == {d \in 0 .. n : g[n - d] = h[n - d]}
<1>4. 0 \in T
  BY <1>2
<1>5. ASSUME NEW d \in 1 .. n, d - 1 \in T PROVE d \in T
  <2>1. n - (d - 1) \in 1 .. n /\ (n - (d - 1)) - 1 = n - d /\ d \in 0 .. n
    OBVIOUS
  <2>2. g[n - (d - 1)] = h[n - (d - 1)]
    BY <1>5
  <2>3. g[(n - (d - 1)) - 1] = h[(n - (d - 1)) - 1]
    BY <1>3, <2>1, <2>2
  <2> QED
    BY <2>1, <2>3
<1>6. 0 .. n \subseteq T
  <2> HIDE DEF T
  <2> QED
    BY <1>4, <1>5, Upwards
<1>7. ASSUME NEW d \in 1 .. n PROVE id[d] = od[d]
  <2>1. n - d \in 0 .. n /\ n - (n - d) = d
    OBVIOUS
  <2>2. n - d \in T
    BY <1>6, <2>1
  <2>3. g[d] = h[d]
    BY <2>1, <2>2
  <2> QED
    BY <1>3, <2>3
<1> QED
  BY <1>1, <1>7 DEF IDs

(* There are no more ids than numbers up to that of the last one. *)
LEMMA HowMany ==
  /\ IsFiniteSet(IDs)
  /\ Cardinality(IDs) \in Nat /\ Cardinality(IDs) <= NumberOf(LastID) + 1
<1> DEFINE f == [id \in IDs |-> NumberOf(id)]
<1>1. PICK m \in Nat : m = NumberOf(LastID)
  BY Length, ShowsNumber
<1>2. \A id \in IDs : NumberOf(id) \in 0 .. m
  BY <1>1, AtMostLast, ShowsNumber
<1>3. f \in Injection(IDs, 0 .. m)
  <2>1. f \in [IDs -> 0 .. m]
    BY <1>2
  <2>2. \A id, od \in IDs : f[id] = f[od] => id = od
    BY SameNumber
  <2> QED
    BY <2>1, <2>2 DEF Injection, IsInjective
<1>4. IsFiniteSet(0 .. m) /\ Cardinality(0 .. m) = m + 1
  <2>1. 0 \in Int /\ m \in Int
    OBVIOUS
  <2>2. IsFiniteSet(0 .. m) /\ Cardinality(0 .. m) = IF 0 > m THEN 0 ELSE m - 0 + 1
    BY <2>1, FS_Interval
  <2> QED
    BY <2>2
<1> HIDE DEF f
<1>5. IsFiniteSet(IDs) /\ Cardinality(IDs) <= Cardinality(0 .. m)
  BY <1>3, <1>4, FS_Injection
<1> QED
  BY <1>1, <1>4, <1>5, FS_CardinalityType

(* The last id is followed by the id that shows 0, *)
LEMMA AfterLast == IncrementID(LastID) \in IDs /\ NumberOf(IncrementID(LastID)) = 0
<1> DEFINE id == IncrementID(LastID)
           g == Prefixes(id)
           T == {d \in 0 .. Len(FirstID) : g[d] = 0}
<1>1. id \in IDs
  BY Length, Increment DEF IDs
<1>2. \A d \in 1 .. Len(FirstID) : id[d] = 0
  <2>1. (DigitBase - 1 + 1) % DigitBase = 0
    BY Sizes
  <2>2. \A d \in 1 .. Len(FirstID) : \A e \in d + 1 .. Len(FirstID) : LastID[e] = DigitBase - 1
    BY Length DEF LastID
  <2>3. DOMAIN LastID = 1 .. Len(FirstID) /\ Len(LastID) = Len(FirstID)
    BY Length, Sizes DEF LastID
  <2> QED
    BY <2>1, <2>2, <2>3 DEF IncrementID, LastID
<1>3. Shown(id, g)
  BY <1>1, ShowsNumber
<1> HIDE DEF id, g
<1>4. 0 \in T
  BY <1>3, Length DEF Shown
<1>5. ASSUME NEW d \in 1 .. Len(FirstID), d - 1 \in T PROVE d \in T
  <2>1. g[d] = g[d - 1] * DigitBase + id[d] /\ g[d - 1] = 0 /\ d \in 0 .. Len(FirstID)
    BY <1>3, <1>5, Length DEF Shown
  <2> QED
    BY <1>2, <2>1, Sizes
<1>6. Len(FirstID) \in T
  <2> HIDE DEF T
  <2>1. 0 .. Len(FirstID) \subseteq T
    BY <1>4, <1>5, Length, Upwards
  <2> QED
    BY <2>1, Length
<1> QED
  BY <1>1, <1>6 DEF NumberOf, g, id

(* and any other one by the next number: the elements behind the last that *)
(* is not full are full, and become 0.                                     *)
LEMMA AfterOther ==
  ASSUME NEW id \in IDs, id # LastID
  PROVE  IncrementID(id) \in IDs /\ NumberOf(IncrementID(id)) = NumberOf(id) + 1
<1> DEFINE inc == IncrementID(id)
           g == Prefixes(id)
           h == Prefixes(inc)
<1>1. PICK n \in Nat : n = Len(FirstID)
  BY Length
<1>2. inc \in IDs
  BY Increment DEF IDs
<1>3. Shown(id, g) /\ Shown(inc, h)
  BY <1>2, ShowsNumber
<1>4. PICK p \in 1 .. n : id[p] # DigitBase - 1 /\ \A d \in p + 1 .. n : id[d] = DigitBase - 1
  <2> DEFINE S == {d \in 0 .. n - 1 : id[n - d] # DigitBase - 1}
  <2>1. S # {}
    <3>1. PICK d \in 1 .. n : id[d] # DigitBase - 1
      BY <1>1 DEF IDs, LastID
    <3>2. n - d \in 0 .. n - 1 /\ n - (n - d) = d
      OBVIOUS
    <3>3. n - d \in S
      BY <3>1, <3>2
    <3> QED
      BY <3>3
  <2>2. S \in SUBSET Nat
    OBVIOUS
  <2>3. PICK d \in S : \A e \in S : d <= e
    BY <2>1, <2>2, Least
  <2>4. ASSUME NEW e \in (n - d) + 1 .. n PROVE id[e] = DigitBase - 1
    <3>1. n - e \in 0 .. n - 1 /\ n - (n - e) = e /\ ~(d <= n - e)
      BY <2>3
    <3>2. n - e \notin S
      BY <2>3, <3>1
    <3> QED
      BY <3>1, <3>2
  <2>5. n - d \in 1 .. n /\ id[n - d] # DigitBase - 1
    BY <2>3
  <2> QED
    BY <2>4, <2>5
<1>5. DOMAIN id = 1 .. n /\ Len(id) = n
  BY <1>1 DEF IDs
<1>6. \A d \in 1 .. n : id[d] \in Nat /\ id[d] < DigitBase
  BY <1>1, Digits, Sizes
<1>7. \A d \in 1 .. p - 1 : inc[d] = id[d]
  <2>1. ASSUME NEW d \in 1 .. p - 1 PROVE inc[d] = id[d]
    <3>1. p \in d + 1 .. n /\ d \in 1 .. n
      OBVIOUS
    <3> QED
      BY <1>4, <1>5, <3>1 DEF IncrementID
  <2> QED
    BY <2>1
<1>8. inc[p] = id[p] + 1
  <2>1. inc[p] = (id[p] + 1) % DigitBase
    BY <1>4, <1>5 DEF IncrementID
  <2>2. id[p] + 1 \in 0 .. DigitBase - 1
    BY <1>4, <1>6, Sizes
  <2> QED
    BY <2>1, <2>2, Sizes
<1>9. \A d \in p + 1 .. n : inc[d] = 0
  <2>1. ASSUME NEW d \in p + 1 .. n PROVE inc[d] = 0
    <3>1. d \in 1 .. n /\ \A e \in d + 1 .. n : e \in p + 1 .. n
      OBVIOUS
    <3>2. inc[d] = (id[d] + 1) % DigitBase
      BY <1>4, <1>5, <3>1 DEF IncrementID
    <3>3. id[d] + 1 = DigitBase
      BY <1>4, Sizes
    <3> QED
      BY <3>2, <3>3, Sizes
  <2> QED
    BY <2>1
<1> HIDE DEF g, h, inc
<1>10. /\ g[0] = 0 /\ h[0] = 0
       /\ \A d \in 0 .. n : g[d] \in Nat /\ h[d] \in Nat
       /\ \A d \in 1 .. n : /\ g[d] = g[d - 1] * DigitBase + id[d]
                            /\ h[d] = h[d - 1] * DigitBase + inc[d]
  BY <1>1, <1>3 DEF Shown
<1> DEFINE T == {d \in 0 .. n : h[d] = IF d < p THEN g[d] ELSE g[d] + 1}
<1>11. 0 \in T
  BY <1>10
<1>12. ASSUME NEW d \in 1 .. n, d - 1 \in T PROVE d \in T
  <2>1. d - 1 \in 0 .. n /\ d \in 0 .. n
    OBVIOUS
  <2>2. PICK x \in Nat : x = g[d - 1]
    BY <1>10, <2>1
  <2>3. PICK y \in Nat : y = x * DigitBase
    BY Sizes
  <2>4. g[d] = y + id[d] /\ h[d] = h[d - 1] * DigitBase + inc[d]
    BY <1>10, <2>2, <2>3
  <2>5. CASE d < p
    <3>1. h[d - 1] = x /\ inc[d] = id[d]
      <4>1. d \in 1 .. p - 1 /\ d - 1 < p
        BY <2>5
      <4> QED
        BY <1>7, <1>12, <2>2, <4>1
    <3> QED
      BY <2>1, <2>3, <2>4, <2>5, <3>1
  <2>6. CASE d = p
    <3>1. h[d - 1] = x /\ inc[d] = id[d] + 1
      <4>1. d - 1 < p
        BY <2>6
      <4> QED
        BY <1>8, <1>12, <2>2, <2>6, <4>1
    <3>2. h[d] = g[d] + 1
      BY <1>6, <2>3, <2>4, <3>1
    <3> QED
      BY <2>1, <2>6, <3>2
  <2>7. CASE p < d
    <3>1. d \in p + 1 .. n /\ ~(d - 1 < p) /\ ~(d < p)
      BY <2>7
    <3>2. h[d - 1] = x + 1 /\ inc[d] = 0 /\ id[d] = DigitBase - 1
      BY <1>4, <1>9, <1>12, <2>2, <3>1
    <3>3. (x + 1) * DigitBase = y + DigitBase
      BY <2>3, Sizes
    <3>4. h[d] = g[d] + 1
      BY <2>3, <2>4, <3>2, <3>3, Sizes
    <3> QED
      BY <2>1, <3>1, <3>4
  <2> QED
    BY <2>5, <2>6, <2>7
<1>13. n \in T
  <2> HIDE DEF T
  <2>1. 0 .. n \subseteq T
    BY <1>11, <1>12, Upwards
  <2> QED
    BY <2>1
<1>14. h[n] = g[n] + 1
  BY <1>13
<1> QED
  BY <1>1, <1>2, <1>14 DEF NumberOf, g, h, inc

(* The id that the counter shows k steps after FirstID, when it started    *)
(* again from 0 once at most.                                              *)
IsNumber(id, k) ==
  /\ id \in IDs
  /\ NumberOf(id) \in {NumberOf(FirstID) + k, NumberOf(FirstID) + k - (NumberOf(LastID) + 1)}

LEMMA NumberedNext ==
  ASSUME NEW k \in Nat, k <= NumberOf(LastID), NEW id \in IDs, IsNumber(id, k)
  PROVE  IsNumber(IncrementID(id), k + 1)
<1>1. PICK last \in Nat, first \in Nat :
         last = NumberOf(LastID) /\ first = NumberOf(FirstID) /\ first <= last
  BY Length, ShowsNumber, AtMostLast
<1>2. PICK shown \in Nat : shown = NumberOf(id)
  BY ShowsNumber
<1>3. shown \in {first + k, first + k - (last + 1)} /\ k <= last
  BY <1>1, <1>2 DEF IsNumber
<1>4. CASE id = LastID
  <2>1. IncrementID(id) \in IDs /\ NumberOf(IncrementID(id)) = 0
    BY <1>4, AfterLast
  <2>2. first + (k + 1) - (last + 1) = 0
    BY <1>1, <1>2, <1>3, <1>4
  <2> QED
    BY <1>1, <2>1, <2>2 DEF IsNumber
<1>5. CASE id # LastID
  <2>1. IncrementID(id) \in IDs /\ NumberOf(IncrementID(id)) = shown + 1
    BY <1>2, <1>5, AfterOther
  <2>2. shown + 1 \in {first + (k + 1), first + (k + 1) - (last + 1)}
    BY <1>3
  <2> QED
    BY <1>1, <2>1, <2>2 DEF IsNumber
<1> QED
  BY <1>4, <1>5

(* An id has one number only, as long as there are enough of them. *)
LEMMA OneNumber ==
  ASSUME NEW k \in Nat \ {0}, NEW l \in Nat \ {0}, NEW id \in IDs,
         k <= NumberOf(LastID) + 1, l <= NumberOf(LastID) + 1, IsNumber(id, k), IsNumber(id, l)
  PROVE  k = l
<1>1. PICK last \in Nat, first \in Nat, shown \in Nat :
         last = NumberOf(LastID) /\ first = NumberOf(FirstID) /\ shown = NumberOf(id)
  BY Length, ShowsNumber
<1>2. /\ shown \in {first + k, first + k - (last + 1)}
      /\ shown \in {first + l, first + l - (last + 1)}
      /\ k <= last + 1 /\ l <= last + 1
  BY <1>1 DEF IsNumber
<1> QED
  BY <1>2

-----------------------------------------------------------------------------
(* Sessions of a thread that were begun with its first n messages. *)
Begun(n) == IF n = 0 THEN 0 ELSE ((n - 1) \div MessageAmount) + 1

(* All sessions that were begun before, or with, message n of thread t. *)
SessionNumber(t, n) == (t - 1) * SessionAmount + Begun(n)

LEMMA Beginning ==
  ASSUME SessionAmount \in Nat, MessageAmount \in Nat, NEW n \in 1 .. MessageCount
  PROVE  /\ n \in Nat \ {0} /\ Begun(n) \in 1 .. SessionAmount /\ Begun(n - 1) \in Nat
         /\ Begun(n) = IF n % MessageAmount = 1 % MessageAmount
                       THEN Begun(n - 1) + 1 ELSE Begun(n - 1)
         /\ n = 1 => n % MessageAmount = 1 % MessageAmount
<1> DEFINE SA == SessionAmount
           MA == MessageAmount
<1>1. SA * MA \in Nat /\ MessageCount = SA * MA
  BY DEF MessageCount
<1>2. n \in Nat \ {0} /\ n <= SA * MA
  BY <1>1
<1>3. MA \in Nat \ {0} /\ SA \in Nat
  <2>1. MA = 0 => SA * MA = 0
    OBVIOUS
  <2> QED
    BY <1>2, <2>1
<1> HIDE DEF SA, MA
<1>4. PICK q \in Nat, r \in 0 .. MA - 1 :
        q = (n - 1) \div MA /\ r = (n - 1) % MA /\ n - 1 = q * MA + r
  <2>1. n - 1 \in Nat
    BY <1>2
  <2> QED
    BY <1>3, <2>1, Parts
<1>5. PICK all \in Nat : all = q * MA
  BY <1>3
<1>6. q < SA
  <2> SUFFICES ASSUME SA <= q PROVE FALSE
    BY <1>3
  <2>1. SA * MA <= q * MA
    BY <1>3, Multiples
  <2> QED
    BY <1>1, <1>2, <1>4, <1>5, <2>1
<1>7. Begun(n) = q + 1
  BY <1>2, <1>4 DEF Begun, MA
<1>8. (n % MA = 1 % MA) <=> (r = 0)
  <2>1. PICK x \in Nat, y \in 0 .. MA - 1 : x = n \div MA /\ y = n % MA /\ n = x * MA + y
    BY <1>2, <1>3, Parts
  <2>2. PICK u \in Nat, v \in 0 .. MA - 1 : u = 1 \div MA /\ v = 1 % MA /\ 1 = u * MA + v
    BY <1>3, Parts
  <2>3. PICK z \in Nat : z = x * MA
    BY <1>3
  <2>4. CASE MA = 1
    BY <1>3, <1>4, <2>1, <2>2, <2>4
  <2>5. CASE MA # 1
    <3>1. MA > 1 /\ 1 \in 0 .. MA - 1 /\ 0 \in 0 .. MA - 1 /\ MA \in Nat
      BY <1>3, <2>5
    <3>2. PICK o \in 0 .. MA - 1, j \in 0 .. MA - 1 : o = 0 /\ j = 1 /\ o \in Nat
      BY <3>1
    <3>3. v = 1
      <4>1. o * MA + j = u * MA + v
        BY <1>3, <2>2, <3>2
      <4>2. j = v
        BY <3>1, <3>2, <4>1, OneWay
      <4> QED
        BY <3>2, <4>2
    <3>4. ASSUME r = 0 PROVE y = 1
      <4>1. q * MA + j = x * MA + y
        BY <1>2, <1>4, <1>5, <2>1, <2>3, <3>2, <3>4
      <4>2. j = y
        BY <3>1, <3>2, <4>1, OneWay
      <4> QED
        BY <3>2, <4>2
    <3>5. ASSUME y = 1 PROVE r = 0
      <4>1. x * MA + o = q * MA + r
        BY <1>2, <1>4, <1>5, <2>1, <2>3, <3>2, <3>5
      <4>2. o = r
        BY <3>1, <3>2, <4>1, OneWay
      <4> QED
        BY <3>2, <4>2
    <3> QED
      BY <2>1, <2>2, <3>3, <3>4, <3>5
  <2> QED
    BY <2>4, <2>5
<1>9. CASE n = 1
  <2>1. r = 0 /\ q = 0
    <3>1. q * MA + r = 0 * MA + 0 /\ 0 \in 0 .. MA - 1
      BY <1>3, <1>4, <1>9
    <3> QED
      BY <1>3, <3>1, OneWay
  <2>2. Begun(n - 1) = 0
    BY <1>9 DEF Begun
  <2> QED
    BY <1>2, <1>3, <1>6, <1>7, <1>8, <1>9, <2>1, <2>2 DEF MA, SA
<1>10. CASE n # 1
  <2>1. n - 2 \in Nat /\ (n - 1) - 1 = n - 2 /\ n - 1 # 0
    BY <1>2, <1>10
  <2>2. PICK x \in Nat, y \in 0 .. MA - 1 :
          x = (n - 2) \div MA /\ y = (n - 2) % MA /\ n - 2 = x * MA + y
    BY <1>3, <2>1, Parts
  <2>3. PICK z \in Nat : z = x * MA
    BY <1>3
  <2>4. Begun(n - 1) = x + 1
    BY <2>1, <2>2 DEF Begun, MA
  <2>5. CASE y = MA - 1
    <3>1. (x + 1) * MA = z + MA
      BY <1>3, <2>3
    <3>2. (x + 1) * MA + 0 = q * MA + r /\ 0 \in 0 .. MA - 1
      BY <1>2, <1>3, <1>4, <1>5, <2>2, <2>3, <2>5, <3>1
    <3>3. q = x + 1 /\ r = 0
      BY <1>3, <3>2, OneWay
    <3> QED
      BY <1>2, <1>3, <1>6, <1>7, <1>8, <1>10, <2>4, <3>3 DEF MA, SA
  <2>6. CASE y # MA - 1
    <3>1. x * MA + (y + 1) = q * MA + r /\ y + 1 \in 0 .. MA - 1
      BY <1>2, <1>3, <1>4, <1>5, <2>2, <2>3, <2>6
    <3>2. q = x /\ r = y + 1
      BY <1>3, <3>1, OneWay
    <3>3. r # 0
      BY <2>2, <3>2
    <3> QED
      BY <1>2, <1>3, <1>6, <1>7, <1>8, <1>10, <2>4, <3>2, <3>3 DEF MA, SA
  <2> QED
    BY <2>5, <2>6
<1> QED
  BY <1>9, <1>10

(* Sessions are numbered from 1, differently, and there are not more of    *)
(* them than ids.                                                          *)
LEMMA Numbering ==
  ASSUME file \in Files, SessionAmount \in Nat, MessageAmount \in Nat, ThreadCount \in Nat,
         NEW t \in 1 .. ThreadCount, NEW n \in 1 .. MessageCount
  PROVE  /\ SessionNumber(t, n) \in Nat \ {0} /\ SessionNumber(t, n) <= NumberOf(LastID) + 1
         /\ \A s \in 1 .. ThreadCount, m \in 1 .. MessageCount :
              SessionNumber(t, n) = SessionNumber(s, m) => t = s /\ Begun(n) = Begun(m)
<1>1. Begun(n) \in 1 .. SessionAmount
  BY Beginning
<1>2. PICK before \in Nat : before = (t - 1) * SessionAmount
  <2>1. t - 1 \in Nat
    OBVIOUS
  <2> QED
    BY <2>1
<1>3. ThreadCount * SessionAmount \in Nat /\ before + SessionAmount <= ThreadCount * SessionAmount
  <2>1. t - 1 \in Nat /\ t - 1 < ThreadCount
    OBVIOUS
  <2> QED
    BY <1>2, <2>1, Apart
<1>4. ThreadCount * SessionAmount <= NumberOf(LastID) + 1
  <2>1. ThreadCount * SessionAmount <= Cardinality([DOMAIN FirstID -> 0 .. DigitBase - 1])
    BY CounterAssumption DEF ThreadCount, SessionAmount
  <2>2. DOMAIN FirstID = 1 .. Len(FirstID)
    BY Length DEF IDs
  <2>3. ThreadCount * SessionAmount <= Cardinality(IDs)
    BY <2>1, <2>2 DEF IDs
  <2>4. NumberOf(LastID) \in Nat
    BY Length, ShowsNumber
  <2> QED
    BY <1>3, <2>3, <2>4, HowMany
<1>5. SessionNumber(t, n) = before + Begun(n)
  BY <1>2 DEF SessionNumber
<1>6. NumberOf(LastID) \in Nat
  BY Length, ShowsNumber
<1>7. ASSUME NEW s \in 1 .. ThreadCount, NEW m \in 1 .. MessageCount,
             SessionNumber(t, n) = SessionNumber(s, m)
      PROVE  t = s /\ Begun(n) = Begun(m)
  <2>1. Begun(m) \in 1 .. SessionAmount
    BY Beginning
  <2>2. PICK p \in Nat : p = (s - 1) * SessionAmount
    <3>1. s - 1 \in Nat
      OBVIOUS
    <3> QED
      BY <3>1
  <2>3. before + Begun(n) = p + Begun(m)
    BY <1>5, <1>7, <2>2 DEF SessionNumber
  <2>4. (t - 1) * SessionAmount + (Begun(n) - 1) = (s - 1) * SessionAmount + (Begun(m) - 1)
    BY <1>1, <1>2, <2>1, <2>2, <2>3
  <2>5. /\ t - 1 \in Nat /\ s - 1 \in Nat
        /\ Begun(n) - 1 \in 0 .. SessionAmount - 1 /\ Begun(m) - 1 \in 0 .. SessionAmount - 1
    BY <1>1, <2>1
  <2>6. PICK t1 \in Nat, s1 \in Nat : t1 = t - 1 /\ s1 = s - 1
    BY <2>5
  <2>7. PICK d \in 0 .. SessionAmount - 1, e \in 0 .. SessionAmount - 1 :
           d = Begun(n) - 1 /\ e = Begun(m) - 1
    BY <2>5
  <2>8. t1 * SessionAmount + d = s1 * SessionAmount + e
    BY <2>4, <2>6, <2>7
  <2>9. t1 = s1 /\ d = e
    BY <2>8, OneWay
  <2> QED
    BY <1>1, <2>1, <2>6, <2>7, <2>9
<1> QED
  BY <1>1, <1>3, <1>4, <1>5, <1>6, <1>7

(* The session of a message decides its id. *)
LEMMA OneID ==
  ASSUME NEW k \in Nat, k <= NumberOf(LastID) + 1, NEW id, NEW od,
         IsNumber(id, k), IsNumber(od, k)
  PROVE  id = od
<1>1. id \in IDs /\ od \in IDs
  BY DEF IsNumber
<1>2. PICK last \in Nat, first \in Nat : last = NumberOf(LastID) /\ first = NumberOf(FirstID)
  BY Length, ShowsNumber
<1>3. PICK x \in Nat, y \in Nat : x = NumberOf(id) /\ y = NumberOf(od) /\ x <= last /\ y <= last
  BY <1>1, <1>2, AtMostLast, ShowsNumber
<1>4. /\ x \in {first + k, first + k - (last + 1)}
      /\ y \in {first + k, first + k - (last + 1)}
  BY <1>2, <1>3 DEF IsNumber
<1>5. x = y
  BY <1>3, <1>4
<1> QED
  BY <1>1, <1>3, <1>5, SameNumber

(* The messages of a thread begin all its sessions. *)
LEMMA AllBegun ==
  ASSUME SessionAmount \in Nat, MessageAmount \in Nat, MessageCount # 0
  PROVE  Begun(MessageCount) = SessionAmount
<1>1. PICK b \in Nat \ {0}, s \in Nat \ {0} : b = MessageAmount /\ s = SessionAmount
  <2>1. MessageAmount # 0
    <3>1. MessageAmount = 0 => SessionAmount * MessageAmount = 0
      OBVIOUS
    <3> QED
      BY <3>1 DEF MessageCount
  <2>2. SessionAmount # 0
    <3>1. SessionAmount = 0 => SessionAmount * MessageAmount = 0
      OBVIOUS
    <3> QED
      BY <3>1 DEF MessageCount
  <2> QED
    BY <2>1, <2>2
<1>2. PICK all \in Nat : all = s * b /\ MessageCount = all /\ all # 0
  BY <1>1 DEF MessageCount
<1>3. PICK x \in Nat, y \in 0 .. b - 1 : x = (all - 1) \div b /\ all - 1 = x * b + y
  <2>1. all - 1 \in Nat
    BY <1>2
  <2> QED
    BY <2>1, Parts
<1>4. PICK p \in Nat, e \in 0 .. b - 1 : p = s - 1 /\ e = b - 1
  BY <1>1
<1>5. s * b = p * b + b
  BY <1>4
<1>6. PICK pb \in Nat : pb = p * b
  OBVIOUS
<1>7. x * b + y = p * b + e
  BY <1>2, <1>3, <1>4, <1>5, <1>6
<1>8. x = p
  BY <1>7, OneWay
<1> QED
  BY <1>1, <1>2, <1>3, <1>4, <1>8 DEF Begun

-----------------------------------------------------------------------------
(* The ids of the messages are those of their sessions, and the counter    *)
(* stands at the id of the last session that was begun.                    *)
Named ==
  /\ SessionIDs = [r \in Requests |-> SessionIDs[r]]
  /\ \A r \in Requests : SessionIDs[r] # <<>> => r[2] <= Len(MessageItems[r[1]])

Numbered ==
  \A t \in Threads : \A n \in 1 .. Len(MessageItems[t]) :
    IsNumber(SessionIDs[<<t, n>>], SessionNumber(t, n))

Counter ==
  /\ made = 0 => UpcountSessionID = FirstID
  /\ made # 0 /\ MessageCount # 0
       => IsNumber(UpcountSessionID, SessionNumber(made, Len(MessageItems[made])))

CountInv == Named /\ Numbered /\ Counter

LEMMA CountStays == ASSUME CountInv, UNCHANGED <<file, generated>> PROVE CountInv'
<1>1. /\ made' = made /\ MessageItems' = MessageItems /\ SessionIDs' = SessionIDs
      /\ UpcountSessionID' = UpcountSessionID
  BY DEF generated
<1> QED
  BY <1>1, SameFile DEF CountInv, Named, Numbered, Counter, SessionNumber, Begun

LEMMA InitCount == ASSUME Init PROVE CountInv
<1>1. Named
  BY DEF Init, Named
<1>2. Numbered
  <2>1. \A t \in Threads : 1 .. Len(MessageItems[t]) = {}
    BY DEF Init
  <2> QED
    BY <2>1 DEF Numbered
<1>3. Counter
  BY DEF Init, Counter
<1> QED
  BY <1>1, <1>2, <1>3 DEF CountInv

LEMMA NewThreadCounts == ASSUME GInv, CountInv, NewThread PROVE CountInv'
<1>1. /\ file' = file /\ UpcountSessionID' = UpcountSessionID /\ SessionIDs' = SessionIDs
      /\ MessageItems' = MessageItems /\ made' = made + 1 /\ made < ThreadCount
      /\ made # 0 => Len(MessageItems[made]) = MessageCount
  BY DEF NewThread, ThreadComplete
<1>2. Named' /\ Numbered'
  BY <1>1, SameFile DEF CountInv, Named, Numbered, SessionNumber, Begun
<1>3. made \in Nat /\ file \in Files
  BY DEF GInv, Made, MainTypes
<1>4. SessionAmount \in Nat /\ MessageAmount \in Nat /\ made + 1 \in Threads
  <2>1. ThreadCount \in Nat
    BY <1>1, <1>3, Values DEF NotANumber
  <2>2. SessionAmount \in Nat /\ MessageAmount \in Nat
    BY <1>3, Values DEF NewThread
  <2>3. made + 1 \in 1 .. ThreadCount
    BY <1>1, <1>3, <2>1
  <2> QED
    BY <1>3, <2>2, <2>3, Values
<1>5. Len(MessageItems[made + 1]) = 0
  <2>1. MessageItems[made + 1] \in Seq(Item)
    BY <1>4 DEF GInv, Items
  <2>2. Len(MessageItems[made + 1]) <= 0
    BY <1>3, <1>4 DEF GInv, Made
  <2> QED
    BY <2>1, <2>2
<1>6. ASSUME MessageCount # 0
      PROVE  IsNumber(UpcountSessionID, SessionNumber(made + 1, 0))
  <2>1. PICK p \in Nat : p = made * SessionAmount /\ SessionNumber(made + 1, 0) = p
    <3>1. made * SessionAmount \in Nat
      BY <1>3, <1>4
    <3>2. (made + 1) - 1 = made
      BY <1>3
    <3> QED
      BY <3>1, <3>2 DEF SessionNumber, Begun
  <2>2. CASE made = 0
    <3>1. p = 0
      BY <1>4, <2>1, <2>2
    <3>2. UpcountSessionID = FirstID /\ NumberOf(FirstID) \in Nat /\ FirstID \in IDs
      BY <2>2, Length, ShowsNumber DEF CountInv, Counter
    <3> QED
      BY <2>1, <3>1, <3>2 DEF IsNumber
  <2>3. CASE made # 0
    <3>1. IsNumber(UpcountSessionID, SessionNumber(made, MessageCount))
      BY <1>1, <1>6, <2>3 DEF CountInv, Counter
    <3>2. SessionNumber(made, MessageCount) = (made - 1) * SessionAmount + SessionAmount
      BY <1>4, <1>6, AllBegun DEF SessionNumber
    <3>3. (made - 1) * SessionAmount + SessionAmount = made * SessionAmount
      BY <1>3, <1>4, <2>3
    <3> QED
      BY <2>1, <3>1, <3>2, <3>3
  <2> QED
    BY <2>2, <2>3
<1>7. Counter'
  <2>1. made' # 0 /\ Len(MessageItems'[made']) = 0
    BY <1>1, <1>3, <1>5
  <2>2. MessageCount # 0 => IsNumber(UpcountSessionID', SessionNumber(made', 0))
    BY <1>1, <1>6
  <2> QED
    BY <1>1, <2>1, <2>2, SameFile DEF Counter, SessionNumber, Begun
<1> QED
  BY <1>2, <1>7 DEF CountInv

LEMMA GenerateCounts ==
  ASSUME GInv, CountInv, NEW payload \in PayloadLengths, Generate(payload)
  PROVE  CountInv'
<1>1. /\ file' = file /\ made' = made /\ made # 0 /\ made \in Threads
  BY GenerateWrites
<1>2. PICK n \in Nat : /\ n = Len(MessageItems[made]) + 1 /\ n \in 1 .. MessageCount
                       /\ n \in 1 .. MaxMessages /\ MessageCount # 0
  <2>1. Len(MessageItems[made]) \in Nat
    BY <1>1 DEF GInv, Items
  <2>2. Len(MessageItems[made]) + 1 <= MessageCount
    BY GenerateWrites
  <2>3. MessageCount \in Nat /\ MessageCount <= MaxMessages /\ MaxMessages \in Nat
    <3>1. SessionAmount \in Nat /\ MessageAmount \in Nat
      BY <1>1 DEF GInv, Made
    <3>2. file \in Files
      BY DEF GInv, MainTypes
    <3> QED
      BY <3>1, <3>2, Sizes, Values DEF MessageCount
  <2> QED
    BY <2>1, <2>2, <2>3
<1>3. /\ SessionIDs' = [SessionIDs EXCEPT ![<<made, n>>] = UpcountSessionID']
      /\ UpcountSessionID' = IF n % MessageAmount = 1 % MessageAmount
                             THEN IncrementID(UpcountSessionID) ELSE UpcountSessionID
  BY <1>2 DEF Generate
<1>4. /\ MessageItems' = [t \in Threads |-> MessageItems'[t]]
      /\ Len(MessageItems'[made]) = n
      /\ \A t \in Threads : t # made => MessageItems'[t] = MessageItems[t]
  <2>1. PICK item : MessageItems' = [MessageItems EXCEPT ![made] = Append(@, item)]
    BY DEF Generate
  <2>2. MessageItems \in [Threads -> Seq(Item)]
    BY DEF GInv, Items
  <2>3. Len(Append(MessageItems[made], item)) = n
    BY <1>1, <1>2, <2>2
  <2> QED
    BY <1>1, <2>1, <2>2, <2>3
<1>5. /\ SessionAmount \in Nat /\ MessageAmount \in Nat /\ ThreadCount \in Nat
      /\ file \in Files /\ made \in 1 .. ThreadCount
  <2>1. SessionAmount \in Nat /\ MessageAmount \in Nat /\ made \in Nat /\ made <= ThreadCount
    BY <1>1 DEF GInv, Made
  <2>2. file \in Files
    BY DEF GInv, MainTypes
  <2>3. ThreadCount \in Nat
    BY <2>1, <2>2, Values DEF NotANumber
  <2> QED
    BY <1>1, <2>1, <2>2, <2>3
<1>6. <<made, n>> \in Requests
  BY <1>1, <1>2, Sizes
<1>7. IsNumber(UpcountSessionID', SessionNumber(made, n))
  <2>1. IsNumber(UpcountSessionID, SessionNumber(made, n - 1))
    BY <1>1, <1>2 DEF CountInv, Counter
  <2>2. /\ Begun(n - 1) \in Nat /\ Begun(n) \in Nat
        /\ Begun(n) = IF n % MessageAmount = 1 % MessageAmount
                      THEN Begun(n - 1) + 1 ELSE Begun(n - 1)
    <3>1. n \in 1 .. MessageCount /\ SessionAmount \in Nat /\ MessageAmount \in Nat
      BY <1>2, <1>5
    <3>2. Begun(n) \in 1 .. SessionAmount
      BY <3>1, Beginning
    <3> QED
      BY <3>1, <3>2, Beginning
  <2>3. PICK before \in Nat : before = (made - 1) * SessionAmount
    <3>1. made - 1 \in Nat
      BY <1>5
    <3> QED
      BY <1>5, <3>1
  <2>4. PICK k \in Nat : k = SessionNumber(made, n - 1)
    BY <2>2, <2>3 DEF SessionNumber
  <2>5. CASE n % MessageAmount = 1 % MessageAmount
    <3>1. SessionNumber(made, n) = k + 1
      BY <2>2, <2>3, <2>4, <2>5 DEF SessionNumber
    <3>2. NumberOf(LastID) \in Nat /\ k + 1 <= NumberOf(LastID) + 1
      BY <1>2, <1>5, <3>1, Length, Numbering, ShowsNumber
    <3>3. IsNumber(IncrementID(UpcountSessionID), k + 1)
      <4>1. k <= NumberOf(LastID) /\ UpcountSessionID \in IDs
        BY <2>1, <3>2 DEF IsNumber
      <4> QED
        BY <2>1, <2>4, <4>1, NumberedNext
    <3> QED
      BY <1>3, <2>5, <3>1, <3>3
  <2>6. CASE ~(n % MessageAmount = 1 % MessageAmount)
    <3>1. SessionNumber(made, n) = SessionNumber(made, n - 1)
      BY <2>2, <2>6 DEF SessionNumber
    <3> QED
      BY <1>3, <2>1, <2>6, <3>1
  <2> QED
    BY <2>5, <2>6
<1>8. Named'
  <2>1. SessionIDs' = [r \in Requests |-> SessionIDs'[r]]
    BY <1>3 DEF CountInv, Named
  <2>2. ASSUME NEW r \in Requests, SessionIDs'[r] # <<>> PROVE r[2] <= Len(MessageItems'[r[1]])
    <3>1. r[1] \in Threads /\ r[2] \in Nat /\ r = <<r[1], r[2]>>
      BY Sizes
    <3>2. CASE r = <<made, n>>
      BY <1>2, <1>4, <3>1, <3>2
    <3>3. CASE r # <<made, n>>
      <4>1. SessionIDs'[r] = SessionIDs[r]
        BY <1>3, <3>3 DEF CountInv, Named
      <4>2. r[2] <= Len(MessageItems[r[1]])
        BY <2>2, <4>1 DEF CountInv, Named
      <4>3. CASE r[1] = made
        <5>1. Len(MessageItems[made]) = n - 1 /\ Len(MessageItems'[made]) = n
          <6>1. MessageItems[made] \in Seq(Item)
            BY <1>1 DEF GInv, Items
          <6> QED
            BY <1>2, <1>4, <6>1
        <5> QED
          BY <3>1, <4>2, <4>3, <5>1
      <4>4. CASE r[1] # made
        BY <1>4, <3>1, <4>2, <4>4
      <4> QED
        BY <4>3, <4>4
    <3> QED
      BY <3>2, <3>3
  <2> QED
    BY <2>1, <2>2 DEF Named
<1>9. Numbered'
  <2>1. ASSUME NEW t \in Threads, NEW m \in 1 .. Len(MessageItems'[t])
        PROVE  IsNumber(SessionIDs'[<<t, m>>], SessionNumber(t, m))
    <3>1. CASE <<t, m>> = <<made, n>>
      <4>1. SessionIDs'[<<made, n>>] = UpcountSessionID'
        BY <1>3, <1>6 DEF CountInv, Named
      <4> QED
        BY <1>7, <3>1, <4>1
    <3>2. CASE <<t, m>> # <<made, n>>
      <4>1. m \in 1 .. Len(MessageItems[t])
        <5>1. CASE t = made
          <6>1. MessageItems[made] \in Seq(Item) /\ Len(MessageItems[made]) = n - 1
            <7>1. MessageItems[made] \in Seq(Item)
              BY <1>1 DEF GInv, Items
            <7> QED
              BY <1>2, <7>1
          <6>2. m \in 1 .. n /\ m # n
            BY <1>4, <3>2, <5>1
          <6> QED
            BY <1>2, <5>1, <6>1, <6>2
        <5>2. CASE t # made
          BY <1>4, <5>2
        <5> QED
          BY <5>1, <5>2
      <4>2. SessionIDs'[<<t, m>>] = SessionIDs[<<t, m>>]
        BY <1>3, <3>2 DEF CountInv, Named
      <4> QED
        BY <4>1, <4>2 DEF CountInv, Numbered
    <3> QED
      BY <3>1, <3>2
  <2> QED
    BY <1>1, <2>1, SameFile DEF Numbered, SessionNumber, Begun
<1>10. Counter'
  <2>1. MessageCount # 0 => IsNumber(UpcountSessionID', SessionNumber(made', Len(MessageItems'[made'])))
    BY <1>1, <1>4, <1>7
  <2> QED
    BY <1>1, <2>1, SameFile DEF Counter, SessionNumber, Begun
<1> QED
  BY <1>8, <1>9, <1>10 DEF CountInv

LEMMA CountInvariance == Spec => [](PInv /\ CountInv)
<1>1. Init => CountInv
  BY InitCount
<1>2. PInv /\ CountInv /\ [Next]_vars => CountInv'
  <2> SUFFICES ASSUME PInv, CountInv, [Next]_vars PROVE CountInv'
    OBVIOUS
  <2>1. GInv
    BY DEF PInv
  <2>2. ASSUME NewThread PROVE CountInv'
    BY <2>1, <2>2, NewThreadCounts
  <2>3. ASSUME NEW payload \in PayloadLengths, Generate(payload) PROVE CountInv'
    BY <2>1, <2>3, GenerateCounts
  <2>4. CASE BadConfig \/ NoRange \/ EndGenerate \/ RunThreads \/ Return
    BY <2>4, CountStays DEF BadConfig, NoRange, EndGenerate, RunThreads, Return
  <2>5. ASSUME NEW t \in Threads, Spawn(t) PROVE CountInv'
    BY <2>5, CountStays DEF Spawn
  <2>6. ASSUME NEW t \in Threads, ThreadStep(t) PROVE CountInv'
    BY <2>6, CountStays DEF ThreadStep, Persist, StayUnconnected, Begin, Send, SendNothing,
                            Receive, ReceiveElsewhere, Finish
  <2>7. CASE Server
    BY <2>7, CountStays DEF Server, CloseAtNothing, perfVars
  <2>8. CASE UNCHANGED vars
    BY <2>8, CountStays DEF vars, perfVars
  <2> QED
    BY <2>2, <2>3, <2>4, <2>5, <2>6, <2>7, <2>8 DEF Next, Main
<1> QED
  BY <1>1, <1>2, PInvariance, PTL DEF Spec

(* Two messages have the same session id exactly when they belong to the   *)
(* same session of the same thread, for any numbers of threads, sessions   *)
(* and messages, and a counter of any length that starts anywhere and may  *)
(* start again from 0, as long as it has an id for every session.          *)
THEOREM SessionsDistinct == Spec => []SessionsDiffer
<1>1. PInv /\ CountInv => SessionsDiffer
  <2> SUFFICES ASSUME PInv, CountInv,
                      NEW r \in Requests, NEW q \in Requests,
                      SessionIDs[r] # <<>>, SessionIDs[q] # <<>>
               PROVE  SessionIDs[r] = SessionIDs[q] <=> SessionOf(r) = SessionOf(q)
    BY DEF SessionsDiffer
  <2>1. ASSUME NEW x \in Requests, SessionIDs[x] # <<>>
        PROVE  /\ x[1] \in 1 .. ThreadCount /\ x[2] \in 1 .. MessageCount
               /\ IsNumber(SessionIDs[x], SessionNumber(x[1], x[2]))
               /\ SessionAmount \in Nat /\ MessageAmount \in Nat /\ ThreadCount \in Nat
    <3>1. x[1] \in Threads /\ x[2] \in Nat \ {0} /\ x = <<x[1], x[2]>>
      BY Sizes
    <3>2. x[2] <= Len(MessageItems[x[1]]) /\ GInv
      BY <2>1 DEF CountInv, Named, PInv
    <3>3. DOMAIN MessageItems[x[1]] = 1 .. Len(MessageItems[x[1]])
          /\ Len(MessageItems[x[1]]) \in Nat
      BY <3>1, <3>2 DEF GInv, Items
    <3>4. x[2] \in 1 .. Len(MessageItems[x[1]])
      BY <3>1, <3>2, <3>3
    <3>5. made # 0 /\ x[1] <= made /\ x[2] \in 1 .. MessageCount
      BY <3>1, <3>2, <3>3, <3>4, ItemInPool
    <3>6. SessionAmount \in Nat /\ MessageAmount \in Nat /\ made \in Nat /\ made <= ThreadCount
      BY <3>2, <3>5 DEF GInv, Made
    <3>7. ThreadCount \in Nat
      BY <3>2, <3>6, Values DEF GInv, MainTypes, NotANumber
    <3>8. x[1] \in 1 .. ThreadCount
      <4>1. x[1] \in Nat \ {0}
        BY <3>1, Sizes
      <4> QED
        BY <3>5, <3>6, <3>7, <4>1
    <3>9. IsNumber(SessionIDs[x], SessionNumber(x[1], x[2]))
      BY <3>1, <3>4 DEF CountInv, Numbered
    <3> QED
      BY <3>5, <3>6, <3>7, <3>8, <3>9
  <2>2. PICK t \in 1 .. ThreadCount, n \in 1 .. MessageCount : t = r[1] /\ n = r[2]
    BY <2>1
  <2>3. PICK s \in 1 .. ThreadCount, m \in 1 .. MessageCount : s = q[1] /\ m = q[2]
    BY <2>1
  <2>4. /\ IsNumber(SessionIDs[r], SessionNumber(t, n))
        /\ IsNumber(SessionIDs[q], SessionNumber(s, m))
        /\ SessionAmount \in Nat /\ MessageAmount \in Nat /\ ThreadCount \in Nat /\ file \in Files
    BY <2>1, <2>2, <2>3 DEF PInv, GInv, MainTypes
  <2>5. /\ SessionNumber(t, n) \in Nat \ {0} /\ SessionNumber(t, n) <= NumberOf(LastID) + 1
        /\ SessionNumber(s, m) \in Nat \ {0} /\ SessionNumber(s, m) <= NumberOf(LastID) + 1
        /\ SessionNumber(t, n) = SessionNumber(s, m) => t = s /\ Begun(n) = Begun(m)
    BY <2>4, Numbering
  <2>6. SessionIDs[r] = SessionIDs[q] <=> SessionNumber(t, n) = SessionNumber(s, m)
    <3>1. ASSUME SessionIDs[r] = SessionIDs[q] PROVE SessionNumber(t, n) = SessionNumber(s, m)
      BY <2>4, <2>5, <3>1, OneNumber DEF IsNumber
    <3>2. ASSUME SessionNumber(t, n) = SessionNumber(s, m) PROVE SessionIDs[r] = SessionIDs[q]
      BY <2>4, <2>5, <3>2, OneID
    <3> QED
      BY <3>1, <3>2
  <2>7. SessionNumber(t, n) = SessionNumber(s, m) <=> t = s /\ Begun(n) = Begun(m)
    BY <2>5 DEF SessionNumber
  <2>8. Begun(n) = Begun(m) <=> (n - 1) \div MessageAmount = (m - 1) \div MessageAmount
    <3>1. MessageAmount # 0
      <4>1. MessageAmount = 0 => SessionAmount * MessageAmount = 0
        BY <2>4
      <4>2. MessageCount # 0
        OBVIOUS
      <4> QED
        BY <4>1, <4>2 DEF MessageCount
    <3>2. n - 1 \in Nat /\ m - 1 \in Nat /\ n # 0 /\ m # 0
      OBVIOUS
    <3>3. (n - 1) \div MessageAmount \in Nat /\ (m - 1) \div MessageAmount \in Nat
      BY <2>4, <3>1, <3>2, Division
    <3> QED
      BY <3>2, <3>3 DEF Begun
  <2> QED
    BY <2>2, <2>3, <2>6, <2>7, <2>8 DEF SessionOf
<1> QED
  BY <1>1, CountInvariance, PTL

-----------------------------------------------------------------------------
(* The end of the threads. *)

(* Steps that a thread still takes at most. *)
StepsLeft(t) ==
  CASE state[t] = "unborn" -> 2 * MessageCount + 4
    [] state[t] = "connect" -> 2 * MessageCount + 3
    [] state[t] = "wait" -> 2 * MessageCount + 2
    [] state[t] = "send" -> 2 * (MessageCount - i[t]) + 3
    [] state[t] = "read" -> 2 * (MessageCount - i[t]) + 2
    [] OTHER -> 0

(* A thread begins with its first message and stops behind the last one.   *)
InTurn ==
  \A t \in Threads :
    /\ state[t] \in {"unborn", "connect", "wait"} => i[t] = 1
    /\ state[t] \in {"send", "read"} => i[t] <= MessageCount + 1

Alive(t) == state[t] # "unborn"

LEMMA AliveTypes ==
  ASSUME PInv, NEW t \in Threads, Alive(t)
  PROVE  MessageCount \in Nat /\ i[t] \in Nat \ {0}
<1>1. made # 0
  BY Sizes DEF PInv, Places, Alive, GInv, Made
<1>2. SessionAmount \in Nat /\ MessageAmount \in Nat
  BY <1>1 DEF PInv, GInv, Made
<1>3. i[t] \in Nat \ {0}
  <2>1. i[t] \in 1 .. MaxMessages + 1 /\ MaxMessages \in Nat
    BY Sizes DEF PInv, Places
  <2> QED
    BY <2>1
<1> QED
  BY <1>2, <1>3 DEF MessageCount

LEMMA StepsBound ==
  ASSUME PInv, InTurn, NEW t \in Threads, Alive(t)
  PROVE  StepsLeft(t) \in 0 .. 2 * MessageCount + 3
<1>1. MessageCount \in Nat /\ i[t] \in Nat \ {0}
  BY AliveTypes
<1>2. state[t] \in {"send", "read"} => i[t] <= MessageCount + 1
  BY DEF InTurn
<1>3. state[t] = "read" => i[t] <= MessageCount
  BY DEF PInv, Places
<1> QED
  BY <1>1, <1>2, <1>3 DEF StepsLeft, Alive

LEMMA OthersWait ==
  ASSUME file' = file, NEW t \in Threads, state'[t] = state[t], i'[t] = i[t]
  PROVE  StepsLeft(t)' = StepsLeft(t)
BY SameFile DEF StepsLeft

LEMMA OneTurn ==
  ASSUME PInv, InTurn, NEW t \in Threads, ThreadStep(t)
  PROVE  /\ InTurn'
         /\ StepsLeft(t)' < StepsLeft(t) /\ StepsLeft(t)' <= StepsLeft(t)
         /\ \A s \in Threads : s # t => StepsLeft(s)' = StepsLeft(s)
<1>1. /\ state \in [Threads -> {"unborn", "connect", "wait", "send", "read", "done"}]
      /\ i \in [Threads -> 1 .. MaxMessages + 1]
  BY DEF PInv, Places
<1>2. file' = file /\ MessageCount' = MessageCount
  <2>1. file' = file
    BY DEF ThreadStep, Persist, StayUnconnected, Begin, Send, SendNothing, Receive,
           ReceiveElsewhere, Finish
  <2> QED
    BY <2>1, SameFile
<1>3. Alive(t)
  BY DEF ThreadStep, Persist, StayUnconnected, Begin, Send, SendNothing, Receive,
         ReceiveElsewhere, Finish, Alive
<1>4. MessageCount \in Nat /\ i[t] \in Nat \ {0}
  BY <1>3, AliveTypes
<1>5. PICK from, to \in {"unborn", "connect", "wait", "send", "read", "done"}, k \in Nat :
        /\ state[t] = from /\ state' = [state EXCEPT ![t] = to]
        /\ i' = [i EXCEPT ![t] = k]
        /\ \/ from = "connect" /\ to = "wait" /\ k = i[t]
           \/ from = "wait" /\ to = "send" /\ k = i[t]
           \/ from = "send" /\ to = "read" /\ k = i[t]
           \/ from = "read" /\ to = "send" /\ k = i[t] + 1
           \/ from = "send" /\ to = "done" /\ k = i[t]
  <2>1. i = [i EXCEPT ![t] = i[t]]
    BY <1>1
  <2>2. CASE Persist(t) \/ StayUnconnected(t)
    BY <1>4, <2>1, <2>2 DEF Persist, StayUnconnected
  <2>3. CASE Begin(t)
    BY <1>4, <2>1, <2>3 DEF Begin
  <2>4. CASE Send(t)
    BY <1>4, <2>1, <2>4 DEF Send
  <2>5. CASE SendNothing(t)
    BY <1>4, <2>1, <2>5 DEF SendNothing
  <2>6. CASE Receive(t) \/ ReceiveElsewhere(t)
    <3>1. PICK n \in Nat : n = i[t] + 1
      BY <1>4
    <3>2. state[t] = "read" /\ state' = [state EXCEPT ![t] = "send"] /\ i' = [i EXCEPT ![t] = n]
      BY <2>6, <3>1 DEF Receive, ReceiveElsewhere
    <3> QED
      BY <3>1, <3>2
  <2>7. CASE Finish(t)
    BY <1>4, <2>1, <2>7 DEF Finish
  <2> QED
    BY <2>2, <2>3, <2>4, <2>5, <2>6, <2>7 DEF ThreadStep
<1>6. /\ state'[t] = to /\ i'[t] = k
      /\ \A s \in Threads : s # t => state'[s] = state[s] /\ i'[s] = i[s]
  BY <1>1, <1>5
<1>7. state[t] = "read" => i[t] <= MessageCount
  BY DEF PInv, Places
<1>8. /\ from \in {"connect", "wait"} => i[t] = 1
      /\ from \in {"send", "read"} => i[t] <= MessageCount + 1
  BY <1>5 DEF InTurn
<1>9. InTurn'
  BY <1>2, <1>4, <1>5, <1>6, <1>7, <1>8 DEF InTurn
<1>10. StepsLeft(t)' < StepsLeft(t) /\ StepsLeft(t)' <= StepsLeft(t)
  BY <1>2, <1>4, <1>5, <1>6, <1>7, <1>8 DEF StepsLeft
<1>11. \A s \in Threads : s # t => StepsLeft(s)' = StepsLeft(s)
  BY <1>2, <1>6, OthersWait
<1> QED
  BY <1>9, <1>10, <1>11

(* No step of anybody gives a thread more to do. *)
FewerSteps ==
  \A t \in Threads : /\ ThreadStep(t) => StepsLeft(t)' < StepsLeft(t)
                     /\ Alive(t) => StepsLeft(t)' <= StepsLeft(t)

LEMMA StepsStep ==
  ASSUME PInv, InTurn, [Next]_vars
  PROVE  InTurn' /\ [FewerSteps]_vars
<1>1. ASSUME NEW t \in Threads, Alive(t) PROVE StepsLeft(t) \in Nat
  <2>1. MessageCount \in Nat /\ StepsLeft(t) \in 0 .. 2 * MessageCount + 3
    BY <1>1, AliveTypes, StepsBound
  <2> QED
    BY <2>1
<1>2. ASSUME NEW t \in Threads, ThreadStep(t) PROVE InTurn' /\ FewerSteps
  <2>1. /\ InTurn' /\ StepsLeft(t)' <= StepsLeft(t)
        /\ \A s \in Threads : s # t => StepsLeft(s)' = StepsLeft(s)
    BY <1>2, OneTurn
  <2>2. ASSUME NEW s \in Threads
        PROVE  /\ ThreadStep(s) => StepsLeft(s)' < StepsLeft(s)
               /\ Alive(s) => StepsLeft(s)' <= StepsLeft(s)
    <3>1. ThreadStep(s) => StepsLeft(s)' < StepsLeft(s)
      BY OneTurn
    <3>2. CASE s = t
      BY <2>1, <3>1, <3>2
    <3>3. CASE s # t
      BY <1>1, <2>1, <3>1, <3>3
    <3> QED
      BY <3>2, <3>3
  <2> QED
    BY <2>1, <2>2 DEF FewerSteps
<1>3. ASSUME UNCHANGED <<file, state, i>> PROVE InTurn' /\ FewerSteps
  <2>1. MessageCount' = MessageCount /\ \A t \in Threads : StepsLeft(t)' = StepsLeft(t)
    BY <1>3, OthersWait, SameFile
  <2>2. InTurn'
    BY <1>3, <2>1 DEF InTurn
  <2>3. FewerSteps
    BY <1>1, <2>1, OneTurn DEF FewerSteps
  <2> QED
    BY <2>2, <2>3
<1>4. ASSUME NEW s \in Threads, Spawn(s) PROVE InTurn' /\ FewerSteps
  <2>1. /\ file' = file /\ i' = i /\ state[s] = "unborn"
        /\ state' = [state EXCEPT ![s] = "connect"]
        /\ state \in [Threads -> {"unborn", "connect", "wait", "send", "read", "done"}]
    BY <1>4 DEF Spawn, PInv, Places
  <2>2. MessageCount' = MessageCount /\ \A t \in Threads : t # s => StepsLeft(t)' = StepsLeft(t)
    BY <2>1, OthersWait, SameFile
  <2>3. ~Alive(s) /\ ~ThreadStep(s)
    BY <2>1 DEF Alive, ThreadStep, Persist, StayUnconnected, Begin, Send, SendNothing,
                Receive, ReceiveElsewhere, Finish
  <2>4. InTurn'
    BY <2>1, <2>2 DEF InTurn
  <2>5. FewerSteps
    BY <1>1, <2>2, <2>3, OneTurn DEF FewerSteps
  <2> QED
    BY <2>4, <2>5
<1>5. CASE Main
  BY <1>3, <1>4, <1>5 DEF Main, BadConfig, NewThread, NoRange, EndGenerate, RunThreads, Return, Generate
<1>6. CASE Server
  BY <1>3, <1>6 DEF Server, CloseAtNothing, perfVars
<1>7. CASE UNCHANGED vars
  BY <1>3, <1>7 DEF vars, perfVars
<1> QED
  BY <1>2, <1>5, <1>6, <1>7 DEF Next

(* Every thread comes to its end: it takes 2 * MessageCount + 3 steps at   *)
(* most, and nothing that the main thread, the server or another thread    *)
(* does makes that more.                                                   *)
THEOREM ThreadsFinish ==
  Spec => /\ [](\A t \in Threads : Alive(t) => StepsLeft(t) \in 0 .. 2 * MessageCount + 3)
          /\ [][FewerSteps]_vars
<1>1. Init => InTurn
  BY DEF Init, InTurn
<1>2. PInv /\ InTurn /\ [Next]_vars => InTurn' /\ [FewerSteps]_vars
  BY StepsStep
<1>3. PInv /\ InTurn => \A t \in Threads : Alive(t) => StepsLeft(t) \in 0 .. 2 * MessageCount + 3
  BY StepsBound
<1> QED
  BY <1>1, <1>2, <1>3, PInvariance, PTL DEF Spec

(* Thread objects and messages that were made. *)
Generated ==
  IF made = 0 THEN 0 ELSE (made - 1) * (MessageCount + 1) + Len(MessageItems[made]) + 1

OneMore ==
  /\ NewThread \/ (\E payload \in PayloadLengths : Generate(payload)) => Generated' = Generated + 1
  /\ Generated' = Generated \/ Generated' = Generated + 1

LEMMA GeneratedBound ==
  ASSUME GInv, made # 0
  PROVE  /\ Generated \in 1 .. ThreadCount * (MessageCount + 1)
         /\ MessageCount \in Nat /\ ThreadCount \in Nat /\ made \in 1 .. ThreadCount
         /\ made \in Threads /\ Len(MessageItems[made]) \in Nat
<1>1. /\ made \in Nat /\ made <= ThreadCount /\ file \in Files
      /\ SessionAmount \in Nat /\ MessageAmount \in Nat
  BY DEF GInv, Made, MainTypes
<1>2. MessageCount \in Nat
  BY <1>1 DEF MessageCount
<1>3. ThreadCount \in Nat /\ made \in 1 .. ThreadCount /\ made \in Threads
  <2>1. ThreadCount \in Nat
    BY <1>1, Values DEF NotANumber
  <2>2. made \in 1 .. ThreadCount
    BY <1>1, <2>1
  <2> QED
    BY <1>1, <2>1, <2>2, Values
<1>4. Len(MessageItems[made]) \in Nat /\ Len(MessageItems[made]) <= MessageCount
  BY <1>1, <1>3 DEF GInv, Items, Made
<1>5. PICK p \in Nat, q \in Nat, b \in Nat \ {0} :
        p = made - 1 /\ q = ThreadCount /\ b = MessageCount + 1 /\ p < q
  BY <1>1, <1>2, <1>3
<1>6. p * b + b <= q * b
  BY <1>5, Apart
<1>7. p * b \in Nat /\ q * b \in Nat
  OBVIOUS
<1>8. Generated = p * b + Len(MessageItems[made]) + 1
  BY <1>5 DEF Generated
<1>9. PICK x \in Nat, y \in Nat : x = p * b /\ y = q * b
  BY <1>7
<1>10. x + b <= y /\ Generated = x + Len(MessageItems[made]) + 1
  BY <1>6, <1>8, <1>9
<1>11. Generated \in 1 .. y
  BY <1>2, <1>4, <1>5, <1>10
<1>12. y = ThreadCount * (MessageCount + 1)
  BY <1>5, <1>9
<1> QED
  BY <1>2, <1>3, <1>4, <1>11, <1>12

LEMMA GeneratedStep == ASSUME PInv, [Next]_vars PROVE [OneMore]_vars
<1>1. GInv
  BY DEF PInv
<1>2. ASSUME NewThread PROVE Generated' = Generated + 1
  <2>1. /\ file' = file /\ MessageItems' = MessageItems /\ made' = made + 1 /\ made < ThreadCount
        /\ made # 0 => Len(MessageItems[made]) = MessageCount
        /\ made \in Nat /\ file \in Files
    BY <1>1, <1>2 DEF NewThread, ThreadComplete, GInv, Made, MainTypes
  <2>2. MessageCount' = MessageCount
    BY <2>1, SameFile
  <2>3. MessageCount \in Nat /\ made + 1 \in Threads
    <3>1. ThreadCount \in Nat
      BY <2>1, Values DEF NotANumber
    <3>2. SessionAmount \in Nat /\ MessageAmount \in Nat
      BY <1>2, <2>1, Values DEF NewThread
    <3>3. made + 1 \in 1 .. ThreadCount
      BY <2>1, <3>1
    <3> QED
      BY <2>1, <3>2, <3>3, Values DEF MessageCount
  <2>4. Len(MessageItems[made + 1]) = 0
    <3>1. MessageItems[made + 1] \in Seq(Item)
      BY <1>1, <2>3 DEF GInv, Items
    <3>2. Len(MessageItems[made + 1]) <= 0
      BY <1>1, <2>1, <2>3 DEF GInv, Made
    <3> QED
      BY <3>1, <3>2
  <2>5. Generated' = ((made + 1) - 1) * (MessageCount + 1) + 0 + 1
    BY <2>1, <2>2, <2>4 DEF Generated
  <2>6. CASE made = 0
    BY <2>1, <2>3, <2>5, <2>6 DEF Generated
  <2>7. CASE made # 0
    <3>1. PICK b \in Nat, p \in Nat : b = MessageCount + 1 /\ p = made - 1
      BY <2>1, <2>3, <2>7
    <3>2. PICK x \in Nat : x = p * b
      OBVIOUS
    <3>3. (p + 1) * b = x + b
      BY <3>2
    <3>4. Generated = x + MessageCount + 1
      BY <2>1, <2>7, <3>1, <3>2 DEF Generated
    <3>5. Generated' = (p + 1) * b + 1
      BY <2>1, <2>3, <2>5, <3>1
    <3> QED
      BY <2>3, <3>1, <3>3, <3>4, <3>5
  <2> QED
    BY <2>6, <2>7
<1>3. ASSUME NEW payload \in PayloadLengths, Generate(payload) PROVE Generated' = Generated + 1
  <2>1. file' = file /\ made' = made /\ made # 0 /\ made \in Threads
    BY <1>1, <1>3, GenerateWrites
  <2>2. MessageCount \in Nat /\ Len(MessageItems[made]) \in Nat /\ made \in Nat
    BY <1>1, <2>1, GeneratedBound
  <2>3. Len(MessageItems'[made]) = Len(MessageItems[made]) + 1
    <3>1. PICK item : MessageItems' = [MessageItems EXCEPT ![made] = Append(@, item)]
      BY <1>3 DEF Generate
    <3>2. MessageItems \in [Threads -> Seq(Item)]
      BY <1>1 DEF GInv, Items
    <3> QED
      BY <2>1, <3>1, <3>2
  <2>4. PICK x \in Int : x = (made - 1) * (MessageCount + 1)
    BY <2>2
  <2>5. Generated = x + Len(MessageItems[made]) + 1
    BY <2>1, <2>4 DEF Generated
  <2>6. Generated' = x + Len(MessageItems'[made]) + 1
    BY <2>1, <2>4, SameFile DEF Generated
  <2> QED
    BY <2>2, <2>3, <2>5, <2>6
<1>4. ASSUME UNCHANGED <<file, generated>> PROVE Generated' = Generated
  BY <1>4, SameFile DEF Generated, generated
<1>8. NewThread \/ (\E payload \in PayloadLengths : Generate(payload)) => Generated' = Generated + 1
  BY <1>2, <1>3
<1>5. CASE Main
  <2>1. ASSUME BadConfig \/ NoRange \/ EndGenerate \/ RunThreads \/ Return
        PROVE  Generated' = Generated
    <3>1. UNCHANGED <<file, generated>>
      BY <2>1 DEF BadConfig, NoRange, EndGenerate, RunThreads, Return
    <3> QED
      BY <1>4, <3>1
  <2>2. ASSUME NEW t \in Threads, Spawn(t) PROVE Generated' = Generated
    BY <1>4, <2>2 DEF Spawn
  <2> QED
    BY <1>8, <1>5, <2>1, <2>2 DEF Main, OneMore
<1>6. CASE Server
  BY <1>8, <1>4, <1>6 DEF Server, CloseAtNothing, perfVars, OneMore
<1>7. ASSUME NEW t \in Threads, ThreadStep(t) PROVE OneMore
  BY <1>8, <1>4, <1>7
  DEF ThreadStep, Persist, StayUnconnected, Begin, Send, SendNothing, Receive,
      ReceiveElsewhere, Finish, OneMore
<1> QED
  BY <1>5, <1>6, <1>7 DEF Next

(* The main thread comes to the end of its messages: every step of it adds *)
(* one, a thread or a message, and there is an end to them.                *)
THEOREM GenerationEnds ==
  Spec => /\ [](made # 0 => Generated \in 1 .. ThreadCount * (MessageCount + 1))
          /\ [][OneMore]_vars
<1>1. PInv => (made # 0 => Generated \in 1 .. ThreadCount * (MessageCount + 1))
  BY GeneratedBound DEF PInv
<1>2. PInv /\ [Next]_vars => [OneMore]_vars
  BY GeneratedStep
<1> QED
  BY <1>1, <1>2, PInvariance, PTL DEF Spec
=============================================================================
