--------------------------- MODULE MsgServer_proofs ---------------------------
(***************************************************************************)
(* The server as a whole, for any number of connections, descriptors,      *)
(* messages and batch sizes: the worker in it is a MessageHandler, so that *)
(* what is proved about that one holds in the server; a reply goes astray  *)
(* only when its connection was closed; and no packet is overlooked unless *)
(* a client was given a reply too many.                                    *)
(***************************************************************************)
EXTENDS MsgServer, MessageHandler_proofs, WellFoundedInduction

-----------------------------------------------------------------------------
(* A set of numbers has a least one. *)
LEMMA Least ==
  ASSUME NEW S \in SUBSET Nat, S # {}
  PROVE  \E x \in S : \A y \in S : x <= y
<1>1. PICK R : R = OpToRel(<, Nat)
  OBVIOUS
<1>2. IsWellFoundedOn(R, Nat)
  BY <1>1, NatLessThanWellFounded
<1>3. PICK x \in S : \A y \in S : ~(<<y, x>> \in R)
  BY <1>2, WFMin
<1>4. \A y \in S : y < x => <<y, x>> \in R
  BY <1>1 DEF OpToRel
<1>5. \A y \in S : ~(y < x)
  BY <1>3, <1>4
<1> QED
  BY <1>5

(* What is in a sequence. *)

LEMMA InRange ==
  ASSUME NEW S, NEW s \in Seq(S)
  PROVE  /\ Range(s) \subseteq S
         /\ \A x : x \in Range(s) <=> \E k \in 1 .. Len(s) : s[k] = x
BY DEF Range

(* Something behind. *)
LEMMA RangeAppend ==
  ASSUME NEW S, NEW s \in Seq(S), NEW x \in S
  PROVE  Range(Append(s, x)) = Range(s) \cup {x}
<1>1. PICK n \in Nat : n = Len(s)
  OBVIOUS
<1>2. /\ Append(s, x) \in Seq(S) /\ Len(Append(s, x)) = n + 1
      /\ Append(s, x)[n + 1] = x /\ \A k \in 1 .. n : Append(s, x)[k] = s[k]
  BY <1>1, AppendFcn
<1> DEFINE t == Append(s, x)
<1> HIDE DEF t
<1>3. t \in Seq(S) /\ Len(t) = n + 1 /\ t[n + 1] = x /\ \A k \in 1 .. n : t[k] = s[k]
  BY <1>2 DEF t
<1>4. /\ \A y : y \in Range(s) <=> \E k \in 1 .. n : s[k] = y
      /\ \A y : y \in Range(t) <=> \E k \in 1 .. n + 1 : t[k] = y
  BY <1>1, <1>3, InRange
<1>5. ASSUME NEW y PROVE y \in Range(t) <=> y \in Range(s) \cup {x}
  <2>1. ASSUME NEW k \in 1 .. n + 1, t[k] = y PROVE y \in Range(s) \cup {x}
    <3>1. k = n + 1 \/ k \in 1 .. n
      OBVIOUS
    <3> QED
      BY <1>3, <1>4, <2>1, <3>1
  <2>2. ASSUME NEW k \in 1 .. n, s[k] = y PROVE y \in Range(t)
    <3>1. k \in 1 .. n + 1
      OBVIOUS
    <3> QED
      BY <1>3, <1>4, <2>2, <3>1
  <2>3. x \in Range(t)
    <3>1. n + 1 \in 1 .. n + 1
      OBVIOUS
    <3> QED
      BY <1>3, <1>4, <3>1
  <2> QED
    BY <1>4, <2>1, <2>2, <2>3
<1> QED
  BY <1>5 DEF t

(* Everything but the first. *)
LEMMA RangeTail ==
  ASSUME NEW S, NEW s \in Seq(S), s # <<>>
  PROVE  Range(s) = {Head(s)} \cup Range(Tail(s))
<1>1. PICK n \in Nat \ {0} : n = Len(s)
  OBVIOUS
<1> DEFINE t == Tail(s)
<1>2. /\ t \in Seq(S) /\ Len(t) = n - 1 /\ Head(s) = s[1]
      /\ \A k \in 1 .. n - 1 : t[k] = s[k + 1]
  BY <1>1, TailFcn
<1> HIDE DEF t
<1>3. /\ \A y : y \in Range(s) <=> \E k \in 1 .. n : s[k] = y
      /\ \A y : y \in Range(t) <=> \E k \in 1 .. n - 1 : t[k] = y
  BY <1>1, <1>2, InRange
<1>4. ASSUME NEW y PROVE y \in Range(s) <=> y \in {Head(s)} \cup Range(t)
  <2>1. ASSUME NEW k \in 1 .. n, s[k] = y PROVE y \in {Head(s)} \cup Range(t)
    <3>1. k = 1 \/ (k - 1 \in 1 .. n - 1 /\ (k - 1) + 1 = k)
      OBVIOUS
    <3> QED
      BY <1>2, <1>3, <2>1, <3>1
  <2>2. ASSUME NEW k \in 1 .. n - 1, t[k] = y PROVE y \in Range(s)
    <3>1. k + 1 \in 1 .. n
      OBVIOUS
    <3> QED
      BY <1>2, <1>3, <2>2, <3>1
  <2>3. Head(s) \in Range(s)
    <3>1. 1 \in 1 .. n
      OBVIOUS
    <3> QED
      BY <1>2, <1>3, <3>1
  <2> QED
    BY <1>3, <2>1, <2>2, <2>3
<1> QED
  BY <1>4 DEF t

(* A sequence cut in two. *)
LEMMA RangeSplit ==
  ASSUME NEW S, NEW s \in Seq(S), NEW n \in 0 .. Len(s)
  PROVE  /\ SubSeq(s, 1, n) \in Seq(S) /\ Len(SubSeq(s, 1, n)) = n
         /\ SubSeq(s, n + 1, Len(s)) \in Seq(S)
         /\ Range(s) \subseteq Range(SubSeq(s, 1, n)) \cup Range(SubSeq(s, n + 1, Len(s)))
<1>1. PICK m \in Nat : m = Len(s) /\ n \in 0 .. m
  OBVIOUS
<1> DEFINE a == SubSeq(s, 1, n)
           b == SubSeq(s, n + 1, Len(s))
<1>2. a \in Seq(S) /\ Len(a) = n /\ \A k \in 1 .. n : a[k] = s[k]
  BY <1>1, SubSeqFcn
<1>3. b \in Seq(S) /\ Len(b) = m - n /\ \A k \in 1 .. m - n : b[k] = s[n + k]
  BY <1>1, SubSeqFcn
<1> HIDE DEF a, b
<1>4. ASSUME NEW y \in Range(s) PROVE y \in Range(a) \cup Range(b)
  <2>1. PICK k \in 1 .. m : s[k] = y
    BY <1>1, InRange
  <2>2. CASE k <= n
    <3>1. k \in 1 .. n
      BY <2>2
    <3> QED
      BY <1>2, <2>1, <3>1, InRange
  <2>3. CASE k > n
    <3>1. k - n \in 1 .. m - n /\ n + (k - n) = k
      BY <2>3
    <3>2. b[k - n] = y /\ k - n \in 1 .. Len(b)
      BY <1>3, <2>1, <3>1
    <3> QED
      BY <1>3, <3>2, InRange
  <2> QED
    BY <2>2, <2>3
<1> QED
  BY <1>2, <1>3, <1>4 DEF a, b

(* Without one occurrence of an element, where the others stay. *)
LEMMA RangeRemove ==
  ASSUME NEW S, NEW s \in Seq(S), NEW x
  PROVE  /\ RemoveFirst(s, x) \in Seq(S)
         /\ Range(s) \ {x} \subseteq Range(RemoveFirst(s, x))
<1>1. CASE ~ \E i_ \in 1 .. Len(s) : s[i_] = x
  BY <1>1 DEF RemoveFirst
<1>2. CASE \E i_ \in 1 .. Len(s) : s[i_] = x
  <2>1. PICK I : I = {n \in 1 .. Len(s) : s[n] = x}
    OBVIOUS
  <2>2. I \in SUBSET Nat /\ I # {}
    BY <1>2, <2>1
  <2>3. PICK j \in I : \A n \in I : j <= n
    BY <2>2, Least
  <2>4. Min(I) \in I
    BY <2>3 DEF Min
  <2>5. PICK m \in 1 .. Len(s) : m = Min(I) /\ s[m] = x
    BY <2>1, <2>4
  <2>6. RemoveFirst(s, x) = SubSeq(s, 1, m - 1) \o SubSeq(s, m + 1, Len(s))
    BY <1>2, <2>1, <2>2, <2>5 DEF RemoveFirst, RemoveAt, SelectInSeq
  <2> DEFINE a == SubSeq(s, 1, m - 1)
             b == SubSeq(s, m + 1, Len(s))
             r == a \o b
  <2>7. PICK l \in Nat : l = Len(s) /\ m \in 1 .. l
    OBVIOUS
  <2>8. a \in Seq(S) /\ Len(a) = m - 1 /\ \A k \in 1 .. m - 1 : a[k] = s[k]
    BY <2>7, SubSeqFcn
  <2>9. b \in Seq(S) /\ Len(b) = l - m /\ \A k \in 1 .. l - m : b[k] = s[m + k]
    BY <2>7, SubSeqFcn
  <2> HIDE DEF a, b
  <2>10. /\ r \in Seq(S) /\ Len(r) = (m - 1) + (l - m)
         /\ \A k \in 1 .. m - 1 : r[k] = a[k]
         /\ \A k \in (m - 1) + 1 .. (m - 1) + (l - m) : r[k] = b[k - (m - 1)]
    <3>1. a \in Seq(S) /\ b \in Seq(S)
      BY <2>8, <2>9
    <3>2. /\ r \in Seq(S) /\ Len(r) = Len(a) + Len(b)
          /\ \A k \in 1 .. Len(a) : r[k] = a[k]
          /\ \A k \in Len(a) + 1 .. Len(a) + Len(b) : r[k] = b[k - Len(a)]
      BY <3>1, ConcatFcn
    <3> HIDE DEF r
    <3> QED
      BY <2>8, <2>9, <3>2
  <2> HIDE DEF r
  <2>11. ASSUME NEW y \in Range(s) \ {x} PROVE y \in Range(r)
    <3>1. PICK k \in 1 .. l : s[k] = y
      BY <2>7, InRange
    <3>2. k # m
      BY <2>5, <3>1
    <3>3. CASE k < m
      <4>1. k \in 1 .. m - 1 /\ k \in 1 .. (m - 1) + (l - m)
        BY <2>7, <3>3
      <4> QED
        BY <2>8, <2>10, <3>1, <4>1, InRange
    <3>4. CASE k > m
      <4>1. /\ k - 1 \in (m - 1) + 1 .. (m - 1) + (l - m) /\ k - 1 \in 1 .. (m - 1) + (l - m)
            /\ (k - 1) - (m - 1) \in 1 .. l - m /\ m + ((k - 1) - (m - 1)) = k
        BY <2>7, <3>4
      <4>2. r[k - 1] = s[k]
        BY <2>9, <2>10, <4>1
      <4> QED
        BY <2>10, <3>1, <4>1, <4>2, InRange
    <3> QED
      BY <2>7, <3>2, <3>3, <3>4
  <2> QED
    BY <2>6, <2>10, <2>11 DEF r, a, b
<1> QED
  BY <1>1, <1>2

-----------------------------------------------------------------------------
(* Transfers that can be traced: one that was read still has its           *)
(* connection's descriptor, unless the server has closed that connection;  *)
(* the others stand for a read() that failed.                              *)
Traced ==
  {t \in TransferRecord :
     IF t.from = NoConn THEN t.req = Phantom
     ELSE fdTable[t.fd] = t.from \/ t.from \in cut}

(* Replies on connection c. *)
ReplyRecord == [to : Conns, id : Nat]
OwnReplies(c) == {r \in ReplyRecord : r.to = c \/ r.to \in cut}

SocketTypes ==
  /\ client \in [Conns -> {"new", "open", "closed"}]
  /\ sent \in [Conns -> Nat] /\ got \in [Conns -> Nat]
  /\ backlog \in Seq(Conns)
  /\ fdTable \in [FDs -> Conns \cup {NoConn}]
  /\ cut \subseteq Conns /\ misled \subseteq Conns
  /\ rx \in [Conns -> Seq(Packets)]
  /\ DOMAIN tx = Conns /\ \A c \in Conns : tx[c] \in Seq(OwnReplies(c))
  /\ resets \subseteq Conns
  /\ watched \subseteq FDs
  /\ ready \in Seq(FDs)

(* A batch is never longer than what one epoll_wait reports, and addClient *)
(* is busy with one descriptor at most.                                    *)
BatchTypes ==
  /\ RunServer \in BOOLEAN
  /\ net \in {"top", "poll", "nonblock", "watch", "wait", "read", "join", "exit"}
  /\ Clients \subseteq FDs /\ adding \subseteq FDs
  /\ \A f, g \in adding : f = g
  /\ net \notin {"nonblock", "watch", "exit"} => adding = {}
  /\ events \in Seq(FDs)
  /\ Messages \in Seq(Traced)
  /\ Len(Messages) + Len(events) <= BatchMax
  /\ net # "read" => events = <<>> /\ Messages = <<>>
  /\ full \in BOOLEAN
  /\ box \in Seq(Traced) /\ Len(box) <= BatchMax

(* What the worker has to dispatch came out of a transfer. *)
Popped == {e \in Entry : e.id \in 1 .. nread /\ e.req = transfers[e.id].req}
WorkerTypes ==
  /\ loop \in {"top", "in", "pop", "go", "left"}
  /\ closing \subseteq Traced
  /\ transfers \in Seq(Traced) /\ Len(transfers) = nread
  /\ QueueMessages \in Seq(Popped)

(* A connection is new, waiting to be accepted or accepted under one       *)
(* number, or it is none of these any more.                                *)
OnePlace ==
  /\ \A p \in DOMAIN backlog :
       /\ client[backlog[p]] # "new" /\ \A f \in FDs : fdTable[f] # backlog[p]
       /\ \A q \in DOMAIN backlog : backlog[p] = backlog[q] => p = q
  /\ \A f \in FDs : fdTable[f] # NoConn =>
       /\ client[fdTable[f]] # "new"
       /\ \A g \in FDs : fdTable[f] = fdTable[g] => f = g

(* A patient client that was given no reply too many has one packet on its *)
(* way at most, and none when it leaves.                                   *)
Calm(c) ==
  /\ got[c] + Len(tx[c]) + Len(rx[c]) <= sent[c]
  /\ Len(rx[c]) <= 1
  /\ rx[c] # <<>> => client[c] = "open" /\ c \notin cut
  /\ c \notin resets
CalmClients == \A c \in Conns : c \in Patient \ misled => Calm(c)

(* Each accepted connection is registered with epoll, or about to be.      *)
Registered == \A f \in FDs : fdTable[f] # NoConn => f \in watched \cup adding

ServerInv == SocketTypes /\ BatchTypes /\ WorkerTypes
NetInv == ServerInv /\ OnePlace /\ Registered /\ CalmClients /\ NothingOverlooked

(* What concerns the sockets alone. *)
SocketPart == SocketTypes /\ OnePlace /\ Registered /\ CalmClients /\ NothingOverlooked

-----------------------------------------------------------------------------
(* What happens on the sockets. *)

(* A sequence over a set is one over a larger set. *)
LEMMA SeqWider ==
  ASSUME NEW S, NEW T, S \subseteq T, NEW s \in Seq(S)
  PROVE  s \in Seq(T)
OBVIOUS

(* Nothing is traced that was not: a connection keeps its descriptor until *)
(* it is closed.                                                           *)
LEMMA TracedKept ==
  ASSUME \A f \in FDs : fdTable[f] # NoConn => fdTable'[f] = fdTable[f] \/ fdTable[f] \in cut',
         cut \subseteq cut'
  PROVE  /\ Traced \subseteq Traced'
         /\ \A c \in Conns : OwnReplies(c) \subseteq OwnReplies(c)'
<1>1. ASSUME NEW t \in Traced PROVE t \in Traced'
  <2>1. t \in TransferRecord /\ t.fd \in FDs
    BY DEF Traced, TransferRecord
  <2>2. CASE t.from = NoConn
    BY <2>1, <2>2 DEF Traced
  <2>3. CASE t.from # NoConn
    BY <2>1, <2>3 DEF Traced
  <2> QED
    BY <2>2, <2>3
<1>2. \A c \in Conns : OwnReplies(c) \subseteq OwnReplies(c)'
  BY DEF OwnReplies
<1> QED
  BY <1>1, <1>2

(* A descriptor becomes ready when something happens on its connection. *)
LEMMA NotifiedReady ==
  ASSUME SocketTypes, OnePlace, NEW c \in Conns
  PROVE  /\ Notified(c) \in Seq(FDs)
         /\ Range(ready) \subseteq Range(Notified(c))
         /\ \A f \in watched : fdTable[f] = c => f \in Range(Notified(c))
<1>1. ready \in Seq(FDs) /\ NoConn # c /\ watched \subseteq FDs
  BY SocketsAssumption DEF SocketTypes
<1> DEFINE fs == {f \in watched : fdTable[f] = c}
<1>2. CASE fs = {} \/ fs \cap Range(ready) # {}
  <2>1. Notified(c) = ready
    BY <1>2 DEF Notified
  <2>2. ASSUME NEW f \in watched, fdTable[f] = c PROVE f \in Range(ready)
    <3>1. PICK g \in fs : g \in Range(ready)
      BY <1>2, <2>2
    <3> QED
      BY <1>1, <2>2, <3>1 DEF OnePlace
  <2> QED
    BY <1>1, <2>1, <2>2
<1>3. CASE ~(fs = {} \/ fs \cap Range(ready) # {})
  <2>1. PICK f \in watched : f = (CHOOSE g \in fs : TRUE) /\ fdTable[f] = c /\ f \in FDs
    BY <1>1, <1>3
  <2>2. Notified(c) = Append(ready, f)
    BY <1>3, <2>1 DEF Notified
  <2>3. Range(Append(ready, f)) = Range(ready) \cup {f} /\ Append(ready, f) \in Seq(FDs)
    BY <1>1, RangeAppend
  <2>4. \A g \in FDs : fdTable[g] = c => g = f
    BY <1>1, <2>1 DEF OnePlace
  <2> QED
    BY <1>1, <2>2, <2>3, <2>4
<1> QED
  BY <1>2, <1>3

(* A connection begins to wait. *)
LEMMA ConnectPart ==
  ASSUME SocketPart, NEW c \in Conns, Connect(c), UNCHANGED <<events, adding, misled>>
  PROVE  SocketPart' /\ Traced \subseteq Traced'
<1> USE DEF SocketPart
<1>1. /\ client[c] = "new" /\ client' = [client EXCEPT ![c] = "open"]
      /\ backlog' = Append(backlog, c)
      /\ UNCHANGED <<sent, got, fdTable, cut, rx, tx, resets, watched, ready>>
  BY DEF Connect
<1>2. client \in [Conns -> {"new", "open", "closed"}] /\ backlog \in Seq(Conns)
  BY DEF SocketTypes
<1>3. Traced \subseteq Traced' /\ \A d \in Conns : OwnReplies(d) = OwnReplies(d)'
  BY <1>1 DEF Traced, OwnReplies
<1>4. SocketTypes'
  BY <1>1, <1>2, <1>3 DEF SocketTypes
<1>5. OnePlace'
  <2>1. PICK n \in Nat : n = Len(backlog) /\ DOMAIN backlog = 1 .. n
    BY <1>2
  <2>2. /\ DOMAIN backlog' = 1 .. n + 1 /\ backlog'[n + 1] = c
        /\ \A k \in 1 .. n : backlog'[k] = backlog[k] /\ backlog[k] \in Conns
    BY <1>1, <1>2, <2>1, AppendFcn
  <2>3. \A k \in 1 .. n : backlog[k] # c
    BY <1>1, <2>1 DEF OnePlace
  <2>4. \A f \in FDs : fdTable[f] # c /\ (fdTable[f] # NoConn => fdTable[f] \in Conns)
    BY <1>1, SocketsAssumption DEF OnePlace, SocketTypes
  <2>5. \A p \in 1 .. n + 1 : p = n + 1 \/ p \in 1 .. n
    OBVIOUS
  <2>6. ASSUME NEW p \in DOMAIN backlog'
        PROVE  /\ client'[backlog'[p]] # "new" /\ \A f \in FDs : fdTable'[f] # backlog'[p]
               /\ \A q \in DOMAIN backlog' : backlog'[p] = backlog'[q] => p = q
    <3>1. CASE p = n + 1
      BY <1>1, <1>2, <2>2, <2>3, <2>4, <2>5, <3>1
    <3>2. CASE p \in 1 .. n
      BY <1>1, <1>2, <2>1, <2>2, <2>3, <2>4, <2>5, <3>2 DEF OnePlace
    <3> QED
      BY <2>2, <2>5, <3>1, <3>2
  <2>7. ASSUME NEW f \in FDs, fdTable'[f] # NoConn
        PROVE  /\ client'[fdTable'[f]] # "new"
               /\ \A g \in FDs : fdTable'[f] = fdTable'[g] => f = g
    BY <1>1, <1>2, <2>4, <2>7 DEF OnePlace
  <2> QED
    BY <2>6, <2>7 DEF OnePlace
<1>6. CalmClients'
  BY <1>1, <1>2 DEF CalmClients, Calm
<1>7. NothingOverlooked'
  <2>1. \A f \in FDs : fdTable[f] # NoConn => client'[fdTable[f]] = client[fdTable[f]]
    BY <1>1, <1>2 DEF OnePlace, SocketTypes
  <2> QED
    BY <1>1, <2>1 DEF NothingOverlooked
<1>20. Registered'
  BY <1>1 DEF Registered
<1> QED
  BY <1>3, <1>4, <1>5, <1>6, <1>7, <1>20

(* A patient client sends only when it is given back all it sent for, so   *)
(* that its packet is the only one on its way.                             *)
LEMMA SendPart ==
  ASSUME SocketPart, NEW c \in Conns, NEW p \in Packets, Send(c, p), UNCHANGED <<events, adding, misled>>
  PROVE  SocketPart' /\ Traced \subseteq Traced'
<1> USE DEF SocketPart
<1>1. /\ client[c] = "open" /\ c \notin cut /\ (c \in Patient => AtRest(c))
      /\ sent' = [sent EXCEPT ![c] = @ + 1]
      /\ rx' = [rx EXCEPT ![c] = Append(@, p)]
      /\ ready' = Notified(c)
      /\ UNCHANGED <<client, got, backlog, fdTable, cut, tx, resets, watched>>
  BY DEF Send
<1>2. /\ sent \in [Conns -> Nat] /\ got \in [Conns -> Nat]
      /\ rx \in [Conns -> Seq(Packets)] /\ \A d \in Conns : Len(tx[d]) \in Nat
  <2>1. \A d \in Conns : tx[d] \in Seq(OwnReplies(d))
    BY DEF SocketTypes
  <2> QED
    BY <2>1 DEF SocketTypes
<1>3. Traced \subseteq Traced' /\ \A d \in Conns : OwnReplies(d) = OwnReplies(d)'
  BY <1>1 DEF Traced, OwnReplies
<1>4. /\ Notified(c) \in Seq(FDs)
      /\ Range(ready) \subseteq Range(ready')
      /\ \A f \in FDs : fdTable[f] = c => f \in Range(ready') \cup adding'
  BY <1>1, NotifiedReady, SocketsAssumption DEF Registered
<1>5. /\ Append(rx[c], p) \in Seq(Packets) /\ Len(Append(rx[c], p)) = Len(rx[c]) + 1
      /\ Len(rx[c]) \in Nat
  BY <1>2, AppendFcn
<1>6. SocketTypes'
  BY <1>1, <1>2, <1>3, <1>4, <1>5 DEF SocketTypes
<1>7. OnePlace'
  BY <1>1 DEF OnePlace
<1>8. ASSUME NEW d \in Conns, d \in Patient \ misled PROVE Calm(d)'
  <2>1. Calm(d)
    BY <1>8 DEF CalmClients
  <2>2. CASE d # c
    BY <1>1, <1>2, <2>1, <2>2 DEF Calm
  <2>3. CASE d = c
    <3>1. got[c] >= sent[c]
      BY <1>1, <1>8, <2>3 DEF AtRest
    <3>2. Len(rx[c]) = 0 /\ Len(tx[c]) = 0
      BY <1>2, <1>5, <2>1, <2>3, <3>1 DEF Calm
    <3>3. rx'[c] = Append(rx[c], p) /\ sent'[c] = sent[c] + 1
      BY <1>1, <1>2
    <3> QED
      BY <1>1, <1>2, <1>5, <2>1, <2>3, <3>2, <3>3 DEF Calm
  <2> QED
    BY <2>2, <2>3
<1>9. CalmClients'
  BY <1>1, <1>8 DEF CalmClients
<1>10. NothingOverlooked'
  BY <1>1, <1>2, <1>4 DEF NothingOverlooked
<1>20. Registered'
  BY <1>1 DEF Registered
<1> QED
  BY <1>3, <1>6, <1>7, <1>9, <1>10, <1>20

(* A client reads the oldest reply. *)
LEMMA ReceivePart ==
  ASSUME SocketPart, NEW c \in Conns, Receive(c), UNCHANGED <<events, adding, misled>>
  PROVE  SocketPart' /\ Traced \subseteq Traced'
<1> USE DEF SocketPart
<1>1. /\ client[c] = "open" /\ tx[c] # <<>>
      /\ got' = [got EXCEPT ![c] = @ + 1] /\ tx' = [tx EXCEPT ![c] = Tail(@)]
      /\ UNCHANGED <<client, sent, backlog, fdTable, cut, rx, resets, watched, ready>>
  BY DEF Receive
<1>2. Traced \subseteq Traced' /\ \A d \in Conns : OwnReplies(d) = OwnReplies(d)'
  BY <1>1 DEF Traced, OwnReplies
<1>3. DOMAIN tx = Conns /\ \A d \in Conns : tx[d] \in Seq(OwnReplies(d))
  BY DEF SocketTypes
<1>4. /\ Len(tx[c]) \in Nat \ {0} /\ Tail(tx[c]) \in Seq(OwnReplies(c))
      /\ Len(Tail(tx[c])) = Len(tx[c]) - 1
  BY <1>1, <1>3, TailFcn
<1>5. /\ DOMAIN tx' = Conns /\ tx'[c] = Tail(tx[c])
      /\ \A d \in Conns : d # c => tx'[d] = tx[d]
  BY <1>1, <1>3
<1>6. \A d \in Conns : tx'[d] \in Seq(OwnReplies(d)')
  BY <1>2, <1>3, <1>4, <1>5
<1>7. SocketTypes'
  BY <1>1, <1>5, <1>6 DEF SocketTypes
<1>8. OnePlace'
  BY <1>1 DEF OnePlace
<1>9. ASSUME NEW d \in Conns, d \in Patient \ misled PROVE Calm(d)'
  <2>1. Calm(d)
    BY <1>9 DEF CalmClients
  <2>2. /\ got \in [Conns -> Nat] /\ sent \in [Conns -> Nat]
        /\ Len(rx[d]) \in Nat /\ Len(tx[d]) \in Nat
    BY <1>3 DEF SocketTypes
  <2>3. got'[d] + Len(tx'[d]) = got[d] + Len(tx[d])
    <3>1. CASE d = c
      BY <1>1, <1>4, <1>5, <2>2, <3>1
    <3>2. CASE d # c
      BY <1>1, <1>5, <2>2, <3>2
    <3> QED
      BY <3>1, <3>2
  <2> QED
    BY <1>1, <2>1, <2>2, <2>3 DEF Calm
<1>10. CalmClients'
  BY <1>1, <1>9 DEF CalmClients
<1>11. NothingOverlooked'
  BY <1>1 DEF NothingOverlooked
<1>20. Registered'
  BY <1>1 DEF Registered
<1> QED
  BY <1>2, <1>7, <1>8, <1>10, <1>11, <1>20

(* A patient client that leaves has nothing left to read, nor the server:  *)
(* the kernel reports no error.                                            *)
LEMMA HangUpPart ==
  ASSUME SocketPart, NEW c \in Conns, HangUp(c), UNCHANGED <<events, adding, misled>>
  PROVE  SocketPart' /\ Traced \subseteq Traced'
<1> USE DEF SocketPart
<1>1. /\ client[c] = "open" /\ (c \in Patient => AtRest(c))
      /\ client' = [client EXCEPT ![c] = "closed"]
      /\ resets' = IF tx[c] # <<>> /\ c \notin cut THEN resets \cup {c} ELSE resets
      /\ tx' = [tx EXCEPT ![c] = <<>>]
      /\ ready' = Notified(c)
      /\ UNCHANGED <<sent, got, backlog, fdTable, cut, rx, watched>>
  BY DEF HangUp
<1>2. Traced \subseteq Traced' /\ \A d \in Conns : OwnReplies(d) = OwnReplies(d)'
  BY <1>1 DEF Traced, OwnReplies
<1>3. /\ DOMAIN tx = Conns /\ \A d \in Conns : tx[d] \in Seq(OwnReplies(d))
      /\ client \in [Conns -> {"new", "open", "closed"}]
  BY DEF SocketTypes
<1>4. /\ Notified(c) \in Seq(FDs)
      /\ Range(ready) \subseteq Range(ready')
      /\ \A f \in FDs : fdTable[f] = c => f \in Range(ready') \cup adding'
  BY <1>1, NotifiedReady, SocketsAssumption DEF Registered
<1>5. /\ DOMAIN tx' = Conns /\ tx'[c] = <<>> /\ Len(tx'[c]) = 0
      /\ \A d \in Conns : d # c => tx'[d] = tx[d]
  BY <1>1, <1>3
<1>6. \A d \in Conns : tx'[d] \in Seq(OwnReplies(d)')
  <2>1. \A S : <<>> \in Seq(S)
    OBVIOUS
  <2> QED
    BY <1>2, <1>3, <1>5, <2>1
<1>7. SocketTypes'
  BY <1>1, <1>3, <1>4, <1>5, <1>6 DEF SocketTypes
<1>8. \A d \in Conns : (client'[d] = "new") = (client[d] = "new")
  BY <1>1, <1>3
<1>9. OnePlace'
  <2>1. /\ \A p \in DOMAIN backlog : backlog[p] \in Conns
        /\ \A f \in FDs : fdTable[f] # NoConn => fdTable[f] \in Conns
    BY DEF SocketTypes
  <2> QED
    BY <1>1, <1>8, <2>1 DEF OnePlace
<1>10. ASSUME NEW d \in Conns, d \in Patient \ misled PROVE Calm(d)'
  <2>1. Calm(d)
    BY <1>10 DEF CalmClients
  <2>2. /\ got \in [Conns -> Nat] /\ sent \in [Conns -> Nat]
        /\ rx[d] \in Seq(Packets) /\ Len(rx[d]) \in Nat /\ Len(tx[d]) \in Nat
    BY <1>3 DEF SocketTypes
  <2>3. CASE d # c
    BY <1>1, <1>3, <1>5, <2>1, <2>2, <2>3 DEF Calm
  <2>4. CASE d = c
    <3>1. rx[c] = <<>>
      BY <1>1, <1>10, <2>1, <2>2, <2>4 DEF Calm, AtRest
    <3>2. c \notin resets'
      BY <1>1, <1>10, <2>1, <2>2, <2>4 DEF Calm, AtRest
    <3> QED
      BY <1>1, <1>5, <2>1, <2>2, <2>4, <3>1, <3>2 DEF Calm
  <2> QED
    BY <2>3, <2>4
<1>11. CalmClients'
  BY <1>1, <1>10 DEF CalmClients
<1>12. NothingOverlooked'
  <2>1. \A f \in FDs : fdTable[f] # NoConn /\ fdTable[f] # c
          => client'[fdTable[f]] = client[fdTable[f]]
    BY <1>1, <1>3 DEF SocketTypes
  <2> QED
    BY <1>1, <1>4, <2>1 DEF NothingOverlooked
<1>20. Registered'
  BY <1>1 DEF Registered
<1> QED
  BY <1>2, <1>7, <1>9, <1>11, <1>12, <1>20

(* There is a lowest free number if there is any. *)
LEMMA FreeNumber ==
  ASSUME FreeFDs # {}
  PROVE  LowestFree \in FDs /\ fdTable[LowestFree] = NoConn
<1>1. FreeFDs \in SUBSET Nat
  BY SocketsAssumption DEF FreeFDs
<1>2. \E n \in FreeFDs : \A m \in FreeFDs : n <= m
  BY <1>1, Least
<1> QED
  BY <1>2 DEF FreeFDs, LowestFree

(* The oldest connection that waits gets the lowest free number, which is  *)
(* yet to be registered.                                                   *)
LEMMA AcceptPart ==
  ASSUME SocketPart, backlog # <<>>, FreeFDs # {}, Accept,
         adding = {}, adding' = {LowestFree}, UNCHANGED <<clientVars, events, misled>>
  PROVE  SocketPart' /\ Traced \subseteq Traced'
<1> USE DEF SocketPart
<1>1. PICK c : c = Head(backlog)
  OBVIOUS
<1>2. PICK f \in FDs : f = LowestFree /\ fdTable[f] = NoConn
  BY FreeNumber
<1>3. /\ backlog' = Tail(backlog)
      /\ fdTable' = [fdTable EXCEPT ![f] = c]
      /\ UNCHANGED <<client, sent, got, cut, rx, tx, resets, watched, ready>>
  BY <1>1, <1>2 DEF Accept, clientVars
<1>4. /\ backlog \in Seq(Conns) /\ ready \in Seq(FDs)
      /\ fdTable \in [FDs -> Conns \cup {NoConn}]
      /\ client \in [Conns -> {"new", "open", "closed"}]
  BY DEF SocketTypes
<1>5. PICK n \in Nat : /\ n = Len(backlog) /\ 1 \in 1 .. n /\ DOMAIN backlog = 1 .. n
                       /\ Tail(backlog) \in Seq(Conns) /\ DOMAIN Tail(backlog) = 1 .. n - 1
                       /\ c = backlog[1] /\ c \in Conns
                       /\ \A k \in 1 .. n - 1 : Tail(backlog)[k] = backlog[k + 1]
  BY <1>1, <1>4, TailFcn
<1>6. /\ client[c] # "new" /\ \A g \in FDs : fdTable[g] # c
      /\ \A q \in 1 .. n : backlog[q] = c => q = 1
  BY <1>5 DEF OnePlace
<1>7. /\ fdTable'[f] = c /\ \A g \in FDs : g # f => fdTable'[g] = fdTable[g]
      /\ fdTable' \in [FDs -> Conns \cup {NoConn}]
  BY <1>3, <1>4, <1>5
<1>8. Traced \subseteq Traced' /\ \A d \in Conns : OwnReplies(d) = OwnReplies(d)'
  <2>1. \A g \in FDs : fdTable[g] # NoConn => fdTable'[g] = fdTable[g]
    BY <1>2, <1>7
  <2>2. cut \subseteq cut'
    BY <1>3
  <2> QED
    BY <1>3, <2>1, <2>2, TracedKept DEF OwnReplies
<1>9. Registered'
  BY <1>2, <1>3, <1>7 DEF Registered
<1>10. SocketTypes'
  BY <1>3, <1>5, <1>7, <1>8 DEF SocketTypes
<1>11. OnePlace'
  <2>1. ASSUME NEW p \in 1 .. n - 1
        PROVE  /\ client[backlog[p + 1]] # "new" /\ \A g \in FDs : fdTable'[g] # backlog[p + 1]
               /\ \A q \in 1 .. n - 1 : backlog[p + 1] = backlog[q + 1] => p = q
    <3>1. p + 1 \in 1 .. n /\ p + 1 # 1
      OBVIOUS
    <3>2. client[backlog[p + 1]] # "new" /\ \A g \in FDs : fdTable[g] # backlog[p + 1]
      BY <1>5, <3>1 DEF OnePlace
    <3>3. \A q \in 1 .. n - 1 : q + 1 \in 1 .. n /\ (p + 1 = q + 1 => p = q)
      OBVIOUS
    <3>4. \A q \in 1 .. n - 1 : backlog[p + 1] = backlog[q + 1] => p = q
      BY <1>5, <3>1, <3>3 DEF OnePlace
    <3> QED
      BY <1>6, <1>7, <3>1, <3>2, <3>4
  <2>2. ASSUME NEW p \in DOMAIN backlog'
        PROVE  /\ client'[backlog'[p]] # "new" /\ \A g \in FDs : fdTable'[g] # backlog'[p]
               /\ \A q \in DOMAIN backlog' : backlog'[p] = backlog'[q] => p = q
    BY <1>3, <1>5, <2>1
  <2>3. ASSUME NEW g \in FDs, fdTable'[g] # NoConn
        PROVE  /\ client'[fdTable'[g]] # "new"
               /\ \A h \in FDs : fdTable'[g] = fdTable'[h] => g = h
    BY <1>3, <1>6, <1>7, <2>3 DEF OnePlace
  <2> QED
    BY <2>2, <2>3 DEF OnePlace
<1>12. CalmClients'
  BY <1>3 DEF CalmClients, Calm
<1>13. NothingOverlooked'
  BY <1>2, <1>3, <1>7 DEF NothingOverlooked
<1> QED
  BY <1>8, <1>9, <1>10, <1>11, <1>12, <1>13

(* Once it is registered it is ready, if there is something on it already. *)
LEMMA WatchPart ==
  ASSUME SocketPart, NEW f \in FDs, Watch(f), adding = {f}, adding' = {},
         UNCHANGED <<clientVars, events, misled>>
  PROVE  SocketPart' /\ Traced \subseteq Traced'
<1> USE DEF SocketPart
<1>1. UNCHANGED <<client, sent, got, backlog, fdTable, cut, rx, tx, resets, misled>>
  BY DEF Watch, kernelVars, clientVars
<1>2. Traced \subseteq Traced' /\ \A d \in Conns : OwnReplies(d) = OwnReplies(d)'
  BY <1>1 DEF Traced, OwnReplies
<1>3. OnePlace' /\ CalmClients'
  BY <1>1 DEF OnePlace, CalmClients, Calm
<1>4. CASE fdTable[f] = NoConn
  <2>1. UNCHANGED <<watched, ready>>
    BY <1>4 DEF Watch, kernelVars
  <2>2. SocketTypes'
    BY <1>1, <1>2, <2>1 DEF SocketTypes
  <2>3. Registered'
    BY <1>1, <1>4, <2>1 DEF Registered
  <2>4. NothingOverlooked'
    BY <1>1, <1>4, <2>1, SocketsAssumption DEF NothingOverlooked
  <2> QED
    BY <1>2, <1>3, <2>2, <2>3, <2>4
<1>5. CASE fdTable[f] # NoConn
  <2>1. /\ watched' = watched \cup {f}
        /\ ready' = IF rx[fdTable[f]] = <<>> /\ client[fdTable[f]] = "open"
                    THEN ready ELSE Append(ready, f)
    BY <1>5 DEF Watch
  <2>2. /\ ready \in Seq(FDs)
        /\ Append(ready, f) \in Seq(FDs) /\ Range(Append(ready, f)) = Range(ready) \cup {f}
    BY RangeAppend DEF SocketTypes
  <2>3. ready' \in Seq(FDs) /\ Range(ready) \subseteq Range(ready')
    BY <2>1, <2>2
  <2>4. SocketTypes'
    BY <1>1, <1>2, <2>1, <2>3 DEF SocketTypes
  <2>5. Registered'
    BY <1>1, <2>1 DEF Registered
  <2>6. rx[fdTable[f]] # <<>> \/ client[fdTable[f]] = "closed" => f \in Range(ready')
    BY <2>1, <2>2
  <2>7. NothingOverlooked'
    BY <1>1, <2>3, <2>6 DEF NothingOverlooked
  <2> QED
    BY <1>2, <1>3, <2>4, <2>5, <2>7
<1> QED
  BY <1>4, <1>5

(* What epoll_wait takes off the ready list is what the thread reads next. *)
LEMMA WaitPart ==
  ASSUME SocketPart, events = <<>>, NEW n \in 0 .. Len(ready),
         events' = SubSeq(ready, 1, n), ready' = SubSeq(ready, n + 1, Len(ready)),
         UNCHANGED <<clientVars, backlog, fdTable, cut, rx, tx, resets, watched, adding, misled>>
  PROVE  SocketPart' /\ Traced \subseteq Traced'
<1> USE DEF SocketPart
<1>1. UNCHANGED <<client, sent, got, backlog, fdTable, cut, rx, tx, resets, watched, misled>>
  BY DEF clientVars
<1>2. Traced \subseteq Traced' /\ \A d \in Conns : OwnReplies(d) = OwnReplies(d)'
  BY <1>1 DEF Traced, OwnReplies
<1>3. /\ ready' \in Seq(FDs)
      /\ Range(ready) \subseteq Range(events') \cup Range(ready')
  BY RangeSplit DEF SocketTypes
<1>4. Range(events) = {}
  BY DEF Range
<1>5. SocketTypes'
  BY <1>1, <1>2, <1>3 DEF SocketTypes
<1>6. OnePlace' /\ CalmClients'
  BY <1>1 DEF OnePlace, CalmClients, Calm
<1>7. NothingOverlooked'
  BY <1>1, <1>3, <1>4 DEF NothingOverlooked
<1>20. Registered'
  BY <1>1 DEF Registered
<1> QED
  BY <1>2, <1>5, <1>6, <1>7, <1>20

(* One packet is read per event; a calm client has sent no second one.     *)
LEMMA PacketPart ==
  ASSUME SocketPart, events \in Seq(FDs), NEW f \in FDs, ReadPacket(f),
         UNCHANGED misled
  PROVE  SocketPart' /\ Traced \subseteq Traced'
<1> USE DEF SocketPart
<1>1. /\ events # <<>> /\ f = Head(events)
      /\ fdTable[f] # NoConn /\ rx[fdTable[f]] # <<>>
      /\ rx' = [rx EXCEPT ![fdTable[f]] = Tail(@)]
      /\ events' = Tail(events)
      /\ UNCHANGED <<client, sent, got, backlog, fdTable, cut, tx, resets, watched, ready, adding>>
  BY DEF ReadPacket, Reading, HasError, clientVars
<1>2. PICK c \in Conns : c = fdTable[f]
  BY <1>1 DEF SocketTypes
<1>3. Traced \subseteq Traced' /\ \A d \in Conns : OwnReplies(d) = OwnReplies(d)'
  BY <1>1 DEF Traced, OwnReplies
<1>4. rx \in [Conns -> Seq(Packets)]
  BY DEF SocketTypes
<1>5. /\ Tail(rx[c]) \in Seq(Packets) /\ Len(Tail(rx[c])) = Len(rx[c]) - 1
      /\ Len(rx[c]) \in Nat \ {0}
  BY <1>1, <1>2, <1>4, TailFcn
<1>6. /\ rx' \in [Conns -> Seq(Packets)] /\ rx'[c] = Tail(rx[c])
      /\ \A d \in Conns : d # c => rx'[d] = rx[d]
  BY <1>1, <1>2, <1>4, <1>5
<1>7. Range(events) = {f} \cup Range(events')
  BY <1>1, RangeTail
<1>8. SocketTypes'
  BY <1>1, <1>3, <1>6 DEF SocketTypes
<1>9. OnePlace'
  BY <1>1 DEF OnePlace
<1>10. ASSUME NEW d \in Conns, d \in Patient \ misled PROVE Calm(d)'
  <2>1. Calm(d)
    BY <1>10 DEF CalmClients
  <2>2. /\ got \in [Conns -> Nat] /\ sent \in [Conns -> Nat] /\ Len(rx[d]) \in Nat
        /\ Len(tx[d]) \in Nat
    <3>1. tx[d] \in Seq(OwnReplies(d))
      BY DEF SocketTypes
    <3> QED
      BY <1>4, <3>1 DEF SocketTypes
  <2>3. CASE d # c
    BY <1>1, <1>6, <2>1, <2>3 DEF Calm
  <2>4. CASE d = c
    BY <1>1, <1>2, <1>5, <1>6, <2>1, <2>2, <2>4 DEF Calm
  <2> QED
    BY <2>3, <2>4
<1>11. CalmClients'
  BY <1>1, <1>10 DEF CalmClients
<1>12. NothingOverlooked'
  <2>1. ASSUME c \in Patient \ misled
        PROVE  rx'[c] = <<>> /\ client[c] = "open"
    <3>1. Calm(c)
      BY <2>1 DEF CalmClients
    <3>2. Len(rx[c]) <= 1
      BY <3>1 DEF Calm
    <3>3. Tail(rx[c]) = <<>>
      BY <1>5, <3>2
    <3> QED
      BY <1>1, <1>2, <1>6, <3>1, <3>3 DEF Calm
  <2>2. \A g \in FDs : fdTable[g] # NoConn /\ g # f => fdTable[g] \in Conns /\ fdTable[g] # c
    BY <1>1, <1>2 DEF OnePlace, SocketTypes
  <2> QED
    BY <1>1, <1>2, <1>6, <1>7, <2>1, <2>2 DEF NothingOverlooked
<1>20. Registered'
  BY <1>1 DEF Registered
<1> QED
  BY <1>3, <1>8, <1>9, <1>11, <1>12, <1>20

(* A calm client's descriptor gives no error while there is something on   *)
(* it: there was nothing to read, then.                                    *)
LEMMA ErrorPart ==
  ASSUME SocketPart, events \in Seq(FDs), NEW f \in FDs, ReadError(f),
         UNCHANGED misled
  PROVE  SocketPart' /\ Traced \subseteq Traced'
<1> USE DEF SocketPart
<1>1. /\ events # <<>> /\ f = Head(events)
      /\ ~HasError(f) => rx[fdTable[f]] = <<>> /\ client[fdTable[f]] # "closed"
      /\ resets' = resets \ {fdTable[f]}
      /\ events' = Tail(events)
      /\ UNCHANGED <<client, sent, got, backlog, fdTable, cut, rx, tx, watched, ready, adding>>
  BY DEF ReadError, Reading, clientVars
<1>2. Traced \subseteq Traced' /\ \A d \in Conns : OwnReplies(d) = OwnReplies(d)'
  BY <1>1 DEF Traced, OwnReplies
<1>3. Range(events) = {f} \cup Range(events')
  BY <1>1, RangeTail
<1>4. SocketTypes'
  BY <1>1, <1>2 DEF SocketTypes
<1>5. OnePlace'
  BY <1>1 DEF OnePlace
<1>6. CalmClients'
  BY <1>1 DEF CalmClients, Calm
<1>7. NothingOverlooked'
  <2>1. ASSUME fdTable[f] \in Patient \ misled
        PROVE  ~HasError(f)
    <3>1. fdTable[f] \in Conns /\ fdTable[f] # NoConn
      BY <2>1, SocketsAssumption
    <3> QED
      BY <2>1, <3>1 DEF CalmClients, Calm, HasError
  <2> QED
    BY <1>1, <1>3, <2>1 DEF NothingOverlooked
<1>20. Registered'
  BY <1>1 DEF Registered
<1> QED
  BY <1>2, <1>4, <1>5, <1>6, <1>7, <1>20

(* Closing a descriptor, which events are left but those of others. *)
LEMMA ClosePart ==
  ASSUME SocketPart, NEW f \in FDs, Close(f), UNCHANGED <<clientVars, adding, misled>>,
         Range(events) \ {f} \subseteq Range(events'), fdTable[f] # NoConn
  PROVE  SocketPart' /\ Traced \subseteq Traced'
<1> USE DEF SocketPart
<1>1. /\ fdTable' = [fdTable EXCEPT ![f] = NoConn]
      /\ cut' = cut \cup {fdTable[f]}
      /\ rx' = [rx EXCEPT ![fdTable[f]] = <<>>]
      /\ resets' = resets \ {fdTable[f]}
      /\ watched' = watched \ {f}
      /\ ready' = RemoveFirst(ready, f)
      /\ UNCHANGED <<client, sent, got, backlog, tx>>
  BY DEF Close, clientVars
<1>2. PICK c \in Conns : c = fdTable[f]
  BY DEF SocketTypes
<1>3. /\ fdTable'[f] = NoConn /\ \A g \in FDs : g # f => fdTable'[g] = fdTable[g]
      /\ fdTable' \in [FDs -> Conns \cup {NoConn}]
  BY <1>1 DEF SocketTypes
<1>4. /\ rx'[c] = <<>> /\ \A d \in Conns : d # c => rx'[d] = rx[d]
      /\ rx' \in [Conns -> Seq(Packets)]
  <2>1. <<>> \in Seq(Packets) /\ rx \in [Conns -> Seq(Packets)]
    BY DEF SocketTypes
  <2> QED
    BY <1>1, <1>2, <2>1
<1>5. Traced \subseteq Traced' /\ \A d \in Conns : OwnReplies(d) \subseteq OwnReplies(d)'
  BY <1>1, <1>3, TracedKept
<1>6. ready' \in Seq(FDs) /\ Range(ready) \ {f} \subseteq Range(ready')
  BY <1>1, RangeRemove DEF SocketTypes
<1>7. DOMAIN tx' = Conns /\ \A d \in Conns : tx'[d] \in Seq(OwnReplies(d)')
  <2>1. \A d \in Conns : tx[d] \in Seq(OwnReplies(d)')
    BY <1>5, SeqWider DEF SocketTypes
  <2> QED
    BY <1>1, <2>1 DEF SocketTypes
<1>8. SocketTypes'
  BY <1>1, <1>2, <1>3, <1>4, <1>6, <1>7 DEF SocketTypes
<1>9. OnePlace'
  <2>1. /\ \A p \in DOMAIN backlog : backlog[p] \in Conns
        /\ NoConn \notin Conns
    BY SocketsAssumption DEF SocketTypes
  <2> QED
    BY <1>1, <1>3, <2>1 DEF OnePlace
<1>10. ASSUME NEW d \in Conns, d \in Patient \ misled PROVE Calm(d)'
  <2>1. Calm(d)
    BY <1>10 DEF CalmClients
  <2>2. /\ got \in [Conns -> Nat] /\ sent \in [Conns -> Nat] /\ Len(rx[d]) \in Nat
        /\ Len(tx[d]) \in Nat /\ Len(rx'[d]) \in Nat
    <3>1. tx[d] \in Seq(OwnReplies(d))
      BY DEF SocketTypes
    <3>2. rx[d] \in Seq(Packets) /\ rx'[d] \in Seq(Packets)
      BY <1>4 DEF SocketTypes
    <3>3. got \in [Conns -> Nat] /\ sent \in [Conns -> Nat]
      BY DEF SocketTypes
    <3> HIDE DEF SocketPart
    <3>4. Len(tx[d]) \in Nat
      BY <3>1
    <3>5. Len(rx[d]) \in Nat /\ Len(rx'[d]) \in Nat
      BY <3>2
    <3> QED
      BY <3>3, <3>4, <3>5
  <2>3. CASE d # c
    BY <1>1, <1>2, <1>4, <2>1, <2>3 DEF Calm
  <2>4. CASE d = c
    <3>1. Len(rx'[c]) = 0
      BY <1>4
    <3> QED
      BY <1>1, <1>2, <1>4, <2>1, <2>2, <2>4, <3>1 DEF Calm
  <2> QED
    BY <2>3, <2>4
<1>11. CalmClients'
  BY <1>1, <1>10 DEF CalmClients
<1>12. NothingOverlooked'
  <2>1. \A g \in FDs : fdTable[g] # NoConn /\ g # f => fdTable[g] \in Conns /\ fdTable[g] # c
    BY <1>2 DEF OnePlace, SocketTypes
  <2> QED
    BY <1>1, <1>3, <1>4, <1>6, <2>1, SocketsAssumption DEF NothingOverlooked
<1>20. Registered'
  BY <1>1, <1>3 DEF Registered
<1> QED
  BY <1>5, <1>8, <1>9, <1>11, <1>12, <1>20

(* A reply goes to the connection that has the descriptor now: the one the *)
(* request came from, or that one was closed.                              *)
LEMMA AnswerPart ==
  ASSUME SocketPart, NEW t \in Traced, NEW r \in ReplyRecord, r.to = t.from,
         Write(t.fd, r), UNCHANGED <<clientVars, events, adding>>,
         misled' = misled \cup
           {c \in Conns : /\ Writable(t.fd) /\ c = fdTable[t.fd]
                          /\ got[c] + Len(tx[c]) >= sent[c] - Len(rx[c])}
  PROVE  SocketPart' /\ Traced \subseteq Traced'
<1> USE DEF SocketPart
<1>1. /\ tx' = IF Writable(t.fd) THEN [tx EXCEPT ![fdTable[t.fd]] = Append(@, r)] ELSE tx
      /\ UNCHANGED <<client, sent, got, backlog, fdTable, cut, rx, resets, watched, ready>>
  BY DEF Write, clientVars
<1>2. Traced \subseteq Traced' /\ \A d \in Conns : OwnReplies(d) = OwnReplies(d)'
  BY <1>1 DEF Traced, OwnReplies
<1>3. DOMAIN tx = Conns /\ \A d \in Conns : tx[d] \in Seq(OwnReplies(d)) /\ Len(tx[d]) \in Nat
  BY DEF SocketTypes
<1>4. OnePlace' /\ misled \subseteq misled' /\ misled' \subseteq Conns
  BY <1>1 DEF OnePlace, SocketTypes
<1>5. NothingOverlooked' /\ Registered'
  BY <1>1, <1>4 DEF NothingOverlooked, Registered
<1>6. CASE ~Writable(t.fd)
  <2>1. tx' = tx
    BY <1>1, <1>6
  <2>2. SocketTypes'
    BY <1>1, <1>2, <1>4, <2>1 DEF SocketTypes
  <2>3. CalmClients'
    BY <1>1, <1>4, <2>1 DEF CalmClients, Calm
  <2> QED
    BY <1>2, <1>4, <1>5, <2>2, <2>3
<1>7. CASE Writable(t.fd)
  <2>1. PICK c \in Conns : c = fdTable[t.fd] /\ c # NoConn
    BY <1>7, SocketsAssumption DEF Writable, SocketTypes, Traced, TransferRecord
  <2>2. r \in OwnReplies(c)
    BY <2>1, SocketsAssumption DEF Traced, OwnReplies, ReplyRecord
  <2>3. /\ Append(tx[c], r) \in Seq(OwnReplies(c)) /\ Len(Append(tx[c], r)) = Len(tx[c]) + 1
    BY <1>3, <2>2, AppendFcn
  <2>4. /\ DOMAIN tx' = Conns /\ tx'[c] = Append(tx[c], r)
        /\ \A d \in Conns : d # c => tx'[d] = tx[d]
    BY <1>1, <1>3, <1>7, <2>1
  <2>5. \A d \in Conns : tx'[d] \in Seq(OwnReplies(d)')
    BY <1>2, <1>3, <2>3, <2>4
  <2>6. SocketTypes'
    BY <1>1, <1>4, <2>4, <2>5 DEF SocketTypes
  <2>7. ASSUME NEW d \in Conns, d \in Patient \ misled' PROVE Calm(d)'
    <3>1. Calm(d)
      BY <1>4, <2>7 DEF CalmClients
    <3>2. /\ got \in [Conns -> Nat] /\ sent \in [Conns -> Nat] /\ Len(rx[d]) \in Nat
          /\ Len(tx[d]) \in Nat
      BY <1>3 DEF SocketTypes
    <3>3. CASE d # c
      BY <1>1, <2>4, <3>1, <3>3 DEF Calm
    <3>4. CASE d = c
      <4>1. got[c] + Len(tx[c]) < sent[c] - Len(rx[c])
        BY <1>7, <2>1, <2>7, <3>2, <3>4
      <4>2. got[c] + Len(tx'[c]) + Len(rx[c]) <= sent[c]
        BY <2>3, <2>4, <3>2, <3>4, <4>1
      <4> QED
        BY <1>1, <3>1, <3>4, <4>2 DEF Calm
    <3> QED
      BY <3>3, <3>4
  <2>8. CalmClients'
    BY <1>1, <2>7 DEF CalmClients
  <2> QED
    BY <1>2, <1>4, <1>5, <2>6, <2>8
<1> QED
  BY <1>6, <1>7

(* Nothing happens on the sockets. *)
LEMMA NothingPart ==
  ASSUME SocketPart, UNCHANGED <<socketVars, events, adding, misled>>
  PROVE  SocketPart' /\ Traced \subseteq Traced'
<1>1. UNCHANGED <<client, sent, got, backlog, fdTable, cut, rx, tx, resets, watched, ready>>
  BY DEF socketVars, clientVars, kernelVars
<1>2. Traced \subseteq Traced' /\ \A d \in Conns : OwnReplies(d) = OwnReplies(d)'
  BY <1>1 DEF Traced, OwnReplies
<1>3. SocketTypes'
  BY <1>1, <1>2 DEF SocketPart, SocketTypes
<1>4. OnePlace' /\ Registered' /\ CalmClients' /\ NothingOverlooked'
  BY <1>1 DEF SocketPart, OnePlace, Registered, CalmClients, Calm, NothingOverlooked
<1> QED
  BY <1>2, <1>3, <1>4 DEF SocketPart

-----------------------------------------------------------------------------
(* What the threads hold. *)

(* Batches stay as they are while nothing that was traced gets lost. *)
LEMMA BatchKept ==
  ASSUME BatchTypes, Traced \subseteq Traced', UNCHANGED handlerVars
  PROVE  BatchTypes'
<1>1. UNCHANGED <<RunServer, net, Clients, adding, events, Messages, full, box>>
  BY DEF handlerVars, netVars, mailVars
<1>2. Messages \in Seq(Traced') /\ box \in Seq(Traced')
  BY SeqWider DEF BatchTypes
<1> QED
  BY <1>1, <1>2 DEF BatchTypes

(* So does what the worker holds. *)
LEMMA WorkerKept ==
  ASSUME WorkerTypes, Traced \subseteq Traced', UNCHANGED <<vars, loop, closing, transfers>>
  PROVE  WorkerTypes'
<1>1. UNCHANGED <<QueueMessages, nread>>
  BY DEF vars
<1>2. transfers \in Seq(Traced')
  BY SeqWider DEF WorkerTypes
<1>3. Popped' = Popped
  BY <1>1 DEF Popped
<1> QED
  BY <1>1, <1>2, <1>3 DEF WorkerTypes

(* Each step of the network thread on its own variables. *)
LEMMA BatchStep ==
  ASSUME SocketTypes, BatchTypes, Network, Traced \subseteq Traced'
  PROVE  BatchTypes'
<1>1. Messages \in Seq(Traced') /\ box \in Seq(Traced')
  BY SeqWider DEF BatchTypes
<1>2. /\ events \in Seq(FDs) /\ Len(events) \in Nat /\ Len(Messages) \in Nat
      /\ BatchMax \in Nat \ {0}
  BY ClientHandlerAssumption DEF BatchTypes
<1>3. CASE TestRunServer \/ AcceptNobody
  BY <1>1, <1>3 DEF TestRunServer, AcceptNobody, BatchTypes, mailVars
<1>4. CASE EpollWait
  <2>1. PICK n \in 0 .. Len(ready) :
          /\ n <= BatchMax
          /\ events' = SubSeq(ready, 1, n)
          /\ net' = IF n = 0 THEN "top" ELSE "read"
    <3>1. Len(ready) \in Nat
      BY DEF SocketTypes
    <3>2. PICK n : n = (IF Len(ready) > BatchMax THEN BatchMax ELSE Len(ready))
      OBVIOUS
    <3>3. n \in 0 .. Len(ready) /\ n <= BatchMax
      BY <1>2, <3>1, <3>2
    <3> QED
      BY <1>4, <3>2, <3>3 DEF EpollWait
  <2>2. events' \in Seq(FDs) /\ Len(events') = n
    BY <2>1, RangeSplit DEF SocketTypes
  <2>3. n = 0 => events' = <<>>
    BY <2>2
  <2>4. UNCHANGED <<RunServer, Clients, adding, Messages, full, box>> /\ net = "wait"
    BY <1>4 DEF EpollWait, mailVars
  <2>5. Messages = <<>> /\ Len(Messages) = 0
    BY <2>4 DEF BatchTypes
  <2> QED
    BY <1>1, <2>1, <2>2, <2>3, <2>4, <2>5 DEF BatchTypes
<1>5. ASSUME NEW t \in Traced', Messages' = <<t>> \o Messages,
             net = "read", events # <<>>, events' = Tail(events),
             UNCHANGED <<RunServer, net, Clients, adding, mailVars>>
      PROVE  BatchTypes'
  <2>1. Messages' \in Seq(Traced') /\ Len(Messages') = Len(Messages) + 1
    BY <1>1, <1>5, ConsFcn
  <2>2. events' \in Seq(FDs) /\ Len(events') = Len(events) - 1
    BY <1>2, <1>5, TailFcn
  <2>3. Len(Messages') + Len(events') <= BatchMax
    BY <1>2, <2>1, <2>2 DEF BatchTypes
  <2> QED
    BY <1>1, <1>5, <2>1, <2>2, <2>3 DEF BatchTypes, mailVars
<1>6. CASE \E f \in FDs : ReadPacket(f)
  <2>1. PICK f \in FDs : ReadPacket(f)
    BY <1>6
  <2>2. PICK c \in Conns : c = fdTable[f] /\ rx[c] # <<>>
    BY <2>1 DEF ReadPacket, HasError, SocketTypes
  <2>3. Head(rx[c]) \in Requests
    <3>1. rx[c] \in Seq(Packets)
      BY DEF SocketTypes
    <3> QED
      BY <2>2, <3>1, TailFcn, ServerAssumption
  <2>4. PICK t : t = [fd |-> f, from |-> c, req |-> Head(rx[c])]
    OBVIOUS
  <2>5. t \in Traced
    BY <2>2, <2>3, <2>4, SocketsAssumption DEF Traced, TransferRecord
  <2> QED
    BY <1>5, <2>1, <2>2, <2>4, <2>5 DEF ReadPacket, Reading, Insert
<1>7. CASE \E f \in FDs : ReadError(f)
  <2>1. PICK f \in FDs : ReadError(f)
    BY <1>7
  <2>2. PICK t : t = [fd |-> f, from |-> NoConn, req |-> Phantom]
    OBVIOUS
  <2>3. t \in Traced
    BY <2>2, ServerAssumption DEF Traced, TransferRecord
  <2> QED
    BY <1>5, <2>1, <2>2, <2>3 DEF ReadError, Reading, Insert
<1>8. CASE \E f \in FDs : ReadEnd(f)
  <2>1. /\ events # <<>> /\ events' = Tail(events) /\ net = "read"
        /\ UNCHANGED <<RunServer, net, Clients, adding, Messages, full, box>>
    BY <1>8 DEF ReadEnd, Reading, mailVars
  <2>2. events' \in Seq(FDs) /\ Len(events') = Len(events) - 1
    BY <1>2, <2>1, TailFcn
  <2>3. Len(Messages') + Len(events') <= BatchMax
    BY <1>2, <2>1, <2>2 DEF BatchTypes
  <2> QED
    BY <1>1, <2>1, <2>2, <2>3 DEF BatchTypes
<1>9. CASE TransferMessages
  <2>1. /\ events = <<>> /\ net = "read" /\ net' = "top" /\ Messages' = <<>> /\ full' = TRUE
        /\ box' = IF full THEN box ELSE Reverse(Messages)
        /\ UNCHANGED <<RunServer, Clients, adding, events>>
    BY <1>9 DEF TransferMessages
  <2>2. Reverse(Messages) \in Seq(Traced') /\ Len(Reverse(Messages)) = Len(Messages)
    BY <1>1, ReverseFcn
  <2>3. Len(Messages) <= BatchMax
    BY <1>2 DEF BatchTypes
  <2>4. box' \in Seq(Traced') /\ Len(box') <= BatchMax
    BY <1>1, <2>1, <2>2, <2>3 DEF BatchTypes
  <2>5. Len(Messages') + Len(events') <= BatchMax /\ Messages' \in Seq(Traced')
    BY <1>2, <2>1
  <2> QED
    BY <2>1, <2>4, <2>5, <1>2 DEF BatchTypes
<1>10. CASE AcceptClient
  <2>1. LowestFree \in FDs
    BY <1>10, FreeNumber DEF AcceptClient
  <2>2. /\ net' = "nonblock" /\ net = "poll"
        /\ adding' = {LowestFree} /\ Clients' = Clients \cup {LowestFree}
        /\ UNCHANGED <<RunServer, events, Messages, full, box>>
    BY <1>10 DEF AcceptClient, mailVars
  <2> QED
    BY <1>1, <2>1, <2>2 DEF BatchTypes
<1>11. CASE \E f \in FDs : MakeNonblocking(f) \/ AddToEpoll(f)
  BY <1>1, <1>11 DEF MakeNonblocking, AddToEpoll, BatchTypes, mailVars
<1> QED
  BY <1>3, <1>4, <1>6, <1>7, <1>8, <1>9, <1>10, <1>11 DEF Network

(* Each step of the clients and of the network thread on the sockets. *)
LEMMA ClientsPart ==
  ASSUME SocketPart, AnyClient, UNCHANGED <<events, adding, misled>>
  PROVE  SocketPart' /\ Traced \subseteq Traced'
<1>1. PICK c \in Conns :
        Connect(c) \/ (\E p \in Packets : Send(c, p)) \/ Receive(c) \/ HangUp(c)
  BY DEF AnyClient
<1> QED
  BY <1>1, ConnectPart, SendPart, ReceivePart, HangUpPart

LEMMA NetworkPart ==
  ASSUME SocketPart, BatchTypes, Network, UNCHANGED misled
  PROVE  SocketPart' /\ Traced \subseteq Traced'
<1>1. events \in Seq(FDs) /\ (net # "read" => events = <<>>)
  BY DEF BatchTypes
<1>2. CASE AcceptClient
  <2>1. /\ backlog # <<>> /\ FreeFDs # {} /\ Accept
        /\ adding = {} /\ adding' = {LowestFree} /\ UNCHANGED <<clientVars, events>>
    BY <1>2 DEF AcceptClient, BatchTypes
  <2> QED
    BY <2>1, AcceptPart
<1>3. CASE EpollWait
  <2>1. PICK n : n = (IF Len(ready) > BatchMax THEN BatchMax ELSE Len(ready))
    OBVIOUS
  <2>2. n \in 0 .. Len(ready)
    <3>1. Len(ready) \in Nat
      BY DEF SocketPart, SocketTypes
    <3> QED
      BY <2>1, <3>1, ClientHandlerAssumption
  <2>3. /\ events = <<>>
        /\ events' = SubSeq(ready, 1, n) /\ ready' = SubSeq(ready, n + 1, Len(ready))
        /\ UNCHANGED <<clientVars, backlog, fdTable, cut, rx, tx, resets, watched, adding>>
    BY <1>1, <1>3, <2>1 DEF EpollWait
  <2> QED
    BY <2>2, <2>3, WaitPart
<1>4. CASE \E f \in FDs : ReadPacket(f)
  BY <1>1, <1>4, PacketPart
<1>5. CASE \E f \in FDs : ReadError(f)
  BY <1>1, <1>5, ErrorPart
<1>6. CASE \E f \in FDs : ReadEnd(f)
  <2>1. PICK f \in FDs : ReadEnd(f)
    BY <1>6
  <2>2. /\ events # <<>> /\ f = Head(events) /\ events' = Tail(events)
        /\ fdTable[f] # NoConn /\ Close(f) /\ UNCHANGED <<clientVars, adding>>
    BY <2>1 DEF ReadEnd, Reading, HasError
  <2>3. Range(events) = {f} \cup Range(events')
    BY <1>1, <2>2, RangeTail
  <2> QED
    BY <2>2, <2>3, ClosePart
<1>7. CASE TestRunServer \/ AcceptNobody \/ TransferMessages
           \/ \E f \in FDs : MakeNonblocking(f)
  BY <1>7, NothingPart DEF TestRunServer, AcceptNobody, TransferMessages, MakeNonblocking
<1>8. CASE \E f \in FDs : AddToEpoll(f)
  <2>1. PICK f \in FDs : AddToEpoll(f)
    BY <1>8
  <2>2. /\ f \in adding /\ adding' = {} /\ Watch(f) /\ UNCHANGED <<clientVars, events>>
    BY <2>1 DEF AddToEpoll
  <2>3. adding = {f}
    BY <2>2 DEF BatchTypes
  <2> QED
    BY <2>2, <2>3, WatchPart
<1> QED
  BY <1>2, <1>3, <1>4, <1>5, <1>6, <1>7, <1>8 DEF Network

-----------------------------------------------------------------------------
(* The worker. *)

(* What is being dispatched, other than a failed read(), came from a       *)
(* connection.                                                             *)
LEMMA TransferTraced ==
  ASSUME IInv, WorkerTypes, Dispatching, Current.req.type # "other"
  PROVE  /\ Transfer \in Traced /\ Transfer.from \in Conns /\ Transfer.fd \in FDs
         /\ Reply \in ReplyRecord /\ Reply.to = Transfer.from
<1>1. /\ QueueMessages \in Seq(Popped) /\ transfers \in Seq(Traced) /\ Len(transfers) = nread
      /\ i \in Nat /\ MsgCount \in Nat /\ i < MsgCount /\ MsgCount <= Len(QueueMessages)
      /\ Len(QueueMessages) \in Nat
  BY HandlerAssumption DEF IInv, TypeOK, LoopInv, Dispatching, WorkerTypes
<1>2. i + 1 \in 1 .. Len(QueueMessages)
  BY <1>1
<1>3. Current \in Popped
  BY <1>1, <1>2 DEF Current
<1>4. Current.id \in 1 .. Len(transfers) /\ Current.req = Transfer.req /\ Current.id \in Nat
  BY <1>1, <1>3 DEF Popped, Transfer, Entry
<1>5. Transfer \in Traced
  BY <1>1, <1>4 DEF Transfer
<1>6. Transfer.from \in Conns /\ Transfer.fd \in FDs
  BY <1>4, <1>5, ServerAssumption DEF Traced, TransferRecord
<1> QED
  BY <1>4, <1>5, <1>6 DEF Reply, ReplyRecord

(* A step of a pass: the vector keeps messages that were popped. *)
LEMMA PassKept ==
  ASSUME IInv, WorkerTypes, Pass, Traced \subseteq Traced', UNCHANGED transfers,
         closing' \subseteq Traced', loop' \in {"top", "in", "pop", "go", "left"}
  PROVE  WorkerTypes'
<1>1. nread' = nread /\ Popped' = Popped
  <2>1. nread' = nread
    BY DEF Pass, DispatchMessage, StartPass, RejectType, RejectFull, IgnoreEmpty,
           StoreMessage, RetryGet, FailSend, Deliver, Finish, Retry, EndDispatch,
           EraseTurn, EndPass
  <2> QED
    BY <2>1 DEF Popped
<1>2. QueueMessages' = QueueMessages \/ EraseTurn
  BY DEF Pass, DispatchMessage, StartPass, RejectType, RejectFull, IgnoreEmpty,
         StoreMessage, RetryGet, FailSend, Deliver, Finish, Retry, EndDispatch, EndPass
<1>3. QueueMessages' \in Seq(Popped)
  <2>1. CASE EraseTurn
    <3>1. /\ QueueMessages' = EraseAt(QueueMessages, DeleteMessages[i + 1])
          /\ i \in Nat /\ i < Len(DeleteMessages) /\ work = "erase"
          /\ DeleteMessages \in Seq(0 .. PER_LOOP - 1)
      BY <2>1, HandlerAssumption DEF EraseTurn, IInv, TypeOK
    <3>2. Len(DeleteMessages) \in Nat /\ i + 1 \in 1 .. Len(DeleteMessages)
      BY <3>1
    <3>3. DeleteMessages[i + 1] \in Nat
      BY <3>1, <3>2, HandlerAssumption
    <3>4. QueueMessages \in Seq(Popped) /\ QueueMessages # <<>>
      <4>1. Len(QueueMessages) # 0
        BY <3>1, <3>2 DEF IInv, LoopInv, TypeOK
      <4> QED
        BY <4>1 DEF WorkerTypes
    <3> QED
      BY <3>1, <3>3, <3>4, EraseAtFcn
  <2> QED
    BY <1>2, <2>1 DEF WorkerTypes
<1>4. transfers' \in Seq(Traced')
  BY SeqWider DEF WorkerTypes
<1> QED
  BY <1>1, <1>3, <1>4 DEF WorkerTypes

(* Each step of the worker: on the sockets, on what the threads hold, and  *)
(* as a step of MessageHandler.                                            *)
LEMMA WorkerSteps ==
  ASSUME SocketPart, BatchTypes, WorkerTypes, IInv, Worker
  PROVE  /\ SocketPart' /\ BatchTypes' /\ WorkerTypes'
         /\ Pass \/ (\E r \in Requests : Arrive(r)) \/ UNCHANGED vars
<1>1. CASE LeaveWorkerLoop \/ EnterWorkerLoop \/ TestMailbox
  <2>1. /\ UNCHANGED <<socketVars, handlerVars, vars, closing, transfers, misled>>
        /\ loop' \in {"top", "in", "pop", "go", "left"}
    BY <1>1 DEF LeaveWorkerLoop, EnterWorkerLoop, TestMailbox
  <2>2. UNCHANGED <<events, adding>> /\ SocketPart' /\ Traced \subseteq Traced'
    BY <2>1, NothingPart DEF handlerVars, netVars
  <2>3. WorkerTypes'
    <3>1. UNCHANGED <<QueueMessages, nread>>
      BY <2>1 DEF vars
    <3>2. Popped' = Popped /\ transfers' \in Seq(Traced')
      BY <2>1, <2>2, <3>1, SeqWider DEF WorkerTypes, Popped
    <3> QED
      BY <2>1, <2>2, <3>1, <3>2 DEF WorkerTypes
  <2> QED
    BY <2>1, <2>2, <2>3, BatchKept
<1>2. CASE EmptyMailbox
  <2>1. /\ UNCHANGED <<socketVars, RunServer, net, Clients, adding, events, Messages, box>>
        /\ UNCHANGED <<vars, closing, transfers, misled>>
        /\ loop' = "go" /\ full' = FALSE
    BY <1>2 DEF EmptyMailbox, netVars
  <2>2. SocketPart' /\ Traced \subseteq Traced'
    BY <2>1, NothingPart
  <2>3. WorkerTypes'
    <3>1. UNCHANGED <<QueueMessages, nread>>
      BY <2>1 DEF vars
    <3>2. Popped' = Popped /\ transfers' \in Seq(Traced')
      BY <2>1, <2>2, <3>1, SeqWider DEF WorkerTypes, Popped
    <3> QED
      BY <2>1, <2>2, <3>1, <3>2 DEF WorkerTypes
  <2>4. BatchTypes'
    <3>1. Messages \in Seq(Traced') /\ box \in Seq(Traced')
      BY <2>2, SeqWider DEF BatchTypes
    <3> QED
      BY <2>1, <3>1 DEF BatchTypes
  <2> QED
    BY <2>1, <2>2, <2>3, <2>4
<1>3. CASE PopTransfer
  <2>1. /\ UNCHANGED <<socketVars, RunServer, net, Clients, adding, events, Messages, full>>
        /\ UNCHANGED <<loop, closing, misled>>
        /\ box # <<>> /\ box' = Tail(box)
        /\ transfers' = Append(transfers, Head(box))
        /\ Arrive(Head(box).req)
    BY <1>3 DEF PopTransfer, netVars
  <2>2. SocketPart' /\ Traced \subseteq Traced'
    BY <2>1, NothingPart
  <2>3. /\ Messages \in Seq(Traced') /\ box \in Seq(Traced') /\ Len(box) <= BatchMax
        /\ transfers \in Seq(Traced') /\ closing \subseteq Traced'
    BY <2>2, SeqWider DEF BatchTypes, WorkerTypes
  <2>4. PICK t \in Traced' : t = Head(box)
    BY <2>1, <2>3, TailFcn
  <2>5. t.req \in Requests
    BY <2>4 DEF Traced, TransferRecord
  <2>6. Tail(box) \in Seq(Traced') /\ Len(Tail(box)) = Len(box) - 1 /\ Len(box) \in Nat
    BY <2>1, <2>3, TailFcn
  <2>7. BatchTypes'
    BY <2>1, <2>3, <2>6, ClientHandlerAssumption DEF BatchTypes
  <2>8. WorkerTypes'
    <3>1. PICK n \in Nat : n = Len(transfers) /\ n = nread
      BY DEF WorkerTypes, IInv, TypeOK
    <3>2. /\ nread' = n + 1
          /\ QueueMessages' = Append(QueueMessages, [id |-> n + 1, req |-> t.req])
      BY <2>1, <2>4, <3>1 DEF Arrive
    <3>3. /\ transfers' \in Seq(Traced') /\ Len(transfers') = n + 1
          /\ transfers'[n + 1] = t /\ \A k \in 1 .. n : transfers'[k] = transfers[k]
      <4>1. transfers \in Seq(Traced') /\ t \in Traced' /\ transfers' = Append(transfers, t)
        BY <2>1, <2>3, <2>4
      <4>2. /\ Append(transfers, t) \in Seq(Traced')
            /\ Len(Append(transfers, t)) = Len(transfers) + 1
            /\ Append(transfers, t)[Len(transfers) + 1] = t
            /\ \A k \in 1 .. Len(transfers) : Append(transfers, t)[k] = transfers[k]
        BY <4>1, AppendFcn
      <4> QED
        BY <3>1, <4>1, <4>2
    <3>4. ASSUME NEW e \in Popped PROVE e \in Popped'
      <4>1. e \in Entry /\ e.id \in 1 .. n /\ e.req = transfers[e.id].req
        BY <3>1, <3>4 DEF Popped
      <4>2. e.id \in 1 .. n + 1
        BY <4>1, <3>1
      <4> QED
        BY <3>2, <3>3, <4>1, <4>2 DEF Popped
    <3>5. [id |-> n + 1, req |-> t.req] \in Popped'
      <4>1. n + 1 \in 1 .. n + 1 /\ n + 1 \in Nat
        BY <3>1
      <4> QED
        BY <2>5, <3>2, <3>3, <4>1 DEF Popped, Entry
    <3>6. QueueMessages \in Seq(Popped')
      BY <3>4, SeqWider DEF WorkerTypes
    <3>7. QueueMessages' \in Seq(Popped')
      BY <3>2, <3>5, <3>6, AppendFcn
    <3> QED
      BY <2>1, <2>3, <3>2, <3>3, <3>7 DEF WorkerTypes
  <2> QED
    BY <2>1, <2>2, <2>4, <2>5, <2>7, <2>8
<1>4. ASSUME Pass, UNCHANGED <<socketVars, handlerVars, closing, transfers, misled>>,
             loop' \in {"top", "in", "pop", "go", "left"}
      PROVE  SocketPart' /\ BatchTypes' /\ WorkerTypes'
  <2>1. UNCHANGED <<events, adding>> /\ SocketPart' /\ Traced \subseteq Traced'
    BY <1>4, NothingPart DEF handlerVars, netVars
  <2>2. closing' \subseteq Traced'
    BY <1>4, <2>1 DEF WorkerTypes
  <2> QED
    BY <1>4, <2>1, <2>2, BatchKept, PassKept
<1>5. CASE BeginPass
  BY <1>4, <1>5 DEF BeginPass, Pass
<1>6. CASE AnswerNothing \/ GiveUpGet \/ FinishPass
  <2>1. UNCHANGED <<socketVars, handlerVars, loop, closing, transfers, misled>>
    BY <1>6 DEF AnswerNothing, GiveUpGet, FinishPass, workerVars
  <2>2. loop' \in {"top", "in", "pop", "go", "left"}
    BY <2>1 DEF WorkerTypes
  <2>3. Pass
    BY <1>6 DEF AnswerNothing, GiveUpGet, FinishPass, Pass, DispatchMessage
  <2> QED
    BY <1>4, <2>1, <2>2, <2>3
<1>7. CASE AnswerSet \/ AnswerGet
  <2>1. /\ Dispatching /\ Current.req.type # "other" /\ Pass /\ Answer
        /\ UNCHANGED <<clientVars, handlerVars, loop, transfers>>
        /\ closing' = closing \/ closing' = {Transfer}
    BY <1>7 DEF AnswerSet, AnswerGet, RejectFull, StoreMessage, Deliver, Pass, DispatchMessage
  <2>2. /\ Transfer \in Traced /\ Reply \in ReplyRecord /\ Reply.to = Transfer.from
    BY <2>1, TransferTraced
  <2>3. UNCHANGED <<events, adding>>
    BY <2>1 DEF handlerVars, netVars
  <2>4. SocketPart' /\ Traced \subseteq Traced'
    BY <2>1, <2>2, <2>3, AnswerPart DEF Answer
  <2>5. closing' \subseteq Traced' /\ loop' \in {"top", "in", "pop", "go", "left"}
    BY <2>1, <2>2, <2>4 DEF WorkerTypes
  <2> QED
    BY <2>1, <2>4, <2>5, BatchKept, PassKept
<1>8. CASE CloseAnswered
  <2>1. PICK t \in closing : Close(t.fd)
    BY <1>8 DEF CloseAnswered
  <2>2. /\ UNCHANGED <<clientVars, handlerVars, vars, loop, transfers, misled>>
        /\ closing' = {}
    BY <1>8 DEF CloseAnswered
  <2>3. UNCHANGED <<events, adding>> /\ t.fd \in FDs
    BY <2>1, <2>2 DEF handlerVars, netVars, WorkerTypes, Traced, TransferRecord
  <2>4. SocketPart' /\ Traced \subseteq Traced'
    <3>1. CASE fdTable[t.fd] = NoConn
      BY <2>1, <2>2, <2>3, <3>1, NothingPart DEF Close, socketVars
    <3>2. CASE fdTable[t.fd] # NoConn
      BY <2>1, <2>2, <2>3, <3>2, ClosePart
    <3> QED
      BY <3>1, <3>2
  <2>5. WorkerTypes'
    <3>1. UNCHANGED <<QueueMessages, nread>>
      BY <2>2 DEF vars
    <3>2. Popped' = Popped /\ transfers' \in Seq(Traced')
      BY <2>2, <2>4, <3>1, SeqWider DEF WorkerTypes, Popped
    <3> QED
      BY <2>2, <3>1, <3>2 DEF WorkerTypes
  <2> QED
    BY <2>2, <2>4, <2>5, BatchKept
<1>9. BeginPass \/ AnswerNothing \/ GiveUpGet \/ FinishPass \/ AnswerSet \/ AnswerGet => Pass
  BY DEF BeginPass, AnswerNothing, GiveUpGet, FinishPass, AnswerSet, AnswerGet, Pass,
         DispatchMessage
<1> QED
  BY <1>1, <1>2, <1>3, <1>5, <1>6, <1>7, <1>8, <1>9 DEF Worker

(* Every step of the server keeps the invariant, and is a step of          *)
(* MessageHandler or leaves its variables alone.                           *)
LEMMA ServerStep ==
  ASSUME NetInv, IInv, [ServerNext]_allVars
  PROVE  NetInv' /\ [Next]_vars
<1> USE DEF NetInv, ServerInv
<1>1. SocketPart
  BY DEF SocketPart
<1>2. CASE AnyClient /\ UNCHANGED <<handlerVars, vars, workerVars>>
  <2>1. UNCHANGED <<events, adding, misled, loop, closing, transfers>>
    BY <1>2 DEF handlerVars, netVars, workerVars
  <2>2. SocketPart' /\ Traced \subseteq Traced'
    BY <1>1, <1>2, <2>1, ClientsPart
  <2> QED
    BY <1>2, <2>1, <2>2, BatchKept, WorkerKept DEF SocketPart
<1>3. CASE NetworkStep
  <2>1. UNCHANGED <<vars, misled, loop, closing, transfers>> /\ Network
    BY <1>3 DEF NetworkStep, workerVars
  <2>2. SocketPart' /\ Traced \subseteq Traced'
    BY <1>1, <2>1, NetworkPart
  <2> QED
    BY <2>1, <2>2, BatchStep, WorkerKept DEF SocketPart
<1>4. CASE Alive /\ Terminate /\ UNCHANGED <<vars, workerVars>>
  <2>1. /\ UNCHANGED <<vars, misled, loop, closing, transfers, socketVars>>
        /\ UNCHANGED <<net, Clients, adding, events, Messages, full, box>> /\ RunServer' = FALSE
    BY <1>4 DEF Terminate, workerVars, netVars, mailVars
  <2>2. SocketPart' /\ Traced \subseteq Traced'
    BY <1>1, <2>1, NothingPart
  <2>3. BatchTypes'
    <3>1. Messages \in Seq(Traced') /\ box \in Seq(Traced')
      BY <2>2, SeqWider DEF BatchTypes
    <3> QED
      BY <2>1, <3>1 DEF BatchTypes
  <2> QED
    BY <2>1, <2>2, <2>3, WorkerKept DEF SocketPart
<1>5. CASE WorkerStep
  BY <1>1, <1>5, WorkerSteps DEF WorkerStep, SocketPart, Next
<1>6. CASE UNCHANGED allVars
  <2>1. UNCHANGED <<socketVars, handlerVars, vars, misled, loop, closing, transfers>>
    BY <1>6 DEF allVars, workerVars
  <2>2. UNCHANGED <<events, adding>> /\ SocketPart' /\ Traced \subseteq Traced'
    BY <1>1, <2>1, NothingPart DEF handlerVars, netVars
  <2> QED
    BY <2>1, <2>2, BatchKept, WorkerKept DEF SocketPart
<1> QED
  BY <1>2, <1>3, <1>4, <1>5, <1>6 DEF ServerNext

(* The initial states. *)
LEMMA ServerStart == ServerInit => NetInv /\ IInv
<1> SUFFICES ASSUME ServerInit PROVE NetInv /\ IInv
  OBVIOUS
<1>1. IInv
  BY InitInv DEF ServerInit
<1>2. SocketsInit /\ ClientHandlerInit /\ Init
  BY DEF ServerInit
<1>3. \A S : <<>> \in Seq(S) /\ Len(<<>>) = 0
  OBVIOUS
<1>4. SocketTypes
  BY <1>2, <1>3 DEF SocketsInit, SocketTypes, ServerInit
<1>5. BatchTypes
  <2>1. /\ RunServer = TRUE /\ net = "top" /\ full = FALSE /\ Clients = {} /\ adding = {}
        /\ events = <<>> /\ Messages = <<>> /\ box = <<>>
    BY <1>2 DEF ClientHandlerInit
  <2>2. Len(events) = 0 /\ Len(Messages) = 0 /\ Len(box) = 0
    BY <1>3, <2>1
  <2>3. Len(Messages) + Len(events) <= BatchMax /\ Len(box) <= BatchMax
    BY <2>2, ClientHandlerAssumption
  <2> QED
    BY <1>3, <2>1, <2>3 DEF BatchTypes
<1>6. WorkerTypes
  BY <1>2, <1>3 DEF ServerInit, Init, WorkerTypes
<1>7. OnePlace /\ Registered /\ NothingOverlooked
  BY <1>2, SocketsAssumption DEF SocketsInit, OnePlace, Registered, NothingOverlooked
<1>8. CalmClients
  BY <1>2, <1>3 DEF SocketsInit, CalmClients, Calm
<1> QED
  BY <1>1, <1>4, <1>5, <1>6, <1>7, <1>8 DEF NetInv, ServerInv

(* The invariant: where connections, batches and what the worker has       *)
(* popped come from, and that what is true of the worker by itself holds   *)
(* in the server.                                                          *)
THEOREM ServerInvariance == ServerSpec => [](NetInv /\ IInv)
<1>1. NetInv /\ IInv /\ [ServerNext]_allVars => NetInv' /\ IInv'
  <2> SUFFICES ASSUME NetInv, IInv, [ServerNext]_allVars PROVE NetInv' /\ IInv'
    OBVIOUS
  <2>1. NetInv' /\ [Next]_vars
    BY ServerStep
  <2>2. IInv'
    BY <2>1, TypeStep, BoundStep, OrderStep, ConserveStep DEF IInv
  <2> QED
    BY <2>1, <2>2
<1> QED
  BY <1>1, ServerStart, PTL DEF ServerSpec

(* Every variable of the server keeps its type, and no batch, read or      *)
(* posted, is longer than what one epoll_wait reports.                     *)
THEOREM ServerTypes == ServerSpec => []ServerTypeOK
<1>1. NetInv /\ IInv => ServerTypeOK
  <2> SUFFICES ASSUME NetInv, IInv PROVE ServerTypeOK
    OBVIOUS
  <2>1. SocketTypes /\ BatchTypes /\ WorkerTypes /\ TypeOK
    BY DEF NetInv, ServerInv, IInv
  <2>2. Traced \subseteq TransferRecord
    BY DEF Traced
  <2>3. /\ Messages \in Seq(TransferRecord) /\ box \in Seq(TransferRecord)
        /\ transfers \in Seq(TransferRecord)
    BY <2>1, <2>2, SeqWider DEF BatchTypes, WorkerTypes
  <2>4. Len(events) <= BatchMax
    <3>1. Len(events) \in Nat /\ Len(Messages) \in Nat /\ BatchMax \in Nat
      BY <2>1, ClientHandlerAssumption DEF BatchTypes
    <3> QED
      BY <2>1, <3>1 DEF BatchTypes
  <2> QED
    BY <2>1, <2>2, <2>3, <2>4 DEF ServerTypeOK, SocketTypes, BatchTypes, WorkerTypes
<1> QED
  BY <1>1, ServerInvariance, PTL

(* A reply goes to somebody else only when the connection of its request   *)
(* was closed by the server before it was written.                         *)
THEOREM NoOtherReason == ServerSpec => []AstrayOnlyAfterCut
<1>1. NetInv => AstrayOnlyAfterCut
  <2> SUFFICES ASSUME NetInv, NEW c \in Conns, NEW k \in DOMAIN tx[c]
               PROVE  tx[c][k].to = c \/ tx[c][k].to \in cut
    BY DEF AstrayOnlyAfterCut
  <2>1. tx[c] \in Seq(OwnReplies(c))
    BY DEF NetInv, ServerInv, SocketTypes
  <2>2. tx[c][k] \in OwnReplies(c)
    BY <2>1
  <2> QED
    BY <2>2 DEF OwnReplies
<1> QED
  BY <1>1, ServerInvariance, PTL

(* A patient client's packet is never overlooked, although events are      *)
(* edge-triggered and each brings one read(), unless that client was given *)
(* a reply too many.                                                       *)
THEOREM EveryPacketRead == ServerSpec => []NothingOverlooked
<1>1. NetInv => NothingOverlooked
  BY DEF NetInv
<1> QED
  BY <1>1, ServerInvariance, PTL

(* The worker thread in the server does what MessageHandler does. *)
THEOREM WorkerIsHandler == ServerSpec => Init /\ [][Next]_vars
<1>1. NetInv /\ IInv /\ [ServerNext]_allVars => [Next]_vars
  BY ServerStep
<1>2. ServerInit => Init
  BY DEF ServerInit
<1> QED
  BY <1>1, <1>2, ServerInvariance, PTL DEF ServerSpec

(* So no message the server has acknowledged is lost or handed out twice,  *)
(* whatever happens to descriptors and replies.                            *)
THEOREM ServerLosesNothing == ServerSpec => []StoredOrDelivered
<1>1. IInv => StoredOrDelivered
  BY DEF IInv
<1> QED
  BY <1>1, ServerInvariance, PTL

(* SETs are stored in the order in which they were read, however many      *)
(* connections they came on, and although batches of them are dropped.     *)
THEOREM ServerKeepsOrder == ServerSpec => []StoredInArrivalOrder
<1>1. /\ NetInv /\ IInv /\ OrderInv /\ StoredInArrivalOrder /\ [ServerNext]_allVars
           => OrderInv' /\ StoredInArrivalOrder'
  BY ServerStep, OrderStepInv
<1>2. ServerInit => OrderInv /\ StoredInArrivalOrder
  BY OrderStart DEF ServerInit
<1> QED
  BY <1>1, <1>2, ServerInvariance, PTL DEF ServerSpec

(* And, seen through its sessions, the whole server is a store from which  *)
(* nothing is ever taken but everything a session has.                     *)
THEOREM ServerKeepsStore == ServerSpec => ImplementsStore
<1>1. NetInv /\ IInv /\ [ServerNext]_allVars => [Store!Next]_(Store!vars)
  BY ServerStep, KeepsStore
<1>2. ServerInit => Store!Init
  BY StoreInit DEF ServerInit
<1> QED
  BY <1>1, <1>2, ServerInvariance, PTL DEF ServerSpec, ImplementsStore, Store!Spec

(* The server refuses every SET from the moment on when the container is   *)
(* full, and never has more sessions than it may.                          *)
THEOREM ServerBounded == ServerSpec => []SessionsBounded /\ FullForEver
<1>1. IInv => SessionsBounded
  BY DEF IInv
<1>2. NetInv /\ IInv /\ [ServerNext]_allVars => [Full => Full' /\ clock' = clock]_vars
  BY ServerStep, StaysFull
<1> QED
  BY <1>1, <1>2, ServerInvariance, PTL DEF ServerSpec, FullForEver

(* Nor does a write() to whatever connection free a session whose reply    *)
(* has outgrown a packet.                                                  *)
THEOREM ServerOutOfReach == ServerSpec => TooLargeForEver
<1>1. NetInv /\ IInv /\ [ServerNext]_allVars =>
        [\A s \in DOMAIN SessionData :
           TooLarge(s) => /\ TooLarge(s)'
                          /\ Range(SessionData[s]) \subseteq Range(SessionData'[s])
                          /\ delivered' \cap Range(SessionData[s]) = {}]_vars
  BY ServerStep, OutOfReachStep
<1> QED
  BY <1>1, ServerInvariance, PTL DEF ServerSpec, TooLargeForEver

(* The server dies in erase() only when one pass was done with two or more *)
(* messages, and the first erasure of each pass is the right one.          *)
THEOREM ServerSurvivesOne ==
  ServerSpec => [](work = "dead" => Len(DeleteMessages) >= 2) /\ [][FirstErased]_vars
<1>1. NetInv /\ IInv /\ Noted /\ [ServerNext]_allVars => Noted' /\ [FirstErased]_vars
  BY ServerStep, NotedStep, FirstStep
<1>2. ServerInit => Noted
  BY NotedStart DEF ServerInit
<1>3. Noted => (work = "dead" => Len(DeleteMessages) >= 2)
  BY DEF Noted
<1> QED
  BY <1>1, <1>2, <1>3, ServerInvariance, PTL DEF ServerSpec

(* Whatever clients and network thread do, no step takes the worker away   *)
(* from the end of its pass.                                               *)
THEOREM ServerPassesEnd ==
  ServerSpec => [](PassLeft \in 0 .. 2 * PER_LOOP + 2) /\ [][Shortened]_vars
<1>1. NetInv /\ IInv /\ [ServerNext]_allVars => [Shortened]_vars
  BY ServerStep, PassStep
<1> QED
  BY <1>1, PassBound, ServerInvariance, PTL DEF ServerSpec
=============================================================================
