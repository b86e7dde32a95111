--------------------------- MODULE ModMsg_proofs ---------------------------
(***************************************************************************)
(* Proofs about ModMsg, for every number of threads, requests, descriptors *)
(* and disturbances: a request that shares its connection with no other    *)
(* one is sent once, and its thread waits for an answer only after that;   *)
(* types; descriptors are lost by reconnecting only; a thread whose retry  *)
(* loop is beyond help stays in it; and the reply that is shown is one's   *)
(* own.                                                                    *)
(***************************************************************************)
EXTENDS ModMsg, FiniteSetTheorems, WellFoundedInduction, TLAPS

Waits == {"call", "read", "keep", "respond"}
Types ==
  /\ {ConnStatus, SendStatus} \subseteq [Objects -> BOOLEAN]
  /\ written \in [Requests -> Nat]
  /\ process \in Processes
  /\ last \in Requests \cup {NoRequest}
  /\ pc \in [Threads -> {"idle", "write", "note", "check", "test", "connect"} \cup Waits]
  /\ req \in [Threads -> Requests \cup {NoRequest}]
  /\ kind \in [Threads -> {"none", "GET", "SET"}]
  /\ rc \in [Threads -> {"none", "ok", "reply", "end", "error"}]
  /\ crossed \subseteq Requests

(* How often the request of t was written, by the place t is at. *)
Placed(t) ==
  /\ pc[t] \in {"write", "test", "connect"} => written[req[t]] = 0
  /\ pc[t] = "note" => \/ rc[t] = "ok" /\ written[req[t]] = 1
                       \/ rc[t] = "error" /\ written[req[t]] = 0
  /\ pc[t] = "check" => \/ SendStatus[Obj(t)] /\ ConnStatus[Obj(t)] /\ written[req[t]] = 1
                        \/ ~SendStatus[Obj(t)] /\ written[req[t]] = 0
  /\ pc[t] \in Waits => written[req[t]] = 1

(* A thread that is not idle has a request of its own, and two SETs under  *)
(* way are crossed.                                                        *)
Own(t) ==
  /\ pc[t] # "idle" => req[t] \in 1 .. last /\ kind[t] \in {"GET", "SET"}
  /\ pc[t] = "idle" => kind[t] = "none"
Apart(t, u) ==
  /\ pc[t] # "idle" /\ pc[u] # "idle" => req[t] # req[u]
  /\ kind[t] = "SET" /\ kind[u] = "SET" => req[t] \in crossed

IInv ==
  /\ Types
  /\ \A n \in Requests : n > last => written[n] = 0
  /\ \A n \in Requests \ crossed : written[n] <= 1
  /\ \A t \in pool : Own(t)
  /\ \A t \in pool : \A u \in pool \ {t} : Apart(t, u)
  /\ \A t \in pool : pc[t] # "idle" /\ req[t] \notin crossed => Placed(t)

(* What the constants are. *)
LEMMA Constants ==
  /\ Requests \subseteq Nat \ {0} /\ NoRequest = 0
  /\ \A n \in Requests : 1 .. n \subseteq Requests
  /\ \A p \in Processes : p.threads \subseteq Threads /\ DOMAIN p.types \subseteq Requests
  /\ Objects = Threads \cup {ConnSetObj} /\ ConnSetObj \notin Threads
<1>1. PICK k \in Nat : Requests = 1 .. k
  BY ModMsgAssumption, FS_CardinalityType
<1>2. \A p \in Processes : p.threads \subseteq Threads /\ DOMAIN p.types \subseteq Requests
  BY ModMsgAssumption
<1>3. Requests \subseteq Nat \ {0} /\ \A n \in Requests : 1 .. n \subseteq Requests
  BY <1>1
<1> QED
  BY <1>2, <1>3, ModMsgAssumption

(* Threads share an object only if both have a SET. *)
LEMMA ObjApart ==
  ASSUME IInv, NEW t \in pool, NEW u \in pool, t # u,
         pc[t] # "idle", pc[u] # "idle", Obj(t) = Obj(u)
  PROVE  req[u] \in crossed
<1>1. t \in Threads /\ u \in Threads
  BY Constants DEF IInv, Types, pool
<1>2. kind[t] = "SET" /\ kind[u] = "SET"
  BY <1>1, Constants DEF Obj
<1> QED
  BY <1>2 DEF IInv, Apart

(* A step within a request, which changes the locals of its thread, its    *)
(* object, and how often its request was written: only its own place is    *)
(* to be shown.                                                            *)
LEMMA Within ==
  ASSUME IInv, Types', NEW t \in pool,
         UNCHANGED <<process, last, req, kind, crossed>>,
         pc[t] # "idle", pc'[t] # "idle",
         \A u \in Threads \ {t} : pc'[u] = pc[u] /\ rc'[u] = rc[u],
         \A o \in Objects \ {Obj(t)} : ConnStatus'[o] = ConnStatus[o] /\ SendStatus'[o] = SendStatus[o],
         \A n \in Requests \ {req[t]} : written'[n] = written[n],
         req[t] \notin crossed => Placed(t)'
  PROVE  IInv'
<1>1. pool' = pool /\ pool \subseteq Threads
  BY Constants DEF IInv, Types, pool
<1>2. \A u \in pool : pc'[u] = "idle" <=> pc[u] = "idle"
  BY <1>1
<1>3. \A u \in pool : Own(u)'
  BY <1>1, <1>2 DEF IInv, Own
<1>4. \A u \in pool : \A v \in pool \ {u} : Apart(u, v)'
  BY <1>1, <1>2 DEF IInv, Apart
<1>5. ASSUME NEW u \in pool, pc'[u] # "idle", req[u] \notin crossed PROVE Placed(u)'
  <2>1. CASE u = t
    BY <1>5, <2>1
  <2>2. CASE u # t
    <3>1. pc'[u] = pc[u] /\ rc'[u] = rc[u] /\ Obj(u)' = Obj(u)
      BY <1>1, <2>2 DEF Obj
    <3>2. req[u] # req[t] /\ req[u] \in Requests
      <4>1. Apart(u, t) /\ Own(u)
        BY <2>2 DEF IInv
      <4>2. pc[u] # "idle" /\ req[u] \in 1 .. last
        BY <1>5, <1>2, <4>1 DEF Own
      <4>3. last \in Requests
        BY <4>2, Constants DEF IInv, Types
      <4> QED
        BY <4>1, <4>2, <4>3, Constants DEF Apart
    <3>3. Obj(u) # Obj(t) /\ Obj(u) \in Objects
      BY <1>1, <1>2, <1>5, <2>2, ObjApart, Constants DEF Obj
    <3>4. Placed(u)
      BY <1>2, <1>5 DEF IInv
    <3> QED
      BY <3>1, <3>2, <3>3, <3>4 DEF Placed
  <2> QED
    BY <2>1, <2>2
<1>6. req[t] \in Requests /\ last \in Requests /\ req[t] <= last
  <2>1. Own(t)
    BY DEF IInv
  <2>2. req[t] \in 1 .. last
    BY <2>1 DEF Own
  <2>3. last \in Requests
    BY <2>2, Constants DEF IInv, Types
  <2> QED
    BY <2>2, <2>3, Constants
<1>7. \A n \in Requests : n > last => written'[n] = 0
  BY <1>6, Constants DEF IInv
<1>8. \A n \in Requests \ crossed : written'[n] <= 1
  <2>1. req[t] \notin crossed => written'[req[t]] <= 1
    <3>1. pc'[t] \in {"write", "note", "check", "test", "connect"} \cup Waits
      BY <1>1 DEF Types
    <3> QED
      BY <3>1 DEF Placed, Waits
  <2> QED
    BY <2>1 DEF IInv
<1> QED
  BY <1>1, <1>3, <1>4, <1>5, <1>7, <1>8 DEF IInv

LEMMA InitInv == ASSUME Init PROVE IInv
<1>1. Types
  <2>1. {ConnStatus, SendStatus} \subseteq [Objects -> BOOLEAN]
    BY DEF Init
  <2>2. written \in [Requests -> Nat]
    BY DEF Init
  <2>3. pc \in [Threads -> {"idle"}] /\ req \in [Threads -> {NoRequest}]
        /\ kind \in [Threads -> {"none"}] /\ rc \in [Threads -> {"none"}]
    BY DEF Init
  <2>4. process \in Processes /\ last = NoRequest /\ crossed = {}
    BY Constants DEF Init
  <2> QED
    BY <2>1, <2>2, <2>3, <2>4 DEF Types
<1>2. pool \subseteq Threads
  BY Constants DEF Init, pool
<1>3. \A t \in pool : pc[t] = "idle" /\ kind[t] = "none"
  BY <1>2 DEF Init
<1>4. \A n \in Requests : written[n] = 0
  BY DEF Init
<1> QED
  BY <1>1, <1>3, <1>4 DEF IInv, Own, Apart

(* A request comes in. *)
LEMMA BeginStep ==
  ASSUME IInv, NEW t \in pool, NEW session, NEW payload, Begin(t, session, payload)
  PROVE  IInv'
<1>1. t \in Threads /\ pool' = pool /\ pool \subseteq Threads
  BY Constants DEF IInv, Types, pool, Begin
<1>2. PICK n \in Requests :
        /\ n = last + 1 /\ last' = n /\ n \notin 1 .. last
        /\ \A m \in Requests : m > n => m > last
        /\ 1 .. last \subseteq 1 .. n
  <2>1. last + 1 \in Requests /\ last' = last + 1
    BY Constants DEF Begin, IInv, Types
  <2>2. last \in Nat
    BY Constants DEF IInv, Types
  <2> QED
    BY <2>1, <2>2, Constants
<1>3. PICK type \in {"GET", "SET"} :
        /\ req' = [req EXCEPT ![t] = n]
        /\ kind' = [kind EXCEPT ![t] = type]
        /\ pc' = [pc EXCEPT ![t] = "write"]
        /\ crossed' = IF type = "SET" /\ OtherSets(t) # {}
                       THEN crossed \cup OtherSets(t) \cup {n} ELSE crossed
        /\ type = "SET" => UNCHANGED <<ConnStatus, SendStatus>>
        /\ rc' = rc
        /\ written' = written /\ process' = process
  BY <1>2 DEF Begin, Accepts, Goto, Construct, connVars, statusVars
<1>4. \E a, b \in BOOLEAN : ConnStatus' \in {ConnStatus, [ConnStatus EXCEPT ![t] = a]}
                         /\ SendStatus' \in {SendStatus, [SendStatus EXCEPT ![t] = b]}
  <2>1. CASE Construct(t)
    <3>1. PICK b \in BOOLEAN : SendStatus' = [SendStatus EXCEPT ![t] = b]
      BY <2>1 DEF Construct
    <3>2. PICK a \in BOOLEAN : ConnStatus' = [ConnStatus EXCEPT ![t] = a]
      <4>1. (NewFD # 0 /\ up) \in BOOLEAN
        OBVIOUS
      <4> QED
        BY <2>1, <4>1 DEF Construct
    <3> QED
      BY <3>1, <3>2
  <2>2. CASE UNCHANGED connVars
    BY <2>2 DEF connVars, statusVars
  <2> QED
    BY <2>1, <2>2 DEF Begin
<1>5. /\ {ConnStatus', SendStatus'} \subseteq [Objects -> BOOLEAN]
      /\ \A o \in Objects \ {t} : ConnStatus'[o] = ConnStatus[o] /\ SendStatus'[o] = SendStatus[o]
  BY <1>4 DEF IInv, Types
<1>6. \A u \in pool : pc[u] # "idle" => req[u] \in 1 .. last /\ req[u] \in Requests
  BY <1>2, Constants DEF IInv, Own
<1>7. pc[t] = "idle" /\ kind[t] = "none"
  BY DEF Begin, IInv, Own
<1>8. OtherSets(t) \subseteq Requests
  <2>1. \A u \in pool : kind[u] = "SET" => pc[u] # "idle"
    BY DEF IInv, Own
  <2> QED
    BY <1>6, <2>1 DEF OtherSets
<1>9. Types'
  <2>1. crossed' \subseteq Requests
    BY <1>3, <1>8 DEF IInv, Types
  <2>2. req' \in [Threads -> Requests \cup {NoRequest}] /\ kind' \in [Threads -> {"none", "GET", "SET"}]
    BY <1>1, <1>2, <1>3 DEF IInv, Types
  <2>3. pc' \in [Threads -> {"idle", "write", "note", "check", "test", "connect"} \cup Waits]
    BY <1>1, <1>3 DEF IInv, Types
  <2>4. last' \in Requests \cup {NoRequest}
    BY <1>2
  <2>5. /\ written' \in [Requests -> Nat] /\ process' \in Processes
        /\ rc' \in [Threads -> {"none", "ok", "reply", "end", "error"}]
    BY <1>3 DEF IInv, Types
  <2> QED
    BY <1>5, <2>1, <2>2, <2>3, <2>4, <2>5 DEF Types
<1>10. ASSUME NEW u \in pool PROVE Own(u)'
  <2>1. CASE u = t
    <3>1. n \in 1 .. n
      BY Constants
    <3> QED
      BY <1>1, <1>2, <1>3, <2>1, <3>1 DEF IInv, Types, Own
  <2>2. CASE u # t
    <3>1. pc'[u] = pc[u] /\ req'[u] = req[u] /\ kind'[u] = kind[u] /\ Own(u)
      BY <1>1, <1>3, <2>2 DEF IInv, Types
    <3> QED
      BY <1>2, <3>1 DEF Own
  <2> QED
    BY <2>1, <2>2
<1>11. crossed \subseteq crossed'
  BY <1>3
<1>12. ASSUME NEW u \in pool, NEW v \in pool \ {u} PROVE Apart(u, v)'
  <2>1. CASE u # t /\ v # t
    BY <1>1, <1>3, <1>11, <2>1 DEF IInv, Types, Apart
  <2>2. CASE u = t
    <3>1. pc'[v] = pc[v] /\ req'[v] = req[v] /\ kind'[v] = kind[v]
      BY <1>1, <1>3, <2>2 DEF IInv, Types
    <3>2. req'[t] = n /\ kind'[t] = type
      BY <1>1, <1>3 DEF IInv, Types
    <3>3. type = "SET" /\ kind[v] = "SET" => n \in crossed'
      BY <1>3, <2>2 DEF OtherSets
    <3> QED
      BY <1>2, <1>6, <2>2, <3>1, <3>2, <3>3 DEF Apart
  <2>3. CASE v = t
    <3>1. pc'[u] = pc[u] /\ req'[u] = req[u] /\ kind'[u] = kind[u]
      BY <1>1, <1>3, <2>3 DEF IInv, Types
    <3>2. req'[t] = n /\ kind'[t] = type
      BY <1>1, <1>3 DEF IInv, Types
    <3>3. type = "SET" /\ kind[u] = "SET" => req[u] \in crossed'
      BY <1>3, <2>3 DEF OtherSets
    <3> QED
      BY <1>2, <1>6, <2>3, <3>1, <3>2, <3>3 DEF Apart
  <2> QED
    BY <2>1, <2>2, <2>3
<1>13. ASSUME NEW u \in pool, pc'[u] # "idle", req'[u] \notin crossed' PROVE Placed(u)'
  <2>1. CASE u = t
    BY <1>1, <1>2, <1>3, <2>1 DEF IInv, Types, Placed, Waits
  <2>2. CASE u # t
    <3>1. pc'[u] = pc[u] /\ req'[u] = req[u] /\ kind'[u] = kind[u] /\ Obj(u)' = Obj(u)
      BY <1>1, <1>3, <2>2 DEF IInv, Types, Obj
    <3>2. Placed(u)
      BY <1>11, <1>13, <3>1 DEF IInv
    <3>3. Obj(u) # t /\ Obj(u) \in Objects
      BY <1>1, <2>2, Constants DEF Obj
    <3> QED
      BY <1>3, <1>5, <3>1, <3>2, <3>3 DEF Placed
  <2> QED
    BY <2>1, <2>2
<1>14. \A m \in Requests : m > last' => written'[m] = 0
  BY <1>2, <1>3 DEF IInv
<1>15. \A m \in Requests \ crossed' : written'[m] <= 1
  BY <1>3, <1>11 DEF IInv
<1> QED
  BY <1>1, <1>9, <1>10, <1>12, <1>13, <1>14, <1>15 DEF IInv

(* The request of t ends. *)
LEMMA RespondStep == ASSUME IInv, NEW t \in pool, Respond(t) PROVE IInv'
<1>1. t \in Threads /\ pool' = pool /\ pool \subseteq Threads
  BY Constants DEF IInv, Types, pool, Respond
<1>2. /\ pc[t] = "respond" /\ pc' = [pc EXCEPT ![t] = "idle"]
      /\ req' = [req EXCEPT ![t] = NoRequest] /\ kind' = [kind EXCEPT ![t] = "none"]
      /\ UNCHANGED <<process, last, rc, crossed, written>>
  BY DEF Respond, Goto, EndRequest, CloseSocket, connVars
<1>3. /\ {ConnStatus', SendStatus'} \subseteq [Objects -> BOOLEAN]
      /\ \A o \in Objects \ {t} : ConnStatus'[o] = ConnStatus[o] /\ SendStatus'[o] = SendStatus[o]
  <2>1. \/ ConnStatus' = [ConnStatus EXCEPT ![t] = FALSE] /\ SendStatus' = [SendStatus EXCEPT ![t] = FALSE]
        \/ UNCHANGED <<ConnStatus, SendStatus>>
    BY DEF Respond, EndRequest, CloseSocket, connVars, statusVars
  <2>2. ConnStatus \in [Objects -> BOOLEAN] /\ SendStatus \in [Objects -> BOOLEAN]
    BY DEF IInv, Types
  <2>3. CASE UNCHANGED <<ConnStatus, SendStatus>>
    BY <2>2, <2>3
  <2>4. CASE ~UNCHANGED <<ConnStatus, SendStatus>>
    BY <2>1, <2>2, <2>4
  <2> QED
    BY <2>3, <2>4
<1>4. Types'
  BY <1>1, <1>2, <1>3 DEF IInv, Types
<1>5. \A u \in pool \ {t} : /\ pc'[u] = pc[u] /\ req'[u] = req[u] /\ kind'[u] = kind[u]
                           /\ Obj(u)' = Obj(u) /\ Obj(u) # t /\ Obj(u) \in Objects
  BY <1>1, <1>2, Constants DEF IInv, Types, Obj
<1>6. pc'[t] = "idle" /\ kind'[t] = "none"
  BY <1>1, <1>2 DEF IInv, Types
<1>7. \A u \in pool : Own(u)'
  BY <1>2, <1>5, <1>6 DEF IInv, Own
<1>8. \A u \in pool : \A v \in pool \ {u} : Apart(u, v)'
  BY <1>2, <1>5, <1>6 DEF IInv, Apart
<1>9. ASSUME NEW u \in pool, pc'[u] # "idle", req'[u] \notin crossed PROVE Placed(u)'
  <2>1. u # t
    BY <1>6, <1>9
  <2>2. Placed(u)
    BY <1>5, <1>9, <2>1 DEF IInv
  <2> QED
    BY <1>2, <1>3, <1>5, <2>1, <2>2 DEF Placed
<1> QED
  BY <1>1, <1>2, <1>4, <1>7, <1>8, <1>9 DEF IInv

(* The steps of thread t within its request. *)
LEMMA ProcessStep == ASSUME IInv, NEW t \in pool, Process(t) PROVE IInv'
<1> DEFINE Framed == /\ UNCHANGED <<process, last, req, kind, crossed>>
                     /\ pc[t] # "idle" /\ pc'[t] # "idle"
                     /\ \A u \in Threads \ {t} : pc'[u] = pc[u] /\ rc'[u] = rc[u]
                     /\ \A o \in Objects \ {Obj(t)} : ConnStatus'[o] = ConnStatus[o] /\ SendStatus'[o] = SendStatus[o]
                     /\ \A n \in Requests \ {req[t]} : written'[n] = written[n]
<1>1. t \in Threads /\ Obj(t) \in Objects
  BY Constants DEF IInv, Types, pool, Obj
<1>2. pc[t] # "idle" /\ req[t] \notin crossed => Placed(t)
  BY DEF IInv
<1>3. pc[t] # "idle" => req[t] \in Requests
  <2>1. pc[t] # "idle" => req[t] \in 1 .. last
    BY DEF IInv, Own
  <2>2. last \in Requests \cup {0}
    BY Constants DEF IInv, Types
  <2> QED
    BY <2>1, <2>2, Constants
<1>4. ASSUME Types', Framed, req[t] \notin crossed => Placed(t)' PROVE IInv'
  BY <1>4, Within
<1>5. CASE Send(t)
  <2>1. PICK ok \in BOOLEAN :
          /\ pc[t] = "write" /\ pc' = [pc EXCEPT ![t] = "note"]
          /\ rc' = [rc EXCEPT ![t] = IF ok THEN "ok" ELSE "error"]
          /\ written' = IF ok THEN [written EXCEPT ![req[t]] = @ + 1] ELSE written
          /\ UNCHANGED <<ConnStatus, SendStatus, process, last, req, kind, crossed>>
    BY <1>5 DEF Send, Write, Goto, statusVars, historyVars, Is
  <2>2. Types'
    BY <1>1, <1>3, <2>1 DEF IInv, Types
  <2>3. Framed
    BY <1>1, <1>3, <2>1 DEF IInv, Types
  <2>4. req[t] \notin crossed => Placed(t)'
    BY <1>1, <1>2, <1>3, <2>1 DEF IInv, Types, Placed, Waits
  <2> QED
    BY <1>4, <2>2, <2>3, <2>4
<1>6. CASE NoteSent(t)
  <2>1. PICK ok \in BOOLEAN :
          /\ ok = (rc[t] = "ok")
          /\ pc[t] = "note" /\ pc' = [pc EXCEPT ![t] = "check"]
          /\ rc' = [rc EXCEPT ![t] = "none"]
          /\ ConnStatus' = [ConnStatus EXCEPT ![Obj(t)] = ok \/ @]
          /\ SendStatus' = [SendStatus EXCEPT ![Obj(t)] = ok]
          /\ UNCHANGED <<written, process, last, req, kind, crossed>>
    BY <1>6 DEF NoteSent, SetSendStatus, Goto, historyVars
  <2>2. Types'
    BY <1>1, <2>1 DEF IInv, Types
  <2>3. Framed
    BY <1>1, <2>1 DEF IInv, Types
  <2>4. req[t] \notin crossed => Placed(t)'
    <3>1. Obj(t)' = Obj(t)
      BY <2>1 DEF Obj
    <3>2. SendStatus'[Obj(t)] = ok /\ (ok => ConnStatus'[Obj(t)])
      BY <1>1, <2>1 DEF IInv, Types
    <3>3. pc'[t] = "check" /\ written' = written /\ req' = req
      BY <1>1, <2>1 DEF IInv, Types
    <3> QED
      BY <1>2, <2>1, <3>1, <3>2, <3>3 DEF Placed, Waits
  <2> QED
    BY <1>4, <2>2, <2>3, <2>4
<1>7. CASE Sent(t) \/ NotSent(t) \/ TryAgain(t) \/ CallRead(t)
  <2>1. /\ UNCHANGED <<ConnStatus, SendStatus, written, process, last, req, kind, rc, crossed>>
        /\ pc[t] # "idle"
        /\ \/ /\ pc[t] = "check" /\ pc' = [pc EXCEPT ![t] = "call"]
              /\ SendStatus[Obj(t)]
           \/ /\ pc[t] = "check" /\ pc' = [pc EXCEPT ![t] = "test"]
              /\ ~(ConnStatus[Obj(t)] /\ SendStatus[Obj(t)])
           \/ pc[t] = "test" /\ pc' = [pc EXCEPT ![t] = "write"]
           \/ pc[t] = "call" /\ pc' = [pc EXCEPT ![t] = "read"]
    BY <1>7 DEF Sent, NotSent, TryAgain, CallRead, Goto, connVars, statusVars, historyVars
  <2>2. Types'
    BY <1>1, <2>1 DEF IInv, Types, Waits
  <2>3. Framed
    BY <1>1, <2>1 DEF IInv, Types
  <2>4. req[t] \notin crossed => Placed(t)'
    BY <1>1, <1>2, <2>1 DEF IInv, Types, Placed, Waits
  <2> QED
    BY <1>4, <2>2, <2>3, <2>4
<1>8. CASE Reopen(t)
  <2>1. /\ UNCHANGED <<ConnStatus, SendStatus, written, process, last, req, kind, rc, crossed>>
        /\ pc[t] = "test" /\ pc' = [pc EXCEPT ![t] = "connect"]
    BY <1>8 DEF Reopen, Socket, Goto, statusVars
  <2>2. Types'
    BY <1>1, <2>1 DEF IInv, Types
  <2>3. Framed
    BY <1>1, <2>1 DEF IInv, Types
  <2>4. req[t] \notin crossed => Placed(t)'
    BY <1>1, <1>2, <2>1 DEF IInv, Types, Placed, Waits
  <2> QED
    BY <1>4, <2>2, <2>3, <2>4
<1>9. CASE Reconnect(t)
  <2>1. PICK ok \in BOOLEAN :
          /\ UNCHANGED <<SendStatus, written, process, last, req, kind, rc, crossed>>
          /\ ConnStatus' = [ConnStatus EXCEPT ![Obj(t)] = @ /\ ok]
          /\ pc[t] = "connect" /\ pc' = [pc EXCEPT ![t] = "write"]
    BY <1>9 DEF Reconnect, Connect, Goto, historyVars, Is
  <2>2. Types'
    BY <1>1, <2>1 DEF IInv, Types
  <2>3. Framed
    BY <1>1, <2>1 DEF IInv, Types
  <2>4. req[t] \notin crossed => Placed(t)'
    BY <1>1, <1>2, <2>1 DEF IInv, Types, Placed, Waits
  <2> QED
    BY <1>4, <2>2, <2>3, <2>4
<1>10. CASE Receive(t)
  <2>1. PICK result \in {"reply", "end", "error"} :
          /\ UNCHANGED <<ConnStatus, SendStatus, written, process, last, req, kind, crossed>>
          /\ rc' = [rc EXCEPT ![t] = result]
          /\ pc[t] = "read" /\ pc' = [pc EXCEPT ![t] = "keep"]
    BY <1>10 DEF Receive, Read, Goto, statusVars, historyVars
  <2>2. Types'
    BY <1>1, <2>1 DEF IInv, Types, Waits
  <2>3. Framed
    BY <1>1, <2>1 DEF IInv, Types
  <2>4. req[t] \notin crossed => Placed(t)'
    BY <1>1, <1>2, <2>1 DEF IInv, Types, Placed, Waits
  <2> QED
    BY <1>4, <2>2, <2>3, <2>4
<1>11. CASE Keep(t)
  <2>1. PICK ok \in BOOLEAN :
          /\ UNCHANGED <<SendStatus, written, process, last, req, kind, crossed>>
          /\ ConnStatus' = [ConnStatus EXCEPT ![Obj(t)] = ok]
          /\ rc' = [rc EXCEPT ![t] = "none"]
          /\ pc[t] = "keep" /\ pc' = [pc EXCEPT ![t] = "respond"]
    <3>1. ((rc[t] = "reply") \/ (ConnStatus[Obj(t)] /\ rc[t] # "end")) \in BOOLEAN
      OBVIOUS
    <3> QED
      BY <1>11, <3>1 DEF Keep, SetRecvStatus, Goto, historyVars
  <2>2. Types'
    BY <1>1, <2>1 DEF IInv, Types, Waits
  <2>3. Framed
    BY <1>1, <2>1 DEF IInv, Types
  <2>4. req[t] \notin crossed => Placed(t)'
    BY <1>1, <1>2, <2>1 DEF IInv, Types, Placed, Waits
  <2> QED
    BY <1>4, <2>2, <2>3, <2>4
<1>12. CASE Respond(t)
  BY <1>12, RespondStep
<1> QED
  BY <1>5, <1>6, <1>7, <1>8, <1>9, <1>10, <1>11, <1>12 DEF Process

(* The server touches neither the objects nor the threads. *)
LEMMA ServerStep == ASSUME IInv, Server \/ UNCHANGED vars PROVE IInv'
<1>1. UNCHANGED <<ConnStatus, SendStatus, written, requestVars>>
  BY DEF Server, Disturbance, Stop, Start, Cut, LoseRequest, AnswerAgain, Answer,
         statusVars, vars, connVars
<1>2. UNCHANGED <<ConnStatus, SendStatus, written, process, last, pc, req, kind, rc, crossed>>
  BY <1>1 DEF requestVars, localVars, historyVars
<1> QED
  BY <1>2 DEF IInv, Types, Own, Apart, Placed, Obj, pool

(* The retry loop sends a request once and waits for no answer to one that *)
(* was not sent, however often the connection breaks: sendMessageReconnect *)
(* and the three requests' places in Request::processMessage.              *)
THEOREM SendsOnce == Spec => []SentOnce
<1>1. IInv /\ [Next]_vars => IInv'
  BY BeginStep, ProcessStep, ServerStep DEF Next
<1>2. IInv => SentOnce
  <2> SUFFICES ASSUME IInv PROVE SentOnce
    OBVIOUS
  <2>1. ASSUME NEW t \in pool, pc[t] \in {"call", "read", "keep", "respond"}, req[t] \notin crossed
        PROVE  written[req[t]] = 1
    BY <2>1 DEF IInv, Placed, Waits
  <2> QED
    BY <2>1 DEF IInv, SentOnce
<1> QED
  BY <1>1, <1>2, InitInv, PTL DEF Spec

-----------------------------------------------------------------------------
(* Descriptors. *)

(* A set of numbers has a least one. *)
LEMMA Least ==
  ASSUME NEW S \in SUBSET Nat, S # {}
  PROVE  \E x \in S : \A y \in S : x <= y
<1>1. PICK R : R = OpToRel(<, Nat)
  OBVIOUS
<1>2. IsWellFoundedOn(R, Nat)
  BY <1>1, NatLessThanWellFounded
<1>3. PICK x \in S : \A y \in S : ~(<<y, x>> \in R)
  BY <1>2, WFMin
<1>4. \A y \in S : y < x => <<y, x>> \in R
  BY <1>1 DEF OpToRel
<1>5. \A y \in S : ~(y < x)
  BY <1>3, <1>4
<1> QED
  BY <1>5

(* socket() gives a descriptor that was free, or none. *)
LEMMA NewFDFree == NewFD \in FDs \cup {0} /\ (NewFD # 0 => sock[NewFD] = "free")
<1>1. CASE \A f \in FDs : sock[f] # "free"
  BY <1>1 DEF NewFD
<1>2. CASE ~ \A f \in FDs : sock[f] # "free"
  <2>1. PICK S : S = {f \in FDs : sock[f] = "free"}
    OBVIOUS
  <2>2. S \in SUBSET Nat /\ S # {}
    BY <1>2, <2>1 DEF FDs
  <2>3. PICK f \in S : \A g \in S : f <= g
    BY <2>2, Least
  <2>4. f \in FDs /\ sock[f] = "free" /\ \A g \in 1 .. f - 1 : sock[g] # "free"
    BY <2>1, <2>3, ConnectionAssumption DEF FDs
  <2>5. NewFD = CHOOSE g \in FDs : sock[g] = "free" /\ \A h \in 1 .. g - 1 : sock[h] # "free"
    BY <1>2 DEF NewFD
  <2> QED
    BY <2>4, <2>5
<1> QED
  BY <1>1, <1>2

Used == {f \in FDs : sock[f] # "free"}
Owners == {o \in Objects : SocketFD[o] # 0}

(* An object has a descriptor of its own, a thread has one during a GET    *)
(* only, and the descriptors are counted.                                  *)
Descriptors ==
  /\ lost \in Nat
  /\ SocketFD \in [Objects -> FDs \cup {0}]
  /\ \A o \in Owners : SocketFD[o] \in Used
  /\ \A o, p \in Owners : o # p => SocketFD[o] # SocketFD[p]
  /\ \A t \in pool : kind[t] # "GET" => SocketFD[t] = 0
  /\ IsFiniteSet(Owners)
  /\ Cardinality(Used) = lost + Cardinality(Owners)

LEMMA UsedFinite == IsFiniteSet(Used) /\ Cardinality(Used) \in 0 .. MaxSockets
<1>1. IsFiniteSet(FDs) /\ Cardinality(FDs) = MaxSockets
  BY FS_Interval, ConnectionAssumption DEF FDs
<1>2. Used \in SUBSET FDs
  BY DEF Used
<1>3. IsFiniteSet(Used) /\ Cardinality(Used) <= MaxSockets
  BY <1>1, <1>2, FS_Subset
<1> QED
  BY <1>3, FS_CardinalityType, ConnectionAssumption

(* Object o gets the descriptor nf, or none, in the place of what it had. *)
LEMMA Opens ==
  ASSUME Descriptors, NEW o \in Objects, NEW nf \in FDs \cup {0}, nf # 0 => sock[nf] = "free",
         SocketFD' = [SocketFD EXCEPT ![o] = nf],
         \A f \in FDs : sock'[f] = "free" <=> sock[f] = "free" /\ f # nf,
         lost' = IF SocketFD[o] = 0 THEN lost ELSE lost + 1,
         \A t \in pool' : kind'[t] # "GET" => SocketFD'[t] = 0
  PROVE  Descriptors'
<1>1. Used' = IF nf = 0 THEN Used ELSE Used \cup {nf}
  BY ConnectionAssumption DEF Used, FDs
<1>2. Owners' = IF nf = 0 THEN Owners \ {o} ELSE Owners \cup {o}
  BY DEF Owners, Descriptors
<1>3. nf # 0 => nf \notin Used
  BY DEF Used
<1>4. (o \in Owners) <=> SocketFD[o] # 0
  BY DEF Owners
<1>5. IsFiniteSet(Owners')
  BY <1>2, FS_AddElement, FS_RemoveElement DEF Descriptors
<1>6. Cardinality(Used) \in Nat /\ Cardinality(Owners) \in Nat
  BY UsedFinite, FS_CardinalityType DEF Descriptors
<1>7. Cardinality(Used') = lost' + Cardinality(Owners')
  <2>1. Cardinality(Used') = IF nf = 0 THEN Cardinality(Used) ELSE Cardinality(Used) + 1
    BY <1>1, <1>3, UsedFinite, FS_AddElement
  <2>2. Cardinality(Owners') = IF nf = 0 THEN IF o \in Owners THEN Cardinality(Owners) - 1
                                                              ELSE Cardinality(Owners)
                               ELSE IF o \in Owners THEN Cardinality(Owners)
                                                    ELSE Cardinality(Owners) + 1
    <3>1. CASE nf = 0
      BY <1>2, <3>1, FS_RemoveElement DEF Descriptors
    <3>2. CASE nf # 0
      BY <1>2, <3>2, FS_AddElement DEF Descriptors
    <3> QED
      BY <3>1, <3>2
  <2>3. lost \in Nat /\ Cardinality(Used) = lost + Cardinality(Owners)
    BY DEF Descriptors
  <2> QED
    BY <1>4, <1>6, <2>1, <2>2, <2>3
<1>8. \A p \in Owners' : SocketFD'[p] \in Used'
  BY <1>1, <1>2 DEF Descriptors, Owners
<1>9. \A p, q \in Owners' : p # q => SocketFD'[p] # SocketFD'[q]
  BY <1>2, <1>3 DEF Descriptors, Owners
<1>10. lost' \in Nat /\ SocketFD' \in [Objects -> FDs \cup {0}]
  BY DEF Descriptors
<1> QED
  BY <1>5, <1>7, <1>8, <1>9, <1>10 DEF Descriptors

(* Object o gives its descriptor back. *)
LEMMA Closes ==
  ASSUME Descriptors, NEW o \in Objects,
         SocketFD' = [SocketFD EXCEPT ![o] = 0],
         \A f \in FDs : sock'[f] = "free" <=> sock[f] = "free" \/ f = SocketFD[o],
         lost' = lost,
         \A t \in pool' : kind'[t] # "GET" => SocketFD'[t] = 0
  PROVE  Descriptors'
<1>1. Used' = Used \ {SocketFD[o]}
  BY DEF Used
<1>2. Owners' = Owners \ {o}
  BY DEF Owners, Descriptors
<1>3. SocketFD[o] \in Used <=> o \in Owners
  BY ConnectionAssumption DEF Descriptors, Owners, Used, FDs
<1>4. IsFiniteSet(Owners')
  BY <1>2, FS_RemoveElement DEF Descriptors
<1>5. Cardinality(Used') = lost' + Cardinality(Owners')
  <2>1. Cardinality(Used') = IF SocketFD[o] \in Used THEN Cardinality(Used) - 1 ELSE Cardinality(Used)
    BY <1>1, UsedFinite, FS_RemoveElement
  <2>2. Cardinality(Owners') = IF o \in Owners THEN Cardinality(Owners) - 1 ELSE Cardinality(Owners)
    BY <1>2, FS_RemoveElement DEF Descriptors
  <2>3. Cardinality(Used) \in Nat /\ Cardinality(Owners) \in Nat
    BY UsedFinite, FS_CardinalityType DEF Descriptors
  <2>4. lost \in Nat /\ Cardinality(Used) = lost + Cardinality(Owners)
    BY DEF Descriptors
  <2> QED
    BY <1>3, <2>1, <2>2, <2>3, <2>4
<1>6. \A p \in Owners' : SocketFD'[p] \in Used'
  <2>1. ASSUME NEW p \in Owners' PROVE SocketFD'[p] \in Used'
    <3>1. p \in Owners /\ p # o /\ SocketFD'[p] = SocketFD[p]
      BY <1>2 DEF Owners, Descriptors
    <3>2. SocketFD[p] # SocketFD[o]
      BY <3>1 DEF Descriptors, Owners
    <3> QED
      BY <1>1, <3>1, <3>2 DEF Descriptors
  <2> QED
    BY <2>1
<1>7. \A p, q \in Owners' : p # q => SocketFD'[p] # SocketFD'[q]
  BY <1>2 DEF Descriptors, Owners
<1>8. lost' \in Nat /\ SocketFD' \in [Objects -> FDs \cup {0}]
  BY DEF Descriptors
<1> QED
  BY <1>4, <1>5, <1>6, <1>7, <1>8 DEF Descriptors

(* No descriptor is opened or closed. *)
LEMMA Keeps ==
  ASSUME Descriptors, UNCHANGED <<SocketFD, lost, process>>,
         \A f \in FDs : sock'[f] = "free" <=> sock[f] = "free",
         \A t \in pool : kind[t] = "GET" => kind'[t] = "GET"
  PROVE  Descriptors'
<1>1. Used' = Used /\ Owners' = Owners
  BY DEF Used, Owners
<1>2. \A t \in pool' : kind'[t] # "GET" => SocketFD'[t] = 0
  BY DEF Descriptors, pool
<1> QED
  BY <1>1, <1>2 DEF Descriptors

(* What happens to one descriptor. *)
States == {"free", "idle", "up", "broken", "reset"}
LEMMA BecomesType ==
  ASSUME sock \in [FDs -> States], NEW f \in FDs \cup {0}, NEW how \in States, Becomes(f, how)
  PROVE  /\ sock' \in [FDs -> States]
         /\ \A g \in FDs : sock'[g] = IF g = f THEN how ELSE sock[g]
  BY ConnectionAssumption DEF Becomes, FDs

LEMMA ReportedType ==
  ASSUME sock \in [FDs -> States], NEW f \in FDs \cup {0}, Reported(f)
  PROVE  /\ sock' \in [FDs -> States]
         /\ \A g \in FDs : sock'[g] = "free" <=> sock[g] = "free"
<1>1. CASE f = 0
  BY <1>1 DEF Reported, Becomes
<1>2. CASE f # 0
  <2>1. PICK how \in States : Becomes(f, how) /\ (how = "free" <=> sock[f] = "free")
    <3>1. CASE sock[f] = "reset"
      BY <1>2, <3>1 DEF Reported, States
    <3>2. CASE sock[f] # "reset"
      BY <1>2, <3>2 DEF Reported, States
    <3> QED
      BY <3>1, <3>2
  <2> QED
    BY <2>1, BecomesType
<1> QED
  BY <1>1, <1>2

(* The types that IInv does not speak of. *)
KernelTypes ==
  /\ sock \in [FDs -> States]
  /\ {outbox, inbox} \subseteq [FDs -> Seq(Requests)]
  /\ RecvStatus \in [Objects -> BOOLEAN]
  /\ RecvBuffer \in [Objects -> Requests \cup {NoRequest}]
  /\ up \in BOOLEAN /\ stray \in BOOLEAN /\ faults \in 0 .. MaxFaults
LocalTypes ==
  /\ fd \in [Threads -> FDs \cup {0}]
  /\ body \in [Threads -> Requests \cup {NoRequest}]
  /\ page \in [Requests -> {"none", "own", "other", "empty", "error"}]
PInv == IInv /\ KernelTypes /\ LocalTypes /\ Descriptors

LEMMA InitPInv == ASSUME Init PROVE PInv
<1>1. Used = {1} /\ Owners = {ConnSetObj}
  <2>1. 1 \in FDs
    BY ConnectionAssumption DEF FDs
  <2> QED
    BY <2>1, Constants DEF Init, Used, Owners
<1>2. Descriptors
  <2>1. IsFiniteSet(Owners) /\ Cardinality(Used) = 1 /\ Cardinality(Owners) = 1
    BY <1>1, FS_Singleton
  <2>2. SocketFD \in [Objects -> FDs \cup {0}] /\ lost = 0
    BY ConnectionAssumption DEF Init, FDs
  <2>3. SocketFD[ConnSetObj] = 1
    BY Constants DEF Init
  <2>4. \A t \in pool : SocketFD[t] = 0
    BY Constants DEF Init, pool
  <2> QED
    BY <1>1, <2>1, <2>2, <2>3, <2>4 DEF Descriptors
<1>3. KernelTypes
  <2>1. sock \in [FDs -> States] /\ up \in BOOLEAN /\ stray \in BOOLEAN
    BY DEF Init, States
  <2>2. faults \in 0 .. MaxFaults
    BY ConnectionAssumption DEF Init
  <2>3. {outbox, inbox} \subseteq [FDs -> Seq(Requests)]
    BY DEF Init
  <2>4. RecvBuffer \in [Objects -> Requests \cup {NoRequest}] /\ RecvStatus \in [Objects -> BOOLEAN]
    BY DEF Init
  <2> QED
    BY <2>1, <2>2, <2>3, <2>4 DEF KernelTypes
<1>4. LocalTypes
  BY DEF Init, LocalTypes
<1> QED
  BY <1>2, <1>3, <1>4, InitInv DEF PInv

(* A request comes in, with an object of its own if it is a GET. *)
LEMMA BeginKeeps ==
  ASSUME PInv, NEW t \in pool, NEW session, NEW payload, Begin(t, session, payload)
  PROVE  PInv'
<1>1. IInv'
  BY BeginStep DEF PInv
<1>2. t \in Threads /\ t \in Objects /\ pool \subseteq Threads /\ pool' = pool
  BY Constants DEF PInv, IInv, Types, pool, Begin
<1>3. LocalTypes'
  BY DEF Begin, PInv, LocalTypes
<1>4. kind[t] = "none" /\ SocketFD[t] = 0
  <2>1. Own(t) /\ pc[t] = "idle"
    BY DEF PInv, IInv, Begin
  <2> QED
    BY <2>1 DEF Own, PInv, Descriptors
<1>5. PICK type \in {"GET", "SET"} :
        /\ kind' = [kind EXCEPT ![t] = type]
        /\ IF type = "GET" THEN Construct(t) ELSE UNCHANGED connVars
        /\ UNCHANGED <<lost, process>>
  BY DEF Begin, Accepts
<1>6. CASE type = "SET"
  <2>1. UNCHANGED <<RecvStatus, SocketFD, RecvBuffer, sock, outbox, inbox, up, faults, stray>>
    BY <1>5, <1>6 DEF connVars, statusVars, kernelVars, serverVars
  <2>2. KernelTypes'
    BY <2>1 DEF KernelTypes, PInv
  <2>3. \A u \in pool : kind[u] = "GET" => kind'[u] = "GET"
    BY <1>2, <1>4, <1>5 DEF PInv, IInv, Types
  <2>4. Descriptors'
    BY <1>5, <2>1, <2>3, Keeps DEF PInv
  <2> QED
    BY <1>1, <1>3, <2>2, <2>4 DEF PInv
<1>7. CASE type = "GET"
  <2>1. PICK nf \in FDs \cup {0}, how \in {"up", "idle"} :
          /\ nf # 0 => sock[nf] = "free"
          /\ SocketFD' = [SocketFD EXCEPT ![t] = nf]
          /\ Becomes(nf, how)
          /\ \E b \in BOOLEAN : RecvStatus' = [RecvStatus EXCEPT ![t] = b]
          /\ UNCHANGED <<RecvBuffer, outbox, inbox, up, faults, stray>>
    BY <1>5, <1>7, NewFDFree DEF Construct, serverVars
  <2>2. sock' \in [FDs -> States] /\ \A f \in FDs : sock'[f] = IF f = nf THEN how ELSE sock[f]
    BY <2>1, BecomesType DEF PInv, KernelTypes, States
  <2>3. KernelTypes'
    BY <1>2, <2>1, <2>2 DEF KernelTypes, PInv
  <2>4. \A u \in pool' : kind'[u] # "GET" => SocketFD'[u] = 0
    <3>1. ASSUME NEW u \in pool, kind'[u] # "GET" PROVE SocketFD'[u] = 0
      <4>1. u \in Threads /\ u # t
        BY <1>2, <1>5, <1>7, <3>1 DEF PInv, IInv, Types
      <4>2. kind'[u] = kind[u] /\ SocketFD'[u] = SocketFD[u]
        BY <1>5, <2>1, <4>1, Constants DEF PInv, IInv, Types, Descriptors
      <4> QED
        BY <3>1, <4>2 DEF PInv, Descriptors
    <3> QED
      BY <1>2, <3>1
  <2>5. \A f \in FDs : sock'[f] = "free" <=> sock[f] = "free" /\ f # nf
    BY <2>1, <2>2
  <2>6. Descriptors'
    BY <1>2, <1>4, <1>5, <2>1, <2>4, <2>5, Opens DEF PInv
  <2> QED
    BY <1>1, <1>3, <2>3, <2>6 DEF PInv
<1> QED
  BY <1>6, <1>7

LEMMA RespondKeeps == ASSUME PInv, NEW t \in pool, Respond(t) PROVE PInv'
<1>1. IInv'
  BY RespondStep DEF PInv
<1>2. t \in Threads /\ t \in Objects /\ pool \subseteq Threads /\ pool' = pool
  BY Constants DEF PInv, IInv, Types, pool, Respond
<1>3. LocalTypes'
  <2>1. body' \in [Threads -> Requests \cup {NoRequest}] /\ fd' = fd
    BY DEF Respond, PInv, LocalTypes
  <2>2. page' \in [Requests -> {"none", "own", "other", "empty", "error"}]
    <3>1. PICK p \in {"none", "own", "other", "empty", "error"} : page' = [page EXCEPT ![req[t]] = p]
      BY DEF Respond, Content
    <3> QED
      BY <3>1 DEF PInv, LocalTypes
  <2> QED
    BY <2>1, <2>2 DEF PInv, LocalTypes
<1>4. kind' = [kind EXCEPT ![t] = "none"] /\ UNCHANGED <<process, lost>>
  BY DEF Respond
<1>5. CASE kind[t] = "GET"
  <2>1. CloseSocket(t)
    BY <1>5 DEF Respond, EndRequest
  <2>2. SocketFD[t] \in FDs \cup {0}
    BY <1>2 DEF PInv, Descriptors
  <2>3. sock' \in [FDs -> States]
        /\ \A f \in FDs : sock'[f] = IF f = SocketFD[t] THEN "free" ELSE sock[f]
    BY <2>1, <2>2, BecomesType DEF CloseSocket, PInv, KernelTypes, States
  <2>4. {outbox', inbox'} \subseteq [FDs -> Seq(Requests)]
    BY <2>1 DEF CloseSocket, PInv, KernelTypes
  <2>5. KernelTypes'
    <3>1. RecvStatus' \in [Objects -> BOOLEAN]
      BY <1>2, <2>1 DEF CloseSocket, PInv, KernelTypes
    <3>2. RecvBuffer' \in [Objects -> Requests \cup {NoRequest}]
      BY <1>2, <2>1 DEF CloseSocket, PInv, KernelTypes
    <3>3. UNCHANGED <<up, faults, stray>>
      BY <2>1 DEF CloseSocket, serverVars
    <3> QED
      BY <2>3, <2>4, <3>1, <3>2, <3>3 DEF PInv, KernelTypes
  <2>6. SocketFD' = [SocketFD EXCEPT ![t] = 0]
    BY <2>1 DEF CloseSocket
  <2>7. \A u \in pool' : kind'[u] # "GET" => SocketFD'[u] = 0
    BY <1>2, <1>4, <2>6 DEF PInv, IInv, Types, Descriptors
  <2>8. Descriptors'
    <3> USE DEF PInv
    <3>1. Descriptors
      OBVIOUS
    <3> HIDE DEF PInv
    <3>2. \A f \in FDs : sock'[f] = "free" <=> sock[f] = "free" \/ f = SocketFD[t]
      BY <2>3
    <3>3. lost' = lost /\ \A u \in pool' : kind'[u] # "GET" => SocketFD'[u] = 0
      BY <1>4, <2>7
    <3> QED
      BY <1>2, <2>6, <3>1, <3>2, <3>3, Closes
  <2> QED
    BY <1>1, <1>3, <2>5, <2>8 DEF PInv
<1>6. CASE kind[t] # "GET"
  <2>1. UNCHANGED <<RecvStatus, SocketFD, RecvBuffer, sock, outbox, inbox, up, faults, stray>>
    BY <1>6 DEF Respond, EndRequest, connVars, statusVars, kernelVars, serverVars
  <2>2. KernelTypes'
    BY <2>1 DEF KernelTypes, PInv
  <2>3. \A u \in pool : kind[u] = "GET" => kind'[u] = "GET"
    BY <1>2, <1>4, <1>6 DEF PInv, IInv, Types
  <2>4. Descriptors'
    BY <1>4, <2>1, <2>3, Keeps DEF PInv
  <2> QED
    BY <1>1, <1>3, <2>2, <2>4 DEF PInv
<1> QED
  BY <1>5, <1>6

(* The steps within a request. *)
LEMMA ProcessKeeps == ASSUME PInv, NEW t \in pool, Process(t) PROVE PInv'
<1>1. IInv'
  BY ProcessStep DEF PInv
<1>2. t \in Threads /\ Obj(t) \in Objects /\ SocketFD[Obj(t)] \in FDs \cup {0}
  BY Constants DEF PInv, IInv, Types, pool, Obj, Descriptors
<1>3. pc[t] # "idle" => req[t] \in Requests
  <2>1. pc[t] # "idle" => req[t] \in 1 .. last
    BY DEF PInv, IInv, Own
  <2>2. last \in Requests \cup {0}
    BY Constants DEF PInv, IInv, Types
  <2> QED
    BY <2>1, <2>2, Constants
<1>4. ASSUME KernelTypes', LocalTypes', UNCHANGED <<SocketFD, lost, process, kind>>,
             \A f \in FDs : sock'[f] = "free" <=> sock[f] = "free"
      PROVE  PInv'
  BY <1>1, <1>4, Keeps DEF PInv
<1>5. CASE Send(t)
  <2>1. /\ pc[t] = "write" /\ Write(Obj(t), req[t])
        /\ UNCHANGED <<SocketFD, RecvBuffer, RecvStatus, inbox, up, faults, stray, lost, process,
                       kind, fd, body, page>>
    BY <1>5 DEF Send, Write, serverVars, statusVars, historyVars
  <2>2. sock' \in [FDs -> States] /\ \A f \in FDs : sock'[f] = "free" <=> sock[f] = "free"
    BY <1>2, <2>1, ReportedType DEF Write, PInv, KernelTypes
  <2>3. outbox' \in [FDs -> Seq(Requests)]
    <3>1. CASE Is(Obj(t), "up")
      <4>1. SocketFD[Obj(t)] \in FDs
        BY <1>2, <3>1 DEF Is
      <4>2. Append(outbox[SocketFD[Obj(t)]], req[t]) \in Seq(Requests)
        BY <1>3, <2>1, <4>1 DEF PInv, KernelTypes
      <4> QED
        BY <2>1, <3>1, <4>2 DEF Write, PInv, KernelTypes
    <3>2. CASE ~Is(Obj(t), "up")
      BY <2>1, <3>2 DEF Write, PInv, KernelTypes
    <3> QED
      BY <3>1, <3>2
  <2> QED
    BY <1>4, <2>1, <2>2, <2>3 DEF PInv, KernelTypes, LocalTypes
<1>6. CASE NoteSent(t)
  <2>1. UNCHANGED <<RecvStatus, SocketFD, RecvBuffer, sock, outbox, inbox, up, faults, stray,
                    lost, process, kind, fd, body, page>>
    BY <1>6 DEF NoteSent, kernelVars, serverVars, historyVars
  <2> QED
    BY <1>4, <2>1 DEF PInv, KernelTypes, LocalTypes
<1>7. CASE Sent(t) \/ NotSent(t) \/ TryAgain(t)
  <2>1. UNCHANGED <<RecvStatus, SocketFD, RecvBuffer, sock, outbox, inbox, up, faults, stray,
                    lost, process, kind, fd, body, page>>
    BY <1>7 DEF Sent, NotSent, TryAgain, connVars, statusVars, kernelVars, serverVars, historyVars
  <2> QED
    BY <1>4, <2>1 DEF PInv, KernelTypes, LocalTypes
<1>8. CASE CallRead(t)
  <2>1. /\ UNCHANGED <<RecvStatus, SocketFD, RecvBuffer, sock, outbox, inbox, up, faults, stray,
                       lost, process, kind, body, page>>
        /\ fd' = [fd EXCEPT ![t] = SocketFD[Obj(t)]]
    BY <1>8 DEF CallRead, connVars, statusVars, kernelVars, serverVars, historyVars
  <2> QED
    BY <1>2, <1>4, <2>1 DEF PInv, KernelTypes, LocalTypes
<1>9. CASE Reopen(t)
  <2>1. PICK nf \in FDs \cup {0} :
          /\ nf # 0 => sock[nf] = "free"
          /\ SocketFD' = [SocketFD EXCEPT ![Obj(t)] = nf]
          /\ Becomes(nf, "idle")
          /\ UNCHANGED <<RecvStatus, RecvBuffer, outbox, inbox, up, faults, stray,
                         process, kind, fd, body, page>>
          /\ lost' = IF SocketFD[Obj(t)] = 0 THEN lost ELSE lost + 1
    BY <1>9, NewFDFree DEF Reopen, Socket, serverVars, statusVars
  <2>2. sock' \in [FDs -> States] /\ \A f \in FDs : sock'[f] = IF f = nf THEN "idle" ELSE sock[f]
    BY <2>1, BecomesType DEF PInv, KernelTypes, States
  <2>3. KernelTypes' /\ LocalTypes'
    BY <2>1, <2>2 DEF PInv, KernelTypes, LocalTypes
  <2>4. \A u \in pool' : kind'[u] # "GET" => SocketFD'[u] = 0
    <3>1. ASSUME NEW u \in pool, kind[u] # "GET" PROVE SocketFD'[u] = 0
      <4>1. u \in Threads /\ SocketFD[u] = 0
        BY <3>1, Constants DEF PInv, IInv, Types, pool, Descriptors
      <4>2. Obj(t) # u
        <5>1. kind[t] \in {"GET", "SET"}
          BY <1>9 DEF Reopen, PInv, IInv, Own
        <5> QED
          BY <3>1, <4>1, <5>1, Constants DEF Obj
      <4> QED
        BY <2>1, <4>1, <4>2, Constants DEF PInv, Descriptors
    <3> QED
      BY <2>1, <3>1 DEF pool
  <2>5. \A f \in FDs : sock'[f] = "free" <=> sock[f] = "free" /\ f # nf
    BY <2>2
  <2>6. Descriptors'
    BY <1>2, <2>1, <2>4, <2>5, Opens DEF PInv
  <2> QED
    BY <1>1, <2>3, <2>6 DEF PInv
<1>10. CASE Reconnect(t)
  <2>1. /\ \E f \in FDs \cup {0} : Becomes(f, "up") /\ (f # 0 => sock[f] = "idle")
        /\ UNCHANGED <<RecvStatus, SocketFD, RecvBuffer, outbox, inbox, up, faults, stray,
                       lost, process, kind, fd, body, page>>
    BY <1>2, <1>10 DEF Reconnect, Connect, Is, serverVars, historyVars
  <2>2. sock' \in [FDs -> States] /\ \A f \in FDs : sock'[f] = "free" <=> sock[f] = "free"
    BY <2>1, BecomesType, ConnectionAssumption DEF PInv, KernelTypes, States, FDs
  <2> QED
    BY <1>4, <2>1, <2>2 DEF PInv, KernelTypes, LocalTypes
<1>11. CASE Receive(t)
  <2>1. PICK result \in {"reply", "end", "error"} : Read(Obj(t), fd[t], result)
    BY <1>11 DEF Receive
  <2>2. /\ UNCHANGED <<RecvStatus, SocketFD, outbox, up, faults, stray, lost, process, kind, body, page>>
        /\ fd' = [fd EXCEPT ![t] = 0]
    BY <1>11, <2>1 DEF Receive, Read, serverVars, statusVars, historyVars
  <2>3. fd[t] \in FDs \cup {0}
    BY <1>2 DEF PInv, LocalTypes
  <2>4. sock' \in [FDs -> States] /\ \A f \in FDs : sock'[f] = "free" <=> sock[f] = "free"
    BY <2>1, <2>3, ReportedType DEF Read, PInv, KernelTypes
  <2>5. inbox' \in [FDs -> Seq(Requests)] /\ RecvBuffer' \in [Objects -> Requests \cup {NoRequest}]
    <3>1. CASE UNCHANGED <<inbox, RecvBuffer>>
      BY <3>1 DEF PInv, KernelTypes
    <3>2. CASE /\ fd[t] # 0 /\ inbox[fd[t]] # <<>>
               /\ inbox' = [inbox EXCEPT ![fd[t]] = Tail(@)]
               /\ RecvBuffer' = [RecvBuffer EXCEPT ![Obj(t)] = Head(inbox[fd[t]])]
      <4>1. inbox[fd[t]] \in Seq(Requests)
        BY <2>3, <3>2 DEF PInv, KernelTypes
      <4>2. Head(inbox[fd[t]]) \in Requests /\ Tail(inbox[fd[t]]) \in Seq(Requests)
        BY <3>2, <4>1
      <4> QED
        BY <3>2, <4>2 DEF PInv, KernelTypes
    <3> QED
      BY <2>1, <3>1, <3>2 DEF Read
  <2> QED
    BY <1>4, <2>2, <2>4, <2>5 DEF PInv, KernelTypes, LocalTypes
<1>12. CASE Keep(t)
  <2>1. /\ UNCHANGED <<SocketFD, RecvBuffer, sock, outbox, inbox, up, faults, stray,
                       lost, process, kind, fd, page>>
        /\ body' = [body EXCEPT ![t] = FreshMessage(t)]
        /\ SetRecvStatus(Obj(t), rc[t])
    BY <1>12 DEF Keep, kernelVars, serverVars, historyVars
  <2>2. FreshMessage(t) \in Requests \cup {NoRequest}
    BY <1>2 DEF FreshMessage, PInv, KernelTypes
  <2>3. RecvStatus' \in [Objects -> BOOLEAN]
    <3>1. PICK b \in BOOLEAN : RecvStatus' = [RecvStatus EXCEPT ![Obj(t)] = b]
      <4>1. ((rc[t] = "reply") \/ (RecvStatus[Obj(t)] /\ rc[t] # "error")) \in BOOLEAN
        OBVIOUS
      <4> QED
        BY <2>1, <4>1 DEF SetRecvStatus
    <3> QED
      BY <3>1 DEF PInv, KernelTypes
  <2> QED
    BY <1>4, <2>1, <2>2, <2>3 DEF PInv, KernelTypes, LocalTypes
<1>13. CASE Respond(t)
  BY <1>13, RespondKeeps
<1> QED
  BY <1>5, <1>6, <1>7, <1>8, <1>9, <1>10, <1>11, <1>12, <1>13 DEF Process

(* The server opens and closes no descriptor of the process. *)
LEMMA ServerKeeps == ASSUME PInv, Server \/ UNCHANGED vars PROVE PInv'
<1>1. IInv'
  BY ServerStep DEF PInv
<1>2. UNCHANGED <<RecvStatus, SocketFD, RecvBuffer, requestVars>>
  BY DEF Server, Disturbance, Stop, Start, Cut, LoseRequest, AnswerAgain, Answer,
         statusVars, vars, connVars
<1>3. UNCHANGED <<lost, process, kind, fd, body, page>>
  BY <1>2 DEF requestVars, localVars, historyVars
<1>4. ASSUME Fault PROVE faults' \in 0 .. MaxFaults
  BY <1>4, ConnectionAssumption DEF Fault, PInv, KernelTypes
<1>5. ASSUME sock' \in [FDs -> States], \A f \in FDs : sock'[f] = "free" <=> sock[f] = "free",
             {outbox', inbox'} \subseteq [FDs -> Seq(Requests)],
             up' \in BOOLEAN, stray' \in BOOLEAN, faults' \in 0 .. MaxFaults
      PROVE  PInv'
  <2>1. KernelTypes' /\ LocalTypes'
    BY <1>2, <1>3, <1>5 DEF PInv, KernelTypes, LocalTypes
  <2> QED
    BY <1>1, <1>2, <1>3, <1>5, <2>1, Keeps DEF PInv
<1>6. CASE Stop
  <2>1. sock' \in [FDs -> States] /\ \A f \in FDs : sock'[f] = "free" <=> sock[f] = "free"
    BY <1>6 DEF Stop, Broken, States
  <2>2. outbox' \in [FDs -> Seq(Requests)]
    BY <1>6 DEF Stop
  <2> QED
    BY <1>4, <1>5, <1>6, <2>1, <2>2 DEF Stop, PInv, KernelTypes
<1>7. CASE Start
  BY <1>5, <1>7 DEF Start, kernelVars, PInv, KernelTypes
<1>8. ASSUME NEW f \in FDs, Cut(f) PROVE PInv'
  <2>1. sock' \in [FDs -> States] /\ \A g \in FDs : sock'[g] = "free" <=> sock[g] = "free"
    BY <1>8 DEF Cut, Broken, States, PInv, KernelTypes
  <2>2. outbox' \in [FDs -> Seq(Requests)]
    BY <1>8 DEF Cut, PInv, KernelTypes
  <2> QED
    BY <1>4, <1>5, <1>8, <2>1, <2>2 DEF Cut, PInv, KernelTypes
<1>9. ASSUME NEW f \in FDs, LoseRequest(f) PROVE PInv'
  <2>1. outbox' \in [FDs -> Seq(Requests)]
    <3>1. outbox[f] \in Seq(Requests) /\ outbox[f] # <<>>
      BY <1>9 DEF LoseRequest, PInv, KernelTypes
    <3> QED
      BY <1>9, <3>1 DEF LoseRequest, PInv, KernelTypes
  <2> QED
    BY <1>4, <1>5, <1>9, <2>1 DEF LoseRequest, PInv, KernelTypes
<1>10. ASSUME NEW f \in FDs, NEW n \in Requests, AnswerAgain(f, n) PROVE PInv'
  <2>1. inbox' \in [FDs -> Seq(Requests)]
    BY <1>10 DEF AnswerAgain, PInv, KernelTypes
  <2> QED
    BY <1>4, <1>5, <1>10, <2>1 DEF AnswerAgain, PInv, KernelTypes
<1>11. ASSUME NEW f \in FDs, NEW closes \in BOOLEAN, Answer(f, closes) PROVE PInv'
  <2>1. outbox' \in [FDs -> Seq(Requests)] /\ inbox' \in [FDs -> Seq(Requests)]
    <3>1. outbox[f] \in Seq(Requests) /\ outbox[f] # <<>>
      BY <1>11 DEF Answer, PInv, KernelTypes
    <3>2. Head(outbox[f]) \in Requests /\ Tail(outbox[f]) \in Seq(Requests)
      BY <3>1
    <3> QED
      BY <1>11, <3>2 DEF Answer, PInv, KernelTypes
  <2>2. sock' \in [FDs -> States] /\ \A g \in FDs : sock'[g] = "free" <=> sock[g] = "free"
    BY <1>11 DEF Answer, States, PInv, KernelTypes
  <2> QED
    BY <1>5, <1>11, <2>1, <2>2 DEF Answer, serverVars, PInv, KernelTypes
<1>12. CASE UNCHANGED vars
  BY <1>5, <1>12 DEF vars, connVars, kernelVars, serverVars, PInv, KernelTypes
<1> QED
  <2>1. ASSUME NEW f \in FDs PROVE (\E t \in Threads : f = SocketFD[t]) \in BOOLEAN
    OBVIOUS
  <2> QED
    BY <1>6, <1>7, <1>8, <1>9, <1>10, <1>11, <1>12, <2>1 DEF Server, Disturbance

LEMMA Invariance == Spec => []PInv
<1>1. PInv /\ [Next]_vars => PInv'
  BY BeginKeeps, ProcessKeeps, ServerKeeps DEF Next
<1> QED
  BY <1>1, InitPInv, PTL DEF Spec

(* Objects, descriptors and threads keep their types; there are never more *)
(* descriptors lost than the process may have.                             *)
THEOREM TypeCorrect == Spec => []TypeOK
<1>1. PInv => TypeOK
  <2> SUFFICES ASSUME PInv PROVE TypeOK
    OBVIOUS
  <2>1. ConnTypeOK
    BY DEF PInv, IInv, Types, KernelTypes, Descriptors, ConnTypeOK, States
  <2>2. lost \in 0 .. MaxSockets
    <3>1. Cardinality(Owners) \in Nat
      BY FS_CardinalityType DEF PInv, Descriptors
    <3>2. lost \in Nat /\ lost <= Cardinality(Used)
      BY <3>1 DEF PInv, Descriptors
    <3> QED
      BY <3>2, UsedFinite, ConnectionAssumption
  <2>3. last \in Requests \cup {0}
    BY Constants DEF PInv, IInv, Types
  <2>4. pc \in [Threads -> {"idle", "write", "note", "check", "test", "connect",
                           "call", "read", "keep", "respond"}]
    BY DEF PInv, IInv, Types, Waits
  <2> QED
    BY <2>1, <2>2, <2>3, <2>4 DEF PInv, IInv, Types, LocalTypes, TypeOK
<1> QED
  BY <1>1, Invariance, PTL

(* connect() is the only one that loses a descriptor: the object of a GET  *)
(* gives back the one it has, however its request ended.                   *)
THEOREM DescriptorsCounted == Spec => []LostByReconnecting
<1>1. PInv => LostByReconnecting
  BY DEF PInv, Descriptors, LostByReconnecting, Used, Owners
<1> QED
  BY <1>1, Invariance, PTL

-----------------------------------------------------------------------------
(* The loop that nothing helps. *)

(* No connection comes up but by connect(). *)
LEMMA ServerBrings ==
  ASSUME PInv, Server \/ UNCHANGED vars
  PROVE  /\ UNCHANGED <<ConnStatus, SendStatus, SocketFD, requestVars>>
         /\ \A f \in FDs : /\ sock'[f] = "up" => sock[f] = "up"
                           /\ sock[f] # "free" => sock'[f] # "free"
<1>1. UNCHANGED <<ConnStatus, SendStatus, SocketFD, requestVars>>
  BY DEF Server, Disturbance, Stop, Start, Cut, LoseRequest, AnswerAgain, Answer,
         statusVars, vars, connVars
<1>2. CASE Stop
  BY <1>1, <1>2 DEF Stop, Broken
<1>3. ASSUME NEW f \in FDs, Cut(f) \/ \E closes \in BOOLEAN : Answer(f, closes)
      PROVE  \A g \in FDs : /\ sock'[g] = "up" => sock[g] = "up"
                            /\ sock[g] # "free" => sock'[g] # "free"
  BY <1>3 DEF Cut, Answer, Broken, PInv, KernelTypes
<1>4. CASE \/ Start \/ UNCHANGED vars
           \/ \E f \in FDs : LoseRequest(f) \/ \E n \in Requests : AnswerAgain(f, n)
  BY <1>1, <1>4 DEF Start, LoseRequest, AnswerAgain, kernelVars, vars, connVars
<1> QED
  <2>1. ASSUME NEW f \in FDs PROVE (\E t \in Threads : f = SocketFD[t]) \in BOOLEAN
    OBVIOUS
  <2> QED
    BY <1>1, <1>2, <1>3, <1>4, <2>1 DEF Server, Disturbance

(* What a thread does with a GET is no other thread's affair. *)
LEMMA Undisturbed ==
  ASSUME PInv, NEW t \in pool, NEW u \in pool, u # t, kind[t] = "GET",
         Process(u) \/ \E session, payload : Begin(u, session, payload)
  PROVE  /\ pool' = pool /\ pc'[t] = pc[t] /\ rc'[t] = rc[t] /\ kind'[t] = kind[t]
         /\ ConnStatus'[t] = ConnStatus[t] /\ SendStatus'[t] = SendStatus[t]
         /\ SocketFD'[t] = SocketFD[t]
         /\ SocketFD[t] # 0 /\ sock'[SocketFD[t]] = "up" => sock[SocketFD[t]] = "up"
<1>1. t \in Threads /\ u \in Threads /\ t \in Objects /\ Obj(u) \in Objects /\ Obj(u) # t
  BY Constants DEF PInv, IInv, Types, pool, Obj
<1>2. sock \in [FDs -> States] /\ SocketFD \in [Objects -> FDs \cup {0}]
  BY DEF PInv, KernelTypes, Descriptors
<1>3. SocketFD[t] # 0 => SocketFD[t] \in FDs /\ sock[SocketFD[t]] # "free" /\ SocketFD[Obj(u)] # SocketFD[t]
  BY <1>1, <1>2 DEF PInv, Descriptors, Owners, Used
<1> USE <1>1
<1>4. ASSUME NEW session, NEW payload, Begin(u, session, payload)
      PROVE  /\ UNCHANGED <<process, rc>> /\ pc' = [pc EXCEPT ![u] = "write"]
             /\ \E k : kind' = [kind EXCEPT ![u] = k]
             /\ Construct(u) \/ UNCHANGED connVars
  BY <1>4 DEF Begin, Goto
<1>5. CASE \E session, payload : Begin(u, session, payload)
  <2>1. PICK session, payload : Begin(u, session, payload)
    BY <1>5
  <2>2. pool' = pool /\ pc'[t] = pc[t] /\ rc'[t] = rc[t] /\ kind'[t] = kind[t]
    BY <1>4, <2>1 DEF PInv, IInv, Types, pool
  <2>3. CASE UNCHANGED connVars
    BY <2>2, <2>3 DEF connVars, statusVars, kernelVars
  <2>4. CASE Construct(u)
    <3>1. SocketFD'[t] = SocketFD[t] /\ ConnStatus'[t] = ConnStatus[t]
      BY <1>2, <2>4 DEF Construct, PInv, IInv, Types
    <3>2. SendStatus'[t] = SendStatus[t]
      BY <2>4 DEF Construct, PInv, IInv, Types
    <3>3. SocketFD[t] # 0 => sock'[SocketFD[t]] = sock[SocketFD[t]]
      BY <1>2, <1>3, <2>4, NewFDFree DEF Construct, Becomes
    <3> QED
      BY <2>2, <3>1, <3>2, <3>3
  <2> QED
    BY <1>4, <2>1, <2>3, <2>4
<1>6. CASE Process(u)
  <2>1. pool' = pool /\ pc'[t] = pc[t] /\ rc'[t] = rc[t] /\ kind'[t] = kind[t]
    BY <1>6 DEF Process, Send, NoteSent, Sent, NotSent, TryAgain, Reopen, Reconnect, CallRead,
                Receive, Keep, Respond, Goto, PInv, IInv, Types, pool
  <2>2. CASE Send(u)
    <3>1. UNCHANGED <<ConnStatus, SendStatus, SocketFD>> /\ Reported(SocketFD[Obj(u)])
      BY <2>2 DEF Send, Write, statusVars
    <3>2. \A g \in FDs : sock'[g] = "up" => sock[g] = "up"
      BY <1>1, <1>2, <3>1 DEF Reported, Becomes
    <3> QED
      BY <1>3, <2>1, <3>1, <3>2
  <2>3. CASE NoteSent(u)
    BY <1>2, <1>3, <2>1, <2>3 DEF NoteSent, SetSendStatus, kernelVars, PInv, IInv, Types
  <2>4. CASE Sent(u) \/ NotSent(u) \/ TryAgain(u) \/ CallRead(u)
    BY <2>1, <2>4 DEF Sent, NotSent, TryAgain, CallRead, connVars, statusVars, kernelVars
  <2>5. CASE Reopen(u)
    <3>1. SocketFD'[t] = SocketFD[t] /\ UNCHANGED <<ConnStatus, SendStatus>>
      BY <1>2, <2>5 DEF Reopen, Socket, statusVars
    <3>2. SocketFD[t] # 0 => sock'[SocketFD[t]] = sock[SocketFD[t]]
      BY <1>2, <1>3, <2>5, NewFDFree DEF Reopen, Socket, Becomes
    <3> QED
      BY <2>1, <3>1, <3>2
  <2>6. CASE Reconnect(u)
    <3>1. SocketFD' = SocketFD /\ SendStatus' = SendStatus /\ ConnStatus'[t] = ConnStatus[t]
      BY <2>6 DEF Reconnect, Connect, PInv, IInv, Types
    <3>2. SocketFD[t] # 0 => sock'[SocketFD[t]] = sock[SocketFD[t]]
      BY <1>2, <1>3, <2>6 DEF Reconnect, Connect, Becomes
    <3> QED
      BY <2>1, <3>1, <3>2
  <2>7. CASE Receive(u)
    <3>1. UNCHANGED <<ConnStatus, SendStatus, SocketFD>> /\ Reported(fd[u])
      BY <2>7 DEF Receive, Read, statusVars
    <3>2. \A g \in FDs : sock'[g] = "up" => sock[g] = "up"
      BY <1>2, <3>1 DEF Reported, Becomes
    <3> QED
      BY <1>3, <2>1, <3>1, <3>2
  <2>8. CASE Keep(u)
    BY <2>1, <2>8 DEF Keep, SetRecvStatus, kernelVars, PInv, IInv, Types
  <2>9. CASE Respond(u)
    <3>1. CASE kind[u] = "GET"
      <4>1. CloseSocket(u) /\ Obj(u) = u
        BY <2>9, <3>1 DEF Respond, EndRequest, Obj
      <4>2. SocketFD'[t] = SocketFD[t]
        BY <1>2, <4>1 DEF CloseSocket
      <4>3. ConnStatus'[t] = ConnStatus[t] /\ SendStatus'[t] = SendStatus[t]
        BY <4>1 DEF CloseSocket, PInv, IInv, Types
      <4>4. SocketFD[t] # 0 => sock'[SocketFD[t]] = sock[SocketFD[t]]
        BY <1>2, <1>3, <4>1 DEF CloseSocket, Becomes
      <4> QED
        BY <2>1, <4>2, <4>3, <4>4
    <3>2. CASE kind[u] # "GET"
      BY <2>1, <2>9, <3>2 DEF Respond, EndRequest, connVars, statusVars, kernelVars
    <3> QED
      BY <3>1, <3>2
  <2> QED
    BY <1>6, <2>2, <2>3, <2>4, <2>5, <2>6, <2>7, <2>8, <2>9 DEF Process
<1> QED
  BY <1>5, <1>6

(* So the other threads leave t where it is, *)
LEMMA OthersLeave ==
  ASSUME PInv, NEW t \in pool, NEW u \in pool, u # t, Hopeless(t),
         Process(u) \/ \E session, payload : Begin(u, session, payload)
  PROVE  Hopeless(t)'
<1>1. kind[t] = "GET" /\ ConnStatus[t] /\ pc[t] # "connect" /\ Obj(t) = t
  BY DEF Hopeless, Alone, Obj
<1>2. /\ pool' = pool /\ pc'[t] = pc[t] /\ rc'[t] = rc[t] /\ kind'[t] = kind[t]
      /\ ConnStatus'[t] = ConnStatus[t] /\ SendStatus'[t] = SendStatus[t]
      /\ SocketFD'[t] = SocketFD[t]
      /\ SocketFD[t] # 0 /\ sock'[SocketFD[t]] = "up" => sock[SocketFD[t]] = "up"
  BY <1>1, Undisturbed
<1>3. Obj(t)' = t
  BY <1>1, <1>2 DEF Obj
<1> QED
  BY <1>1, <1>2, <1>3 DEF Hopeless, InLoop, Alone, Is

(* the server brings no help, *)
LEMMA ServerLeaves ==
  ASSUME PInv, NEW t \in pool, Hopeless(t), Server \/ UNCHANGED vars
  PROVE  Hopeless(t)'
<1>1. UNCHANGED <<ConnStatus, SendStatus, SocketFD, pc, rc, kind, process>>
  BY ServerBrings DEF requestVars, localVars
<1>2. Obj(t)' = Obj(t) /\ Obj(t) \in Objects /\ pool' = pool
  BY <1>1, Constants DEF Obj, pool, PInv, IInv, Types
<1>3. SocketFD[Obj(t)] \in FDs \cup {0}
  BY <1>2 DEF PInv, Descriptors
<1>4. ~Is(Obj(t), "up")'
  BY <1>1, <1>2, <1>3, ServerBrings DEF Hopeless, Is
<1>5. NoSocketLeft => NoSocketLeft'
  BY ServerBrings DEF NoSocketLeft
<1>6. InLoop(t)' /\ (Alone(t) => Alone(t)')
  BY <1>1, <1>2 DEF Hopeless, InLoop, Alone
<1> QED
  BY <1>1, <1>2, <1>4, <1>5, <1>6 DEF Hopeless

(* and what t itself does leads nowhere. *)
LEMMA OwnLeaves ==
  ASSUME PInv, NEW t \in pool, Hopeless(t),
         Process(t) \/ \E session, payload : Begin(t, session, payload)
  PROVE  Hopeless(t)'
<1>1. /\ t \in Threads /\ Obj(t) \in Objects
      /\ pc \in [Threads -> {"idle", "write", "note", "check", "test", "connect"} \cup Waits]
      /\ rc \in [Threads -> {"none", "ok", "reply", "end", "error"}]
      /\ {ConnStatus, SendStatus} \subseteq [Objects -> BOOLEAN]
  BY Constants DEF PInv, IInv, Types, pool, Obj
<1>2. sock \in [FDs -> States] /\ SocketFD \in [Objects -> FDs \cup {0}]
  BY DEF PInv, KernelTypes, Descriptors
<1>3. InLoop(t) /\ ~Is(Obj(t), "up")
  BY DEF Hopeless
<1>4. CASE Send(t)
  <2>1. /\ UNCHANGED <<ConnStatus, SendStatus, SocketFD, process, kind>>
        /\ pc[t] = "write" /\ pc'[t] = "note" /\ rc'[t] = "error" /\ Reported(SocketFD[Obj(t)])
    BY <1>1, <1>3, <1>4 DEF Send, Write, Goto, statusVars
  <2>2. \A f \in FDs : /\ sock'[f] = "up" => sock[f] = "up"
                       /\ sock[f] # "free" => sock'[f] # "free"
    BY <1>1, <1>2, <2>1 DEF Reported, Becomes
  <2>3. pool' = pool /\ Obj(t)' = Obj(t) /\ InLoop(t)' /\ (Alone(t) => Alone(t)')
    BY <2>1 DEF pool, Obj, InLoop, Alone
  <2>4. ~Is(Obj(t), "up")' /\ (NoSocketLeft => NoSocketLeft')
    BY <1>1, <1>2, <1>3, <2>1, <2>2, <2>3 DEF Is, NoSocketLeft
  <2> QED
    BY <2>1, <2>3, <2>4 DEF Hopeless
<1>5. CASE NoteSent(t)
  <2>1. /\ UNCHANGED <<SocketFD, sock, process, kind>>
        /\ pc[t] = "note" /\ pc'[t] = "check"
        /\ ConnStatus'[Obj(t)] = ConnStatus[Obj(t)] /\ ~SendStatus'[Obj(t)]
    <3>1. pc[t] = "note" /\ rc[t] # "ok" /\ pc'[t] = "check"
      BY <1>1, <1>3, <1>5 DEF NoteSent, InLoop, Goto
    <3>2. ConnStatus'[Obj(t)] = (rc[t] = "ok" \/ ConnStatus[Obj(t)]) /\ SendStatus'[Obj(t)] = (rc[t] = "ok")
      BY <1>1, <1>5 DEF NoteSent, SetSendStatus
    <3> QED
      BY <1>1, <1>5, <3>1, <3>2 DEF NoteSent, kernelVars
  <2>2. pool' = pool /\ Obj(t)' = Obj(t) /\ InLoop(t)' /\ (Alone(t) => Alone(t)')
    BY <2>1 DEF pool, Obj, InLoop, Alone
  <2> QED
    BY <1>3, <2>1, <2>2 DEF Hopeless, Is, NoSocketLeft
<1>6. CASE NotSent(t) \/ TryAgain(t)
  <2>1. /\ UNCHANGED <<ConnStatus, SendStatus, SocketFD, sock, process, kind, rc>>
        /\ pc'[t] \in {"test", "write"}
    BY <1>1, <1>6 DEF NotSent, TryAgain, Goto, connVars, statusVars, kernelVars
  <2>2. pool' = pool /\ Obj(t)' = Obj(t) /\ InLoop(t)' /\ (Alone(t) => Alone(t)')
    BY <2>1 DEF pool, Obj, InLoop, Alone
  <2> QED
    BY <1>3, <2>1, <2>2 DEF Hopeless, Is, NoSocketLeft
<1>7. CASE Reopen(t)
  <2>1. pc[t] = "test" /\ ~ConnStatus[Obj(t)]
    BY <1>7 DEF Reopen
  <2>2. pool = {t} /\ NoSocketLeft /\ NewFD = 0
    BY <2>1 DEF Hopeless, NoSocketLeft, NewFD
  <2>3. /\ UNCHANGED <<ConnStatus, SendStatus, sock, process, kind, rc>>
        /\ SocketFD'[Obj(t)] = 0 /\ pc'[t] = "connect"
    BY <1>1, <1>2, <1>7, <2>2 DEF Reopen, Socket, Becomes, Goto, statusVars
  <2>4. pool' = pool /\ Obj(t)' = Obj(t)
    BY <2>3 DEF pool, Obj
  <2> QED
    BY <2>2, <2>3, <2>4 DEF Hopeless, InLoop, Is, NoSocketLeft
<1>8. CASE Reconnect(t)
  <2>1. pc[t] = "connect" /\ Connect(Obj(t))
    BY <1>8 DEF Reconnect
  <2>2. pool = {t} /\ NoSocketLeft /\ SocketFD[Obj(t)] = 0
    BY <2>1 DEF Hopeless
  <2>3. ~Is(Obj(t), "idle")
    BY <2>2 DEF Is
  <2>4. UNCHANGED <<SocketFD, sock, process, kind, rc>> /\ pc'[t] = "write"
    BY <1>1, <1>8, <2>1, <2>3 DEF Reconnect, Connect, Becomes, Goto
  <2>5. pool' = pool /\ Obj(t)' = Obj(t)
    BY <2>4 DEF pool, Obj
  <2> QED
    BY <2>2, <2>4, <2>5 DEF Hopeless, InLoop, Is, NoSocketLeft
<1>9. ~Sent(t) /\ ~CallRead(t) /\ ~Receive(t) /\ ~Keep(t) /\ ~Respond(t)
      /\ \A session, payload : ~Begin(t, session, payload)
  BY <1>3 DEF InLoop, Sent, CallRead, Receive, Keep, Respond, Begin
<1> QED
  BY <1>4, <1>5, <1>6, <1>7, <1>8, <1>9 DEF Process

(* A thread that is in the retry loop on a lost connection whose           *)
(* ConnStatus is true, or without any descriptor left, stays there: no     *)
(* step of the server, of another thread or of its own gets it out.        *)
THEOREM StaysHopeless == Spec => HopelessForEver
<1>1. ASSUME PInv, [Next]_vars PROVE \A t \in pool : Hopeless(t) => Hopeless(t)'
  <2> SUFFICES ASSUME NEW t \in pool, Hopeless(t) PROVE Hopeless(t)'
    OBVIOUS
  <2>1. CASE Server \/ UNCHANGED vars
    BY <1>1, <2>1, ServerLeaves
  <2>2. ASSUME NEW u \in pool,
               Process(u) \/ \E session, payload : Begin(u, session, payload)
        PROVE  Hopeless(t)'
    BY <1>1, <2>2, OthersLeave, OwnLeaves
  <2> QED
    BY <1>1, <2>1, <2>2 DEF Next
<1> QED
  BY <1>1, Invariance, PTL DEF Spec, HopelessForEver
-----------------------------------------------------------------------------
(* Whose reply is shown.  As long as the server wrote no answer that       *)
(* nobody waits for, a connection that one request has to itself carries   *)
(* that request or its answer and nothing else, so its thread reads its    *)
(* own reply, and leaves nothing behind for the next one.                  *)

(* Nothing is under way on descriptor f, or request n, or its answer. *)
Empty(f) == outbox[f] = <<>> /\ inbox[f] = <<>>
Holds(f, n) ==
  \/ Empty(f)
  \/ written[n] = 1 /\ outbox[f] = <<n>> /\ inbox[f] = <<>>
  \/ written[n] = 1 /\ outbox[f] = <<>> /\ inbox[f] = <<n>> /\ sock[f] # "reset"

(* The request of t shares its connection with no other one, and none did *)
(* before.                                                                *)
Safe(t) == pc[t] # "idle" /\ (kind[t] = "GET" \/ crossed = {})

ReplyTo(t) ==
  /\ SocketFD[Obj(t)] # 0 =>
       /\ Holds(SocketFD[Obj(t)], req[t])
       /\ pc[t] \in {"keep", "respond"} => Empty(SocketFD[Obj(t)])
  /\ pc[t] = "read" => fd[t] = SocketFD[Obj(t)]
  /\ pc[t] = "keep" /\ rc[t] = "reply" => RecvBuffer[Obj(t)] = req[t]
  /\ body[t] \in {NoRequest, req[t]}

(* Between two SETs their connection is empty. *)
AtRest ==
  crossed = {} /\ (\A t \in pool : kind[t] # "SET") /\ SocketFD[ConnSetObj] # 0
    => Empty(SocketFD[ConnSetObj])

Quiet ==
  \A f \in FDs : /\ sock[f] # "up" => outbox[f] = <<>>
                 /\ sock[f] \in {"free", "idle"} => inbox[f] = <<>>

Crossing ==
  /\ \A n \in crossed : n <= last
  /\ \A t \in pool : kind[t] = "GET" => req[t] \notin crossed
  /\ \A t \in pool : pc[t] = "idle" => body[t] = NoRequest
  /\ \A t \in Threads \ pool : SocketFD[t] = 0

Tidy ==
  /\ Quiet /\ AtRest
  /\ \A t \in pool : Safe(t) => ReplyTo(t)
  /\ \A n \in Requests : page[n] = "other" => crossed # {}

RInv == Crossing /\ (~stray => Tidy)

(* A descriptor from which another thread reads at most. *)
Untouched(f) ==
  /\ outbox'[f] = outbox[f]
  /\ \/ inbox'[f] = inbox[f]
     \/ inbox[f] # <<>> /\ inbox'[f] = Tail(inbox[f])
  /\ \/ sock'[f] = sock[f]
     \/ sock[f] = "reset" /\ sock'[f] = "broken"

LEMMA OneElement ==
  ASSUME NEW S, NEW n \in S
  PROVE  Append(<<>>, n) = <<n>> /\ Head(<<n>>) = n /\ Tail(<<n>>) = <<>> /\ <<n>> # <<>>
<1>1. <<>> \in Seq(S) /\ Len(<<>>) = 0 /\ <<n>> \in Seq(S) /\ Len(<<n>>) = 1 /\ <<n>>[1] = n
  OBVIOUS
<1>2. Head(<<n>>) = n /\ <<n>> # <<>>
  BY <1>1
<1>3. Tail(<<n>>) = <<>>
  <2>1. Tail(<<n>>) \in Seq(S) /\ Len(Tail(<<n>>)) = 0
    BY <1>1
  <2> QED
    BY <2>1
<1>4. Append(<<>>, n) = <<n>>
  <2>1. Append(<<>>, n) \in Seq(S) /\ Len(Append(<<>>, n)) = 1 /\ Append(<<>>, n)[1] = n
    BY <1>1
  <2> QED
    BY <1>1, <2>1
<1> QED
  BY <1>2, <1>3, <1>4

(* What is under way becomes no more by that. *)
LEMMA LeftAlone ==
  ASSUME NEW f, NEW n \in Requests, Untouched(f), written'[n] = written[n]
  PROVE  /\ Empty(f) => Empty(f)'
         /\ Holds(f, n) => Holds(f, n)'
<1>1. Empty(f) => Empty(f)'
  BY DEF Untouched, Empty
<1>2. ASSUME inbox[f] = <<n>>, outbox[f] = <<>> PROVE inbox'[f] = <<n>> \/ Empty(f)'
  BY <1>2, OneElement DEF Untouched, Empty
<1> QED
  BY <1>1, <1>2 DEF Holds, Untouched, Empty

(* A request that has its connection to itself. *)
LEMMA SafeOne ==
  ASSUME PInv, Crossing, NEW t \in pool, Safe(t)
  PROVE  /\ t \in Threads /\ Obj(t) \in Objects /\ SocketFD[Obj(t)] \in FDs \cup {0}
         /\ req[t] \in Requests /\ req[t] \notin crossed /\ Placed(t)
<1>1. t \in Threads /\ Obj(t) \in Objects /\ SocketFD[Obj(t)] \in FDs \cup {0}
  BY Constants DEF PInv, IInv, Types, pool, Obj, Descriptors
<1>2. req[t] \in 1 .. last /\ last \in Requests \cup {0}
  BY Constants DEF PInv, IInv, Types, Own, Safe
<1>3. req[t] \in Requests
  BY <1>2, Constants
<1>4. req[t] \notin crossed
  BY DEF Safe, Crossing
<1> QED
  BY <1>1, <1>3, <1>4 DEF Safe, PInv, IInv

LEMMA SafeApart ==
  ASSUME PInv, Crossing, NEW t \in pool, NEW u \in pool, t # u, Safe(u), pc[t] # "idle"
  PROVE  /\ Obj(u) # Obj(t) /\ req[u] # req[t]
         /\ SocketFD[Obj(u)] # 0 => SocketFD[Obj(u)] # SocketFD[Obj(t)]
<1>1. Obj(u) # Obj(t)
  BY ObjApart, SafeOne DEF PInv, Safe
<1>2. req[u] # req[t]
  BY DEF PInv, IInv, Apart, Safe
<1>3. Obj(u) \in Objects /\ Obj(t) \in Objects
  BY Constants DEF PInv, IInv, Types, pool, Obj
<1> QED
  BY <1>1, <1>2, <1>3 DEF PInv, Descriptors, Owners

(* Used descriptors are not free. *)
LEMMA OwnedUsed ==
  ASSUME PInv, NEW o \in Objects, SocketFD[o] # 0
  PROVE  SocketFD[o] \in FDs /\ sock[SocketFD[o]] # "free"
BY DEF PInv, Descriptors, Owners, Used

(* A request whose thread, object and descriptor a step leaves alone. *)
LEMMA Bystander ==
  ASSUME PInv, Crossing, Tidy, NEW u \in pool, Safe(u),
         kind'[u] = kind[u], pc'[u] = pc[u], req'[u] = req[u],
         fd'[u] = fd[u], rc'[u] = rc[u], body'[u] = body[u],
         SocketFD'[Obj(u)] = SocketFD[Obj(u)], RecvBuffer'[Obj(u)] = RecvBuffer[Obj(u)],
         written'[req[u]] = written[req[u]],
         SocketFD[Obj(u)] # 0 => Untouched(SocketFD[Obj(u)])
  PROVE  ReplyTo(u)'
<1>1. req[u] \in Requests /\ ReplyTo(u) /\ Obj(u)' = Obj(u)
  BY SafeOne DEF Tidy, Obj
<1>2. SocketFD[Obj(u)] # 0 =>
        /\ Holds(SocketFD[Obj(u)], req[u]) => Holds(SocketFD[Obj(u)], req[u])'
        /\ Empty(SocketFD[Obj(u)]) => Empty(SocketFD[Obj(u)])'
  <2> DEFINE f == SocketFD[Obj(u)]
             n == req[u]
  <2>1. f' = f /\ n' = n /\ n \in Requests /\ (f # 0 => Untouched(f)) /\ written'[n] = written[n]
    BY <1>1
  <2> HIDE DEF f, n
  <2>2. f # 0 => /\ Holds(f, n) => Holds(f, n)'
                 /\ Empty(f) => Empty(f)'
    BY <2>1, LeftAlone
  <2> QED
    BY <2>2 DEF f, n
<1> QED
  BY <1>1, <1>2 DEF ReplyTo

LEMMA RestKept ==
  ASSUME AtRest, SocketFD'[ConnSetObj] = SocketFD[ConnSetObj],
         SocketFD[ConnSetObj] # 0 => Untouched(SocketFD[ConnSetObj]),
         crossed' = {} => crossed = {},
         (\A t \in pool' : kind'[t] # "SET") => \A t \in pool : kind[t] # "SET"
  PROVE  AtRest'
<1> SUFFICES ASSUME crossed' = {}, \A t \in pool' : kind'[t] # "SET", SocketFD'[ConnSetObj] # 0
             PROVE  Empty(SocketFD[ConnSetObj])'
  BY DEF AtRest
<1>1. PICK f : f = SocketFD[ConnSetObj] /\ SocketFD'[ConnSetObj] = f /\ f # 0
  OBVIOUS
<1>2. Empty(f) /\ Untouched(f)
  BY <1>1 DEF AtRest
<1> QED
  BY <1>1, <1>2 DEF Empty, Untouched

(* A step within a request: what is left to be shown is its own part. *)
LEMMA RWithin ==
  ASSUME PInv, RInv, NEW t \in pool, pc[t] # "idle", pc'[t] # "idle",
         UNCHANGED <<process, last, req, kind, crossed, stray, page>>,
         \A u \in Threads \ {t} :
           pc'[u] = pc[u] /\ fd'[u] = fd[u] /\ rc'[u] = rc[u] /\ body'[u] = body[u],
         \A o \in Objects \ {Obj(t)} : SocketFD'[o] = SocketFD[o] /\ RecvBuffer'[o] = RecvBuffer[o],
         \A n \in Requests \ {req[t]} : written'[n] = written[n],
         \A f \in FDs : sock[f] # "free" /\ f # SocketFD[Obj(t)] => Untouched(f),
         ~stray => Quiet' /\ (Safe(t) => ReplyTo(t)')
  PROVE  RInv'
<1>1. pool' = pool /\ pool \subseteq Threads /\ t \in Threads /\ Obj(t)' = Obj(t)
  BY Constants DEF PInv, IInv, Types, pool, Obj
<1>2. kind[t] \in {"GET", "SET"}
  BY DEF PInv, IInv, Own
<1>3. Crossing'
  <2>1. \A u \in pool : pc'[u] = "idle" => pc[u] = "idle" /\ body'[u] = body[u]
    BY <1>1
  <2>2. \A u \in Threads \ pool : u \in Objects /\ u # Obj(t)
    BY <1>1, Constants DEF Obj
  <2> QED
    BY <1>1, <2>1, <2>2 DEF RInv, Crossing
<1> SUFFICES ASSUME ~stray PROVE Tidy'
  BY <1>3 DEF RInv
<1>4. Crossing /\ Tidy
  BY DEF RInv
<1>5. ASSUME NEW u \in pool, u # t, Safe(u) PROVE ReplyTo(u)'
  <2>1. /\ u \in Threads /\ Obj(u) \in Objects /\ Obj(u) # Obj(t) /\ Obj(u)' = Obj(u)
        /\ req[u] \in Requests /\ req[u] # req[t] /\ ReplyTo(u)
    BY <1>4, <1>5, SafeOne, SafeApart DEF Tidy, Obj
  <2>2. SocketFD[Obj(u)] # 0 => Untouched(SocketFD[Obj(u)])
    BY <1>4, <1>5, <2>1, SafeApart, OwnedUsed
  <2>3. /\ pc'[u] = pc[u] /\ fd'[u] = fd[u] /\ rc'[u] = rc[u] /\ body'[u] = body[u]
        /\ SocketFD'[Obj(u)] = SocketFD[Obj(u)] /\ RecvBuffer'[Obj(u)] = RecvBuffer[Obj(u)]
        /\ written'[req[u]] = written[req[u]] /\ req' = req /\ kind' = kind
    BY <1>5, <2>1
  <2> QED
    BY <1>4, <1>5, <2>2, <2>3, Bystander
<1>6. \A u \in pool' : Safe(u)' => ReplyTo(u)'
  <2>1. \A u \in pool : Safe(u)' => Safe(u)
    BY <1>1 DEF Safe
  <2> QED
    BY <1>1, <1>5, <2>1
<1>7. AtRest'
  <2>1. CASE kind[t] = "SET"
    BY <1>1, <2>1 DEF AtRest
  <2>2. CASE kind[t] = "GET"
    <3>1. ConnSetObj # Obj(t) /\ ConnSetObj \in Objects /\ Obj(t) \in Objects
      BY <1>1, <2>2, Constants DEF Obj
    <3>2. SocketFD[ConnSetObj] # 0 => SocketFD[ConnSetObj] # SocketFD[Obj(t)]
      BY <3>1 DEF PInv, Descriptors, Owners
    <3>3. SocketFD[ConnSetObj] # 0 => Untouched(SocketFD[ConnSetObj])
      BY <3>1, <3>2, OwnedUsed
    <3> QED
      BY <1>1, <1>4, <3>1, <3>3, RestKept DEF Tidy
  <2> QED
    BY <1>2, <2>1, <2>2
<1> QED
  BY <1>4, <1>6, <1>7 DEF Tidy

LEMMA RStart == ASSUME Init PROVE RInv
<1>1. Crossing
  BY Constants DEF Init, Crossing, pool
<1>2. Quiet /\ AtRest
  <2>1. SocketFD[ConnSetObj] \in FDs
    BY Constants, ConnectionAssumption DEF Init, FDs
  <2>2. \A f \in FDs : Empty(f)
    BY DEF Init, Empty
  <2> QED
    BY <2>1, <2>2 DEF Quiet, AtRest, Empty
<1>3. \A t \in pool : ~Safe(t)
  BY Constants DEF Init, Safe, pool
<1>4. \A n \in Requests : page[n] # "other"
  BY DEF Init
<1> QED
  BY <1>1, <1>2, <1>3, <1>4 DEF RInv, Tidy

(* A request comes in: a SET finds its connection empty, or crosses        *)
(* another one; a GET has a new one.                                       *)
LEMMA RBegin ==
  ASSUME PInv, RInv, NEW t \in pool, NEW session, NEW payload, Begin(t, session, payload)
  PROVE  RInv'
<1>1. t \in Threads /\ t \in Objects /\ pool \subseteq Threads /\ pool' = pool /\ t # ConnSetObj
  BY Constants DEF PInv, IInv, Types, pool, Begin
<1>2. PICK type \in {"GET", "SET"} :
        /\ kind' = [kind EXCEPT ![t] = type]
        /\ req' = [req EXCEPT ![t] = last + 1] /\ last' = last + 1
        /\ IF type = "GET" THEN Construct(t) ELSE UNCHANGED connVars
        /\ crossed' = IF type = "SET" /\ OtherSets(t) # {}
                      THEN crossed \cup OtherSets(t) \cup {last + 1} ELSE crossed
        /\ pc' = [pc EXCEPT ![t] = "write"]
        /\ UNCHANGED <<process, fd, rc, body, page>>
  BY DEF Begin, Accepts, Goto
<1>3. last \in Nat /\ pc[t] = "idle" /\ kind[t] = "none" /\ Crossing
  BY Constants DEF PInv, IInv, Types, Own, Begin, RInv
<1>4. ASSUME NEW u \in pool, u # t
      PROVE  /\ u \in Threads /\ kind'[u] = kind[u] /\ req'[u] = req[u] /\ pc'[u] = pc[u]
             /\ kind[u] # "none" => req[u] \in 1 .. last /\ pc[u] # "idle"
  BY <1>1, <1>2, <1>4 DEF PInv, IInv, Types, Own
<1>5. kind'[t] = type /\ req'[t] = last + 1 /\ pc'[t] = "write"
  BY <1>1, <1>2 DEF PInv, IInv, Types
<1>6. \A n \in OtherSets(t) : n <= last
  BY <1>3, <1>4 DEF OtherSets
<1>7. Crossing'
  <2>1. \A n \in crossed' : n <= last'
    <3> SUFFICES ASSUME NEW n \in crossed' PROVE n <= last + 1
      BY <1>2
    <3>1. n \in crossed \/ n \in OtherSets(t) \/ n = last + 1
      BY <1>2
    <3>2. n \in OtherSets(t) => n \in Nat
      BY <1>4 DEF OtherSets
    <3>3. n \in crossed => n \in Nat
      BY Constants DEF PInv, IInv, Types
    <3> QED
      BY <1>3, <1>6, <3>1, <3>2, <3>3 DEF Crossing
  <2>2. ASSUME NEW u \in pool, kind'[u] = "GET" PROVE req'[u] \notin crossed'
    <3>1. CASE u = t
      <4>1. crossed' = crossed
        BY <1>2, <1>5, <2>2, <3>1
      <4>2. \A n \in crossed : n \in Nat /\ n <= last
        BY <1>3, Constants DEF PInv, IInv, Types, Crossing
      <4> QED
        BY <1>3, <1>5, <3>1, <4>1, <4>2
    <3>2. CASE u # t
      <4>1. kind[u] = "GET" /\ req[u] \in 1 .. last /\ pc[u] # "idle" /\ req'[u] = req[u]
        BY <1>4, <2>2, <3>2
      <4>2. req[u] \notin crossed /\ req[u] # last + 1
        BY <1>3, <4>1 DEF Crossing
      <4>3. req[u] \notin OtherSets(t)
        <5> SUFFICES ASSUME NEW v \in pool, kind[v] = "SET", v # t PROVE req[u] # req[v]
          BY DEF OtherSets
        <5>1. pc[v] # "idle" /\ v # u
          BY <1>4, <4>1
        <5> QED
          BY <4>1, <5>1 DEF PInv, IInv, Apart
      <4> QED
        BY <1>2, <4>1, <4>2, <4>3
    <3> QED
      BY <3>1, <3>2
  <2>3. \A u \in pool : pc'[u] = "idle" => body'[u] = NoRequest
    BY <1>2, <1>3, <1>4, <1>5 DEF Crossing
  <2>4. \A u \in Threads \ pool : SocketFD'[u] = 0
    <3>1. \A u \in Threads \ pool : SocketFD'[u] = SocketFD[u]
      BY <1>1, <1>2, Constants DEF Construct, connVars, PInv, Descriptors
    <3> QED
      BY <1>3, <3>1 DEF Crossing
  <2> QED
    BY <1>1, <2>1, <2>2, <2>3, <2>4 DEF Crossing
<1>8. stray' = stray
  BY <1>2 DEF Construct, connVars
<1> SUFFICES ASSUME ~stray PROVE Tidy'
  BY <1>7, <1>8 DEF RInv
<1>9. Tidy
  BY DEF RInv
<1>10. crossed' = {} => crossed = {} /\ (type = "SET" => OtherSets(t) = {})
  BY <1>2
<1>11. ASSUME \A f \in FDs : sock[f] # "free" => Untouched(f), written' = written,
              \A o \in Objects \ {t} : SocketFD'[o] = SocketFD[o] /\ RecvBuffer'[o] = RecvBuffer[o],
              Quiet', AtRest', Safe(t)' => ReplyTo(t)'
       PROVE  Tidy'
  <2>1. ASSUME NEW u \in pool, u # t, Safe(u)' PROVE ReplyTo(u)'
    <3>1. Safe(u) /\ Obj(u) # t /\ Obj(u) \in Objects
      <4>1. Safe(u)
        BY <1>4, <1>10, <2>1 DEF Safe
      <4> QED
        BY <1>1, <1>3, <2>1, <4>1, SafeOne DEF Obj
    <3>2. /\ kind'[u] = kind[u] /\ pc'[u] = pc[u] /\ req'[u] = req[u]
          /\ fd'[u] = fd[u] /\ rc'[u] = rc[u] /\ body'[u] = body[u]
      BY <1>2, <1>4, <2>1
    <3>3. SocketFD'[Obj(u)] = SocketFD[Obj(u)] /\ RecvBuffer'[Obj(u)] = RecvBuffer[Obj(u)]
      BY <1>11, <3>1
    <3>4. SocketFD[Obj(u)] # 0 => Untouched(SocketFD[Obj(u)])
      BY <1>11, <3>1, OwnedUsed
    <3> QED
      BY <1>3, <1>9, <1>11, <3>1, <3>2, <3>3, <3>4, Bystander
  <2>2. \A n \in Requests : page'[n] = "other" => crossed' # {}
    BY <1>2, <1>9, <1>10 DEF Tidy
  <2> QED
    BY <1>1, <1>11, <2>1, <2>2 DEF Tidy
<1>12. CASE type = "SET"
  <2>1. UNCHANGED <<SocketFD, RecvBuffer, sock, outbox, inbox, written>>
    BY <1>2, <1>12 DEF connVars, kernelVars
  <2>2. Quiet' /\ AtRest'
    <3>1. Quiet'
      BY <1>9, <2>1 DEF Tidy, Quiet
    <3> QED
      BY <1>1, <1>5, <1>12, <3>1 DEF AtRest
  <2>3. ASSUME Safe(t)' PROVE ReplyTo(t)'
    <3>1. crossed = {} /\ OtherSets(t) = {} /\ Obj(t)' = ConnSetObj
      BY <1>5, <1>10, <1>12, <2>3 DEF Safe, Obj
    <3>2. \A u \in pool : kind[u] # "SET"
      BY <1>3, <3>1 DEF OtherSets
    <3>3. SocketFD[ConnSetObj] # 0 => Empty(SocketFD[ConnSetObj])
      BY <1>9, <3>1, <3>2 DEF Tidy, AtRest
    <3>4. body'[t] = NoRequest
      BY <1>2, <1>3 DEF Crossing
    <3> QED
      BY <1>5, <2>1, <3>1, <3>3, <3>4 DEF ReplyTo, Holds, Empty
  <2> QED
    BY <1>11, <2>1, <2>2, <2>3 DEF Untouched
<1>13. CASE type = "GET"
  <2>1. PICK nf \in FDs \cup {0}, how \in {"up", "idle"} :
          /\ nf # 0 => sock[nf] = "free"
          /\ SocketFD' = [SocketFD EXCEPT ![t] = nf]
          /\ Becomes(nf, how)
          /\ UNCHANGED <<RecvBuffer, outbox, inbox, written>>
    BY <1>2, <1>13, NewFDFree DEF Construct
  <2>2. \A f \in FDs : sock'[f] = IF f = nf THEN how ELSE sock[f]
    BY <2>1, BecomesType DEF PInv, KernelTypes, States
  <2>3. \A f \in FDs : sock[f] # "free" => Untouched(f)
    BY <2>1, <2>2, ConnectionAssumption DEF Untouched, FDs
  <2>4. nf # 0 => Empty(nf)
    BY <1>9, <2>1 DEF Tidy, Quiet, Empty
  <2>5. Quiet'
    <3> SUFFICES ASSUME NEW f \in FDs
                 PROVE  /\ sock'[f] # "up" => outbox[f] = <<>>
                        /\ sock'[f] \in {"free", "idle"} => inbox[f] = <<>>
      BY <2>1 DEF Quiet
    <3>1. CASE f = nf
      BY <2>4, <3>1, ConnectionAssumption DEF Empty, FDs
    <3>2. CASE f # nf
      BY <1>9, <2>2, <3>2 DEF Tidy, Quiet
    <3> QED
      BY <3>1, <3>2
  <2>6. \A o \in Objects \ {t} : SocketFD'[o] = SocketFD[o] /\ RecvBuffer'[o] = RecvBuffer[o]
    BY <2>1 DEF PInv, Descriptors
  <2>7. AtRest'
    <3>1. ConnSetObj \in Objects
      BY Constants
    <3>2. SocketFD[ConnSetObj] # 0 => Untouched(SocketFD[ConnSetObj])
      BY <2>3, <3>1, OwnedUsed
    <3>3. (\A u \in pool' : kind'[u] # "SET") => \A u \in pool : kind[u] # "SET"
      BY <1>1, <1>3, <1>4
    <3> QED
      BY <1>1, <1>9, <1>10, <2>6, <3>1, <3>2, <3>3, RestKept DEF Tidy
  <2>8. ReplyTo(t)'
    <3>1. Obj(t)' = t /\ SocketFD'[t] = nf /\ body'[t] = NoRequest
      BY <1>1, <1>2, <1>3, <1>5, <1>13, <2>1 DEF Obj, PInv, Descriptors, Crossing
    <3>2. nf # 0 => outbox'[nf] = <<>> /\ inbox'[nf] = <<>>
      BY <2>1, <2>4 DEF Empty
    <3> QED
      BY <1>5, <3>1, <3>2 DEF ReplyTo, Holds, Empty
  <2> QED
    BY <1>11, <2>1, <2>3, <2>5, <2>6, <2>7, <2>8
<1> QED
  BY <1>12, <1>13

(* A request is answered to the browser: what was read is its own reply,   *)
(* and nothing is left under way.                                          *)
LEMMA RRespond == ASSUME PInv, RInv, NEW t \in pool, Respond(t) PROVE RInv'
<1>1. /\ t \in Threads /\ t \in Objects /\ pool \subseteq Threads /\ pool' = pool
      /\ t # ConnSetObj /\ ConnSetObj \in Objects
  BY Constants DEF PInv, IInv, Types, pool, Respond
<1>2. /\ pc[t] = "respond" /\ EndRequest(t)
      /\ pc' = [pc EXCEPT ![t] = "idle"] /\ req' = [req EXCEPT ![t] = NoRequest]
      /\ kind' = [kind EXCEPT ![t] = "none"] /\ body' = [body EXCEPT ![t] = NoRequest]
      /\ UNCHANGED <<process, last, fd, rc, crossed>>
  BY DEF Respond, Goto
<1>3. kind[t] \in {"GET", "SET"} /\ Crossing
  BY <1>2 DEF PInv, IInv, Own, RInv
<1>4. ASSUME NEW u \in pool, u # t
      PROVE  /\ u \in Threads /\ kind'[u] = kind[u] /\ req'[u] = req[u]
             /\ pc'[u] = pc[u] /\ body'[u] = body[u]
  BY <1>1, <1>2, <1>4 DEF PInv, IInv, Types, LocalTypes
<1>5. kind'[t] = "none" /\ pc'[t] = "idle" /\ body'[t] = NoRequest
  BY <1>1, <1>2 DEF PInv, IInv, Types, LocalTypes
<1>6. /\ \A o \in Objects \ {t} : SocketFD'[o] = SocketFD[o] /\ RecvBuffer'[o] = RecvBuffer[o]
      /\ written' = written /\ stray' = stray
      /\ kind[t] = "SET" => UNCHANGED <<SocketFD, sock, outbox, inbox>>
      /\ kind[t] = "GET" => CloseSocket(t)
  BY <1>2, <1>3 DEF EndRequest, CloseSocket, connVars, kernelVars, PInv, Descriptors, KernelTypes
<1>7. Crossing'
  <2>1. \A u \in pool : kind'[u] = "GET" => req'[u] \notin crossed
    BY <1>3, <1>4, <1>5 DEF Crossing
  <2>2. \A u \in pool : pc'[u] = "idle" => body'[u] = NoRequest
    BY <1>3, <1>4, <1>5 DEF Crossing
  <2>3. \A u \in Threads \ pool : u \in Objects /\ u # t
    BY <1>1, Constants
  <2> QED
    BY <1>1, <1>2, <1>3, <1>6, <2>1, <2>2, <2>3 DEF Crossing
<1> SUFFICES ASSUME ~stray PROVE Tidy'
  BY <1>6, <1>7 DEF RInv
<1>8. Tidy
  BY DEF RInv
<1>9. \A n \in Requests : page'[n] = "other" => crossed' # {}
  <2> SUFFICES ASSUME NEW n \in Requests, page'[n] = "other", crossed = {} PROVE FALSE
    BY <1>2
  <2>1. page[n] # "other" /\ Safe(t)
    BY <1>2, <1>8 DEF Tidy, Safe
  <2>2. page' = [page EXCEPT ![req[t]] = IF RecvStatus[Obj(t)] THEN Content(t)
                                         ELSE IF kind[t] = "GET" THEN "error" ELSE "none"]
    BY DEF Respond
  <2>3. Content(t) = "other"
    BY <2>1, <2>2 DEF PInv, LocalTypes
  <2>4. body[t] \in {NoRequest, req[t]}
    BY <1>8, <2>1 DEF Tidy, ReplyTo
  <2> QED
    BY <2>3, <2>4 DEF Content
<1>10. ASSUME \A f \in FDs : sock[f] # "free" /\ (kind[t] = "GET" => f # SocketFD[t]) => Untouched(f)
       PROVE  \A u \in pool' : Safe(u)' => ReplyTo(u)'
  <2> SUFFICES ASSUME NEW u \in pool, Safe(u)' PROVE ReplyTo(u)'
    BY <1>1
  <2>1. u # t /\ Safe(u)
    BY <1>2, <1>4, <1>5 DEF Safe
  <2>2. Obj(u) # t /\ Obj(u) \in Objects
    BY <1>1, <1>3, <2>1, SafeOne DEF Obj
  <2>3. /\ kind'[u] = kind[u] /\ pc'[u] = pc[u] /\ req'[u] = req[u]
        /\ fd'[u] = fd[u] /\ rc'[u] = rc[u] /\ body'[u] = body[u]
        /\ SocketFD'[Obj(u)] = SocketFD[Obj(u)] /\ RecvBuffer'[Obj(u)] = RecvBuffer[Obj(u)]
    BY <1>2, <1>4, <1>6, <2>1, <2>2
  <2>4. SocketFD[Obj(u)] # 0 => Untouched(SocketFD[Obj(u)])
    <3>1. SocketFD[Obj(u)] # 0 => SocketFD[Obj(u)] # SocketFD[t]
      BY <1>1, <2>2 DEF PInv, Descriptors, Owners
    <3> QED
      BY <1>10, <2>2, <3>1, OwnedUsed
  <2> QED
    BY <1>3, <1>6, <1>8, <2>1, <2>3, <2>4, Bystander
<1>11. CASE kind[t] = "SET"
  <2>1. UNCHANGED <<SocketFD, sock, outbox, inbox>>
    BY <1>6, <1>11
  <2>2. Quiet'
    BY <1>8, <2>1 DEF Tidy, Quiet
  <2>3. AtRest'
    <3> SUFFICES ASSUME crossed = {}, SocketFD[ConnSetObj] # 0 PROVE Empty(SocketFD[ConnSetObj])
      BY <1>2, <2>1 DEF AtRest, Empty
    <3>1. ReplyTo(t) /\ Obj(t) = ConnSetObj
      BY <1>2, <1>8, <1>11 DEF Tidy, Safe, Obj
    <3> QED
      BY <1>2, <3>1 DEF ReplyTo
  <2> QED
    BY <1>9, <1>10, <2>1, <2>2, <2>3 DEF Tidy, Untouched
<1>12. CASE kind[t] = "GET"
  <2>1. PICK f : f = SocketFD[t] /\ f \in FDs \cup {0}
    BY <1>1 DEF PInv, Descriptors
  <2>2. /\ Becomes(f, "free")
        /\ outbox' = [g \in FDs |-> IF g = f THEN <<>> ELSE outbox[g]]
        /\ inbox' = [g \in FDs |-> IF g = f THEN <<>> ELSE inbox[g]]
    BY <1>6, <1>12, <2>1 DEF CloseSocket
  <2>3. \A g \in FDs : sock'[g] = IF g = f THEN "free" ELSE sock[g]
    BY <2>1, <2>2, BecomesType DEF PInv, KernelTypes, States
  <2>4. \A g \in FDs : g # f => Untouched(g)
    BY <2>2, <2>3 DEF Untouched
  <2>5. Quiet'
    BY <1>8, <2>2, <2>3 DEF Tidy, Quiet
  <2>6. AtRest'
    <3>1. SocketFD[ConnSetObj] # 0 => SocketFD[ConnSetObj] # f
      BY <1>1, <2>1 DEF PInv, Descriptors, Owners
    <3>2. SocketFD[ConnSetObj] # 0 => Untouched(SocketFD[ConnSetObj])
      BY <1>1, <2>4, <3>1, OwnedUsed
    <3>3. (\A u \in pool' : kind'[u] # "SET") => \A u \in pool : kind[u] # "SET"
      BY <1>1, <1>4, <1>12
    <3> QED
      BY <1>1, <1>2, <1>6, <1>8, <3>2, <3>3, RestKept DEF Tidy
  <2>7. \A u \in pool' : Safe(u)' => ReplyTo(u)'
    BY <1>10, <1>12, <2>1, <2>4
  <2> QED
    BY <1>9, <2>5, <2>6, <2>7 DEF Tidy
<1> QED
  BY <1>3, <1>11, <1>12

(* The other steps of a thread. *)
LEMMA RProcess == ASSUME PInv, RInv, NEW t \in pool, Process(t) PROVE RInv'
<1>1. t \in Threads /\ Obj(t) \in Objects
  BY Constants DEF PInv, IInv, Types, pool, Obj
<1>2. PICK f \in FDs \cup {0} : f = SocketFD[Obj(t)]
  BY <1>1 DEF PInv, Descriptors
<1>3. /\ DOMAIN pc = Threads /\ pc = [u \in Threads |-> pc[u]]
      /\ DOMAIN rc = Threads /\ rc = [u \in Threads |-> rc[u]]
      /\ fd \in [Threads -> FDs \cup {0}] /\ body \in [Threads -> Requests \cup {NoRequest}]
  BY DEF PInv, IInv, Types, LocalTypes
<1>4. 0 \notin FDs /\ sock \in [FDs -> States]
  BY ConnectionAssumption DEF FDs, PInv, KernelTypes
<1>5. ~stray => Quiet
  BY DEF RInv, Tidy
<1>6. ASSUME Safe(t), ~stray
      PROVE  /\ ReplyTo(t) /\ req[t] \in Requests /\ Placed(t) /\ body[t] \in {NoRequest, req[t]}
             /\ f # 0 => Holds(f, req[t])
  BY <1>2, <1>6, SafeOne DEF RInv, Tidy, ReplyTo
<1>7. CASE Send(t)
  <2>1. /\ pc[t] = "write" /\ Write(Obj(t), req[t])
        /\ pc' = [pc EXCEPT ![t] = "note"]
        /\ \E r : rc' = [rc EXCEPT ![t] = r]
        /\ UNCHANGED <<SocketFD, RecvBuffer, inbox, stray, process, last, req, kind, fd, body, page, crossed>>
    BY <1>7 DEF Send, Goto, Write, historyVars
  <2>2. /\ \A g \in FDs : g # f => sock'[g] = sock[g] /\ outbox'[g] = outbox[g]
        /\ f # 0 => sock'[f] = IF sock[f] = "reset" THEN "broken" ELSE sock[f]
    <3>1. Reported(f)
      BY <1>2, <2>1 DEF Write
    <3>2. /\ \A g \in FDs : g # f => sock'[g] = sock[g]
          /\ f # 0 => sock'[f] = IF sock[f] = "reset" THEN "broken" ELSE sock[f]
      BY <1>4, <3>1 DEF Reported, Becomes
    <3>3. \A g \in FDs : g # f => outbox'[g] = outbox[g]
      BY <1>2, <2>1 DEF Write, PInv, KernelTypes
    <3> QED
      BY <3>2, <3>3
  <2>3. /\ Is(Obj(t), "up") => /\ f # 0 /\ sock[f] = "up"
                               /\ outbox'[f] = Append(outbox[f], req[t])
                               /\ written' = [written EXCEPT ![req[t]] = @ + 1]
        /\ ~Is(Obj(t), "up") => UNCHANGED <<outbox, written>> /\ (f # 0 => sock[f] # "up")
    BY <1>2, <1>4, <2>1 DEF Write, Is, PInv, KernelTypes
  <2>4. \A g \in FDs : sock[g] # "free" /\ g # f => Untouched(g)
    BY <2>1, <2>2 DEF Untouched
  <2>5. Quiet => Quiet'
    <3> SUFFICES ASSUME Quiet, NEW g \in FDs
                 PROVE  /\ sock'[g] # "up" => outbox'[g] = <<>>
                        /\ sock'[g] \in {"free", "idle"} => inbox'[g] = <<>>
      BY DEF Quiet
    <3>1. CASE g # f
      BY <2>1, <2>2, <3>1 DEF Quiet
    <3>2. CASE g = f
      <4>1. sock'[f] # "up" => sock[f] # "up" /\ outbox' = outbox
        BY <1>4, <2>2, <2>3, <3>2
      <4>2. sock'[f] \in {"free", "idle"} => sock'[f] = sock[f]
        BY <1>4, <2>2, <3>2
      <4> QED
        BY <2>1, <3>2, <4>1, <4>2 DEF Quiet
    <3> QED
      BY <3>1, <3>2
  <2>6. ASSUME Safe(t), ~stray PROVE ReplyTo(t)'
    <3>1. written[req[t]] = 0 /\ (f # 0 => Empty(f)) /\ Obj(t)' = Obj(t)
      BY <1>6, <2>1, <2>6 DEF Placed, Holds, Obj
    <3>2. pc'[t] = "note" /\ SocketFD'[Obj(t)] = f /\ body'[t] = body[t] /\ req'[t] = req[t]
      BY <1>1, <1>2, <1>3, <2>1
    <3>3. CASE Is(Obj(t), "up")
      <4>1. written'[req[t]] = 1
        BY <1>6, <2>3, <2>6, <3>1, <3>3 DEF PInv, IInv, Types
      <4>2. outbox'[f] = <<req[t]>> /\ inbox'[f] = <<>>
        BY <1>6, <2>1, <2>3, <2>6, <3>1, <3>3, OneElement DEF Empty
      <4> QED
        BY <1>6, <2>6, <3>1, <3>2, <4>1, <4>2 DEF ReplyTo, Holds
    <3>4. CASE ~Is(Obj(t), "up")
      BY <1>6, <2>1, <2>3, <2>6, <3>1, <3>2, <3>4 DEF ReplyTo, Holds, Empty
    <3> QED
      BY <3>3, <3>4
  <2>7. \A n \in Requests \ {req[t]} : written'[n] = written[n]
    BY <2>3 DEF PInv, IInv, Types
  <2>8. \A u \in Threads \ {t} : pc'[u] = pc[u] /\ rc'[u] = rc[u]
    BY <1>3, <2>1
  <2>9. pc[t] # "idle" /\ pc'[t] # "idle"
    BY <1>1, <1>3, <2>1
  <2> QED
    BY <1>2, <1>5, <2>1, <2>4, <2>5, <2>6, <2>7, <2>8, <2>9, RWithin
<1>8. ASSUME UNCHANGED <<SocketFD, RecvBuffer, sock, outbox, inbox, written, stray,
                         process, last, req, kind, page, crossed>>,
             pc[t] # "idle", pc'[t] # "idle",
             \A u \in Threads \ {t} :
               pc'[u] = pc[u] /\ fd'[u] = fd[u] /\ rc'[u] = rc[u] /\ body'[u] = body[u],
             Safe(t) /\ ~stray =>
               /\ pc'[t] \in {"keep", "respond"} => pc[t] \in {"keep", "respond"}
               /\ pc'[t] = "read" => fd'[t] = SocketFD[Obj(t)]
               /\ pc'[t] # "keep"
               /\ body'[t] \in {NoRequest, req[t]}
      PROVE  RInv'
  <2>1. \A g \in FDs : Untouched(g)
    BY <1>8 DEF Untouched
  <2>2. Quiet => Quiet'
    BY <1>8 DEF Quiet
  <2>3. ASSUME Safe(t), ~stray PROVE ReplyTo(t)'
    <3>1. Obj(t)' = Obj(t) /\ ReplyTo(t)
      BY <1>6, <1>8, <2>3 DEF Obj
    <3> QED
      BY <1>8, <2>3, <3>1 DEF ReplyTo, Holds, Empty
  <2> QED
    BY <1>5, <1>8, <2>1, <2>2, <2>3, RWithin
<1>9. CASE NoteSent(t)
  <2>1. /\ pc[t] = "note" /\ pc' = [pc EXCEPT ![t] = "check"]
        /\ rc' = [rc EXCEPT ![t] = "none"] /\ UNCHANGED <<fd, body>>
        /\ UNCHANGED <<SocketFD, RecvBuffer, sock, outbox, inbox, written, stray,
                       process, last, req, kind, page, crossed>>
    BY <1>9 DEF NoteSent, Goto, kernelVars, historyVars
  <2>2. \A u \in Threads \ {t} : pc'[u] = pc[u] /\ rc'[u] = rc[u]
    BY <1>3, <2>1
  <2>3. pc'[t] = "check"
    BY <1>1, <1>3, <2>1
  <2> QED
    BY <1>6, <1>8, <2>1, <2>2, <2>3
<1>10. CASE Sent(t) \/ NotSent(t) \/ TryAgain(t)
  <2>1. PICK p \in {"call", "test", "write"} :
          /\ pc[t] # "idle" /\ pc' = [pc EXCEPT ![t] = p]
          /\ UNCHANGED <<fd, body, rc>>
          /\ UNCHANGED <<SocketFD, RecvBuffer, sock, outbox, inbox, written, stray,
                         process, last, req, kind, page, crossed>>
    BY <1>10 DEF Sent, NotSent, TryAgain, Goto, connVars, kernelVars, historyVars
  <2>2. pc'[t] = p /\ \A u \in Threads \ {t} : pc'[u] = pc[u]
    BY <1>1, <1>3, <2>1
  <2> QED
    BY <1>6, <1>8, <2>1, <2>2
<1>11. CASE CallRead(t)
  <2>1. /\ pc[t] = "call" /\ pc' = [pc EXCEPT ![t] = "read"]
        /\ fd' = [fd EXCEPT ![t] = SocketFD[Obj(t)]] /\ UNCHANGED <<rc, body>>
        /\ UNCHANGED <<SocketFD, RecvBuffer, sock, outbox, inbox, written, stray,
                       process, last, req, kind, page, crossed>>
    BY <1>11 DEF CallRead, Goto, connVars, kernelVars, historyVars
  <2>2. \A u \in Threads \ {t} : pc'[u] = pc[u] /\ fd'[u] = fd[u]
    BY <1>3, <2>1
  <2>3. pc'[t] = "read" /\ fd'[t] = SocketFD[Obj(t)]
    BY <1>1, <1>3, <2>1
  <2> QED
    BY <1>6, <1>8, <2>1, <2>2, <2>3
<1>12. CASE Keep(t)
  <2>1. /\ pc[t] = "keep" /\ pc' = [pc EXCEPT ![t] = "respond"] /\ fd' = fd
        /\ rc' = [rc EXCEPT ![t] = "none"] /\ body' = [body EXCEPT ![t] = FreshMessage(t)]
        /\ UNCHANGED <<SocketFD, RecvBuffer, sock, outbox, inbox, written, stray,
                       process, last, req, kind, page, crossed>>
    BY <1>12 DEF Keep, Goto, kernelVars, historyVars
  <2>2. \A u \in Threads \ {t} : pc'[u] = pc[u] /\ rc'[u] = rc[u] /\ body'[u] = body[u]
    BY <1>3, <2>1
  <2>3. pc'[t] = "respond" /\ body'[t] = FreshMessage(t)
    BY <1>1, <1>3, <2>1
  <2>4. Safe(t) /\ ~stray => FreshMessage(t) \in {NoRequest, req[t]}
    BY <1>6, <2>1 DEF FreshMessage, ReplyTo
  <2> QED
    BY <1>8, <2>1, <2>2, <2>3, <2>4
<1>13. CASE Reopen(t)
  <2>1. PICK nf \in FDs \cup {0} :
          /\ nf # 0 => sock[nf] = "free"
          /\ SocketFD' = [SocketFD EXCEPT ![Obj(t)] = nf]
          /\ Becomes(nf, "idle")
          /\ pc[t] = "test" /\ pc' = [pc EXCEPT ![t] = "connect"]
          /\ UNCHANGED <<RecvBuffer, outbox, inbox, written, stray,
                         process, last, req, kind, fd, rc, body, page, crossed>>
    BY <1>13, NewFDFree DEF Reopen, Socket, Goto
  <2>2. \A g \in FDs : sock'[g] = IF g = nf THEN "idle" ELSE sock[g]
    BY <1>4, <2>1, BecomesType DEF States
  <2>3. \A g \in FDs : sock[g] # "free" => Untouched(g)
    BY <1>4, <2>1, <2>2 DEF Untouched
  <2>4. Quiet => Quiet' /\ (nf # 0 => Empty(nf))
    <3>1. Quiet => (nf # 0 => Empty(nf))
      BY <2>1 DEF Quiet, Empty
    <3>2. ASSUME Quiet, NEW g \in FDs
          PROVE  /\ sock'[g] # "up" => outbox'[g] = <<>>
                 /\ sock'[g] \in {"free", "idle"} => inbox'[g] = <<>>
      <4>1. CASE g = nf
        BY <1>4, <2>1, <3>1, <3>2, <4>1 DEF Empty
      <4>2. CASE g # nf
        BY <2>1, <2>2, <3>2, <4>2 DEF Quiet
      <4> QED
        BY <4>1, <4>2
    <3> QED
      BY <3>1, <3>2 DEF Quiet
  <2>5. pc'[t] = "connect" /\ \A u \in Threads \ {t} : pc'[u] = pc[u]
    BY <1>1, <1>3, <2>1
  <2>6. ASSUME Safe(t), ~stray PROVE ReplyTo(t)'
    <3>1. Obj(t)' = Obj(t) /\ SocketFD'[Obj(t)] = nf
      BY <1>1, <2>1 DEF Obj, PInv, Descriptors
    <3>2. nf # 0 => outbox'[nf] = <<>> /\ inbox'[nf] = <<>>
      BY <1>5, <2>1, <2>4, <2>6 DEF Empty
    <3> QED
      BY <1>6, <2>1, <2>5, <2>6, <3>1, <3>2 DEF ReplyTo, Holds, Empty
  <2>7. \A o \in Objects \ {Obj(t)} : SocketFD'[o] = SocketFD[o]
    BY <2>1 DEF PInv, Descriptors
  <2> QED
    BY <1>5, <2>1, <2>3, <2>4, <2>5, <2>6, <2>7, RWithin
<1>14. CASE Reconnect(t)
  <2>1. /\ \E g \in FDs \cup {0} : Becomes(g, "up") /\ (g # 0 => g = f /\ sock[g] = "idle")
        /\ pc[t] = "connect" /\ pc' = [pc EXCEPT ![t] = "write"]
        /\ UNCHANGED <<SocketFD, RecvBuffer, outbox, inbox, written, stray,
                       process, last, req, kind, fd, rc, body, page, crossed>>
    BY <1>2, <1>14 DEF Reconnect, Connect, Is, Goto, historyVars
  <2>2. \A g \in FDs : sock'[g] = sock[g] \/ (g = f /\ sock[g] = "idle" /\ sock'[g] = "up")
    BY <1>4, <2>1, BecomesType DEF States
  <2>3. \A g \in FDs : sock[g] # "free" /\ g # f => Untouched(g)
    BY <2>1, <2>2 DEF Untouched
  <2>4. Quiet => Quiet'
    BY <2>1, <2>2 DEF Quiet
  <2>5. pc'[t] = "write" /\ \A u \in Threads \ {t} : pc'[u] = pc[u]
    BY <1>1, <1>3, <2>1
  <2>6. ASSUME Safe(t), ~stray PROVE ReplyTo(t)'
    <3>1. f # 0 => Empty(f)
      BY <1>6, <2>1, <2>6 DEF Placed, Holds
    <3>2. Obj(t)' = Obj(t) /\ SocketFD'[Obj(t)] = f
      BY <1>2, <2>1 DEF Obj
    <3> QED
      BY <1>6, <2>1, <2>5, <2>6, <3>1, <3>2 DEF ReplyTo, Holds, Empty
  <2> QED
    BY <1>2, <1>5, <2>1, <2>3, <2>4, <2>5, <2>6, RWithin
<1>15. CASE Receive(t)
  <2>1. PICK result \in {"reply", "end", "error"} :
          Read(Obj(t), fd[t], result) /\ rc' = [rc EXCEPT ![t] = result]
    BY <1>15 DEF Receive
  <2>2. PICK h \in FDs \cup {0} : h = fd[t]
    BY <1>1, <1>3
  <2>3. /\ pc[t] = "read" /\ pc' = [pc EXCEPT ![t] = "keep"] /\ fd' = [fd EXCEPT ![t] = 0]
        /\ UNCHANGED <<SocketFD, outbox, written, stray,
                       process, last, req, kind, body, page, crossed>>
    BY <1>15, <2>1 DEF Receive, Goto, Read, historyVars
  <2>4. \A g \in FDs : sock'[g] = IF g = h /\ sock[g] = "reset" THEN "broken" ELSE sock[g]
    <3>1. Reported(h)
      BY <2>1, <2>2 DEF Read
    <3> QED
      BY <1>4, <2>2, <3>1 DEF Reported, Becomes
  <2>5. /\ result = "reply" => /\ h # 0 /\ inbox[h] # <<>> /\ inbox' = [inbox EXCEPT ![h] = Tail(@)]
                               /\ RecvBuffer' = [RecvBuffer EXCEPT ![Obj(t)] = Head(inbox[h])]
        /\ result = "end" => h # 0 /\ sock[h] = "broken" /\ inbox[h] = <<>>
        /\ result = "error" => (h # 0 => sock[h] \in {"idle", "reset"})
        /\ result # "reply" => UNCHANGED <<inbox, RecvBuffer>>
    BY <2>1, <2>2 DEF Read
  <2>6. inbox \in [FDs -> Seq(Requests)] /\ RecvBuffer \in [Objects -> Requests \cup {NoRequest}]
    BY DEF PInv, KernelTypes
  <2>7. \A g \in FDs : Untouched(g)
    <3> SUFFICES ASSUME NEW g \in FDs PROVE Untouched(g)
      OBVIOUS
    <3>1. \/ inbox'[g] = inbox[g]
          \/ inbox[g] # <<>> /\ inbox'[g] = Tail(inbox[g])
      BY <2>1, <2>5, <2>6
    <3> QED
      BY <2>3, <2>4, <3>1 DEF Untouched
  <2>8. Quiet => Quiet'
    <3> SUFFICES ASSUME Quiet, NEW g \in FDs
                 PROVE  /\ sock'[g] # "up" => outbox'[g] = <<>>
                        /\ sock'[g] \in {"free", "idle"} => inbox'[g] = <<>>
      BY DEF Quiet
    <3>1. (sock'[g] # "up" => sock[g] # "up") /\ (sock'[g] \in {"free", "idle"} => sock'[g] = sock[g])
      BY <2>4
    <3> QED
      BY <2>7, <3>1 DEF Quiet, Untouched
  <2>9. ASSUME Safe(t), ~stray PROVE ReplyTo(t)'
    <3>1. h = f /\ Obj(t)' = Obj(t) /\ SocketFD'[Obj(t)] = f
      BY <1>2, <1>6, <2>2, <2>3, <2>9 DEF ReplyTo, Obj
    <3>2. pc'[t] = "keep" /\ rc'[t] = result /\ body'[t] = body[t] /\ req'[t] = req[t]
      BY <1>1, <1>3, <2>1, <2>3
    <3>3. f # 0 => (sock[f] # "up" => outbox[f] = <<>>) /\ (sock[f] = "idle" => inbox[f] = <<>>)
      BY <1>5, <2>9 DEF Quiet
    <3>4. <<req[t]>> # <<>> /\ Head(<<req[t]>>) = req[t] /\ Tail(<<req[t]>>) = <<>>
      BY <1>6, <2>9, OneElement
    <3>5. f # 0 => Holds(f, req[t])
      BY <1>6, <2>9
    <3>6. CASE result = "reply"
      <4>1. outbox[f] = <<>> /\ inbox[f] = <<req[t]>> /\ f \in FDs
        BY <2>5, <3>1, <3>4, <3>5, <3>6 DEF Holds, Empty
      <4>2. outbox'[f] = <<>> /\ inbox'[f] = <<>>
        BY <2>3, <2>5, <2>6, <3>1, <3>4, <3>6, <4>1
      <4>3. RecvBuffer'[Obj(t)] = req[t]
        BY <1>1, <2>5, <2>6, <3>1, <3>4, <3>6, <4>1
      <4> QED
        BY <1>6, <2>9, <3>1, <3>2, <4>2, <4>3 DEF ReplyTo, Holds, Empty
    <3>7. CASE result # "reply"
      <4>1. f # 0 => Empty(f)
        BY <2>1, <2>5, <3>1, <3>3, <3>4, <3>5, <3>7 DEF Holds, Empty
      <4> QED
        BY <1>6, <2>3, <2>5, <2>9, <3>1, <3>2, <3>7, <4>1 DEF ReplyTo, Holds, Empty
    <3> QED
      BY <3>6, <3>7
  <2>10. \A o \in Objects \ {Obj(t)} : RecvBuffer'[o] = RecvBuffer[o]
    BY <2>1, <2>5, <2>6
  <2>11. /\ \A u \in Threads \ {t} : pc'[u] = pc[u] /\ rc'[u] = rc[u] /\ fd'[u] = fd[u]
         /\ pc'[t] = "keep"
    BY <1>1, <1>3, <2>1, <2>3
  <2> QED
    BY <1>5, <2>3, <2>7, <2>8, <2>9, <2>10, <2>11, RWithin
<1>16. CASE Respond(t)
  BY <1>16, RRespond
<1> QED
  BY <1>7, <1>9, <1>10, <1>11, <1>12, <1>13, <1>14, <1>15, <1>16 DEF Process

(* The server: an answer takes the place of its request, and where a       *)
(* connection is closed a request that was under way is gone.              *)
LEMMA RServer == ASSUME PInv, RInv, Server \/ UNCHANGED vars PROVE RInv'
<1>1. /\ UNCHANGED <<SocketFD, RecvBuffer, process, last, pc, req, kind, fd, rc, body, page, crossed>>
      /\ written' = written /\ (~stray' => ~stray)
  <2>1. UNCHANGED <<SocketFD, RecvBuffer, requestVars>>
    BY DEF Server, Disturbance, Stop, Start, Cut, LoseRequest, AnswerAgain, Answer,
           statusVars, vars, connVars
  <2>2. written' = written
    BY DEF Server, Disturbance, Stop, Start, Cut, LoseRequest, AnswerAgain, Answer, vars, connVars
  <2>3. ~stray' => ~stray
    BY DEF Server, Disturbance, Stop, Start, Cut, LoseRequest, AnswerAgain, Answer, vars, connVars
  <2> QED
    BY <2>1, <2>2, <2>3 DEF requestVars, localVars, historyVars
<1>2. pool' = pool /\ Crossing' /\ Crossing
  BY <1>1 DEF RInv, Crossing, pool
<1> SUFFICES ASSUME ~stray' PROVE Tidy'
  BY <1>2 DEF RInv
<1>3. Tidy /\ 0 \notin FDs /\ sock \in [FDs -> States] /\ outbox \in [FDs -> Seq(Requests)]
  BY <1>1, ConnectionAssumption DEF RInv, FDs, PInv, KernelTypes
<1>4. ASSUME NEW t \in pool, Safe(t)
      PROVE  /\ SocketFD[Obj(t)] \in FDs \cup {0} /\ req[t] \in Requests
             /\ SocketFD[Obj(t)] # 0 => Holds(SocketFD[Obj(t)], req[t])
  BY <1>2, <1>3, <1>4, SafeOne DEF Tidy, ReplyTo
<1>5. ASSUME Quiet', \A f \in FDs : Empty(f) => Empty(f)',
             \A f \in FDs, n \in Requests : Holds(f, n) => Holds(f, n)'
      PROVE  Tidy'
  <2>1. ASSUME NEW t \in pool, Safe(t)' PROVE ReplyTo(t)'
    <3>1. Safe(t) /\ ReplyTo(t) /\ Obj(t)' = Obj(t)
      BY <1>1, <1>3, <2>1 DEF Tidy, Safe, Obj
    <3>2. PICK f \in FDs \cup {0} : f = SocketFD[Obj(t)]
      BY <1>4, <3>1
    <3>3. PICK n \in Requests : n = req[t]
      BY <1>4, <3>1
    <3>4. f # 0 => /\ Holds(f, n) => Holds(f, n)'
                   /\ Empty(f) => Empty(f)'
      BY <1>5
    <3>5. SocketFD'[Obj(t)] = f /\ req'[t] = n
      BY <1>1, <3>2, <3>3
    <3> QED
      BY <1>1, <3>1, <3>2, <3>3, <3>4, <3>5 DEF ReplyTo
  <2>2. AtRest'
    <3> SUFFICES ASSUME crossed = {}, \A t \in pool : kind[t] # "SET", SocketFD[ConnSetObj] # 0
                 PROVE  Empty(SocketFD[ConnSetObj])'
      BY <1>1, <1>2 DEF AtRest
    <3>1. PICK f \in FDs : f = SocketFD[ConnSetObj] /\ SocketFD'[ConnSetObj] = f
      BY <1>1, Constants, OwnedUsed
    <3>2. Empty(f)
      BY <1>3, <3>1 DEF Tidy, AtRest
    <3>3. Empty(f)'
      BY <1>5, <3>2
    <3> QED
      BY <3>1, <3>3
  <2> QED
    BY <1>1, <1>2, <1>3, <1>5, <2>1, <2>2 DEF Tidy
<1>6. Quiet
  BY <1>3 DEF Tidy
<1>7. CASE Stop
  <2>1. \A f \in FDs : /\ outbox'[f] = <<>> /\ inbox'[f] = inbox[f]
                       /\ sock[f] = "up" => sock'[f] \in Broken(f)
                       /\ sock[f] # "up" => sock'[f] = sock[f]
    BY <1>7 DEF Stop
  <2>2. Quiet'
    BY <1>6, <2>1 DEF Quiet, Broken
  <2>3. \A f \in FDs : sock'[f] = "reset" => sock[f] = "reset" \/ outbox[f] # <<>>
    BY <2>1 DEF Broken
  <2> QED
    BY <1>1, <1>5, <2>1, <2>2, <2>3 DEF Empty, Holds
<1>8. CASE Start \/ UNCHANGED vars
  <2>1. UNCHANGED <<sock, outbox, inbox>>
    BY <1>8 DEF Start, vars, connVars, kernelVars
  <2> QED
    BY <1>1, <1>5, <1>6, <2>1 DEF Quiet, Empty, Holds
<1>9. ASSUME NEW h \in FDs, Cut(h) PROVE Tidy'
  <2>1. /\ inbox' = inbox /\ outbox'[h] = <<>> /\ sock'[h] \in Broken(h)
        /\ \A f \in FDs : f # h => outbox'[f] = outbox[f] /\ sock'[f] = sock[f]
    BY <1>3, <1>9 DEF Cut
  <2>2. Quiet'
    BY <1>6, <2>1 DEF Quiet, Broken
  <2>3. sock'[h] = "reset" => outbox[h] # <<>>
    BY <2>1 DEF Broken
  <2>4. \A f \in FDs : Empty(f) => Empty(f)'
    BY <2>1 DEF Empty
  <2>5. ASSUME NEW f \in FDs, NEW n \in Requests, Holds(f, n) PROVE Holds(f, n)'
    <3>1. CASE f = h
      BY <1>1, <2>1, <2>3, <2>5, <3>1 DEF Holds, Empty
    <3>2. CASE f # h
      BY <1>1, <2>1, <2>5, <3>2 DEF Holds, Empty
    <3> QED
      BY <3>1, <3>2
  <2> QED
    BY <1>5, <2>2, <2>4, <2>5
<1>10. ASSUME NEW h \in FDs, LoseRequest(h) PROVE Tidy'
  <2>1. /\ inbox' = inbox /\ sock' = sock /\ outbox[h] # <<>> /\ outbox'[h] = Tail(outbox[h])
        /\ \A f \in FDs : f # h => outbox'[f] = outbox[f]
    BY <1>3, <1>10 DEF LoseRequest
  <2>2. Quiet'
    BY <1>6, <2>1 DEF Quiet
  <2>3. \A f \in FDs : Empty(f) => Empty(f)'
    BY <2>1 DEF Empty
  <2>4. ASSUME NEW f \in FDs, NEW n \in Requests, Holds(f, n) PROVE Holds(f, n)'
    <3>1. CASE f = h
      <4>1. outbox[f] = <<n>> /\ inbox[f] = <<>>
        BY <2>1, <2>4, <3>1 DEF Holds, Empty
      <4>2. outbox'[f] = <<>> /\ inbox'[f] = <<>>
        BY <2>1, <3>1, <4>1, OneElement
      <4> QED
        BY <4>2 DEF Holds, Empty
    <3>2. CASE f # h
      BY <1>1, <2>1, <2>4, <3>2 DEF Holds, Empty
    <3> QED
      BY <3>1, <3>2
  <2> QED
    BY <1>5, <2>2, <2>3, <2>4
<1>11. ASSUME NEW h \in FDs, NEW closes \in BOOLEAN, Answer(h, closes),
              closes => \E t \in Threads : h = SocketFD[t]
       PROVE  Tidy'
  <2>1. /\ sock[h] = "up" /\ outbox[h] # <<>> /\ outbox'[h] = Tail(outbox[h])
        /\ inbox'[h] = Append(inbox[h], Head(outbox[h]))
        /\ sock'[h] = IF closes THEN "broken" ELSE "up"
        /\ \A f \in FDs : f # h => UNCHANGED <<outbox[f], inbox[f], sock[f]>>
    BY <1>3, <1>11 DEF Answer, PInv, KernelTypes
  <2>2. ASSUME NEW n \in Requests, Holds(h, n)
        PROVE  outbox[h] = <<n>> /\ outbox'[h] = <<>> /\ inbox'[h] = <<n>> /\ written[n] = 1
    <3>1. outbox[h] = <<n>> /\ inbox[h] = <<>> /\ written[n] = 1
      BY <2>1, <2>2 DEF Holds, Empty
    <3> QED
      BY <2>1, <3>1, OneElement
  <2>3. closes => outbox'[h] = <<>>
    <3> SUFFICES ASSUME closes, NEW t \in Threads, h = SocketFD[t] PROVE outbox'[h] = <<>>
      BY <1>11
    <3>1. t \in pool /\ kind[t] = "GET"
      BY <1>2, <1>3 DEF Crossing, PInv, Descriptors
    <3>2. Safe(t) /\ Obj(t) = t
      BY <3>1 DEF Safe, Obj, PInv, IInv, Own
    <3>3. Holds(h, req[t]) /\ req[t] \in Requests
      BY <1>3, <1>4, <3>1, <3>2
    <3> QED
      BY <2>2, <3>3
  <2>4. Quiet'
    <3> SUFFICES ASSUME NEW f \in FDs
                 PROVE  /\ sock'[f] # "up" => outbox'[f] = <<>>
                        /\ sock'[f] \in {"free", "idle"} => inbox'[f] = <<>>
      BY DEF Quiet
    <3>1. CASE f = h
      BY <2>1, <2>3, <3>1
    <3>2. CASE f # h
      BY <1>6, <2>1, <3>2 DEF Quiet
    <3> QED
      BY <3>1, <3>2
  <2>5. \A f \in FDs : Empty(f) => Empty(f)'
    BY <2>1 DEF Empty
  <2>6. ASSUME NEW f \in FDs, NEW n \in Requests, Holds(f, n) PROVE Holds(f, n)'
    <3>1. CASE f = h
      BY <1>1, <2>1, <2>2, <2>6, <3>1 DEF Holds
    <3>2. CASE f # h
      BY <1>1, <2>1, <2>6, <3>2 DEF Holds, Empty
    <3> QED
      BY <3>1, <3>2
  <2> QED
    BY <1>5, <2>4, <2>5, <2>6
<1>12. ASSUME NEW h \in FDs, NEW n \in Requests, AnswerAgain(h, n) PROVE FALSE
  BY <1>12 DEF AnswerAgain
<1> QED
  <2>1. ASSUME NEW f \in FDs PROVE (\E t \in Threads : f = SocketFD[t]) \in BOOLEAN
    OBVIOUS
  <2> QED
    BY <1>7, <1>8, <1>9, <1>10, <1>11, <1>12, <2>1 DEF Server, Disturbance

(* Nobody is shown the reply to another one's request, unless the server   *)
(* wrote an answer nobody waits for, or two SETs were under way at a time; *)
(* and of these only the first touches a GET.                              *)
THEOREM ShownOwnReply == Spec => []OwnReply
<1>1. PInv /\ RInv /\ [Next]_vars => RInv'
  BY RBegin, RProcess, RServer DEF Next
<1>2. PInv /\ RInv => OwnReply
  <2> SUFFICES ASSUME PInv, RInv PROVE OwnReply
    OBVIOUS
  <2>1. \A n \in Requests : page[n] = "other" => stray \/ crossed # {}
    BY DEF RInv, Tidy
  <2>2. ASSUME NEW t \in pool, kind[t] = "GET", body[t] # NoRequest
        PROVE  body[t] = req[t] \/ stray
    <3>1. Safe(t)
      BY <2>2 DEF PInv, IInv, Own, Safe
    <3> QED
      BY <2>2, <3>1 DEF RInv, Tidy, ReplyTo
  <2> QED
    BY <2>1, <2>2 DEF OwnReply
<1> QED
  BY <1>1, <1>2, RStart, Invariance, PTL DEF Spec
=============================================================================
