------------------------ MODULE QueueHandoff_proofs ------------------------
(***************************************************************************)
(* The lock protocol of QueueHandoff for every number of messages and      *)
(* every size of a batch.                                                  *)
(*                                                                         *)
(* The inductive invariant IInv says who owns the queue (LockInv), what is *)
(* in it at each point of the two loops (ContentInv), how many messages    *)
(* the network thread may hold (BatchInv), and that all numbers are in     *)
(* order and already given out (InOrder, GivenOut).                        *)
(***************************************************************************)
EXTENDS QueueHandoff, TLAPS

-----------------------------------------------------------------------------
(* What the operations on vectors and queues do, as facts about functions  *)
(* on an interval: the form in which the proofs below use them.            *)

(* Putting an element in front: vector::insert at begin(). *)
LEMMA ConsFcn ==
  ASSUME NEW S, NEW s \in Seq(S), NEW x \in S
  PROVE  /\ <<x>> \o s \in Seq(S)
         /\ Len(<<x>> \o s) = Len(s) + 1
         /\ (<<x>> \o s)[1] = x
         /\ \A k \in 2 .. Len(s) + 1 : (<<x>> \o s)[k] = s[k - 1]
OBVIOUS

(* Putting an element behind: vector::push_back, queue::push. *)
LEMMA AppendFcn ==
  ASSUME NEW S, NEW s \in Seq(S), NEW x \in S
  PROVE  /\ Append(s, x) \in Seq(S)
         /\ Len(Append(s, x)) = Len(s) + 1
         /\ Append(s, x)[Len(s) + 1] = x
         /\ \A k \in 1 .. Len(s) : Append(s, x)[k] = s[k]
OBVIOUS

(* Taking the first element off: queue::pop. *)
LEMMA TailFcn ==
  ASSUME NEW S, NEW s \in Seq(S), s # <<>>
  PROVE  /\ Len(s) \in Nat \ {0}
         /\ Tail(s) \in Seq(S)
         /\ Len(Tail(s)) = Len(s) - 1
         /\ \A k \in 1 .. Len(s) - 1 : Tail(s)[k] = s[k + 1]
         /\ Head(s) = s[1] /\ s[1] \in S
OBVIOUS

(* Taking the last element off: vector::pop_back. *)
LEMMA FrontFcn ==
  ASSUME NEW S, NEW s \in Seq(S), s # <<>>
  PROVE  /\ Len(s) \in Nat \ {0}
         /\ Front(s) \in Seq(S)
         /\ Len(Front(s)) = Len(s) - 1
         /\ \A k \in 1 .. Len(s) - 1 : Front(s)[k] = s[k]
         /\ Last(s) = s[Len(s)] /\ s[Len(s)] \in S
<1>1. PICK n \in Nat \ {0} : n = Len(s)
  OBVIOUS
<1>2. \A k \in 1 .. n - 1 : s[k] \in S
  BY <1>1
<1>3. /\ SubSeq(s, 1, n - 1) \in Seq(S)
      /\ Len(SubSeq(s, 1, n - 1)) = n - 1
      /\ \A k \in 1 .. n - 1 : SubSeq(s, 1, n - 1)[k] = s[k]
  BY <1>2
<1>4. s[n] \in S
  BY <1>1
<1>5. QED
  BY <1>1, <1>3, <1>4 DEF Front, Last

(* Any selection of a sequence's elements is a sequence. *)
LEMMA SelectionFcn ==
  ASSUME NEW S, NEW s \in Seq(S), NEW n \in Nat, NEW at \in [1 .. n -> 1 .. Len(s)]
  PROVE  /\ [k \in 1 .. n |-> s[at[k]]] \in Seq(S)
         /\ Len([k \in 1 .. n |-> s[at[k]]]) = n
OBVIOUS

(* Two sequences are equal when they have the same length and elements. *)
LEMMA SameSeq ==
  ASSUME NEW S, NEW s \in Seq(S), NEW t \in Seq(S), Len(s) = Len(t),
         \A k \in 1 .. Len(s) : s[k] = t[k]
  PROVE  s = t
OBVIOUS

(* Reverse, without the length in it. *)
LEMMA ReverseFcn ==
  ASSUME NEW S, NEW s \in Seq(S)
  PROVE  /\ Reverse(s) \in Seq(S)
         /\ Len(Reverse(s)) = Len(s)
         /\ \A k \in 1 .. Len(s) : Reverse(s)[k] = s[Len(s) - k + 1]
<1>1. PICK m \in Nat : m = Len(s)
  OBVIOUS
<1>2. \A k \in 1 .. m : m - k + 1 \in 1 .. m
  OBVIOUS
<1>3. \A k \in 1 .. m : s[m - k + 1] \in S
  BY <1>1, <1>2
<1>4. QED
  BY <1>1, <1>3 DEF Reverse

(* One sequence behind the other. *)
LEMMA ConcatFcn ==
  ASSUME NEW S, NEW s \in Seq(S), NEW t \in Seq(S)
  PROVE  /\ s \o t \in Seq(S)
         /\ Len(s \o t) = Len(s) + Len(t)
         /\ \A k \in 1 .. Len(s) : (s \o t)[k] = s[k]
         /\ \A k \in Len(s) + 1 .. Len(s) + Len(t) : (s \o t)[k] = t[k - Len(s)]
OBVIOUS

(* A part of a sequence. *)
LEMMA SubSeqFcn ==
  ASSUME NEW S, NEW s \in Seq(S), NEW m \in 1 .. Len(s) + 1, NEW n \in 0 .. Len(s), m <= n + 1
  PROVE  /\ SubSeq(s, m, n) \in Seq(S)
         /\ Len(SubSeq(s, m, n)) = n - m + 1
         /\ \A k \in 1 .. n - m + 1 : SubSeq(s, m, n)[k] = s[m + k - 1]
<1>1. \A k \in m .. n : s[k] \in S
  OBVIOUS
<1>2. m \in Int /\ n \in Int
  OBVIOUS
<1>3. QED
  BY <1>1, <1>2

(* An element added in front comes last in the reverse. *)
LEMMA ReverseCons ==
  ASSUME NEW S, NEW s \in Seq(S), NEW x \in S
  PROVE  Reverse(<<x>> \o s) = Append(Reverse(s), x)
<1> DEFINE t == <<x>> \o s
           l == Reverse(t)
           r == Append(Reverse(s), x)
<1>1. PICK m \in Nat : m = Len(s)
  OBVIOUS
<1>2. /\ t \in Seq(S) /\ Len(t) = m + 1 /\ t[1] = x
      /\ \A k \in 2 .. m + 1 : t[k] = s[k - 1]
  BY <1>1, ConsFcn
<1>3. /\ r \in Seq(S) /\ Len(r) = m + 1 /\ r[m + 1] = x
      /\ \A k \in 1 .. m : r[k] = s[m - k + 1]
  <2>1. /\ Reverse(s) \in Seq(S) /\ Len(Reverse(s)) = m
        /\ \A k \in 1 .. m : Reverse(s)[k] = s[m - k + 1]
    BY <1>1, ReverseFcn
  <2>2. QED
    BY <2>1, AppendFcn
<1>4. /\ l \in Seq(S) /\ Len(l) = m + 1
      /\ \A k \in 1 .. m + 1 : l[k] = t[m + 1 - k + 1]
  <2> HIDE DEF t
  <2>1. /\ l \in Seq(S) /\ Len(l) = Len(t)
        /\ \A k \in 1 .. Len(t) : l[k] = t[Len(t) - k + 1]
    BY <1>2, ReverseFcn
  <2> HIDE DEF l
  <2>2. QED
    BY <1>2, <2>1
<1> HIDE DEF t, l, r
<1>5. \A k \in 1 .. m + 1 : l[k] = r[k]
  <2> SUFFICES ASSUME NEW k \in 1 .. m + 1 PROVE l[k] = r[k]
    OBVIOUS
  <2>1. CASE k = m + 1
    BY <1>2, <1>3, <1>4, <2>1
  <2>2. CASE k # m + 1
    <3>1. k \in 1 .. m /\ m + 1 - k + 1 \in 2 .. m + 1
      BY <2>2
    <3>2. t[m + 1 - k + 1] = s[m - k + 1]
      BY <1>2, <3>1
    <3>3. QED
      BY <1>3, <1>4, <3>1, <3>2
  <2>3. QED
    BY <2>1, <2>2
<1>6. l = r
  BY <1>3, <1>4, <1>5, SameSeq
<1>7. QED
  BY <1>6 DEF l, r, t

(* Moving the last element of t behind q leaves q followed by t reversed   *)
(* as it is.                                                               *)
LEMMA ReverseMove ==
  ASSUME NEW S, NEW q \in Seq(S), NEW t \in Seq(S), t # <<>>
  PROVE  Append(q, Last(t)) \o Reverse(Front(t)) = q \o Reverse(t)
<1> DEFINE p == Append(q, Last(t))
           f == Reverse(Front(t))
           g == Reverse(t)
           l == p \o f
           r == q \o g
<1>1. PICK m \in Nat \ {0} : m = Len(t)
  OBVIOUS
<1>2. PICK n \in Nat : n = Len(q)
  OBVIOUS
<1>3. /\ Front(t) \in Seq(S) /\ Len(Front(t)) = m - 1
      /\ \A k \in 1 .. m - 1 : Front(t)[k] = t[k]
      /\ Last(t) = t[m] /\ Last(t) \in S
  BY <1>1, FrontFcn
<1>4. /\ p \in Seq(S) /\ Len(p) = n + 1 /\ p[n + 1] = t[m]
      /\ \A k \in 1 .. n : p[k] = q[k]
  BY <1>2, <1>3, AppendFcn
<1>5. /\ f \in Seq(S) /\ Len(f) = m - 1
      /\ \A k \in 1 .. m - 1 : f[k] = t[m - k]
  <2>1. /\ f \in Seq(S) /\ Len(f) = m - 1
        /\ \A k \in 1 .. m - 1 : f[k] = Front(t)[m - 1 - k + 1]
    <3> DEFINE u == Front(t)
    <3>1. u \in Seq(S) /\ Len(u) = m - 1
      BY <1>3
    <3> HIDE DEF u
    <3>2. /\ Reverse(u) \in Seq(S) /\ Len(Reverse(u)) = Len(u)
          /\ \A k \in 1 .. Len(u) : Reverse(u)[k] = u[Len(u) - k + 1]
      BY <3>1, ReverseFcn
    <3>3. /\ Reverse(u) \in Seq(S) /\ Len(Reverse(u)) = m - 1
          /\ \A k \in 1 .. m - 1 : Reverse(u)[k] = u[m - 1 - k + 1]
      BY <3>1, <3>2
    <3> QED
      BY <3>3 DEF u
  <2>2. \A k \in 1 .. m - 1 : m - 1 - k + 1 = m - k /\ m - k \in 1 .. m - 1
    OBVIOUS
  <2>3. QED
    BY <1>3, <2>1, <2>2
<1>6. /\ g \in Seq(S) /\ Len(g) = m
      /\ \A k \in 1 .. m : g[k] = t[m - k + 1]
  BY <1>1, ReverseFcn
<1> HIDE DEF p, f, g
<1>7. /\ l \in Seq(S) /\ Len(l) = n + m
      /\ \A k \in 1 .. n + 1 : l[k] = p[k]
      /\ \A k \in n + 2 .. n + m : l[k] = f[k - (n + 1)]
  <2>1. /\ l \in Seq(S) /\ Len(l) = Len(p) + Len(f)
        /\ \A k \in 1 .. Len(p) : l[k] = p[k]
        /\ \A k \in Len(p) + 1 .. Len(p) + Len(f) : l[k] = f[k - Len(p)]
    <3>1. p \in Seq(S) /\ f \in Seq(S)
      BY <1>4, <1>5
    <3> QED
      BY <3>1, ConcatFcn
  <2> HIDE DEF l
  <2>2. Len(p) = n + 1 /\ Len(f) = m - 1
    BY <1>4, <1>5
  <2>3. \A k \in n + 2 .. n + m : l[k] = f[k - (n + 1)]
    <3> SUFFICES ASSUME NEW k \in n + 2 .. n + m PROVE l[k] = f[k - (n + 1)]
      OBVIOUS
    <3>1. k \in Len(p) + 1 .. Len(p) + Len(f)
      BY <2>2
    <3>2. l[k] = f[k - Len(p)]
      BY <2>1, <3>1
    <3> QED
      BY <2>2, <3>2
  <2>4. l \in Seq(S) /\ Len(l) = n + m /\ \A k \in 1 .. n + 1 : l[k] = p[k]
    BY <2>1, <2>2
  <2>5. QED
    BY <2>3, <2>4
<1>8. /\ r \in Seq(S) /\ Len(r) = n + m
      /\ \A k \in 1 .. n : r[k] = q[k]
      /\ \A k \in n + 1 .. n + m : r[k] = g[k - n]
  <2>1. g \in Seq(S)
    BY <1>6
  <2>2. /\ r \in Seq(S) /\ Len(r) = Len(q) + Len(g)
        /\ \A k \in 1 .. Len(q) : r[k] = q[k]
        /\ \A k \in Len(q) + 1 .. Len(q) + Len(g) : r[k] = g[k - Len(q)]
    BY <2>1, ConcatFcn
  <2> HIDE DEF r
  <2>3. QED
    BY <1>2, <1>6, <2>2
<1> HIDE DEF l, r
<1>9. \A k \in 1 .. n + m : l[k] = r[k]
  <2> SUFFICES ASSUME NEW k \in 1 .. n + m PROVE l[k] = r[k]
    OBVIOUS
  <2>1. CASE k \in 1 .. n
    BY <1>4, <1>7, <1>8, <2>1
  <2>2. CASE k = n + 1
    <3>1. g[1] = t[m] /\ k - n = 1
      BY <1>6, <2>2
    <3>2. QED
      BY <1>4, <1>7, <1>8, <2>2, <3>1
  <2>3. CASE k \in n + 2 .. n + m
    <3>1. k - (n + 1) \in 1 .. m - 1 /\ k - n \in 1 .. m /\ m - (k - (n + 1)) = m - (k - n) + 1
      BY <2>3
    <3>2. f[k - (n + 1)] = g[k - n]
      <4>1. /\ f[k - (n + 1)] = t[m - (k - (n + 1))]
            /\ g[k - n] = t[m - (k - n) + 1]
        BY <1>5, <1>6, <3>1
      <4>2. QED
        BY <3>1, <4>1
    <3>3. QED
      BY <1>7, <1>8, <2>3, <3>2, SMTT(30)
  <2>4. QED
    BY <2>1, <2>2, <2>3
<1>10. l = r
  BY <1>7, <1>8, <1>9, SameSeq
<1>11. QED
  BY <1>10 DEF l, r, p, f, g

(* A sequence is its first k elements followed by the others. *)
LEMMA CutSeq ==
  ASSUME NEW S, NEW s \in Seq(S), NEW k \in 0 .. Len(s)
  PROVE  SubSeq(s, 1, k) \o SubSeq(s, k + 1, Len(s)) = s
<1> DEFINE a == SubSeq(s, 1, k)
           b == SubSeq(s, k + 1, Len(s))
           c == a \o b
<1>1. PICK n \in Nat : n = Len(s)
  OBVIOUS
<1>2. /\ a \in Seq(S) /\ Len(a) = k
      /\ \A i \in 1 .. k : a[i] = s[i]
  BY <1>1, SubSeqFcn
<1>3. /\ b \in Seq(S) /\ Len(b) = n - k
      /\ \A i \in 1 .. n - k : b[i] = s[k + i]
  BY <1>1, SubSeqFcn
<1> HIDE DEF a, b
<1>4. /\ c \in Seq(S) /\ Len(c) = Len(a) + Len(b)
      /\ \A i \in 1 .. Len(a) : c[i] = a[i]
      /\ \A i \in Len(a) + 1 .. Len(a) + Len(b) : c[i] = b[i - Len(a)]
  BY <1>2, <1>3, ConcatFcn
<1> HIDE DEF c
<1>5. ASSUME NEW i \in 1 .. n PROVE c[i] = s[i]
  <2>1. CASE i \in 1 .. k
    BY <1>2, <1>4, <2>1
  <2>2. CASE i \in k + 1 .. n
    <3>1. i - k \in 1 .. n - k /\ k + (i - k) = i
      BY <2>2
    <3>2. QED
      BY <1>1, <1>2, <1>3, <1>4, <2>2, <3>1
  <2>3. QED
    BY <2>1, <2>2
<1>6. Len(c) = n
  BY <1>1, <1>2, <1>3, <1>4
<1>7. c = s
  BY <1>1, <1>4, <1>5, <1>6, SameSeq
<1>8. QED
  BY <1>7 DEF c, b, a

(* Moving the first of q behind s leaves what is behind s's first k        *)
(* elements, followed by q, as it is.                                      *)
LEMMA MoveBehind ==
  ASSUME NEW S, NEW s \in Seq(S), NEW q \in Seq(S), q # <<>>, NEW k \in 0 .. Len(s)
  PROVE  LET t == Append(s, Head(q))
         IN  /\ SubSeq(t, 1, k) = SubSeq(s, 1, k)
             /\ SubSeq(t, k + 1, Len(t)) \o Tail(q) = SubSeq(s, k + 1, Len(s)) \o q
<1> DEFINE t == Append(s, Head(q))
           a == SubSeq(t, k + 1, Len(t))
           b == SubSeq(s, k + 1, Len(s))
           l == a \o Tail(q)
           r == b \o q
<1>1. PICK n \in Nat : n = Len(s)
  OBVIOUS
<1>2. PICK m \in Nat \ {0} : m = Len(q)
  OBVIOUS
<1>3. /\ Head(q) = q[1] /\ Head(q) \in S
      /\ Tail(q) \in Seq(S) /\ Len(Tail(q)) = m - 1
      /\ \A i \in 1 .. m - 1 : Tail(q)[i] = q[i + 1]
  BY <1>2, TailFcn
<1>4. /\ t \in Seq(S) /\ Len(t) = n + 1 /\ t[n + 1] = q[1]
      /\ \A i \in 1 .. n : t[i] = s[i]
  BY <1>1, <1>3, AppendFcn
<1> HIDE DEF t
<1>5. SubSeq(t, 1, k) = SubSeq(s, 1, k)
  <2>1. /\ SubSeq(t, 1, k) \in Seq(S) /\ Len(SubSeq(t, 1, k)) = k
        /\ \A i \in 1 .. k : SubSeq(t, 1, k)[i] = t[i]
    BY <1>1, <1>4, SubSeqFcn
  <2>2. /\ SubSeq(s, 1, k) \in Seq(S) /\ Len(SubSeq(s, 1, k)) = k
        /\ \A i \in 1 .. k : SubSeq(s, 1, k)[i] = s[i]
    BY <1>1, SubSeqFcn
  <2>3. QED
    BY <1>1, <1>4, <2>1, <2>2, SameSeq
<1>6. /\ a \in Seq(S) /\ Len(a) = n + 1 - k
      /\ \A i \in 1 .. n + 1 - k : a[i] = t[k + i]
  BY <1>1, <1>4, SubSeqFcn
<1>7. /\ b \in Seq(S) /\ Len(b) = n - k
      /\ \A i \in 1 .. n - k : b[i] = s[k + i]
  BY <1>1, SubSeqFcn
<1> HIDE DEF a, b
<1>8. /\ l \in Seq(S) /\ Len(l) = Len(a) + Len(Tail(q))
      /\ \A i \in 1 .. Len(a) : l[i] = a[i]
      /\ \A i \in Len(a) + 1 .. Len(a) + Len(Tail(q)) : l[i] = Tail(q)[i - Len(a)]
  <2>1. a \in Seq(S) /\ Tail(q) \in Seq(S)
    BY <1>3, <1>6
  <2>2. QED
    BY <2>1, ConcatFcn
<1>9. /\ r \in Seq(S) /\ Len(r) = Len(b) + Len(q)
      /\ \A i \in 1 .. Len(b) : r[i] = b[i]
      /\ \A i \in Len(b) + 1 .. Len(b) + Len(q) : r[i] = q[i - Len(b)]
  <2>1. b \in Seq(S)
    BY <1>7
  <2>2. QED
    BY <2>1, ConcatFcn
<1> HIDE DEF l, r
<1>10. Len(l) = n - k + m /\ Len(r) = n - k + m
  BY <1>2, <1>3, <1>6, <1>7, <1>8, <1>9
<1>11. ASSUME NEW i \in 1 .. n - k + m PROVE l[i] = r[i]
  <2>1. CASE i \in 1 .. n - k
    <3>1. i \in 1 .. n + 1 - k /\ k + i \in 1 .. n
      BY <2>1
    <3>2. QED
      BY <1>4, <1>6, <1>7, <1>8, <1>9, <2>1, <3>1
  <2>2. CASE i = n - k + 1
    <3>1. l[i] = t[n + 1]
      <4>1. i \in 1 .. n + 1 - k /\ Len(a) = n + 1 - k /\ k + i = n + 1
        BY <1>6, <2>2
      <4>2. l[i] = a[i] /\ a[i] = t[k + i]
        BY <1>6, <1>8, <4>1
      <4>3. QED
        BY <4>1, <4>2
    <3>2. r[i] = q[1]
      BY <1>2, <1>7, <1>9, <2>2
    <3>3. QED
      BY <1>4, <3>1, <3>2
  <2>3. CASE i \in n - k + 2 .. n - k + m
    <3>1. /\ i - (n + 1 - k) \in 1 .. m - 1 /\ i - (n - k) \in 1 .. m
          /\ i - (n + 1 - k) + 1 = i - (n - k)
      BY <2>3
    <3>2. l[i] = Tail(q)[i - (n + 1 - k)]
      <4>1. Len(a) = n + 1 - k /\ Len(Tail(q)) = m - 1
        BY <1>3, <1>6
      <4>2. i \in Len(a) + 1 .. Len(a) + Len(Tail(q))
        BY <2>3, <4>1
      <4>3. l[i] = Tail(q)[i - Len(a)]
        BY <1>8, <4>2
      <4>4. QED
        BY <4>1, <4>3
    <3>3. r[i] = q[i - (n - k)]
      <4>1. Len(b) = n - k /\ Len(q) = m
        BY <1>2, <1>7
      <4>2. i \in Len(b) + 1 .. Len(b) + Len(q)
        BY <2>3, <4>1
      <4>3. r[i] = q[i - Len(b)]
        BY <1>9, <4>2
      <4>4. QED
        BY <4>1, <4>3
    <3>4. QED
      BY <1>3, <3>1, <3>2, <3>3
  <2>4. QED
    BY <2>1, <2>2, <2>3
<1>12. l = r
  BY <1>8, <1>9, <1>10, <1>11, SameSeq
<1>13. QED
  BY <1>5, <1>12 DEF l, r, a, b, t

-----------------------------------------------------------------------------
(* The flag names the one thread that may touch the queue. *)
LockInv ==
  /\ net = "push" => QueueLock = LOCK_STATE_PROCESSED_QUEUE
  /\ work \in {"size", "pop"} => QueueLock = LOCK_STATE_WROTE_QUEUE

(* The queue is empty when the network thread finds it released, and holds *)
(* what the drain loop has still to pop; what it has popped is at the end  *)
(* of the worker's vector.                                                 *)
ContentInv ==
  /\ QueueLock = LOCK_STATE_PROCESSED_QUEUE /\ net # "push" => Queue = <<>>
  /\ work = "pop" => Len(Queue) = QueueSize - popped
  /\ popped <= Len(QueueMessages)
  /\ work # "pop" => QueueSize = 0 /\ popped = 0

(* A batch is in Messages or in its copy, never in both, and does not grow *)
(* on its way into the queue.                                              *)
BatchInv ==
  /\ net = "read" => TransferMessages = <<>>
  /\ net # "read" => Messages = <<>>
  /\ Len(Messages) <= BatchMax
  /\ Len(TransferMessages) <= BatchMax
  /\ net = "push" => Len(Queue) + Len(TransferMessages) <= BatchMax

(* No vector holds a number that has not been given out. *)
UpTo(s, n) == \A k \in 1 .. Len(s) : s[k] <= n

GivenOut ==
  /\ UpTo(Messages, nread)
  /\ UpTo(TransferMessages, nread)
  /\ UpTo(Queue, nread)
  /\ UpTo(QueueMessages, nread)

IInv ==
  /\ TypeOK
  /\ LockInv
  /\ ContentInv
  /\ BatchInv
  /\ QueueBounded
  /\ GivenOut
  /\ InOrder

-----------------------------------------------------------------------------
(* Types. *)

(* A step keeps the types and the drain loop's index in range.             *)
LEMMA TypeStep == TypeOK /\ ContentInv /\ [Next]_vars => TypeOK'
<1> USE DEF LOCK_STATE_WROTE_QUEUE, LOCK_STATE_PROCESSED_QUEUE
<1> SUFFICES ASSUME TypeOK, ContentInv, [Next]_vars PROVE TypeOK'
  OBVIOUS
<1>1. CASE ReadMessage
  BY <1>1 DEF TypeOK, ReadMessage, workVars
<1>2. CASE CopyMessages
  BY <1>2 DEF TypeOK, CopyMessages, workVars
<1>3. CASE TestReleased
  BY <1>3 DEF TypeOK, TestReleased, workVars
<1>4. CASE PushOldest
  <2>1. TransferMessages # <<>> /\ TransferMessages \in Seq(Nat)
    BY <1>4 DEF TypeOK, PushOldest
  <2>2. Last(TransferMessages) \in Nat /\ Front(TransferMessages) \in Seq(Nat)
    BY <2>1, FrontFcn
  <2>3. QED
    BY <1>4, <2>2 DEF TypeOK, PushOldest, workVars
<1>5. CASE HandOver
  BY <1>5 DEF TypeOK, HandOver, workVars
<1>6. CASE LogAndReturn
  BY <1>6 DEF TypeOK, LogAndReturn, workVars
<1>7. CASE TestWrote
  BY <1>7 DEF TypeOK, TestWrote, netVars
<1>8. CASE ReadSize
  BY <1>8 DEF TypeOK, ContentInv, ReadSize, netVars
<1>9. CASE PopOne
  BY <1>9 DEF TypeOK, ContentInv, PopOne, netVars
<1>10. CASE GiveBack
  BY <1>10 DEF TypeOK, GiveBack, netVars
<1>11. CASE Dispatch
  <2>1. QueueMessages \in Seq(Nat)
    BY DEF TypeOK
  <2>2. PICK n \in 0 .. Len(QueueMessages) :
          \E at \in [1 .. n -> 1 .. Len(QueueMessages)] :
            QueueMessages' = [k \in 1 .. n |-> QueueMessages[at[k]]]
    BY <1>11 DEF Dispatch
  <2>3. QueueMessages' \in Seq(Nat)
    BY <2>1, <2>2, SelectionFcn
  <2>4. QED
    BY <1>11, <2>3 DEF TypeOK, Dispatch, netVars
<1>12. CASE UNCHANGED vars
  BY <1>12 DEF TypeOK, vars, netVars, workVars
<1>13. QED
  BY <1>1, <1>2, <1>3, <1>4, <1>5, <1>6, <1>7, <1>8, <1>9, <1>10, <1>11, <1>12
     DEF Next, Network, Worker

-----------------------------------------------------------------------------
(* Who owns the queue, and what is in it. *)
LEMMA LockStep == TypeOK /\ LockInv /\ [Next]_vars => LockInv'
<1> USE DEF LOCK_STATE_WROTE_QUEUE, LOCK_STATE_PROCESSED_QUEUE
<1> SUFFICES ASSUME TypeOK, LockInv, [Next]_vars PROVE LockInv'
  OBVIOUS
<1>1. CASE TestReleased
  BY <1>1 DEF LockInv, TestReleased, workVars
<1>2. CASE HandOver
  BY <1>2 DEF LockInv, HandOver, workVars
<1>3. CASE TestWrote
  BY <1>3 DEF LockInv, TestWrote, netVars
<1>4. CASE GiveBack
  BY <1>4 DEF LockInv, GiveBack, netVars
<1>5. CASE ReadMessage \/ CopyMessages \/ PushOldest \/ LogAndReturn
  BY <1>5 DEF LockInv, ReadMessage, CopyMessages, PushOldest, LogAndReturn, workVars
<1>6. CASE ReadSize \/ PopOne \/ Dispatch
  BY <1>6 DEF LockInv, ReadSize, PopOne, Dispatch, netVars
<1>7. CASE UNCHANGED vars
  BY <1>7 DEF LockInv, vars, netVars, workVars
<1>8. QED
  BY <1>1, <1>2, <1>3, <1>4, <1>5, <1>6, <1>7 DEF Next, Network, Worker

LEMMA ContentStep == TypeOK /\ LockInv /\ ContentInv /\ [Next]_vars => ContentInv'
<1> USE DEF LOCK_STATE_WROTE_QUEUE, LOCK_STATE_PROCESSED_QUEUE
<1> SUFFICES ASSUME TypeOK, LockInv, ContentInv, [Next]_vars PROVE ContentInv'
  OBVIOUS
<1>1. CASE ReadMessage \/ CopyMessages \/ TestReleased \/ HandOver \/ LogAndReturn
  BY <1>1 DEF LockInv, ContentInv, ReadMessage, CopyMessages, TestReleased,
              HandOver, LogAndReturn, workVars
<1>2. CASE PushOldest
  \* The worker is not popping: the lock is not its own.
  BY <1>2 DEF LockInv, ContentInv, PushOldest, workVars
<1>3. CASE TestWrote \/ ReadSize \/ Dispatch
  BY <1>3 DEF TypeOK, ContentInv, TestWrote, ReadSize, Dispatch, netVars
<1>4. CASE PopOne
  <2>1. Queue # <<>> /\ Len(Tail(Queue)) = Len(Queue) - 1
    BY <1>4 DEF TypeOK, ContentInv, PopOne
  <2>2. /\ QueueMessages \in Seq(Nat) /\ Head(Queue) \in Nat
        /\ QueueMessages' = Append(QueueMessages, Head(Queue))
    BY <1>4, <2>1 DEF TypeOK, PopOne
  <2>3. Len(QueueMessages') = Len(QueueMessages) + 1
    BY <2>2, AppendFcn
  <2>4. QED
    BY <1>4, <2>1, <2>2, <2>3 DEF TypeOK, LockInv, ContentInv, PopOne, netVars
<1>5. CASE GiveBack
  <2>1. Len(Queue) = 0
    BY <1>5 DEF TypeOK, ContentInv, GiveBack
  <2>2. Queue = <<>>
    BY <2>1 DEF TypeOK
  <2>3. QED
    BY <1>5, <2>2 DEF ContentInv, GiveBack, netVars
<1>6. CASE UNCHANGED vars
  BY <1>6 DEF ContentInv, vars, netVars, workVars
<1>7. QED
  BY <1>1, <1>2, <1>3, <1>4, <1>5, <1>6 DEF Next, Network, Worker

-----------------------------------------------------------------------------
(* How much is in the queue. *)
LEMMA BatchStep ==
  TypeOK /\ LockInv /\ ContentInv /\ BatchInv /\ QueueBounded /\ [Next]_vars
    => (BatchInv /\ QueueBounded)'
<1> USE DEF LOCK_STATE_WROTE_QUEUE, LOCK_STATE_PROCESSED_QUEUE
<1> SUFFICES ASSUME TypeOK, LockInv, ContentInv, BatchInv, QueueBounded, [Next]_vars
             PROVE  (BatchInv /\ QueueBounded)'
  OBVIOUS
<1> USE HandoffAssumption
<1>1. CASE ReadMessage
  <2>1. Messages \in Seq(Nat) /\ nread' \in Nat
    BY <1>1 DEF TypeOK, ReadMessage
  <2>2. Len(Messages') = Len(Messages) + 1
    BY <1>1, <2>1 DEF ReadMessage
  <2>3. QED
    BY <1>1, <2>1, <2>2 DEF BatchInv, QueueBounded, ReadMessage
<1>2. CASE CopyMessages
  BY <1>2 DEF TypeOK, BatchInv, QueueBounded, CopyMessages
<1>3. CASE TestReleased
  \* The queue is found empty.
  BY <1>3 DEF TypeOK, ContentInv, BatchInv, QueueBounded, TestReleased
<1>4. CASE PushOldest
  <2>1. /\ TransferMessages \in Seq(Nat) /\ TransferMessages # <<>>
        /\ Queue \in Seq(Nat)
    BY <1>4 DEF TypeOK, PushOldest
  <2>2. /\ Len(TransferMessages') = Len(TransferMessages) - 1
        /\ Last(TransferMessages) \in Nat
    <3>1. Len(TransferMessages) \in Nat \ {0}
      BY <2>1
    <3>2. QED
      BY <1>4, <2>1, <3>1, FrontFcn DEF PushOldest
  <2>3. Len(Queue') = Len(Queue) + 1
    BY <1>4, <2>1, <2>2 DEF PushOldest
  <2>4. net = "push" /\ net' = net /\ Messages' = Messages
    BY <1>4 DEF PushOldest
  <2>5. Len(Queue) \in Nat /\ Len(TransferMessages) \in Nat
    BY <2>1
  <2>6. Len(TransferMessages) <= BatchMax /\ Len(Queue) + Len(TransferMessages) <= BatchMax
    BY <2>4 DEF BatchInv
  <2>7. Len(TransferMessages) >= 1
    BY <2>1
  <2>8. QED
    BY <2>2, <2>3, <2>4, <2>5, <2>6, <2>7 DEF BatchInv, QueueBounded
<1>5. CASE HandOver \/ LogAndReturn
  BY <1>5 DEF TypeOK, BatchInv, QueueBounded, HandOver, LogAndReturn
<1>6. CASE PopOne
  <2>1. Queue # <<>> /\ Len(Tail(Queue)) = Len(Queue) - 1 /\ Len(Queue) \in Nat
    BY <1>6 DEF TypeOK, ContentInv, PopOne
  <2>2. net # "push"
    BY <1>6 DEF LockInv, PopOne
  <2>3. QED
    BY <1>6, <2>1, <2>2 DEF TypeOK, BatchInv, QueueBounded, PopOne, netVars
<1>7. CASE TestWrote \/ ReadSize \/ GiveBack \/ Dispatch
  BY <1>7 DEF BatchInv, QueueBounded, TestWrote, ReadSize, GiveBack, Dispatch, netVars
<1>8. CASE UNCHANGED vars
  BY <1>8 DEF BatchInv, QueueBounded, vars, netVars
<1>9. QED
  BY <1>1, <1>2, <1>3, <1>4, <1>5, <1>6, <1>7, <1>8 DEF Next, Network, Worker

-----------------------------------------------------------------------------
(* The order of the messages.  Each move between two vectors is a lemma on *)
(* sequences.                                                              *)

(* A message with a new number is put in front. *)
LEMMA AddInFront ==
  ASSUME NEW s \in Seq(Nat), NEW n \in Nat, UpTo(s, n), NewestFirst(s)
  PROVE  /\ NewestFirst(<<n + 1>> \o s)
         /\ UpTo(<<n + 1>> \o s, n + 1)
         /\ \A r \in Seq(Nat) : UpTo(r, n) /\ Before(r, s) => Before(r, <<n + 1>> \o s)
<1> DEFINE t == <<n + 1>> \o s
<1>1. PICK m \in Nat : m = Len(s)
  OBVIOUS
<1>2. /\ Len(t) = m + 1
      /\ t[1] = n + 1
      /\ \A k \in 2 .. m + 1 : t[k] = s[k - 1]
  BY <1>1, ConsFcn
<1> HIDE DEF t
<1>3. \A k \in 2 .. m + 1 : k - 1 \in 1 .. m /\ s[k - 1] \in Nat /\ s[k - 1] <= n
  BY <1>1 DEF UpTo
<1>4. NewestFirst(t)
  <2> SUFFICES ASSUME NEW i \in 1 .. m + 1, NEW j \in 1 .. m + 1, i < j PROVE t[i] > t[j]
    BY <1>2 DEF NewestFirst
  <2>1. j \in 2 .. m + 1
    OBVIOUS
  <2>2. CASE i = 1
    BY <1>2, <1>3, <2>1, <2>2
  <2>3. CASE i # 1
    <3>1. i \in 2 .. m + 1
      BY <2>3
    <3>2. s[i - 1] > s[j - 1]
      <4>1. /\ i - 1 \in 1 .. Len(s) /\ j - 1 \in 1 .. Len(s)
            /\ i - 1 < j - 1
        BY <1>1, <2>1, <3>1
      <4>2. QED
        BY <4>1 DEF NewestFirst
    <3>3. QED
      BY <1>2, <2>1, <3>1, <3>2
  <2>4. QED
    BY <2>2, <2>3
<1>5. UpTo(t, n + 1)
  <2> SUFFICES ASSUME NEW k \in 1 .. m + 1 PROVE t[k] <= n + 1
    BY <1>2 DEF UpTo
  <2>1. CASE k = 1
    BY <1>2, <2>1
  <2>2. CASE k # 1
    <3>1. k \in 2 .. m + 1
      BY <2>2
    <3>2. QED
      BY <1>2, <1>3, <3>1
  <2>3. QED
    BY <2>1, <2>2
<1>6. ASSUME NEW r \in Seq(Nat), UpTo(r, n), Before(r, s) PROVE Before(r, t)
  <2> SUFFICES ASSUME NEW i \in 1 .. Len(r), NEW j \in 1 .. m + 1 PROVE r[i] < t[j]
    BY <1>2 DEF Before
  <2>1. r[i] \in Nat /\ r[i] <= n
    BY <1>6 DEF UpTo
  <2>2. CASE j = 1
    BY <1>2, <2>1, <2>2
  <2>3. CASE j # 1
    <3>1. j \in 2 .. m + 1
      BY <2>3
    <3>2. r[i] < s[j - 1]
      BY <1>1, <1>3, <1>6, <3>1 DEF Before
    <3>3. QED
      BY <1>2, <3>1, <3>2
  <2>4. QED
    BY <2>2, <2>3
<1>7. QED
  BY <1>4, <1>5, <1>6 DEF t

(* An element is put behind a sequence whose elements are all smaller. *)
LEMMA AddBehind ==
  ASSUME NEW s \in Seq(Nat), NEW x \in Nat,
         OldestFirst(s), \A k \in 1 .. Len(s) : s[k] < x
  PROVE  /\ OldestFirst(Append(s, x))
         /\ \A t \in Seq(Nat) : /\ Before(s, t)
                                /\ \A k \in 1 .. Len(t) : x < t[k]
              => Before(Append(s, x), t)
         /\ \A r \in Seq(Nat) : /\ Before(r, s)
                                /\ \A k \in 1 .. Len(r) : r[k] < x
              => Before(r, Append(s, x))
         /\ \A n \in Nat : UpTo(s, n) /\ x <= n => UpTo(Append(s, x), n)
<1> DEFINE p == Append(s, x)
<1>1. PICK m \in Nat : m = Len(s)
  OBVIOUS
<1>2. /\ Len(p) = m + 1
      /\ p[m + 1] = x
      /\ \A k \in 1 .. m : p[k] = s[k] /\ s[k] \in Nat /\ s[k] < x
  BY <1>1, AppendFcn
<1> HIDE DEF p
<1>3. \A k \in 1 .. m + 1 : k = m + 1 \/ k \in 1 .. m
  OBVIOUS
<1>4. OldestFirst(p)
  <2> SUFFICES ASSUME NEW i \in 1 .. m + 1, NEW j \in 1 .. m + 1, i < j PROVE p[i] < p[j]
    BY <1>2 DEF OldestFirst
  <2>1. i \in 1 .. m
    OBVIOUS
  <2>2. CASE j = m + 1
    BY <1>2, <2>1, <2>2
  <2>3. CASE j \in 1 .. m
    <3>1. s[i] < s[j]
      BY <1>1, <2>1, <2>3 DEF OldestFirst
    <3>2. QED
      BY <1>2, <2>1, <2>3, <3>1
  <2>4. QED
    BY <1>3, <2>2, <2>3
<1>5. ASSUME NEW t \in Seq(Nat), Before(s, t), \A k \in 1 .. Len(t) : x < t[k]
      PROVE  Before(p, t)
  <2> SUFFICES ASSUME NEW i \in 1 .. m + 1, NEW j \in 1 .. Len(t) PROVE p[i] < t[j]
    BY <1>2 DEF Before
  <2>1. CASE i = m + 1
    BY <1>2, <1>5, <2>1
  <2>2. CASE i \in 1 .. m
    BY <1>1, <1>2, <1>5, <2>2 DEF Before
  <2>3. QED
    BY <1>3, <2>1, <2>2
<1>6. ASSUME NEW r \in Seq(Nat), Before(r, s), \A k \in 1 .. Len(r) : r[k] < x
      PROVE  Before(r, p)
  <2> SUFFICES ASSUME NEW i \in 1 .. Len(r), NEW j \in 1 .. m + 1 PROVE r[i] < p[j]
    BY <1>2 DEF Before
  <2>1. CASE j = m + 1
    BY <1>2, <1>6, <2>1
  <2>2. CASE j \in 1 .. m
    BY <1>1, <1>2, <1>6, <2>2 DEF Before
  <2>3. QED
    BY <1>3, <2>1, <2>2
<1>7. ASSUME NEW n \in Nat, UpTo(s, n), x <= n PROVE UpTo(p, n)
  <2> SUFFICES ASSUME NEW k \in 1 .. m + 1 PROVE p[k] <= n
    BY <1>2 DEF UpTo
  <2>1. CASE k = m + 1
    BY <1>2, <1>7, <2>1
  <2>2. CASE k \in 1 .. m
    BY <1>1, <1>2, <1>7, <2>2 DEF UpTo
  <2>3. QED
    BY <1>3, <2>1, <2>2
<1>8. QED
  BY <1>4, <1>5, <1>6, <1>7 DEF p

(* What remains of a newest-first sequence without its last element.       *)
LEMMA DropLast ==
  ASSUME NEW t \in Seq(Nat), t # <<>>, NewestFirst(t)
  PROVE  /\ NewestFirst(Front(t))
         /\ \A k \in 1 .. Len(Front(t)) : Last(t) < Front(t)[k]
         /\ \A r \in Seq(Nat) : Before(r, t)
              => Before(r, Front(t)) /\ \A k \in 1 .. Len(r) : r[k] < Last(t)
         /\ \A n \in Nat : UpTo(t, n) => UpTo(Front(t), n) /\ Last(t) <= n
<1> DEFINE f == Front(t)
<1>1. PICK m \in Nat \ {0} : m = Len(t)
  OBVIOUS
<1>2. /\ Last(t) = t[m] /\ t[m] \in Nat
      /\ Len(f) = m - 1
      /\ \A k \in 1 .. m - 1 : f[k] = t[k]
  BY <1>1, FrontFcn
<1> HIDE DEF f
<1>3. \A k \in 1 .. m - 1 : k \in 1 .. m /\ t[k] \in Nat /\ t[m] < t[k]
  BY <1>1 DEF NewestFirst
<1>4. NewestFirst(f)
  BY <1>1, <1>2, <1>3 DEF NewestFirst
<1>5. \A k \in 1 .. Len(f) : Last(t) < f[k]
  BY <1>2, <1>3
<1>6. ASSUME NEW r \in Seq(Nat), Before(r, t)
      PROVE  Before(r, f) /\ \A k \in 1 .. Len(r) : r[k] < Last(t)
  BY <1>1, <1>2, <1>3, <1>6, SMTT(30) DEF Before
<1>7. ASSUME NEW n \in Nat, UpTo(t, n) PROVE UpTo(f, n) /\ Last(t) <= n
  BY <1>1, <1>2, <1>3, <1>7 DEF UpTo
<1>8. QED
  BY <1>4, <1>5, <1>6, <1>7 DEF f

(* What remains of an oldest-first sequence without its first element.     *)
LEMMA DropFirst ==
  ASSUME NEW q \in Seq(Nat), q # <<>>, OldestFirst(q)
  PROVE  /\ OldestFirst(Tail(q))
         /\ \A k \in 1 .. Len(Tail(q)) : Head(q) < Tail(q)[k]
         /\ \A r \in Seq(Nat) : Before(r, q) => \A k \in 1 .. Len(r) : r[k] < Head(q)
         /\ \A t \in Seq(Nat) : Before(q, t)
              => Before(Tail(q), t) /\ \A k \in 1 .. Len(t) : Head(q) < t[k]
         /\ \A r \in Seq(Nat) : Before(r, q) => Before(r, Tail(q))
         /\ \A n \in Nat : UpTo(q, n) => UpTo(Tail(q), n) /\ Head(q) <= n
<1> DEFINE f == Tail(q)
<1>1. PICK m \in Nat \ {0} : m = Len(q)
  OBVIOUS
<1>2. /\ Head(q) = q[1] /\ q[1] \in Nat
      /\ Len(f) = m - 1
      /\ \A k \in 1 .. m - 1 : f[k] = q[k + 1]
  BY <1>1, TailFcn
<1> HIDE DEF f
<1>3. \A k \in 1 .. m - 1 : k + 1 \in 1 .. m /\ q[k + 1] \in Nat /\ q[1] < q[k + 1]
  BY <1>1 DEF OldestFirst
<1>4. OldestFirst(f)
  <2> SUFFICES ASSUME NEW i \in 1 .. m - 1, NEW j \in 1 .. m - 1, i < j PROVE f[i] < f[j]
    BY <1>2 DEF OldestFirst
  <2>1. q[i + 1] < q[j + 1]
    BY <1>1, <1>3 DEF OldestFirst
  <2>2. QED
    BY <1>2, <2>1
<1>5. \A k \in 1 .. Len(f) : Head(q) < f[k]
  BY <1>2, <1>3
<1>6. ASSUME NEW r \in Seq(Nat), Before(r, q)
      PROVE  Before(r, f) /\ \A k \in 1 .. Len(r) : r[k] < Head(q)
  BY <1>1, <1>2, <1>3, <1>6, SMTT(30) DEF Before
<1>7. ASSUME NEW t \in Seq(Nat), Before(q, t)
      PROVE  Before(f, t) /\ \A k \in 1 .. Len(t) : Head(q) < t[k]
  BY <1>1, <1>2, <1>3, <1>7, SMTT(30) DEF Before
<1>8. ASSUME NEW n \in Nat, UpTo(q, n) PROVE UpTo(f, n) /\ Head(q) <= n
  BY <1>1, <1>2, <1>3, <1>8 DEF UpTo
<1>9. QED
  BY <1>4, <1>5, <1>6, <1>7, <1>8 DEF f

(* A selection that keeps the order. *)
LEMMA SelectionOrder ==
  ASSUME NEW s \in Seq(Nat), NEW n \in 0 .. Len(s), NEW at \in [1 .. n -> 1 .. Len(s)],
         \A i, j \in 1 .. n : i < j => at[i] < at[j],
         OldestFirst(s)
  PROVE  LET p == [k \in 1 .. n |-> s[at[k]]]
         IN  /\ OldestFirst(p)
             /\ \A t \in Seq(Nat) : Before(s, t) => Before(p, t)
             /\ \A m \in Nat : UpTo(s, m) => UpTo(p, m)
<1> DEFINE p == [k \in 1 .. n |-> s[at[k]]]
<1>1. Len(p) = n /\ \A k \in 1 .. n : p[k] = s[at[k]] /\ at[k] \in 1 .. Len(s)
  BY SelectionFcn
<1> HIDE DEF p
<1>2. OldestFirst(p)
  <2> SUFFICES ASSUME NEW i \in 1 .. n, NEW j \in 1 .. n, i < j PROVE p[i] < p[j]
    BY <1>1 DEF OldestFirst
  <2>1. at[i] < at[j]
    OBVIOUS
  <2>2. QED
    BY <1>1, <2>1 DEF OldestFirst
<1>3. \A t \in Seq(Nat) : Before(s, t) => Before(p, t)
  BY <1>1 DEF Before
<1>4. \A m \in Nat : UpTo(s, m) => UpTo(p, m)
  BY <1>1 DEF UpTo
<1>5. QED
  BY <1>2, <1>3, <1>4 DEF p

(* A step keeps the order. *)
LEMMA OrderStep ==
  TypeOK /\ ContentInv /\ BatchInv /\ GivenOut /\ InOrder /\ [Next]_vars
    => (GivenOut /\ InOrder)'
<1> SUFFICES ASSUME TypeOK, ContentInv, BatchInv, GivenOut, InOrder, [Next]_vars
             PROVE  (GivenOut /\ InOrder)'
  OBVIOUS
<1>0. /\ Queue \in Seq(Nat) /\ Messages \in Seq(Nat)
      /\ TransferMessages \in Seq(Nat) /\ QueueMessages \in Seq(Nat)
      /\ nread \in Nat
  BY DEF TypeOK
<1>1. \A s \in Seq(Nat) : \A t : t = <<>> => NewestFirst(t) /\ Before(s, t) /\ UpTo(t, nread)
  BY DEF NewestFirst, Before, UpTo
<1>2. CASE ReadMessage
  <2>1. TransferMessages = <<>>
    BY <1>2 DEF BatchInv, ReadMessage
  <2>2. /\ Messages' = <<nread + 1>> \o Messages /\ nread' = nread + 1
        /\ UNCHANGED <<Queue, TransferMessages, QueueMessages>>
    BY <1>2 DEF ReadMessage, workVars
  <2>3. /\ NewestFirst(Messages') /\ UpTo(Messages', nread')
        /\ Before(Queue, Messages') /\ Before(QueueMessages, Messages')
    BY <1>0, <2>2, AddInFront DEF GivenOut, InOrder
  <2>4. UpTo(Queue, nread') /\ UpTo(QueueMessages, nread') /\ UpTo(TransferMessages, nread')
    BY <1>0, <2>2 DEF GivenOut, UpTo
  <2>5. GivenOut'
    BY <2>3, <2>4, <2>2 DEF GivenOut, UpTo
  <2>6. QED
    BY <2>2, <2>3, <2>5 DEF InOrder, NewestFirst, OldestFirst, Before
<1>3. CASE CopyMessages
  BY <1>0, <1>1, <1>3 DEF GivenOut, InOrder, CopyMessages, workVars
<1>4. CASE TestReleased \/ HandOver
  BY <1>4 DEF GivenOut, InOrder, TestReleased, HandOver, workVars
<1>5. CASE PushOldest
  <2>1. Messages = <<>> /\ Messages' = <<>>
    BY <1>5 DEF BatchInv, PushOldest
  <2>2. /\ Queue' = Append(Queue, Last(TransferMessages))
        /\ TransferMessages' = Front(TransferMessages)
        /\ TransferMessages # <<>>
        /\ UNCHANGED <<nread, QueueMessages>>
    BY <1>5 DEF PushOldest, workVars
  <2>3. /\ Last(TransferMessages) \in Nat
        /\ Queue' \in Seq(Nat) /\ TransferMessages' \in Seq(Nat)
    <3>1. Last(TransferMessages) \in Nat /\ Front(TransferMessages) \in Seq(Nat)
      BY <1>0, <2>2, FrontFcn
    <3>2. QED
      BY <1>0, <2>2, <3>1, AppendFcn
  <2>4. /\ NewestFirst(TransferMessages')
        /\ \A k \in 1 .. Len(TransferMessages') : Last(TransferMessages) < TransferMessages'[k]
        /\ Before(Queue, TransferMessages') /\ Before(QueueMessages, TransferMessages')
        /\ \A k \in 1 .. Len(Queue) : Queue[k] < Last(TransferMessages)
        /\ \A k \in 1 .. Len(QueueMessages) : QueueMessages[k] < Last(TransferMessages)
        /\ UpTo(TransferMessages', nread) /\ Last(TransferMessages) <= nread
    BY <1>0, <2>2, DropLast DEF InOrder, GivenOut
  <2>5. /\ OldestFirst(Queue')
        /\ Before(Queue', TransferMessages')
        /\ Before(QueueMessages, Queue')
        /\ UpTo(Queue', nread)
    BY <1>0, <2>2, <2>3, <2>4, AddBehind DEF InOrder, GivenOut
  <2>6. Before(Queue', Messages') /\ Before(QueueMessages, Messages')
    BY <1>1, <1>0, <2>1, <2>3
  <2>7. QED
    BY <2>1, <2>2, <2>4, <2>5, <2>6 DEF InOrder, GivenOut
<1>6. CASE LogAndReturn
  BY <1>0, <1>1, <1>6 DEF GivenOut, InOrder, LogAndReturn, workVars
<1>7. CASE TestWrote \/ ReadSize \/ GiveBack
  BY <1>7 DEF GivenOut, InOrder, TestWrote, ReadSize, GiveBack, netVars
<1>8. CASE PopOne
  <2>1. Queue # <<>>
    BY <1>0, <1>8 DEF TypeOK, ContentInv, PopOne
  <2>2. /\ QueueMessages' = Append(QueueMessages, Head(Queue))
        /\ Queue' = Tail(Queue)
        /\ UNCHANGED <<nread, Messages, TransferMessages>>
    BY <1>8 DEF PopOne, netVars
  <2>3. /\ Head(Queue) \in Nat
        /\ Queue' \in Seq(Nat) /\ QueueMessages' \in Seq(Nat)
    BY <1>0, <2>1, <2>2, TailFcn, AppendFcn
  <2>4. /\ OldestFirst(Queue')
        /\ \A k \in 1 .. Len(Queue') : Head(Queue) < Queue'[k]
        /\ \A k \in 1 .. Len(QueueMessages) : QueueMessages[k] < Head(Queue)
        /\ \A k \in 1 .. Len(TransferMessages) : Head(Queue) < TransferMessages[k]
        /\ \A k \in 1 .. Len(Messages) : Head(Queue) < Messages[k]
        /\ Before(Queue', TransferMessages) /\ Before(Queue', Messages)
        /\ Before(QueueMessages, Queue')
        /\ UpTo(Queue', nread) /\ Head(Queue) <= nread
    BY <1>0, <2>1, <2>2, DropFirst DEF InOrder, GivenOut
  <2>5. /\ OldestFirst(QueueMessages')
        /\ Before(QueueMessages', Queue')
        /\ Before(QueueMessages', TransferMessages)
        /\ Before(QueueMessages', Messages)
        /\ UpTo(QueueMessages', nread)
    BY <1>0, <2>2, <2>3, <2>4, AddBehind DEF InOrder, GivenOut
  <2>6. QED
    BY <2>2, <2>4, <2>5 DEF InOrder, GivenOut
<1>9. CASE Dispatch
  <2>1. UNCHANGED <<Queue, nread, Messages, TransferMessages>>
    BY <1>9 DEF Dispatch, netVars
  <2>2. PICK n \in 0 .. Len(QueueMessages) :
          \E at \in [1 .. n -> 1 .. Len(QueueMessages)] :
            /\ \A i, j \in 1 .. n : i < j => at[i] < at[j]
            /\ QueueMessages' = [i \in 1 .. n |-> QueueMessages[at[i]]]
    BY <1>9 DEF Dispatch
  <2>3. /\ OldestFirst(QueueMessages')
        /\ \A t \in Seq(Nat) : Before(QueueMessages, t) => Before(QueueMessages', t)
        /\ \A m \in Nat : UpTo(QueueMessages, m) => UpTo(QueueMessages', m)
    <3>1. PICK at \in [1 .. n -> 1 .. Len(QueueMessages)] :
            /\ \A i, j \in 1 .. n : i < j => at[i] < at[j]
            /\ QueueMessages' = [i \in 1 .. n |-> QueueMessages[at[i]]]
      BY <2>2
    <3>2. QueueMessages \in Seq(Nat) /\ OldestFirst(QueueMessages)
      BY <1>0 DEF InOrder
    <3>3. QED
      BY <3>1, <3>2, SelectionOrder
  <2>4. QED
    BY <1>0, <2>1, <2>3 DEF InOrder, GivenOut
<1>10. CASE UNCHANGED vars
  BY <1>10 DEF GivenOut, InOrder, vars, netVars, workVars
<1>11. QED
  BY <1>2, <1>3, <1>4, <1>5, <1>6, <1>7, <1>8, <1>9, <1>10 DEF Next, Network, Worker

-----------------------------------------------------------------------------
(* The theorems. *)
LEMMA InitInv == Init => IInv
BY HandoffAssumption
   DEF Init, IInv, TypeOK, LockInv, ContentInv, BatchInv, QueueBounded, GivenOut,
       InOrder, OldestFirst, NewestFirst, Before, UpTo,
       LOCK_STATE_WROTE_QUEUE, LOCK_STATE_PROCESSED_QUEUE

(* IInv is an invariant of the hand-over. *)
THEOREM Invariance == Spec => []IInv
<1>1. Init => IInv
  BY InitInv
<1>2. IInv /\ [Next]_vars => IInv'
  BY TypeStep, LockStep, ContentStep, BatchStep, OrderStep DEF IInv
<1>3. QED
  BY <1>1, <1>2, PTL DEF Spec

(* Every variable keeps its type, and the drain loop's index its range.    *)
THEOREM TypeCorrect == Spec => []TypeOK
<1>1. IInv => TypeOK
  BY DEF IInv
<1>2. QED
  BY <1>1, Invariance, PTL

(* push() and pop() never overlap: one atomic integer is enough to guard   *)
(* the std::queue, because each side writes it only when it is done and    *)
(* the other side's value is in it.                                        *)
THEOREM MutualExclusion == Spec => []QueueExclusive
<1>1. IInv => QueueExclusive
  BY DEF IInv, LockInv, QueueExclusive, LOCK_STATE_WROTE_QUEUE, LOCK_STATE_PROCESSED_QUEUE
<1>2. QED
  BY <1>1, Invariance, PTL

(* The drain loop never takes the front of an empty queue. *)
THEOREM NoEmptyPop == Spec => []FrontExists
<1>1. IInv => FrontExists
  BY DEF IInv, TypeOK, ContentInv, FrontExists
<1>2. QED
  BY <1>1, Invariance, PTL

(* The unbounded std::queue holds at most one batch. *)
THEOREM OneBatch == Spec => []QueueBounded
<1>1. IInv => QueueBounded
  BY DEF IInv
<1>2. QED
  BY <1>1, Invariance, PTL

(* Messages reach the worker in the order in which they were read, none    *)
(* twice.                                                                  *)
THEOREM OrderKept == Spec => []InOrder
<1>1. IInv => InOrder
  BY DEF IInv
<1>2. QED
  BY <1>1, Invariance, PTL

-----------------------------------------------------------------------------
(* The hand-over implements the mailbox.                                   *)

(* What the mapped variables are in each state of the lock. *)
LEMMA Mapped ==
  ASSUME IInv
  PROVE  /\ MailFull => MailBox = SubSeq(QueueMessages, Kept + 1, Len(QueueMessages)) \o Queue
         /\ ~MailFull => MailBox = <<>>
         /\ Kept \in 0 .. Len(QueueMessages)
         /\ popped = 0 => MailInbox = QueueMessages
         /\ popped = 0 /\ MailFull => MailBox = Queue
<1>1. /\ QueueMessages \in Seq(Nat) /\ Queue \in Seq(Nat)
      /\ popped \in Nat /\ popped <= Len(QueueMessages)
  BY DEF IInv, TypeOK, ContentInv
<1>2. Kept \in 0 .. Len(QueueMessages)
  BY <1>1 DEF Kept
<1>3. ASSUME popped = 0 PROVE MailInbox = QueueMessages
  <2>1. Kept = Len(QueueMessages)
    BY <1>1, <1>3 DEF Kept
  <2>2. SubSeq(QueueMessages, 1, Len(QueueMessages)) = QueueMessages
    BY <1>1
  <2>3. QED
    BY <2>1, <2>2 DEF MailInbox
<1>4. ASSUME popped = 0, MailFull PROVE MailBox = Queue
  <2>1. Kept = Len(QueueMessages)
    BY <1>1, <1>4 DEF Kept
  <2>2. SubSeq(QueueMessages, Len(QueueMessages) + 1, Len(QueueMessages)) = <<>>
    BY <1>1
  <2>3. <<>> \o Queue = Queue
    BY <1>1
  <2>4. QED
    BY <1>4, <2>1, <2>2, <2>3 DEF MailBox
<1>5. QED
  BY <1>2, <1>3, <1>4 DEF MailBox

LEMMA MailInit == Init => MB!Init
<1> SUFFICES ASSUME Init PROVE MB!Init
  OBVIOUS
<1>1. IInv
  BY InitInv
<1>2. Reverse(<<>>) = <<>>
  BY DEF Reverse
<1>3. MailOut = <<>> /\ ~MailFull /\ popped = 0 /\ QueueMessages = <<>> /\ nread = 0
  BY <1>2 DEF Init, MailOut, MailFull, LOCK_STATE_WROTE_QUEUE, LOCK_STATE_PROCESSED_QUEUE
<1>4. QED
  BY <1>1, <1>3, Mapped DEF MB!Init, MailFull

(* Every step of the two threads is a step of the mailbox or leaves it     *)
(* unchanged.                                                              *)
LEMMA MailStep == IInv /\ IInv' /\ [Next]_vars => [MB!Next]_MB!vars
<1> USE DEF LOCK_STATE_WROTE_QUEUE, LOCK_STATE_PROCESSED_QUEUE
<1> SUFFICES ASSUME IInv, IInv', [Next]_vars PROVE MB!Next \/ UNCHANGED MB!vars
  OBVIOUS
<1>0. /\ Queue \in Seq(Nat) /\ Messages \in Seq(Nat)
      /\ TransferMessages \in Seq(Nat) /\ QueueMessages \in Seq(Nat)
      /\ nread \in Nat /\ popped \in Nat
  BY DEF IInv, TypeOK
<1>1. Reverse(<<>>) = <<>>
  BY DEF Reverse
<1>2. ASSUME UNCHANGED <<QueueLock, Queue, popped, QueueMessages>>
      PROVE  UNCHANGED <<MailFull, MailBox, MailInbox>>
  BY <1>2 DEF MailFull, MailBox, MailInbox, Kept
<1>3. CASE ReadMessage
  <2>1. /\ MailOut = Reverse(Messages) /\ MailOut' = Reverse(Messages')
        /\ Messages' = <<nread + 1>> \o Messages /\ nread' = nread + 1
        /\ nread < MaxReads /\ Len(Messages) < BatchMax
    BY <1>3 DEF ReadMessage, MailOut
  <2>2. MailOut' = Append(MailOut, nread') /\ Len(MailOut) = Len(Messages)
    <3>1. nread + 1 \in Nat
      BY <1>0
    <3>2. Reverse(<<nread + 1>> \o Messages) = Append(Reverse(Messages), nread + 1)
      BY <1>0, <3>1, ReverseCons
    <3>3. Len(Reverse(Messages)) = Len(Messages)
      BY <1>0, ReverseFcn
    <3>4. QED
      BY <2>1, <3>2, <3>3
  <2>3. UNCHANGED <<MailFull, MailBox, MailInbox>>
    BY <1>2, <1>3 DEF ReadMessage, workVars
  <2>4. MB!Collect
    BY <2>1, <2>2, <2>3 DEF MB!Collect
  <2>5. QED
    BY <2>4 DEF MB!Next
<1>4. CASE CopyMessages
  <2>1. MailOut' = MailOut /\ nread' = nread
    BY <1>4 DEF CopyMessages, MailOut
  <2>2. UNCHANGED <<MailFull, MailBox, MailInbox>>
    BY <1>2, <1>4 DEF CopyMessages, workVars
  <2>3. QED
    BY <2>1, <2>2 DEF MB!vars
<1>5. CASE TestReleased
  <2>1. UNCHANGED <<MailFull, MailBox, MailInbox>> /\ nread' = nread
    BY <1>2, <1>5 DEF TestReleased, workVars
  <2>2. CASE QueueLock = LOCK_STATE_PROCESSED_QUEUE
    <3>1. Queue = <<>>
      BY <1>5, <2>2 DEF IInv, ContentInv, TestReleased
    <3>2. /\ MailOut = Reverse(TransferMessages)
          /\ MailOut' = Queue \o Reverse(TransferMessages)
      BY <1>5, <2>2 DEF TestReleased, MailOut
    <3>3. Reverse(TransferMessages) \in Seq(Nat)
      BY <1>0, ReverseFcn
    <3>4. MailOut' = MailOut
      BY <3>1, <3>2, <3>3
    <3>5. QED
      BY <2>1, <3>4 DEF MB!vars
  <2>3. CASE QueueLock # LOCK_STATE_PROCESSED_QUEUE
    <3>1. MailOut' = <<>> /\ MailFull
      BY <1>5, <2>3 DEF TestReleased, MailOut, MailFull, IInv, TypeOK
    <3>2. MB!Drop
      BY <2>1, <3>1 DEF MB!Drop
    <3>3. QED
      BY <3>2 DEF MB!Next
  <2>4. QED
    BY <2>2, <2>3
<1>6. CASE PushOldest
  <2>1. ~MailFull /\ ~MailFull'
    BY <1>6 DEF PushOldest, IInv, LockInv, MailFull
  <2>2. MailBox' = <<>> /\ MailBox = <<>>
    BY <2>1 DEF MailBox
  <2>3. MailInbox' = MailInbox /\ nread' = nread /\ MailFull' = MailFull
    BY <1>6 DEF PushOldest, workVars, MailInbox, Kept, MailFull
  <2>4. /\ MailOut = Queue \o Reverse(TransferMessages)
        /\ MailOut' = Append(Queue, Last(TransferMessages)) \o Reverse(Front(TransferMessages))
        /\ TransferMessages # <<>>
    BY <1>6 DEF PushOldest, MailOut
  <2>5. MailOut' = MailOut
    <3>1. Append(Queue, Last(TransferMessages)) \o Reverse(Front(TransferMessages))
            = Queue \o Reverse(TransferMessages)
      BY <1>0, <2>4, ReverseMove
    <3>2. QED
      BY <2>4, <3>1
  <2>6. QED
    BY <2>2, <2>3, <2>5 DEF MB!vars
<1>7. CASE HandOver
  <2>1. ~MailFull /\ MailFull'
    BY <1>7 DEF HandOver, IInv, LockInv, MailFull
  <2>2. popped = 0 /\ popped' = 0
    BY <1>7 DEF HandOver, workVars, IInv, LockInv, ContentInv
  <2>3. MailOut = Queue /\ MailOut' = <<>>
    BY <1>0, <1>1, <1>7 DEF HandOver, MailOut
  <2>4. MailBox = <<>> /\ MailBox' = Queue'
    <3>1. MailBox' = SubSeq(QueueMessages', Kept' + 1, Len(QueueMessages')) \o Queue'
      BY <2>1 DEF MailBox
    <3>2. QueueMessages' = QueueMessages /\ Queue' = Queue /\ Kept' = Len(QueueMessages)
      BY <1>0, <1>7, <2>2 DEF HandOver, workVars, Kept
    <3>3. SubSeq(QueueMessages, Len(QueueMessages) + 1, Len(QueueMessages)) = <<>>
      BY <1>0
    <3>4. QED
      BY <1>0, <2>1, <3>1, <3>2, <3>3 DEF MailBox
  <2>5. UNCHANGED <<MailInbox, nread, Queue>>
    BY <1>7 DEF HandOver, workVars, MailInbox, Kept
  <2>6. MB!Post
    BY <2>1, <2>3, <2>4, <2>5 DEF MB!Post
  <2>7. QED
    BY <2>6 DEF MB!Next
<1>8. CASE LogAndReturn
  <2>1. MailOut = <<>> /\ MailOut' = Reverse(Messages') /\ Messages' = <<>>
    BY <1>8 DEF LogAndReturn, MailOut, IInv, BatchInv
  <2>2. UNCHANGED <<MailFull, MailBox, MailInbox>> /\ nread' = nread
    BY <1>2, <1>8 DEF LogAndReturn, workVars
  <2>3. QED
    BY <1>1, <2>1, <2>2 DEF MB!vars
<1>9. CASE TestWrote \/ ReadSize
  <2>1. UNCHANGED <<MailFull, MailBox, MailInbox>> /\ UNCHANGED <<MailOut, nread>>
    BY <1>2, <1>9 DEF TestWrote, ReadSize, netVars, MailOut
  <2>2. QED
    BY <2>1 DEF MB!vars
<1>10. CASE PopOne
  <2>1. MailFull /\ MailFull' /\ net # "push"
    BY <1>10 DEF PopOne, IInv, LockInv, MailFull
  <2>2. /\ Queue # <<>> /\ Kept \in 0 .. Len(QueueMessages)
        /\ Queue' = Tail(Queue)
        /\ QueueMessages' = Append(QueueMessages, Head(Queue))
        /\ Head(Queue) \in Nat
    BY <1>0, <1>10, Mapped, TailFcn DEF PopOne, IInv, TypeOK, ContentInv
  <2>3. Len(QueueMessages') = Len(QueueMessages) + 1 /\ popped' = popped + 1
    BY <1>0, <1>10, <2>2, AppendFcn DEF PopOne
  <2>4. Kept' = Kept
    BY <1>0, <2>3 DEF Kept
  <2>5. /\ MailInbox' = MailInbox
        /\ SubSeq(QueueMessages', Kept + 1, Len(QueueMessages')) \o Queue'
             = SubSeq(QueueMessages, Kept + 1, Len(QueueMessages)) \o Queue
    BY <1>0, <2>2, <2>4, MoveBehind DEF MailInbox
  <2>6. MailBox' = MailBox
    BY <2>1, <2>4, <2>5 DEF MailBox
  <2>7. MailOut' = MailOut /\ nread' = nread
    BY <1>10, <2>1 DEF PopOne, netVars, MailOut
  <2>8. QED
    BY <2>1, <2>5, <2>6, <2>7 DEF MB!vars
<1>11. CASE GiveBack
  <2>1. MailFull /\ ~MailFull' /\ net # "push"
    BY <1>11 DEF GiveBack, IInv, LockInv, MailFull
  <2>2. Queue = <<>> /\ Queue' = <<>>
    BY <1>0, <1>11 DEF GiveBack, IInv, ContentInv
  <2>3. /\ MailBox = SubSeq(QueueMessages, Kept + 1, Len(QueueMessages)) \o <<>>
        /\ Kept \in 0 .. Len(QueueMessages)
    BY <2>1, <2>2, Mapped
  <2>4. SubSeq(QueueMessages, Kept + 1, Len(QueueMessages)) \in Seq(Nat)
    BY <1>0, <2>3, SubSeqFcn
  <2>5. MailInbox \o MailBox = QueueMessages
    <3>1. SubSeq(QueueMessages, 1, Kept) \o SubSeq(QueueMessages, Kept + 1, Len(QueueMessages))
            = QueueMessages
      BY <1>0, <2>3, CutSeq
    <3>2. SubSeq(QueueMessages, Kept + 1, Len(QueueMessages)) \o <<>>
            = SubSeq(QueueMessages, Kept + 1, Len(QueueMessages))
      BY <2>4
    <3>3. QED
      BY <2>3, <3>1, <3>2 DEF MailInbox
  <2>6. MailInbox' = QueueMessages
    <3>1. popped' = 0 /\ QueueMessages' = QueueMessages
      BY <1>11 DEF GiveBack
    <3>2. Kept' = Len(QueueMessages)
      BY <1>0, <3>1 DEF Kept
    <3>3. QED
      BY <1>0, <3>1, <3>2 DEF MailInbox
  <2>7. MailBox' = <<>>
    BY <2>1 DEF MailBox
  <2>8. MailOut' = MailOut /\ nread' = nread
    BY <1>11, <2>1 DEF GiveBack, netVars, MailOut
  <2>9. MB!Take
    BY <2>1, <2>5, <2>6, <2>7, <2>8 DEF MB!Take
  <2>10. QED
    BY <2>9 DEF MB!Next
<1>12. CASE Dispatch
  <2>1. popped = 0 /\ popped' = 0
    BY <1>12 DEF Dispatch, IInv, ContentInv
  <2>2. MailInbox = QueueMessages
    BY <2>1, Mapped
  <2>3. QueueMessages' \in Seq(Nat)
    BY DEF IInv, TypeOK
  <2>4. Kept' = Len(QueueMessages')
    BY <2>1, <2>3 DEF Kept
  <2>5. MailInbox' = QueueMessages'
    BY <2>3, <2>4 DEF MailInbox
  <2>6. MailFull' = MailFull /\ Queue' = Queue
    BY <1>12 DEF Dispatch, MailFull
  <2>7. MailBox' = MailBox
    <3>1. CASE MailFull
      <4>1. MailBox = Queue
        BY <2>1, <3>1, Mapped
      <4>2. SubSeq(QueueMessages', Len(QueueMessages') + 1, Len(QueueMessages')) = <<>>
        BY <2>3
      <4>3. <<>> \o Queue = Queue
        BY <1>0
      <4>4. MailBox' = SubSeq(QueueMessages', Kept' + 1, Len(QueueMessages')) \o Queue'
        BY <2>6, <3>1 DEF MailBox
      <4>5. QED
        BY <2>4, <2>6, <4>1, <4>2, <4>3, <4>4
    <3>2. CASE ~MailFull
      BY <2>6, <3>2 DEF MailBox
    <3>3. QED
      BY <3>1, <3>2
  <2>8. MailOut' = MailOut /\ nread' = nread
    BY <1>12 DEF Dispatch, netVars, MailOut
  <2>9. \E n \in 0 .. Len(MailInbox) : \E at \in [1 .. n -> 1 .. Len(MailInbox)] :
          /\ \A i, j \in 1 .. n : i < j => at[i] < at[j]
          /\ MailInbox' = [i \in 1 .. n |-> MailInbox[at[i]]]
    <3>1. PICK n \in 0 .. Len(QueueMessages) : \E at \in [1 .. n -> 1 .. Len(QueueMessages)] :
            /\ \A i, j \in 1 .. n : i < j => at[i] < at[j]
            /\ QueueMessages' = [i \in 1 .. n |-> QueueMessages[at[i]]]
      BY <1>12 DEF Dispatch
    <3>2. PICK at \in [1 .. n -> 1 .. Len(QueueMessages)] :
            /\ \A i, j \in 1 .. n : i < j => at[i] < at[j]
            /\ QueueMessages' = [i \in 1 .. n |-> QueueMessages[at[i]]]
      BY <3>1
    <3>3. n \in 0 .. Len(MailInbox) /\ at \in [1 .. n -> 1 .. Len(MailInbox)]
      BY <2>2
    <3>4. MailInbox' = [i \in 1 .. n |-> MailInbox[at[i]]]
      BY <2>2, <2>5, <3>2
    <3>5. QED
      BY <3>2, <3>3, <3>4
  <2>10. MB!Remove
    BY <2>6, <2>7, <2>8, <2>9 DEF MB!Remove
  <2>11. QED
    BY <2>10 DEF MB!Next
<1>13. CASE UNCHANGED vars
  <2>1. UNCHANGED <<MailFull, MailBox, MailInbox>> /\ UNCHANGED <<MailOut, nread>>
    BY <1>2, <1>13 DEF vars, netVars, workVars, MailOut
  <2>2. QED
    BY <2>1 DEF MB!vars
<1>14. QED
  BY <1>3, <1>4, <1>5, <1>6, <1>7, <1>8, <1>9, <1>10, <1>11, <1>12, <1>13
     DEF Next, Network, Worker

(* The lock protocol implements the one-slot mailbox, without its promise  *)
(* that a full mailbox is emptied: whatever the worker takes out is what   *)
(* the network thread put in, whole, in order and once, and a batch is     *)
(* lost only while the one before it has not been taken.                   *)
THEOREM Refinement == Spec => MB!SafeSpec
<1>1. Init => MB!Init
  BY MailInit
<1>2. IInv /\ IInv' /\ [Next]_vars => [MB!Next]_MB!vars
  BY MailStep
<1>3. QED
  BY <1>1, <1>2, Invariance, PTL DEF Spec, MB!SafeSpec

-----------------------------------------------------------------------------
(* A batch that was queued is taken.                                       *)

(* Steps of the worker until the lock is back with the network thread. *)
UntilRelease ==
  IF QueueLock = LOCK_STATE_PROCESSED_QUEUE THEN 0
  ELSE CASE work = "dispatch" -> Len(Queue) + 4
         [] work = "test" -> Len(Queue) + 3
         [] work = "size" -> Len(Queue) + 2
         [] OTHER -> Len(Queue) + 1

(* A step of the worker brings the release nearer, one of the network      *)
(* thread does not put it off.                                             *)
Nearer ==
  QueueLock = LOCK_STATE_WROTE_QUEUE =>
    /\ Worker => UntilRelease' = UntilRelease - 1
    /\ Network => UntilRelease' = UntilRelease

(* A message leaves the queue only into the worker's vector. *)
TakenByWorker ==
  \A n \in Range(Queue) : n \in Range(Queue') \cup Range(QueueMessages')

LEMMA ReleaseBound == IInv => UntilRelease \in 0 .. BatchMax + 4
<1> SUFFICES ASSUME IInv PROVE UntilRelease \in 0 .. BatchMax + 4
  OBVIOUS
<1>1. BatchMax \in Nat /\ Len(Queue) \in Nat /\ Len(Queue) <= BatchMax
  BY HandoffAssumption DEF IInv, TypeOK, QueueBounded
<1>2. QED
  BY <1>1 DEF UntilRelease

LEMMA ReleaseStep == IInv /\ [Next]_vars => [Nearer]_vars
<1> SUFFICES ASSUME IInv, Next PROVE Nearer
  BY DEF vars
<1> USE DEF LOCK_STATE_WROTE_QUEUE, LOCK_STATE_PROCESSED_QUEUE
<1>1. SUFFICES ASSUME QueueLock = LOCK_STATE_WROTE_QUEUE
               PROVE  /\ Worker => UntilRelease' = UntilRelease - 1
                      /\ Network => UntilRelease' = UntilRelease
  BY DEF Nearer
<1>2. /\ net # "push" /\ Queue \in Seq(Nat) /\ Len(Queue) \in Nat
      /\ QueueSize \in Nat /\ popped \in 0 .. QueueSize
      /\ work \in {"test", "size", "pop", "dispatch"}
      /\ work = "pop" => Len(Queue) = QueueSize - popped
  BY <1>1 DEF IInv, TypeOK, LockInv, ContentInv
<1>3. Network => UntilRelease' = UntilRelease
  <2>1. SUFFICES ASSUME Network PROVE UntilRelease' = UntilRelease
    OBVIOUS
  <2>2. QueueLock' = QueueLock /\ Queue' = Queue /\ work' = work
    BY <1>2, <2>1
    DEF Network, ReadMessage, CopyMessages, TestReleased, PushOldest, HandOver, LogAndReturn, workVars
  <2>3. QED
    BY <2>2 DEF UntilRelease
<1>4. CASE TestWrote
  BY <1>1, <1>2, <1>3, <1>4 DEF TestWrote, UntilRelease
<1>5. CASE ReadSize
  BY <1>1, <1>2, <1>3, <1>5 DEF ReadSize, UntilRelease
<1>6. CASE PopOne
  <2>1. work = "pop" /\ work' = "pop" /\ QueueLock' = QueueLock
    BY <1>6 DEF PopOne
  <2>2. Queue # <<>> /\ Queue' = Tail(Queue)
    BY <1>2, <1>6 DEF PopOne
  <2>3. Len(Queue') = Len(Queue) - 1
    BY <1>2, <2>2, TailFcn
  <2>4. UntilRelease = Len(Queue) + 1 /\ UntilRelease' = Len(Queue') + 1
    BY <1>1, <1>2, <2>1, <2>3 DEF UntilRelease
  <2>5. QED
    BY <1>2, <1>3, <2>3, <2>4
<1>7. CASE GiveBack
  <2>1. work = "pop" /\ popped = QueueSize /\ QueueLock' = LOCK_STATE_PROCESSED_QUEUE
    BY <1>7 DEF GiveBack
  <2>2. Len(Queue) = 0
    BY <1>2, <2>1
  <2>3. UntilRelease = Len(Queue) + 1 /\ UntilRelease' = 0
    BY <1>1, <1>2, <2>1 DEF UntilRelease
  <2>4. QED
    BY <1>3, <2>2, <2>3
<1>8. CASE Dispatch
  <2>1. work = "dispatch" /\ work' = "test" /\ QueueLock' = QueueLock /\ Queue' = Queue
    BY <1>8 DEF Dispatch
  <2>2. UntilRelease = Len(Queue) + 4 /\ UntilRelease' = Len(Queue) + 3
    BY <1>1, <1>2, <2>1 DEF UntilRelease
  <2>3. QED
    BY <1>2, <1>3, <2>2
<1>9. QED
  BY <1>3, <1>4, <1>5, <1>6, <1>7, <1>8 DEF Worker

LEMMA TakenStep == IInv /\ [Next]_vars => [TakenByWorker]_vars
<1> SUFFICES ASSUME IInv, Next, NEW n \in Range(Queue)
             PROVE  n \in Range(Queue') \cup Range(QueueMessages')
  BY DEF TakenByWorker, vars
<1>1. PICK k \in 1 .. Len(Queue) : n = Queue[k]
  BY DEF Range, IInv, TypeOK
<1>2. Queue \in Seq(Nat) /\ TransferMessages \in Seq(Nat) /\ QueueMessages \in Seq(Nat)
  BY DEF IInv, TypeOK
<1>3. CASE PushOldest
  <2>1. Last(TransferMessages) \in Nat
    BY <1>2, <1>3 DEF PushOldest, Last
  <2>2. k \in DOMAIN Queue' /\ Queue'[k] = n
    BY <1>1, <1>2, <1>3, <2>1 DEF PushOldest
  <2>3. QED
    BY <2>2 DEF Range
<1>4. CASE PopOne
  <2>1. Queue # <<>> /\ Head(Queue) = Queue[1]
    BY <1>1, <1>2
  <2>2. CASE k = 1
    <3>1. /\ Len(QueueMessages) + 1 \in DOMAIN QueueMessages'
          /\ QueueMessages'[Len(QueueMessages) + 1] = n
      BY <1>1, <1>2, <1>4, <2>1, <2>2 DEF PopOne
    <3>2. QED
      BY <3>1 DEF Range
  <2>3. CASE k # 1
    <3>1. k - 1 \in DOMAIN Queue' /\ Queue'[k - 1] = n
      BY <1>1, <1>2, <1>4, <2>1, <2>3 DEF PopOne
    <3>2. QED
      BY <3>1 DEF Range
  <2>4. QED
    BY <2>2, <2>3
<1>5. CASE Queue' = Queue
  BY <1>5 DEF Range
<1>6. QED
  BY <1>3, <1>4, <1>5
  DEF Next, Network, Worker, ReadMessage, CopyMessages, TestReleased, HandOver, LogAndReturn,
      TestWrote, ReadSize, GiveBack, Dispatch

(* From the hand-over on the network thread gets the queue back within     *)
(* BatchMax + 4 steps of the worker, whatever the network thread does      *)
(* meanwhile, and every message leaves the queue into the worker's vector. *)
(* That the worker takes these steps is all that LockComesBack and         *)
(* QueuedIsTaken need of fairness.                                         *)
THEOREM BatchIsTaken ==
  Spec => /\ [](UntilRelease \in 0 .. BatchMax + 4)
          /\ [][Nearer]_vars
          /\ [][TakenByWorker]_vars
BY ReleaseBound, ReleaseStep, TakenStep, Invariance, PTL DEF Spec
=============================================================================
