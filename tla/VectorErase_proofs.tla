------------------------- MODULE VectorErase_proofs -------------------------
(***************************************************************************)
(* What the erase loop does to the vector, for vectors of every length.    *)
(***************************************************************************)
EXTENDS VectorErase, TLAPS

-----------------------------------------------------------------------------
(* What one erasure does, as facts about functions on an interval.         *)

(* Taking the last element off: vector::pop_back. *)
LEMMA FrontFcn ==
  ASSUME NEW S, NEW s \in Seq(S), s # <<>>
  PROVE  /\ Len(s) \in Nat \ {0}
         /\ Front(s) \in Seq(S)
         /\ Len(Front(s)) = Len(s) - 1
         /\ \A k \in 1 .. Len(s) - 1 : Front(s)[k] = s[k]
         /\ Last(s) = s[Len(s)] /\ s[Len(s)] \in S
<1>1. PICK n \in Nat \ {0} : n = Len(s)
  OBVIOUS
<1>2. \A k \in 1 .. n - 1 : s[k] \in S
  BY <1>1
<1>3. /\ SubSeq(s, 1, n - 1) \in Seq(S)
      /\ Len(SubSeq(s, 1, n - 1)) = n - 1
      /\ \A k \in 1 .. n - 1 : SubSeq(s, 1, n - 1)[k] = s[k]
  BY <1>2
<1>4. s[n] \in S
  BY <1>1
<1>5. QED
  BY <1>1, <1>3, <1>4 DEF Front, Last

(* One sequence behind the other. *)
LEMMA ConcatFcn ==
  ASSUME NEW S, NEW s \in Seq(S), NEW t \in Seq(S)
  PROVE  /\ s \o t \in Seq(S)
         /\ Len(s \o t) = Len(s) + Len(t)
         /\ \A k \in 1 .. Len(s) : (s \o t)[k] = s[k]
         /\ \A k \in Len(s) + 1 .. Len(s) + Len(t) : (s \o t)[k] = t[k - Len(s)]
OBVIOUS

(* A part of a sequence. *)
LEMMA SubSeqFcn ==
  ASSUME NEW S, NEW s \in Seq(S), NEW m \in 1 .. Len(s) + 1, NEW n \in 0 .. Len(s), m <= n + 1
  PROVE  /\ SubSeq(s, m, n) \in Seq(S)
         /\ Len(SubSeq(s, m, n)) = n - m + 1
         /\ \A k \in 1 .. n - m + 1 : SubSeq(s, m, n)[k] = s[m + k - 1]
<1>1. \A k \in m .. n : s[k] \in S
  OBVIOUS
<1>2. m \in Int /\ n \in Int
  OBVIOUS
<1>3. QED
  BY <1>1, <1>2

(* One erasure of the erase loop, inside the vector and past its end. *)
LEMMA EraseAtFcn ==
  ASSUME NEW S, NEW s \in Seq(S), s # <<>>, NEW k \in Nat
  PROVE  /\ EraseAt(s, k) \in Seq(S)
         /\ Len(EraseAt(s, k)) = Len(s) - 1
         /\ \A p \in 1 .. Len(s) - 1 :
              p > k => k < Len(s) /\ EraseAt(s, k)[p] = s[p + 1]
<1>1. CASE k < Len(s)
  <2> DEFINE a == SubSeq(s, 1, k)
             b == SubSeq(s, k + 2, Len(s))
  <2>1. PICK n \in Nat : n = Len(s) /\ k < n
    BY <1>1
  <2>2. /\ a \in Seq(S) /\ Len(a) = k
    <3>1. 1 \in 1 .. Len(s) + 1 /\ k \in 0 .. Len(s) /\ 1 <= k + 1
      BY <2>1
    <3>2. QED
      BY <3>1, SubSeqFcn
  <2>3. /\ b \in Seq(S) /\ Len(b) = n - (k + 1)
        /\ \A p \in 1 .. n - (k + 1) : b[p] = s[p + k + 1]
    <3>1. /\ k + 2 \in 1 .. Len(s) + 1 /\ Len(s) \in 0 .. Len(s)
          /\ k + 2 <= Len(s) + 1
      BY <2>1
    <3>2. /\ b \in Seq(S) /\ Len(b) = Len(s) - (k + 2) + 1
          /\ \A p \in 1 .. Len(s) - (k + 2) + 1 : b[p] = s[(k + 2) + p - 1]
      BY <3>1, SubSeqFcn
    <3>3. \A p \in 1 .. n - (k + 1) : (k + 2) + p - 1 = p + k + 1
      BY <2>1
    <3>4. n - (k + 1) = Len(s) - (k + 2) + 1
      BY <2>1
    <3>5. QED
      BY <3>2, <3>3, <3>4
  <2>4. EraseAt(s, k) = a \o b
    <3>1. (k + 1) - 1 = k /\ (k + 1) + 1 = k + 2
      OBVIOUS
    <3>2. EraseAt(s, k) = SubSeq(s, 1, (k + 1) - 1) \o SubSeq(s, (k + 1) + 1, Len(s))
      BY <1>1 DEF EraseAt, RemoveAt
    <3>3. QED
      BY <3>1, <3>2
  <2> HIDE DEF a, b
  <2>5. /\ a \o b \in Seq(S)
        /\ Len(a \o b) = n - 1
        /\ \A p \in k + 1 .. n - 1 : (a \o b)[p] = b[p - k]
    <3>1. Len(a) + Len(b) = n - 1
      BY <2>1, <2>2, <2>3
    <3>2. /\ a \o b \in Seq(S) /\ Len(a \o b) = Len(a) + Len(b)
          /\ \A p \in Len(a) + 1 .. Len(a) + Len(b) : (a \o b)[p] = b[p - Len(a)]
      <4>1. a \in Seq(S) /\ b \in Seq(S)
        BY <2>2, <2>3
      <4>2. QED
        BY <4>1, ConcatFcn
    <3>3. QED
      BY <2>2, <3>1, <3>2
  <2>6. \A p \in k + 1 .. n - 1 :
          p - k \in 1 .. n - (k + 1) /\ (p - k) + k + 1 = p + 1
    BY <2>1
  <2>7. \A p \in k + 1 .. n - 1 : (a \o b)[p] = s[p + 1]
    BY <2>3, <2>5, <2>6
  <2>8. /\ EraseAt(s, k) \in Seq(S)
        /\ Len(EraseAt(s, k)) = Len(s) - 1
    BY <2>1, <2>4, <2>5
  <2>9. ASSUME NEW p \in 1 .. Len(s) - 1, p > k
        PROVE  EraseAt(s, k)[p] = s[p + 1]
    <3>1. p \in k + 1 .. n - 1
      BY <2>1, <2>9
    <3>2. QED
      BY <2>4, <2>7, <3>1
  <2>10. QED
    BY <1>1, <2>8, <2>9
<1>2. CASE ~(k < Len(s))
  <2>1. EraseAt(s, k) = Front(s)
    BY <1>2 DEF EraseAt
  <2>2. QED
    BY <1>2, <2>1, FrontFcn
<1>3. QED
  BY <1>1, <1>2

(* An erasure inside the vector: the elements before it stay, those behind *)
(* it come one place forward.                                              *)
LEMMA EraseInside ==
  ASSUME NEW S, NEW s \in Seq(S), NEW k \in Nat, k < Len(s)
  PROVE  /\ EraseAt(s, k) \in Seq(S) /\ Len(EraseAt(s, k)) = Len(s) - 1
         /\ \A p \in 1 .. k : EraseAt(s, k)[p] = s[p]
         /\ \A p \in k + 1 .. Len(s) - 1 : EraseAt(s, k)[p] = s[p + 1]
<1> DEFINE a == SubSeq(s, 1, k)
           b == SubSeq(s, k + 2, Len(s))
<1>1. PICK n \in Nat : n = Len(s) /\ k < n
  OBVIOUS
<1>2. a \in Seq(S) /\ Len(a) = k /\ \A p \in 1 .. k : a[p] = s[p]
  BY <1>1, SubSeqFcn
<1>3. b \in Seq(S) /\ Len(b) \in Nat
  BY <1>1, SubSeqFcn
<1>4. EraseAt(s, k) = a \o b
  <2>1. (k + 1) - 1 = k /\ (k + 1) + 1 = k + 2
    OBVIOUS
  <2>2. EraseAt(s, k) = SubSeq(s, 1, (k + 1) - 1) \o SubSeq(s, (k + 1) + 1, Len(s))
    BY DEF EraseAt, RemoveAt
  <2> QED
    BY <2>1, <2>2
<1> HIDE DEF a, b
<1>5. \A p \in 1 .. k : (a \o b)[p] = a[p]
  <2>1. \A p \in 1 .. Len(a) : (a \o b)[p] = a[p]
    BY <1>2, <1>3, ConcatFcn
  <2> QED
    BY <1>2, <2>1
<1>6. /\ EraseAt(s, k) \in Seq(S) /\ Len(EraseAt(s, k)) = Len(s) - 1
      /\ \A p \in 1 .. Len(s) - 1 : p > k => EraseAt(s, k)[p] = s[p + 1]
  <2>1. s # <<>>
    BY <1>1
  <2> QED
    BY <2>1, EraseAtFcn
<1>7. \A p \in k + 1 .. Len(s) - 1 : p \in 1 .. Len(s) - 1 /\ p > k
  BY <1>1
<1> QED
  BY <1>2, <1>4, <1>5, <1>6, <1>7

-----------------------------------------------------------------------------
(* The element behind the last erased index (all of them before the first  *)
(* turn) has moved "turn" places to the front.                             *)
IInv ==
  /\ original \in Seq(Nat)
  /\ \A p \in 1 .. Len(original) : original[p] = p
  /\ indices \in Seq(Nat)
  /\ Len(indices) <= Len(original)
  /\ \A j, l \in 1 .. Len(indices) : j < l => indices[j] < indices[l]
  /\ turn \in 0 .. Len(indices)
  /\ alive \in BOOLEAN
  /\ vector \in Seq(Nat)
  /\ alive => Len(vector) = Len(original) - turn
  /\ alive => \A p \in 1 .. Len(vector) :
                (turn > 0 => p > indices[turn]) => vector[p] = p + turn

-----------------------------------------------------------------------------
LEMMA InitIInv == Init => IInv
<1> SUFFICES ASSUME Init PROVE IInv
  OBVIOUS
<1>1. PICK n \in 0 .. MaxSize :
        original = [p \in 1 .. n |-> p] /\ indices \in IndexLists(n)
  BY DEF Init
<1>2. n \in Nat
  BY EraseAssumption
<1>3. PICK m \in 0 .. n :
        /\ indices \in [1 .. m -> 0 .. n - 1]
        /\ \A j, l \in 1 .. m : j < l => indices[j] < indices[l]
  BY <1>1 DEF IndexLists
<1>4. /\ original \in Seq(Nat) /\ Len(original) = n
      /\ \A p \in 1 .. n : original[p] = p
  BY <1>1, <1>2
<1>5. indices \in Seq(Nat) /\ Len(indices) = m
  BY <1>2, <1>3
<1>6. QED
  BY <1>1, <1>2, <1>3, <1>4, <1>5 DEF Init, IInv

(* The indices grow, so the last erased one is below the next. *)
LEMMA Growing ==
  ASSUME IInv, turn + 1 \in 1 .. Len(indices), turn > 0
  PROVE  indices[turn] \in Nat /\ indices[turn] < indices[turn + 1]
<1>1. turn \in 1 .. Len(indices) /\ turn < turn + 1
  BY DEF IInv
<1>2. indices \in Seq(Nat)
      /\ \A j, l \in 1 .. Len(indices) : j < l => indices[j] < indices[l]
  BY DEF IInv
<1>3. indices[turn] \in Nat
  BY <1>1, <1>2
<1>4. indices[turn] < indices[turn + 1]
  BY <1>1, <1>2
<1>5. QED
  BY <1>3, <1>4

LEMMA TurnIInv == IInv /\ EraseTurn => IInv'
<1> SUFFICES ASSUME IInv, EraseTurn PROVE IInv'
  OBVIOUS
<1> DEFINE k == indices[turn + 1]
<1>1. PICK n \in Nat : Len(original) = n
  BY DEF IInv
<1>2. Len(original) = n
  BY <1>1
<1>3. /\ alive /\ turn \in 0 .. Len(indices) /\ turn < Len(indices)
      /\ Len(indices) <= n /\ indices \in Seq(Nat)
      /\ vector \in Seq(Nat) /\ Len(vector) = n - turn
  BY <1>2 DEF IInv, EraseTurn
<1>4. turn \in Nat /\ turn + 1 \in 1 .. Len(indices) /\ Len(indices) \in Nat
  BY <1>3
<1>5. k \in Nat
  BY <1>3, <1>4
<1>6. vector # <<>>
  BY <1>3, <1>4
<1>7. turn' = turn + 1 /\ vector' = EraseAt(vector, k)
      /\ alive' \in BOOLEAN /\ original' = original /\ indices' = indices
  BY DEF EraseTurn
<1>8. /\ vector' \in Seq(Nat)
      /\ Len(vector') = n - turn'
      /\ \A p \in 1 .. Len(vector) - 1 :
           p > k => k < Len(vector) /\ vector'[p] = vector[p + 1]
  <2> HIDE DEF k
  <2>1. /\ EraseAt(vector, k) \in Seq(Nat)
        /\ Len(EraseAt(vector, k)) = Len(vector) - 1
        /\ \A p \in 1 .. Len(vector) - 1 :
             p > k => k < Len(vector) /\ EraseAt(vector, k)[p] = vector[p + 1]
    <3>1. vector \in Seq(Nat)
      BY <1>3
    <3>2. QED
      BY <3>1, <1>5, <1>6, EraseAtFcn
  <2>2. QED
    BY <1>3, <1>4, <1>7, <2>1
<1>9. \A p \in 1 .. Len(vector') :
        (turn' > 0 => p > indices'[turn']) => vector'[p] = p + turn'
  <2> SUFFICES ASSUME NEW p \in 1 .. Len(vector'), p > k
               PROVE  vector'[p] = p + turn'
    BY <1>4, <1>7
  <2>1. p \in Nat /\ p \in 1 .. Len(vector) - 1 /\ p + 1 \in 1 .. Len(vector)
    BY <1>3, <1>4, <1>7, <1>8
  <2>2. vector'[p] = vector[p + 1]
    BY <1>8, <2>1
  <2>3. turn > 0 => p + 1 > indices[turn]
    <3>1. turn > 0 => indices[turn] \in Nat /\ indices[turn] < k
      BY <1>4, Growing
    <3>2. QED
      BY <1>5, <2>1, <3>1
  <2>4. vector[p + 1] = (p + 1) + turn
    BY <1>3, <2>1, <2>3 DEF IInv
  <2>5. QED
    BY <1>4, <1>7, <2>1, <2>2, <2>4
<1>10. /\ original' \in Seq(Nat) /\ Len(original') = n
       /\ \A p \in 1 .. Len(original') : original'[p] = p
       /\ \A j, l \in 1 .. Len(indices') : j < l => indices'[j] < indices'[l]
  BY <1>1, <1>7 DEF IInv
<1>11. indices' \in Seq(Nat) /\ turn' \in 0 .. Len(indices') /\ Len(indices') <= n
  BY <1>3, <1>4, <1>7
<1>12. QED
  BY <1>7, <1>8, <1>9, <1>10, <1>11 DEF IInv

THEOREM Invariance == Spec => []IInv
<1>1. IInv /\ [EraseTurn]_vars => IInv'
  <2>1. IInv /\ UNCHANGED vars => IInv'
    BY DEF IInv, vars
  <2>2. QED
    BY <2>1, TurnIInv
<1>2. QED
  BY <1>1, InitIInv, PTL DEF Spec

(* Every turn of the loop makes the vector one element shorter, whether or *)
(* not it erases past the end.                                             *)
THEOREM Shrinks == Spec => []OneShorterPerTurn
<1>1. IInv => OneShorterPerTurn
  BY DEF IInv, OneShorterPerTurn
<1>2. QED
  BY <1>1, Invariance, PTL

(* Turn number t of the loop is about to erase the element t places behind *)
(* the one it was asked to erase, whatever the indices.                    *)
THEOREM ErasesBehind == Spec => []NextIsBehind
<1>1. IInv => NextIsBehind
  <2> SUFFICES ASSUME IInv, alive, turn < Len(indices),
                      indices[turn + 1] < Len(vector)
               PROVE  vector[indices[turn + 1] + 1]
                        = original[indices[turn + 1] + 1 + turn]
    BY DEF NextIsBehind
  <2> DEFINE k == indices[turn + 1]
  <2>1. PICK n \in Nat :
            Len(original) = n /\ \A p \in 1 .. n : original[p] = p
    BY DEF IInv
  <2>2. /\ turn \in Nat /\ turn + 1 \in 1 .. Len(indices) /\ k \in Nat
        /\ Len(vector) = n - turn
    BY <2>1 DEF IInv
  <2>3. k + 1 \in 1 .. Len(vector) /\ k + 1 + turn \in 1 .. n
    BY <2>1, <2>2
  <2>4. turn > 0 => k + 1 > indices[turn]
    <3>1. turn > 0 => indices[turn] \in Nat /\ indices[turn] < k
      BY <2>2, Growing
    <3>2. QED
      BY <2>2, <3>1
  <2>5. vector[k + 1] = k + 1 + turn
    BY <2>3, <2>4 DEF IInv
  <2>6. QED
    BY <2>1, <2>3, <2>5
<1>2. QED
  BY <1>1, Invariance, PTL

(* A turn takes one element out and leaves the others in their order. *)
LEMMA TurnLands == IInv /\ LandsShifted /\ EraseTurn => LandsShifted'
<1> SUFFICES ASSUME IInv, LandsShifted, EraseTurn, alive',
                    ~ErasesPastEnd(original', indices')
             PROVE  /\ Range(vector') = Range(original')
                         \ {original'[indices'[j] + j] : j \in 1 .. turn'}
                    /\ \A p, q \in DOMAIN vector' : p < q => vector'[p] < vector'[q]
  BY DEF LandsShifted
<1> DEFINE k == indices[turn + 1]
<1>1. /\ alive /\ turn < Len(indices) /\ turn' = turn + 1
      /\ vector' = EraseAt(vector, k) /\ original' = original /\ indices' = indices
  BY DEF EraseTurn
<1>2. PICK m \in Nat : m = Len(vector)
  BY DEF IInv
<1>a. vector \in Seq(Nat) /\ Len(vector) = m /\ DOMAIN vector = 1 .. m
  BY <1>2 DEF IInv
<1>3. /\ indices \in Seq(Nat) /\ Len(indices) \in Nat
      /\ turn \in Nat /\ turn + 1 \in 1 .. Len(indices)
      /\ Len(original) \in Nat /\ m = Len(original) - turn
  BY <1>1, <1>2 DEF IInv
<1>4. k \in Nat /\ k < m
  <2>1. k \in Nat /\ turn + 1 \in DOMAIN indices
    BY <1>3
  <2>2. ~(k >= Len(original) - ((turn + 1) - 1))
    BY <1>1, <2>1 DEF ErasesPastEnd
  <2> QED
    BY <1>3, <2>1, <2>2
<1>5. /\ Range(vector) = Range(original) \ {original[indices[j] + j] : j \in 1 .. turn}
      /\ \A p, q \in 1 .. m : p < q => vector[p] < vector[q]
  BY <1>1, <1>a DEF LandsShifted, ErasesPastEnd
<1> HIDE DEF k
<1>6. /\ vector' \in Seq(Nat) /\ Len(vector') = m - 1
      /\ \A p \in 1 .. k : vector'[p] = vector[p]
      /\ \A p \in k + 1 .. m - 1 : vector'[p] = vector[p + 1]
  BY <1>1, <1>a, <1>4, EraseInside
<1>7. \A p \in 1 .. m : vector[p] \in Nat
  BY <1>a
<1>8. \A p, q \in DOMAIN vector' : p < q => vector'[p] < vector'[q]
  <2> SUFFICES ASSUME NEW p \in 1 .. m - 1, NEW q \in 1 .. m - 1, p < q
               PROVE  vector'[p] < vector'[q]
    BY <1>6
  <2>1. p \in 1 .. m /\ q \in 1 .. m /\ p + 1 \in 1 .. m /\ q + 1 \in 1 .. m
    BY <1>2
  <2>2. CASE q <= k
    <3>1. p \in 1 .. k /\ q \in 1 .. k
      BY <1>4, <2>2
    <3> QED
      BY <1>5, <1>6, <2>1, <3>1
  <2>3. CASE p <= k /\ q > k
    <3>1. p \in 1 .. k /\ q \in k + 1 .. m - 1 /\ p < q + 1
      BY <1>4, <2>3
    <3> QED
      BY <1>5, <1>6, <2>1, <3>1
  <2>4. CASE p > k
    <3>1. p \in k + 1 .. m - 1 /\ q \in k + 1 .. m - 1 /\ p + 1 < q + 1
      BY <1>4, <2>4
    <3> QED
      BY <1>5, <1>6, <2>1, <3>1
  <2> QED
    BY <1>4, <2>2, <2>3, <2>4
<1>9. vector[k + 1] = original[k + (turn + 1)]
  <2>1. vector[k + 1] = k + 1 + turn
    <3>1. turn > 0 => indices[turn] \in Nat /\ indices[turn] < k
      BY <1>3, Growing DEF k
    <3>2. k + 1 \in 1 .. m /\ (turn > 0 => k + 1 > indices[turn])
      BY <1>4, <3>1
    <3> QED
      BY <1>1, <1>2, <1>3, <3>2 DEF IInv
  <2>2. k + (turn + 1) \in 1 .. Len(original) /\ k + 1 + turn = k + (turn + 1)
    BY <1>3, <1>4
  <2> QED
    BY <2>1, <2>2 DEF IInv
<1>10. Range(vector') = Range(vector) \ {vector[k + 1]}
  <2>1. DOMAIN vector = 1 .. m /\ DOMAIN vector' = 1 .. m - 1
    BY <1>a, <1>6
  <2>2. ASSUME NEW y \in Range(vector') PROVE y \in Range(vector) /\ y # vector[k + 1]
    <3>1. PICK p \in 1 .. m - 1 : y = vector'[p]
      BY <2>1 DEF Range
    <3>2. p \in 1 .. m /\ p + 1 \in 1 .. m /\ k + 1 \in 1 .. m
      BY <1>4
    <3>3. CASE p <= k
      <4>1. p \in 1 .. k /\ p < k + 1
        BY <1>4, <3>3
      <4>2. y = vector[p] /\ vector[p] < vector[k + 1]
        BY <1>5, <1>6, <3>1, <3>2, <4>1
      <4>3. y # vector[k + 1]
        BY <1>7, <3>2, <4>2
      <4> QED
        BY <2>1, <3>2, <4>2, <4>3 DEF Range
    <3>4. CASE p > k
      <4>1. p \in k + 1 .. m - 1 /\ k + 1 < p + 1
        BY <1>4, <3>4
      <4>2. y = vector[p + 1] /\ vector[k + 1] < vector[p + 1]
        BY <1>5, <1>6, <3>1, <3>2, <4>1
      <4>3. y # vector[k + 1]
        BY <1>7, <3>2, <4>2
      <4> QED
        BY <2>1, <3>2, <4>2, <4>3 DEF Range
    <3> QED
      BY <1>4, <3>3, <3>4
  <2>3. ASSUME NEW y \in Range(vector), y # vector[k + 1] PROVE y \in Range(vector')
    <3>1. PICK p \in 1 .. m : y = vector[p]
      BY <2>1 DEF Range
    <3>2. p # k + 1
      BY <2>3, <3>1
    <3>3. CASE p < k + 1
      <4>1. p \in 1 .. k /\ p \in 1 .. m - 1
        BY <1>4, <3>3
      <4> QED
        BY <1>6, <2>1, <3>1, <4>1 DEF Range
    <3>4. CASE p > k + 1
      <4>1. /\ p - 1 \in k + 1 .. m - 1 /\ p - 1 \in 1 .. m - 1 /\ (p - 1) + 1 = p
        BY <1>4, <3>4
      <4>2. vector'[p - 1] = y
        BY <1>6, <3>1, <4>1
      <4> QED
        BY <2>1, <4>1, <4>2 DEF Range
    <3> QED
      BY <1>4, <3>2, <3>3, <3>4
  <2> QED
    BY <2>2, <2>3
<1>11. {original'[indices'[j] + j] : j \in 1 .. turn'}
         = {original[indices[j] + j] : j \in 1 .. turn} \cup {vector[k + 1]}
  <2>1. \A j : j \in 1 .. turn + 1 <=> j \in 1 .. turn \/ j = turn + 1
    BY <1>3
  <2> QED
    BY <1>1, <1>9, <2>1 DEF k
<1> QED
  BY <1>1, <1>5, <1>8, <1>10, <1>11

(* As long as no turn goes past the end, turn t removes the element t      *)
(* places behind the one it was asked to erase, and nothing else.          *)
THEOREM WhatIsErased == Spec => []LandsShifted
<1>1. Init => LandsShifted
  <2> SUFFICES ASSUME Init PROVE LandsShifted
    OBVIOUS
  <2>1. IInv /\ vector = original /\ turn = 0
    BY InitIInv DEF Init
  <2>2. \A p \in DOMAIN original : original[p] = p /\ p \in Nat
    BY <2>1 DEF IInv
  <2>3. {original[indices[j] + j] : j \in 1 .. turn} = {}
    BY <2>1
  <2> QED
    BY <2>1, <2>2, <2>3 DEF LandsShifted
<1>2. IInv /\ LandsShifted /\ [EraseTurn]_vars => LandsShifted'
  <2>1. LandsShifted /\ UNCHANGED vars => LandsShifted'
    BY DEF LandsShifted, vars
  <2> QED
    BY <2>1, TurnLands
<1> QED
  BY <1>1, <1>2, Invariance, PTL DEF Spec

(* The process dies only when a turn goes past the end, which the vector   *)
(* and the list of indices decide before the loop begins.                  *)
THEOREM DiesPastEnd == Spec => [](~alive => ErasesPastEnd(original, indices))
<1> DEFINE Inv == ~alive => ErasesPastEnd(original, indices)
<1>1. Init => Inv
  BY DEF Init
<1>2. IInv /\ Inv /\ [EraseTurn]_vars => Inv'
  <2> SUFFICES ASSUME IInv, Inv, EraseTurn, ~alive'
               PROVE  ErasesPastEnd(original, indices)
    BY DEF EraseTurn, ErasesPastEnd, vars
  <2>1. alive /\ turn < Len(indices) /\ ~(indices[turn + 1] < Len(vector))
    BY DEF EraseTurn
  <2>2. /\ turn \in Nat /\ turn + 1 \in DOMAIN indices /\ indices[turn + 1] \in Nat
        /\ Len(vector) = Len(original) - turn /\ Len(original) \in Nat
    <3>1. indices \in Seq(Nat) /\ turn \in 0 .. Len(indices) /\ original \in Seq(Nat)
      BY DEF IInv
    <3>2. turn \in Nat /\ turn + 1 \in DOMAIN indices
      BY <2>1, <3>1
    <3>3. Len(vector) = Len(original) - turn /\ Len(original) \in Nat
      BY <2>1, <3>1 DEF IInv
    <3>4. indices[turn + 1] \in Nat
      BY <3>1, <3>2
    <3> QED
      BY <3>2, <3>3, <3>4
  <2>3. indices[turn + 1] >= Len(original) - ((turn + 1) - 1)
    BY <2>1, <2>2
  <2> QED
    BY <2>2, <2>3 DEF ErasesPastEnd
<1> QED
  BY <1>1, <1>2, Invariance, PTL DEF Spec

(* A pass that is done with the first m of n messages goes past the end    *)
(* exactly when m - 1 of them are half of the vector or more: one of one   *)
(* is safe, two of two are not.                                            *)
THEOREM PrefixPastEnd ==
  ASSUME NEW S, NEW s \in Seq(S), NEW m \in 1 .. Len(s)
  PROVE  ErasesPastEnd(s, [j \in 1 .. m |-> j - 1]) <=> 2 * (m - 1) >= Len(s)
<1> DEFINE ks == [j \in 1 .. m |-> j - 1]
<1>1. PICK n \in Nat : n = Len(s) /\ m \in 1 .. n
  OBVIOUS
<1>2. DOMAIN ks = 1 .. m /\ \A j \in 1 .. m : ks[j] = j - 1
  OBVIOUS
<1> HIDE DEF ks
<1>3. ErasesPastEnd(s, ks) <=> \E j \in 1 .. m : j - 1 >= n - (j - 1)
  BY <1>1, <1>2 DEF ErasesPastEnd
<1>4. (\E j \in 1 .. m : j - 1 >= n - (j - 1)) <=> 2 * (m - 1) >= n
  <2>1. ASSUME NEW j \in 1 .. m, j - 1 >= n - (j - 1) PROVE 2 * (m - 1) >= n
    BY <1>1, <2>1
  <2>2. ASSUME 2 * (m - 1) >= n PROVE m - 1 >= n - (m - 1) /\ m \in 1 .. m
    BY <1>1, <2>2
  <2> QED
    BY <2>1, <2>2
<1> QED
  BY <1>1, <1>3, <1>4 DEF ks
=============================================================================
