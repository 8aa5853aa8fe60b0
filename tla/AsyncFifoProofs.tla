-------------------------- MODULE AsyncFifoProofs --------------------------
(***************************************************************************)
(* Proofs about the asynchronous FIFO for every Depth, payload set and     *)
(* interleaving of the clocks and resets.                                  *)
(*                                                                         *)
(* The argument is about the circle of 2 * Depth pointers.  Behind the     *)
(* writer's position come, in this order, the two copies that the reader   *)
(* has of it, the reader, and the two copies that the writer has of the    *)
(* reader's position.  The way round from the last of these to the writer  *)
(* (Circuit) is never longer than Depth: only a push lengthens it, a push  *)
(* needs ~full, and ~full means that the oldest copy of the reader is less *)
(* than Depth behind.  That a copy is always some position that the        *)
(* pointer has really held is what Gray coding gives (SampledIsOldOrNew).  *)
(***************************************************************************)
EXTENDS AsyncFifo, Sequences, SequenceTheorems, NumberProofs

LEMMA SpanFacts == Depth \in Nat /\ Depth >= 4 /\ Span = Depth + Depth
  BY DepthAssumption DEF Span

LEMMA DistanceType ==
  ASSUME NEW a \in Pointers, NEW b \in Pointers
  PROVE  Distance(a, b) \in Nat /\ Distance(a, b) < Span /\ (Distance(a, b) = 0 <=> a = b)
  BY SpanFacts DEF Pointers, Distance

LEMMA AddType ==
  ASSUME NEW p \in Pointers, NEW by \in BOOLEAN
  PROVE  Add(p, by) \in Pointers /\ Add(p, FALSE) = p
  BY SpanFacts DEF Pointers, Add

(* An increment adds one to the distance from any base behind it.          *)
LEMMA DistanceAdd ==
  ASSUME NEW b \in Pointers, NEW p \in Pointers, Distance(b, p) < Span - 1
  PROVE  Distance(b, Add(p, TRUE)) = Distance(b, p) + 1
  BY SpanFacts DEF Pointers, Distance, Add

(* Distances between two positions, seen from a base behind both.          *)
LEMMA DistanceFrom ==
  ASSUME NEW b \in Pointers, NEW p \in Pointers, NEW q \in Pointers
  PROVE  /\ Distance(b, p) <= Distance(b, q)
              => Distance(p, q) = Distance(b, q) - Distance(b, p)
         /\ Distance(b, p) + Distance(p, q) < Span
              => Distance(b, q) = Distance(b, p) + Distance(p, q)
  BY SpanFacts DEF Pointers, Distance

LEMMA DistanceInjective ==
  ASSUME NEW b \in Pointers, NEW p \in Pointers, NEW q \in Pointers,
         Distance(b, p) = Distance(b, q)
  PROVE  p = q
  BY SpanFacts DEF Pointers, Distance

-----------------------------------------------------------------------------
(* Gray codes.  Bit i of a code is the parity of the pointer shifted right *)
(* by i and by i + 1.                                                      *)
Shifted(p, i) == p \div 2^i

LEMMA WidthFacts ==
  /\ AddressWidth \in Nat /\ AddressWidth >= 2 /\ PointerWidth = AddressWidth + 1
  /\ 2^AddressWidth = Depth /\ 2^PointerWidth = Span
  /\ Bits = 0..AddressWidth
  <1>1. AddressWidth \in 2..Depth /\ 2^AddressWidth = Depth
    BY DepthAssumption DEF AddressWidth
  <1>2. AddressWidth \in Nat /\ AddressWidth >= 2
    BY <1>1, SpanFacts
  <1>3. 2^(AddressWidth + 1) = 2 * 2^AddressWidth
    BY <1>2, PowerDoubles
  <1> QED BY <1>1, <1>2, <1>3 DEF PointerWidth, Span, Bits

LEMMA ShiftedFacts ==
  ASSUME NEW p \in Nat
  PROVE  /\ Shifted(p, 0) = p
         /\ \A i \in Nat : /\ Shifted(p, i) \in Nat
                           /\ Shifted(p, i + 1) = Shifted(p, i) \div 2
  <1>1. Shifted(p, 0) = p
    BY PowerOfZero DEF Shifted
  <1>2. ASSUME NEW i \in Nat
        PROVE  Shifted(p, i) \in Nat /\ Shifted(p, i + 1) = Shifted(p, i) \div 2
    <2> DEFINE d == 2^i
    <2>1. d \in Nat /\ d > 0 /\ 2^(i + 1) = 2 * d
      BY PowerDoubles, PowerExceeds
    <2> HIDE DEF d
    <2>2. p \div d \in Nat /\ p \div (2 * d) = (p \div d) \div 2
      BY <2>1, HalfOfQuotient
    <2> QED BY <2>1, <2>2 DEF Shifted, d
  <1> QED BY <1>1, <1>2

(* All bits of a pointer are below its width.                              *)
LEMMA ShiftedOut ==
  ASSUME NEW p \in Pointers
  PROVE  Shifted(p, PointerWidth) = 0
  <1>1. p \in Nat /\ p < Span /\ Span \in Nat /\ Span > 0
    BY SpanFacts DEF Pointers
  <1>2. p \div Span = 0
    <2>1. Span * 0 = 0
      BY <1>1
    <2> QED BY <1>1, <2>1, QuotientIs
  <1> QED BY <1>2, WidthFacts DEF Shifted

LEMMA GrayBit ==
  ASSUME NEW p \in Pointers, NEW i \in Bits
  PROVE  Gray[p][i] = (Shifted(p, i) + Shifted(p, i + 1)) % 2
  BY DEF Gray, Shifted

LEMMA GrayIsCode ==
  ASSUME NEW p \in Pointers
  PROVE  Gray[p] \in Codes /\ Gray[p] \in GrayCodes
  <1>1. \A i \in Bits : ((p \div 2^i) + (p \div 2^(i + 1))) % 2 \in 0..1
    <2> SUFFICES ASSUME NEW i \in Bits PROVE ((p \div 2^i) + (p \div 2^(i + 1))) % 2 \in 0..1
      OBVIOUS
    <2> QED BY DEF Pointers, Bits
  <1> QED BY <1>1 DEF Gray, Codes, GrayCodes

(* No two pointers have one code: from the top bit down, the code tells    *)
(* what is shifted in.                                                     *)
LEMMA GrayInjective ==
  ASSUME NEW p \in Pointers, NEW q \in Pointers, Gray[p] = Gray[q]
  PROVE  p = q
  <1> DEFINE W == PointerWidth
             K == {j \in 0..W : Shifted(p, W - j) = Shifted(q, W - j)}
  <1>1. W \in Nat /\ Bits = 0..(W - 1) /\ p \in Nat /\ q \in Nat
    BY WidthFacts DEF Bits, Pointers
  <1>2. 0 \in K
    <2>1. Shifted(p, W) = 0 /\ Shifted(q, W) = 0
      BY ShiftedOut
    <2> QED BY <1>1, <2>1
  <1>3. ASSUME NEW j \in 1..W, j - 1 \in K PROVE j \in K
    <2> DEFINE i == W - j
    <2>1. i \in Nat /\ i \in Bits /\ i + 1 = W - (j - 1)
      BY <1>1
    <2>2. Shifted(p, i + 1) = Shifted(q, i + 1)
      BY <1>3, <2>1
    <2>3. (Shifted(p, i) + Shifted(p, i + 1)) % 2 = (Shifted(q, i) + Shifted(q, i + 1)) % 2
      BY <2>1, GrayBit
    <2>4. /\ Shifted(p, i) \in Nat /\ Shifted(p, i + 1) = Shifted(p, i) \div 2
          /\ Shifted(q, i) \in Nat /\ Shifted(q, i + 1) = Shifted(q, i) \div 2
      BY <1>1, <2>1, ShiftedFacts
    <2>5. Shifted(p, i) = Shifted(q, i)
      BY <2>2, <2>3, <2>4
    <2> QED BY <2>5
  <1>4. W \in K
    <2> HIDE DEF K, W
    <2>1. \A j \in 0..W : j \in K
      BY <1>1, <1>2, <1>3, UpTo
    <2> QED BY <1>1, <2>1
  <1>5. W - W = 0 /\ Shifted(p, W - W) = Shifted(q, W - W)
    BY <1>1, <1>4
  <1>6. Shifted(p, 0) = p /\ Shifted(q, 0) = q
    BY <1>1, ShiftedFacts
  <1> QED BY <1>5, <1>6

(* A word that is sampled while at most one of its bits changes is the old *)
(* or the new one.                                                         *)
OneApart(a, b) == \A i, j \in Bits : a[i] # b[i] /\ a[j] # b[j] => i = j

LEMMA OneApartSampled ==
  ASSUME NEW a \in Codes, NEW b \in Codes, OneApart(a, b), NEW c \in Sampled(a, b)
  PROVE  c \in {a, b}
  <1>1. c \in Codes /\ \A i \in Bits : c[i] \in {a[i], b[i]}
    BY DEF Sampled
  <1>2. CASE \A i \in Bits : c[i] = a[i]
    BY <1>1, <1>2 DEF Codes
  <1>3. CASE \E i \in Bits : c[i] # a[i]
    <2>1. PICK i \in Bits : c[i] # a[i]
      BY <1>3
    <2>2. c[i] = b[i] /\ a[i] # b[i]
      BY <1>1, <2>1
    <2>3. ASSUME NEW j \in Bits PROVE c[j] = b[j]
      BY <1>1, <2>2 DEF OneApart
    <2> QED BY <1>1, <2>3 DEF Codes
  <1> QED BY <1>2, <1>3

LEMMA IncrementBit ==
  ASSUME NEW a \in Nat, NEW b \in {a, a + 1}
  PROVE  (a + a \div 2) % 2 # (b + b \div 2) % 2 <=> a # b /\ a \div 2 = b \div 2
  OBVIOUS

(* The increment carries through some of the low bits: below, both parts   *)
(* of a bit of the code change; above, neither.                            *)
LEMMA IncrementOneApart ==
  ASSUME NEW p \in Pointers, p + 1 \in Pointers
  PROVE  OneApart(Gray[p], Gray[p + 1])
  <1> DEFINE q == p + 1
             W == PointerWidth
             K == {i \in 0..W : Shifted(q, i) \in {Shifted(p, i), Shifted(p, i) + 1}}
  <1>1. W \in Nat /\ Bits = 0..(W - 1) /\ p \in Nat /\ q \in Nat /\ q \in Pointers
    BY WidthFacts DEF Bits, Pointers
  <1>2. ASSUME NEW i \in Nat
        PROVE  /\ Shifted(p, i) \in Nat /\ Shifted(p, i + 1) = Shifted(p, i) \div 2
               /\ Shifted(q, i) \in Nat /\ Shifted(q, i + 1) = Shifted(q, i) \div 2
    BY <1>1, ShiftedFacts
  <1>3. Shifted(p, 0) = p /\ Shifted(q, 0) = q
    BY <1>1, ShiftedFacts
  <1>4. \A i \in 0..W : i \in K
    <2>1. 0 \in K
      BY <1>1, <1>3
    <2>2. ASSUME NEW i \in 1..W, i - 1 \in K PROVE i \in K
      <3> DEFINE h == i - 1
      <3>1. h \in Nat /\ h + 1 = i /\ h \in K
        BY <1>1, <2>2
      <3> HIDE DEF h, q
      <3>2. /\ Shifted(p, h) \in Nat /\ Shifted(p, h + 1) = Shifted(p, h) \div 2
            /\ Shifted(q, h + 1) = Shifted(q, h) \div 2
        BY <1>2, <3>1
      <3>3. Shifted(q, h) \in {Shifted(p, h), Shifted(p, h) + 1}
        BY <3>1
      <3>4. Shifted(q, h + 1) \in {Shifted(p, h + 1), Shifted(p, h + 1) + 1}
        BY <3>2, <3>3, HalfOfNext
      <3> QED BY <3>1, <3>4
    <2> HIDE DEF K, W
    <2> QED BY <1>1, <2>1, <2>2, UpTo
  <1> HIDE DEF q
  <1>5. ASSUME NEW i \in Bits
        PROVE  Gray[p][i] # Gray[q][i] <=> /\ Shifted(p, i) # Shifted(q, i)
                                           /\ Shifted(p, i + 1) = Shifted(q, i + 1)
    <2>1. i \in Nat /\ i \in 0..W /\ i + 1 \in 0..W
      BY <1>1
    <2>2. Shifted(q, i) \in {Shifted(p, i), Shifted(p, i) + 1}
      BY <2>1, <1>4
    <2>3. /\ Gray[p][i] = (Shifted(p, i) + Shifted(p, i + 1)) % 2
          /\ Gray[q][i] = (Shifted(q, i) + Shifted(q, i + 1)) % 2
      BY <1>1, GrayBit
    <2>4. /\ Shifted(p, i) \in Nat /\ Shifted(p, i + 1) = Shifted(p, i) \div 2
          /\ Shifted(q, i + 1) = Shifted(q, i) \div 2
      BY <2>1, <1>2
    <2> HIDE DEF K
    <2> QED BY <2>2, <2>3, <2>4, IncrementBit
  <1>6. ASSUME NEW i \in Bits, NEW j \in Bits, i < j,
               Gray[p][i] # Gray[q][i], Gray[p][j] # Gray[q][j]
        PROVE  FALSE
    <2> DEFINE n == j - (i + 1)
               L == {m \in 0..n : Shifted(p, (i + 1) + m) = Shifted(q, (i + 1) + m)}
    <2>1. n \in Nat /\ (i + 1) + n = j /\ i \in Nat
      BY <1>1, <1>6
    <2>2. 0 \in L
      <3>1. Shifted(p, i + 1) = Shifted(q, i + 1) /\ (i + 1) + 0 = i + 1
        BY <1>5, <1>6, <2>1
      <3> QED BY <2>1, <3>1
    <2>3. ASSUME NEW m \in 1..n, m - 1 \in L PROVE m \in L
      <3> DEFINE h == (i + 1) + (m - 1)
      <3>1. h \in Nat /\ h + 1 = (i + 1) + m /\ Shifted(p, h) = Shifted(q, h)
        BY <2>1, <2>3
      <3> HIDE DEF h
      <3>2. Shifted(p, h + 1) = Shifted(q, h + 1)
        BY <1>2, <3>1
      <3> QED BY <3>1, <3>2
    <2>4. n \in L
      <3> HIDE DEF L, n
      <3>1. \A m \in 0..n : m \in L
        BY <2>1, <2>2, <2>3, UpTo
      <3> QED BY <2>1, <3>1
    <2>5. Shifted(p, j) = Shifted(q, j)
      BY <2>1, <2>4
    <2> QED BY <2>5, <1>5, <1>6
  <1>7. OneApart(Gray[p], Gray[q])
    <2> SUFFICES ASSUME NEW i \in Bits, NEW j \in Bits,
                        Gray[p][i] # Gray[q][i], Gray[p][j] # Gray[q][j]
                 PROVE  i = j
      BY DEF OneApart
    <2>1. i \in Int /\ j \in Int
      BY <1>1
    <2>2. ~(i < j) /\ ~(j < i)
      BY <1>6
    <2> QED BY <2>1, <2>2
  <1> QED BY <1>7 DEF q

(* At the end of the circle only the top bit is set.                       *)
LEMMA WrapOneApart == OneApart(Gray[Span - 1], Gray[0])
  <1> DEFINE p == Span - 1
             W == PointerWidth
             K == {i \in 0..W : Shifted(p, i) = 2^(W - i) - 1 /\ Shifted(0, i) = 0}
  <1>1. /\ W \in Nat /\ W >= 3 /\ Bits = 0..(W - 1) /\ 2^W = Span
        /\ p \in Nat /\ p \in Pointers /\ 0 \in Pointers
    BY WidthFacts, SpanFacts DEF Bits, Pointers
  <1>2. ASSUME NEW i \in Nat
        PROVE  /\ Shifted(p, i) \in Nat /\ Shifted(p, i + 1) = Shifted(p, i) \div 2
               /\ Shifted(0, i) \in Nat /\ Shifted(0, i + 1) = Shifted(0, i) \div 2
    BY <1>1, ShiftedFacts
  <1>3. \A i \in 0..W : i \in K
    <2>1. 0 \in K
      <3>1. Shifted(p, 0) = p /\ Shifted(0, 0) = 0 /\ W - 0 = W
        BY <1>1, ShiftedFacts
      <3> QED BY <1>1, <3>1
    <2>2. ASSUME NEW i \in 1..W, i - 1 \in K PROVE i \in K
      <3> DEFINE h == i - 1
                 m == W - i
      <3>1. /\ h \in Nat /\ h + 1 = i /\ m \in Nat /\ W - h = m + 1
            /\ Shifted(p, h) = 2^(m + 1) - 1 /\ Shifted(0, h) = 0
        BY <1>1, <2>2
      <3>2. 2^m \in Nat /\ 2^(m + 1) = 2 * 2^m
        BY <3>1, PowerDoubles
      <3> HIDE DEF h, p, m
      <3>3. Shifted(p, h + 1) = Shifted(p, h) \div 2 /\ Shifted(0, h + 1) = Shifted(0, h) \div 2
        BY <1>2, <3>1
      <3>4. Shifted(p, h + 1) = 2^m - 1 /\ Shifted(0, h + 1) = 0
        BY <3>1, <3>2, <3>3, HalfOfSum
      <3> QED BY <3>1, <3>4 DEF m
    <2> HIDE DEF K, W
    <2> QED BY <1>1, <2>1, <2>2, UpTo
  <1> HIDE DEF p
  <1>4. ASSUME NEW i \in Bits, i # W - 1 PROVE Gray[p][i] = Gray[0][i]
    <2> DEFINE m == W - (i + 2)
    <2>1. /\ i \in Nat /\ i \in 0..W /\ i + 1 \in 0..W /\ m \in Nat
          /\ W - (i + 1) = m + 1 /\ W - i = (m + 1) + 1
      BY <1>1, <1>4
    <2>2. /\ Shifted(p, i) = 2^((m + 1) + 1) - 1 /\ Shifted(p, i + 1) = 2^(m + 1) - 1
          /\ Shifted(0, i) = 0 /\ Shifted(0, i + 1) = 0
      BY <2>1, <1>3
    <2>3. 2^m \in Nat /\ 2^(m + 1) = 2 * 2^m /\ 2^((m + 1) + 1) = 2 * 2^(m + 1)
      BY <2>1, PowerDoubles
    <2>4. /\ Gray[p][i] = (Shifted(p, i) + Shifted(p, i + 1)) % 2
          /\ Gray[0][i] = (Shifted(0, i) + Shifted(0, i + 1)) % 2
      BY <1>1, GrayBit
    <2> HIDE DEF m, K
    <2> QED BY <2>2, <2>3, <2>4
  <1> QED BY <1>4 DEF OneApart, p

(* Half way round the circle the two top bits of the code are inverted.    *)
LEMMA GrayHalfWay ==
  ASSUME NEW q \in Pointers, q < Depth
  PROVE  q + Depth \in Pointers /\ Gray[q + Depth] = InvertTop(Gray[q])
  <1> DEFINE p == q + Depth
             k == AddressWidth
             K == {i \in 0..k : Shifted(p, i) = Shifted(q, i) + 2^(k - i)}
  <1>1. /\ k \in Nat /\ k >= 2 /\ Bits = 0..k /\ PointerWidth = k + 1 /\ 2^k = Depth
        /\ q \in Nat /\ p \in Nat /\ p \in Pointers
    BY WidthFacts, SpanFacts DEF Pointers
  <1>2. ASSUME NEW i \in Nat
        PROVE  /\ Shifted(p, i) \in Nat /\ Shifted(p, i + 1) = Shifted(p, i) \div 2
               /\ Shifted(q, i) \in Nat /\ Shifted(q, i + 1) = Shifted(q, i) \div 2
    BY <1>1, ShiftedFacts
  <1>3. \A i \in 0..k : i \in K
    <2>1. 0 \in K
      <3>1. Shifted(p, 0) = p /\ Shifted(q, 0) = q /\ k - 0 = k
        BY <1>1, ShiftedFacts
      <3> QED BY <1>1, <3>1
    <2>2. ASSUME NEW i \in 1..k, i - 1 \in K PROVE i \in K
      <3> DEFINE h == i - 1
                 m == k - i
      <3>1. /\ h \in Nat /\ h + 1 = i /\ m \in Nat /\ k - h = m + 1
            /\ Shifted(p, h) = Shifted(q, h) + 2^(m + 1)
        BY <1>1, <2>2
      <3>2. 2^m \in Nat /\ 2^(m + 1) = 2 * 2^m
        BY <3>1, PowerDoubles
      <3> HIDE DEF h, p, m
      <3>3. /\ Shifted(p, h + 1) = Shifted(p, h) \div 2
            /\ Shifted(q, h) \in Nat /\ Shifted(q, h + 1) = Shifted(q, h) \div 2
        BY <1>2, <3>1
      <3>4. Shifted(p, h + 1) = Shifted(q, h + 1) + 2^m
        BY <3>1, <3>2, <3>3, HalfOfSum
      <3> QED BY <3>1, <3>4 DEF m
    <2> HIDE DEF K, k
    <2> QED BY <1>1, <2>1, <2>2, UpTo
  <1> HIDE DEF p
  <1>4. ASSUME NEW i \in Bits
        PROVE  /\ Gray[p][i] = (Shifted(p, i) + Shifted(p, i + 1)) % 2
               /\ Gray[q][i] = (Shifted(q, i) + Shifted(q, i + 1)) % 2
    BY <1>1, GrayBit
  <1>5. 2^0 = 1 /\ 2^(0 + 1) = 2 * 2^0
    BY PowerOfZero, PowerDoubles
  <1>6. Shifted(p, k + 1) = 0 /\ Shifted(q, k + 1) = 0
    BY <1>1, ShiftedOut
  <1>7. Shifted(p, k) = Shifted(q, k) + 1
    <2>1. k - k = 0 /\ k \in 0..k
      BY <1>1
    <2> QED BY <1>3, <1>5, <2>1
  <1>8. ASSUME NEW i \in Bits, i <= k - 2 PROVE Gray[p][i] = Gray[q][i]
    <2> DEFINE m == k - (i + 2)
    <2>1. /\ i \in Nat /\ i \in 0..k /\ i + 1 \in 0..k /\ m \in Nat
          /\ k - (i + 1) = m + 1 /\ k - i = (m + 1) + 1
      BY <1>1, <1>8
    <2>2. /\ Shifted(p, i) = Shifted(q, i) + 2^((m + 1) + 1)
          /\ Shifted(p, i + 1) = Shifted(q, i + 1) + 2^(m + 1)
      BY <2>1, <1>3
    <2>3. 2^m \in Nat /\ 2^(m + 1) = 2 * 2^m /\ 2^((m + 1) + 1) = 2 * 2^(m + 1)
      BY <2>1, PowerDoubles
    <2>4. Shifted(q, i) \in Nat /\ Shifted(q, i + 1) \in Nat
      BY <1>2, <2>1
    <2> DEFINE a == Shifted(q, i) + Shifted(q, i + 1)
               c == 2^(m + 1) + 2^m
    <2>5. a \in Int /\ c \in Int /\ Shifted(p, i) + Shifted(p, i + 1) = a + 2 * c
      BY <2>2, <2>3, <2>4
    <2> HIDE DEF m, K, a, c
    <2>6. (a + 2 * c) % 2 = a % 2
      BY <2>5, Parity
    <2> QED BY <1>4, <2>5, <2>6 DEF a
  <1>9. Gray[p][k - 1] = 1 - Gray[q][k - 1]
    <2> DEFINE i == k - 1
    <2>1. i \in Nat /\ i \in 0..k /\ i \in Bits /\ i + 1 = k /\ k - i = 0 + 1
      BY <1>1
    <2>2. Shifted(p, i) = Shifted(q, i) + 2^(0 + 1)
      <3> HIDE DEF i, k
      <3>1. i \in K
        BY <1>3, <2>1
      <3> QED BY <2>1, <3>1
    <2>3. Shifted(p, i + 1) = Shifted(q, i + 1) + 1
      BY <1>7, <2>1
    <2>4. Shifted(q, i) \in Nat /\ Shifted(q, i + 1) \in Nat
      BY <1>2, <2>1
    <2> HIDE DEF i, K, k
    <2> DEFINE a == Shifted(q, i) + Shifted(q, i + 1)
    <2>5. a \in Int /\ Shifted(p, i) + Shifted(p, i + 1) = a + 2 * 1 + 1
      BY <1>5, <2>2, <2>3, <2>4
    <2>6. Gray[p][i] = (Shifted(p, i) + Shifted(p, i + 1)) % 2 /\ Gray[q][i] = a % 2
      BY <1>4, <2>1
    <2> HIDE DEF a
    <2>7. (a + 2 * 1 + 1) % 2 = 1 - (a % 2)
      BY <2>5, Parity
    <2>8. Gray[p][i] = 1 - Gray[q][i]
      BY <2>5, <2>6, <2>7
    <2> QED BY <2>8 DEF i
  <1>10. Gray[p][k] = 1 - Gray[q][k]
    <2>1. k \in Bits /\ k \in Nat
      BY <1>1
    <2> HIDE DEF K, k
    <2>2. Shifted(q, k) \in Nat
      BY <1>2, <2>1
    <2>3. Gray[p][k] = (Shifted(q, k) + 2 * 0 + 1) % 2 /\ Gray[q][k] = Shifted(q, k) % 2
      <3>1. /\ Gray[p][k] = (Shifted(p, k) + Shifted(p, k + 1)) % 2
            /\ Gray[q][k] = (Shifted(q, k) + Shifted(q, k + 1)) % 2
        BY <1>4, <2>1
      <3>2. Shifted(p, k) + Shifted(p, k + 1) = Shifted(q, k) + 2 * 0 + 1
        BY <1>6, <1>7, <2>2
      <3>3. Shifted(q, k) + Shifted(q, k + 1) = Shifted(q, k)
        BY <1>6, <2>2
      <3> QED BY <3>1, <3>2, <3>3
    <2> QED BY <2>2, <2>3, Parity
  <1>11. ASSUME NEW i \in Bits PROVE Gray[p][i] = InvertTop(Gray[q])[i]
    <2>1. i <= k - 2 \/ i = k - 1 \/ i = k
      BY <1>1
    <2>2. InvertTop(Gray[q])[i] = IF i >= k - 1 THEN 1 - Gray[q][i] ELSE Gray[q][i]
      BY <1>1 DEF InvertTop
    <2> QED BY <1>1, <1>8, <1>9, <1>10, <2>1, <2>2
  <1>12. Gray[p] = InvertTop(Gray[q])
    <2>1. Gray[p] \in Codes
      BY <1>1, GrayIsCode
    <2> QED BY <1>11, <2>1 DEF Codes, InvertTop
  <1> QED BY <1>1, <1>12 DEF p

LEMMA InvertTopTwice ==
  ASSUME NEW c \in Codes
  PROVE  InvertTop(InvertTop(c)) = c
  <1>1. ASSUME NEW i \in Bits PROVE InvertTop(InvertTop(c))[i] = c[i]
    <2>1. c[i] \in 0..1
      BY DEF Codes
    <2> QED BY <2>1 DEF InvertTop
  <1> QED BY <1>1 DEF InvertTop, Codes

(* The Gray code of the FIFO's pointers (write_gray_next and               *)
(* read_gray_next of the controller) tells the positions apart, is sampled *)
(* as the old or the new one while its pointer moves on, and has its two   *)
(* top bits inverted exactly at the position half way round, whatever the  *)
(* depth.                                                                  *)
THEOREM GrayCodesSafe == GrayFacts
  <1>1. \A p, q \in Pointers : Gray[p] = Gray[q] => p = q
    BY GrayInjective
  <1>2. ASSUME NEW p \in Pointers, NEW c \in Sampled(Gray[p], Gray[Add(p, TRUE)])
        PROVE  c \in {Gray[p], Gray[Add(p, TRUE)]}
    <2>1. Add(p, TRUE) \in Pointers
      BY AddType
    <2>2. OneApart(Gray[p], Gray[Add(p, TRUE)])
      <3>1. CASE p = Span - 1
        BY <3>1, WrapOneApart DEF Add
      <3>2. CASE p # Span - 1
        <4>1. Add(p, TRUE) = p + 1
          BY <3>2 DEF Add
        <4> QED BY <2>1, <4>1, IncrementOneApart
      <3> QED BY <3>1, <3>2
    <2>3. Gray[p] \in Codes /\ Gray[Add(p, TRUE)] \in Codes
      BY <2>1, GrayIsCode
    <2> QED BY <2>2, <2>3, OneApartSampled
  <1>3. ASSUME NEW p \in Pointers, NEW q \in Pointers
        PROVE  Gray[p] = InvertTop(Gray[q])
                  <=> p = (IF q >= Depth THEN q - Depth ELSE q + Depth)
    <2> DEFINE opposite == IF q >= Depth THEN q - Depth ELSE q + Depth
    <2>1. opposite \in Pointers /\ Gray[opposite] = InvertTop(Gray[q])
      <3>1. CASE q < Depth
        <4>1. opposite = q + Depth
          BY <3>1, SpanFacts DEF Pointers
        <4> QED BY <3>1, <4>1, GrayHalfWay
      <3>2. CASE ~(q < Depth)
        <4>1. /\ opposite = q - Depth /\ opposite \in Pointers /\ opposite < Depth
              /\ opposite + Depth = q
          BY <3>2, SpanFacts DEF Pointers
        <4> HIDE DEF opposite
        <4>2. Gray[q] = InvertTop(Gray[opposite])
          BY <4>1, GrayHalfWay
        <4>3. Gray[opposite] \in Codes
          BY <4>1, GrayIsCode
        <4> QED BY <4>1, <4>2, <4>3, InvertTopTwice
      <3> QED BY <3>1, <3>2
    <2> HIDE DEF opposite
    <2>2. Gray[p] = InvertTop(Gray[q]) <=> p = opposite
      BY <2>1, GrayInjective
    <2> QED BY <2>2 DEF opposite
  <1> QED BY <1>1, <1>2, <1>3 DEF GrayFacts

LEMMA UngrayGray ==
  ASSUME NEW p \in Pointers
  PROVE  Ungray(Gray[p]) = p
  BY GrayCodesSafe DEF GrayFacts, Ungray

LEMMA GrayUngray ==
  ASSUME NEW c \in GrayCodes
  PROVE  Ungray(c) \in Pointers /\ Gray[Ungray(c)] = c
  BY DEF Ungray, GrayCodes

LEMMA InvertTopMeansDepthApart ==
  ASSUME NEW p \in Pointers, NEW q \in Pointers
  PROVE  Gray[p] = InvertTop(Gray[q]) <=> Distance(q, p) = Depth
  <1>1. Gray[p] = InvertTop(Gray[q]) <=> p = (IF q >= Depth THEN q - Depth ELSE q + Depth)
    BY GrayCodesSafe DEF GrayFacts
  <1> QED BY <1>1, SpanFacts DEF Pointers, Distance

(* A changing Gray pointer is sampled before or after its change.          *)
LEMMA SampledIsOldOrNew ==
  ASSUME NEW p \in Pointers, NEW by \in BOOLEAN,
         NEW c \in Sampled(Gray[p], Gray[Add(p, by)])
  PROVE  c \in {Gray[p], Gray[Add(p, by)]}
  <1>1. CASE by
    BY <1>1, GrayCodesSafe DEF GrayFacts
  <1>2. CASE ~by
    <2>1. Add(p, by) = p
      BY <1>2, SpanFacts DEF Add, Pointers
    <2>2. c \in Codes /\ \A i \in Bits : c[i] = Gray[p][i]
      BY <2>1 DEF Sampled
    <2>3. Gray[p] \in Codes
      BY GrayIsCode
    <2> QED BY <2>2, <2>3 DEF Codes
  <1> QED BY <1>1, <1>2

-----------------------------------------------------------------------------
(* How the positions move when either clock, or both, have an edge.        *)

Moves(rs2, rs1, rd, ws2, ws1, wr, rs2n, rs1n, ws2n, ws1n, put, take) ==
    /\ rs2 \in Pointers /\ rs1 \in Pointers /\ rd \in Pointers
    /\ ws2 \in Pointers /\ ws1 \in Pointers /\ wr \in Pointers
    /\ rs2n \in Pointers /\ rs1n \in Pointers /\ ws2n \in Pointers /\ ws1n \in Pointers
    /\ put \in BOOLEAN /\ take \in BOOLEAN
    /\ CircuitOf(rs2, rs1, rd, ws2, ws1, wr) <= Depth
    /\ put => CircuitOf(rs2, rs1, rd, ws2, ws1, wr) < Depth
    /\ take => rd # ws2
    /\ \/ rs2n = rs2 /\ rs1n = rs1
       \/ rs2n = rs1 /\ rs1n \in {rd, Add(rd, take)}
    /\ \/ ws2n = ws2 /\ ws1n = ws1
       \/ ws2n = ws1 /\ ws1n \in {wr, Add(wr, put)}

Moved(rs2, rs1, rd, ws2, ws1, wr, rs2n, rs1n, ws2n, ws1n, put, take) ==
    LET rdn == Add(rd, take)
        wrn == Add(wr, put)
        after == CircuitOf(rs2n, rs1n, rdn, ws2n, ws1n, wrn)
    IN  /\ after \in Nat
        /\ after <= Distance(rs2, wrn)
        /\ Distance(rs2, wrn) <= Depth
        /\ ~put => Distance(rs2, wrn) = CircuitOf(rs2, rs1, rd, ws2, ws1, wr)
        /\ rdn # ws2 => rdn # ws2n
        /\ rdn # ws2 /\ put => Address(rdn) # Address(wr)

LEMMA Advance ==
  ASSUME NEW rs2, NEW rs1, NEW rd, NEW ws2, NEW ws1, NEW wr,
         NEW rs2n, NEW rs1n, NEW ws2n, NEW ws1n, NEW put, NEW take,
         Moves(rs2, rs1, rd, ws2, ws1, wr, rs2n, rs1n, ws2n, ws1n, put, take)
  PROVE  Moved(rs2, rs1, rd, ws2, ws1, wr, rs2n, rs1n, ws2n, ws1n, put, take)
  <1> USE DEF Moves
  <1> DEFINE rdn == Add(rd, take)
             wrn == Add(wr, put)
             At(p) == Distance(rs2, p)
  <1>1. /\ At(rs2) = 0 /\ At(rs1) \in Nat /\ At(rd) \in Nat /\ At(ws2) \in Nat
        /\ At(ws1) \in Nat /\ At(wr) \in Nat
    BY DistanceType
  <1>2. /\ At(rs1) <= At(rd) /\ At(rd) <= At(ws2) /\ At(ws2) <= At(ws1)
        /\ At(ws1) <= At(wr)
        /\ CircuitOf(rs2, rs1, rd, ws2, ws1, wr) = At(wr)
    <2>1. /\ Distance(rs2, rs1) \in Nat /\ Distance(rs1, rd) \in Nat
          /\ Distance(rd, ws2) \in Nat /\ Distance(ws2, ws1) \in Nat
          /\ Distance(ws1, wr) \in Nat
      BY DistanceType
    <2>2. Distance(rs2, rd) = Distance(rs2, rs1) + Distance(rs1, rd)
      BY <2>1, DistanceFrom, SpanFacts DEF CircuitOf
    <2>3. Distance(rs2, ws2) = Distance(rs2, rd) + Distance(rd, ws2)
      BY <2>1, <2>2, DistanceFrom, SpanFacts DEF CircuitOf
    <2>4. Distance(rs2, ws1) = Distance(rs2, ws2) + Distance(ws2, ws1)
      BY <2>1, <2>2, <2>3, DistanceFrom, SpanFacts DEF CircuitOf
    <2>5. Distance(rs2, wr) = Distance(rs2, ws1) + Distance(ws1, wr)
      BY <2>1, <2>2, <2>3, <2>4, DistanceFrom, SpanFacts DEF CircuitOf
    <2> QED
      BY <2>1, <2>2, <2>3, <2>4, <2>5, SpanFacts DEF CircuitOf
  <1>3. rdn \in Pointers /\ wrn \in Pointers
    BY AddType
  <1>4. take => At(rd) < At(ws2)
    <2>1. rd # ws2 => At(rd) # At(ws2)
      BY DistanceInjective
    <2> QED BY <2>1, <1>1, <1>2
  <1>5. /\ take => At(rdn) = At(rd) + 1
        /\ ~take => rdn = rd
    <2>1. ASSUME take PROVE At(Add(rd, TRUE)) = At(rd) + 1
      <3>1. At(rd) < Span - 1
        BY <2>1, <1>1, <1>2, <1>4, SpanFacts
      <3> QED BY <3>1, DistanceAdd
    <2> QED BY <2>1, AddType
  <1>6. /\ put => At(wrn) = At(wr) + 1
        /\ ~put => wrn = wr
    <2>1. ASSUME put PROVE At(Add(wr, TRUE)) = At(wr) + 1
      <3>1. At(wr) < Span - 1
        BY <2>1, <1>1, <1>2, SpanFacts
      <3> QED BY <3>1, DistanceAdd
    <2> QED BY <2>1, AddType
  <1>7. /\ At(rdn) \in Nat /\ At(wrn) \in Nat
        /\ At(rd) <= At(rdn) /\ At(rdn) <= At(ws2) /\ At(wr) <= At(wrn)
        /\ At(wrn) <= Depth
    BY <1>1, <1>2, <1>4, <1>5, <1>6, SpanFacts
  <1>8. /\ At(rs2n) \in Nat /\ At(rs1n) \in Nat /\ At(ws2n) \in Nat /\ At(ws1n) \in Nat
        /\ At(rs2n) <= At(rs1n) /\ At(rs1n) <= At(rdn) /\ At(rdn) <= At(ws2n)
        /\ At(ws2) <= At(ws2n)
        /\ At(ws2n) <= At(ws1n) /\ At(ws1n) <= At(wrn)
    BY <1>1, <1>2, <1>7
  <1>9. CircuitOf(rs2n, rs1n, rdn, ws2n, ws1n, wrn) = At(wrn) - At(rs2n)
    <2> HIDE DEF rdn, wrn
    <2>1. /\ Distance(rs2n, rs1n) = At(rs1n) - At(rs2n)
          /\ Distance(rs1n, rdn) = At(rdn) - At(rs1n)
          /\ Distance(rdn, ws2n) = At(ws2n) - At(rdn)
          /\ Distance(ws2n, ws1n) = At(ws1n) - At(ws2n)
          /\ Distance(ws1n, wrn) = At(wrn) - At(ws1n)
      BY <1>3, <1>8, DistanceFrom
    <2> QED BY <1>7, <1>8, <2>1 DEF CircuitOf
  <1>10. At(rs2n) <= At(wrn)
    BY <1>7, <1>8
  <1>11. rdn # ws2 => At(rdn) < At(ws2)
    <2>1. rdn # ws2 => At(rdn) # At(ws2)
      BY DistanceInjective, <1>3
    <2> QED BY <2>1, <1>1, <1>7
  <1>12. rdn # ws2 => rdn # ws2n
    BY <1>1, <1>7, <1>8, <1>11
  <1>13. rdn # ws2 /\ put => Address(rdn) # Address(wr)
    <2> SUFFICES ASSUME rdn # ws2, put PROVE Address(rdn) # Address(wr)
      OBVIOUS
    <2>1. At(rdn) < At(wr) /\ At(wr) < Depth
      BY <1>1, <1>2, <1>7, <1>11
    <2>2. Distance(rdn, wr) = At(wr) - At(rdn)
      BY <2>1, <1>1, <1>3, <1>7, DistanceFrom
    <2>3. 0 < Distance(rdn, wr) /\ Distance(rdn, wr) < Depth
      BY <2>1, <2>2, <1>1, <1>7, SpanFacts
    <2> HIDE DEF rdn
    <2> QED BY <2>3, <1>3, SpanFacts DEF Distance, Address, Pointers
  <1> QED
    BY <1>1, <1>2, <1>6, <1>7, <1>8, <1>9, <1>10, <1>12, <1>13 DEF Moved

-----------------------------------------------------------------------------
(* What an edge does to the registers of a domain that is working, and of  *)
(* one that is still held in reset.                                        *)

SourceHolds == UNCHANGED <<sourceVars, storage>>

SourceMoves(valid, payload) ==
    /\ write_binary' = write_binary_next(valid)
    /\ write_gray' = write_gray_next(valid)
    /\ read_gray_sync1' \in {read_gray, read_gray'}
    /\ read_gray_sync2' = read_gray_sync1
    /\ full' = full_next(valid)
    /\ storage' = IF push(valid) THEN Stored(payload) ELSE storage

DestinationHolds == UNCHANGED destinationVars

DestinationMoves(ready) ==
    /\ read_binary' = read_binary_next(ready)
    /\ read_gray' = read_gray_next(ready)
    /\ write_gray_sync1' \in {write_gray, write_gray'}
    /\ write_gray_sync2' = write_gray_sync1
    /\ output_valid' = output_valid_next(ready)
    /\ read_data' = IF prefetch(ready)
                    THEN storage[Address(read_binary_next(ready))]
                    ELSE read_data

(* The positions stay in order while the domains work.                     *)
LEMMA WorkingStep ==
  ASSUME TypeOK, Coded, Working, Coded',
         NEW valid \in BOOLEAN, NEW payload \in Data, NEW ready \in BOOLEAN,
         SourceHolds \/ SourceMoves(valid, payload),
         DestinationHolds \/ DestinationMoves(ready)
  PROVE  Working'
  <1> DEFINE rs2 == Ungray(read_gray_sync2)
             rs1 == Ungray(read_gray_sync1)
             ws2 == Ungray(write_gray_sync2)
             ws1 == Ungray(write_gray_sync1)
  <1>1. /\ rs2 \in Pointers /\ rs1 \in Pointers /\ ws2 \in Pointers /\ ws1 \in Pointers
        /\ rs2' \in Pointers /\ rs1' \in Pointers /\ ws2' \in Pointers /\ ws1' \in Pointers
    BY GrayUngray DEF Coded
  <1>2. PICK put \in BOOLEAN :
           /\ write_binary' = Add(write_binary, put)
           /\ put => ~full
           /\ \/ SourceHolds /\ put = FALSE
              \/ SourceMoves(valid, payload) /\ put = push(valid)
    <2>1. CASE SourceHolds
      BY <2>1, AddType DEF SourceHolds, sourceVars, TypeOK
    <2>2. CASE SourceMoves(valid, payload)
      <3>1. push(valid) \in BOOLEAN /\ (push(valid) => ~full)
        BY DEF push, source_ready, TypeOK
      <3>2. write_binary' = Add(write_binary, push(valid))
        BY <2>2 DEF SourceMoves, write_binary_next
      <3> QED BY <2>2, <3>1, <3>2
    <2> QED BY <2>1, <2>2
  <1>3. PICK take \in BOOLEAN :
           /\ read_binary' = Add(read_binary, take)
           /\ take => output_valid
           /\ \/ DestinationHolds /\ take = FALSE
              \/ DestinationMoves(ready) /\ take = pop(ready)
    <2>1. CASE DestinationHolds
      BY <2>1, AddType DEF DestinationHolds, destinationVars, TypeOK
    <2>2. CASE DestinationMoves(ready)
      <3>1. pop(ready) \in BOOLEAN /\ (pop(ready) => output_valid)
        BY DEF pop, destination_valid, TypeOK
      <3>2. read_binary' = Add(read_binary, pop(ready))
        BY <2>2 DEF DestinationMoves, read_binary_next
      <3> QED BY <2>2, <3>1, <3>2
    <2> QED BY <2>1, <2>2
  <1>4. write_binary' \in Pointers /\ read_binary' \in Pointers
    BY <1>2, <1>3, AddType DEF TypeOK
  <1>5. \/ rs2' = rs2 /\ rs1' = rs1
        \/ rs2' = rs1 /\ rs1' \in {read_binary, read_binary'}
    <2>1. CASE SourceHolds
      BY <2>1 DEF SourceHolds, sourceVars
    <2>2. CASE SourceMoves(valid, payload)
      <3>1. rs2' = rs1
        BY <2>2 DEF SourceMoves
      <3>2. read_gray_sync1' \in {Gray[read_binary], Gray[read_binary']}
        BY <2>2 DEF SourceMoves, Coded
      <3>3. rs1' \in {read_binary, read_binary'}
        BY <3>2, <1>4, UngrayGray DEF TypeOK
      <3> QED BY <3>1, <3>3
    <2> QED BY <2>1, <2>2
  <1>6. \/ ws2' = ws2 /\ ws1' = ws1
        \/ ws2' = ws1 /\ ws1' \in {write_binary, write_binary'}
    <2>1. CASE DestinationHolds
      BY <2>1 DEF DestinationHolds, destinationVars
    <2>2. CASE DestinationMoves(ready)
      <3>1. ws2' = ws1
        BY <2>2 DEF DestinationMoves
      <3>2. write_gray_sync1' \in {Gray[write_binary], Gray[write_binary']}
        BY <2>2 DEF DestinationMoves, Coded
      <3>3. ws1' \in {write_binary, write_binary'}
        BY <3>2, <1>4, UngrayGray DEF TypeOK
      <3> QED BY <3>1, <3>3
    <2> QED BY <2>1, <2>2
  <1> HIDE DEF rs2, rs1, ws2, ws1
  <1>7. Moves(rs2, rs1, read_binary, ws2, ws1, write_binary,
              rs2', rs1', ws2', ws1', put, take)
    BY <1>1, <1>2, <1>3, <1>5, <1>6
       DEF Moves, Working, PointersInOrder, Circuit, TypeOK, rs2, rs1, ws2, ws1
  <1>8. Moved(rs2, rs1, read_binary, ws2, ws1, write_binary,
              rs2', rs1', ws2', ws1', put, take)
    BY <1>7, Advance
  <1>9. /\ Circuit' \in Nat
        /\ Circuit' <= Distance(rs2, write_binary')
        /\ Distance(rs2, write_binary') <= Depth
        /\ ~put => Distance(rs2, write_binary') = Circuit
        /\ read_binary' # ws2 => read_binary' # ws2'
        /\ read_binary' # ws2 /\ put => Address(read_binary') # Address(write_binary)
    BY <1>2, <1>3, <1>8 DEF Moved, Circuit, rs2, rs1, ws2, ws1
  <1>10. PointersInOrder'
    BY <1>9, SpanFacts, DistanceType, <1>1, <1>4 DEF PointersInOrder
  <1>11. ~full' => Circuit' < Depth
    <2>1. CASE SourceHolds /\ put = FALSE
      BY <2>1, <1>9, SpanFacts, DistanceType, <1>1, <1>4
         DEF SourceHolds, sourceVars, Working
    <2>2. CASE SourceMoves(valid, payload) /\ put = push(valid)
      <3>1. full' = (Gray[write_binary'] = InvertTop(Gray[rs2]))
        BY <2>2, GrayUngray
           DEF SourceMoves, full_next, write_gray_next, Coded, rs2
      <3>2. full' <=> Distance(rs2, write_binary') = Depth
        BY <3>1, <1>1, <1>4, InvertTopMeansDepthApart
      <3> QED BY <3>2, <1>9, SpanFacts, DistanceType, <1>1, <1>4
    <2> QED BY <1>2, <2>1, <2>2
  <1>12. output_valid' => /\ read_binary' # ws2
                          /\ read_data' = storage[Address(read_binary')]
    <2>1. CASE DestinationHolds /\ take = FALSE
      BY <2>1 DEF DestinationHolds, destinationVars, Working, ws2
    <2>2. CASE DestinationMoves(ready) /\ take = pop(ready)
      <3> SUFFICES ASSUME output_valid'
                   PROVE  /\ read_binary' # ws2
                          /\ read_data' = storage[Address(read_binary')]
        OBVIOUS
      <3>0. read_binary' = read_binary_next(ready)
        BY <2>2 DEF DestinationMoves
      <3>1. CASE prefetch(ready)
        <4>1. read_data' = storage[Address(read_binary')]
          BY <2>2, <3>0, <3>1 DEF DestinationMoves
        <4>2. CASE ~output_valid /\ unread_current
          <5>1. take = FALSE
            BY <1>3, <4>2
          <5>2. read_binary' = read_binary
            BY <5>1, <1>3, AddType DEF TypeOK
          <5>3. Gray[read_binary] # Gray[ws2]
            BY <4>2, GrayUngray DEF unread_current, Coded, ws2
          <5> QED BY <4>1, <5>2, <5>3
        <4>3. CASE pop(ready) /\ unread_next(ready)
          <5>1. Gray[read_binary'] # Gray[ws2]
            BY <4>3, <3>0, GrayUngray DEF unread_next, read_gray_next, Coded, ws2
          <5> QED BY <4>1, <5>1
        <4> QED BY <3>1, <4>2, <4>3 DEF prefetch
      <3>2. CASE ~prefetch(ready)
        <4>1. output_valid /\ ~pop(ready)
          BY <2>2, <3>2 DEF output_valid_next, DestinationMoves
        <4>2. read_binary' = read_binary
          BY <4>1, <2>2, <1>3, AddType DEF TypeOK
        <4> QED BY <4>1, <4>2, <2>2, <3>2 DEF DestinationMoves, Working, ws2
      <3> QED BY <3>1, <3>2
    <2> QED BY <1>3, <2>1, <2>2
  <1>13. output_valid' => storage'[Address(read_binary')] = storage[Address(read_binary')]
    <2>1. CASE SourceHolds /\ put = FALSE
      BY <2>1 DEF SourceHolds
    <2>2. CASE SourceMoves(valid, payload) /\ put = push(valid)
      BY <2>2, <1>9, <1>12 DEF Stored, SourceMoves, TypeOK
    <2> QED BY <1>2, <2>1, <2>2
  <1> QED
    BY <1>9, <1>10, <1>11, <1>12, <1>13 DEF Working, ws2

-----------------------------------------------------------------------------
(* The inductive invariant.                                                *)

LEMMA ZeroFacts ==
  /\ 0 \in Pointers
  /\ 0 \in Addresses
  /\ Gray[0] \in Codes /\ Gray[0] \in GrayCodes
  /\ CircuitOf(0, 0, 0, 0, 0, 0) = 0
  /\ Ungray(Gray[0]) = 0
  <1>1. 0 \in Pointers /\ 0 \in Addresses
    BY SpanFacts DEF Pointers, Addresses
  <1>2. Distance(0, 0) = 0
    BY DEF Distance
  <1> QED BY <1>1, <1>2, GrayIsCode, UngrayGray DEF CircuitOf

(* Two cleared domains are in order.                                       *)
LEMMA ClearedWorks ==
  SourceCleared /\ DestinationCleared => Working
  BY ZeroFacts, SpanFacts
     DEF SourceCleared, DestinationCleared, Working, PointersInOrder, Circuit

LEMMA AddressType ==
  ASSUME NEW p \in Pointers
  PROVE  Address(p) \in Addresses
  BY SpanFacts DEF Pointers, Address, Addresses

(* The registers of the source domain keep their types and their codes.    *)
LEMMA SourceRegistersType ==
  ASSUME TypeOK, Coded, NEW valid \in BOOLEAN, NEW payload \in Data,
         NEW sampled, ~source_reset => sampled \in GrayCodes,
         SourceRegisters(valid, payload, sampled)
  PROVE  /\ write_binary' \in Pointers
         /\ write_gray' = Gray[write_binary']
         /\ {read_gray_sync1', read_gray_sync2'} \subseteq GrayCodes
         /\ full' \in BOOLEAN
         /\ storage' \in [Addresses -> Data]
         /\ source_reset => SourceCleared'
  <1>1. CASE source_reset
    BY <1>1, ZeroFacts DEF SourceRegisters, TypeOK, SourceCleared
  <1>2. CASE ~source_reset
    <2>1. push(valid) \in BOOLEAN
      BY DEF push, source_ready, TypeOK
    <2>2. write_binary_next(valid) \in Pointers
      BY <2>1, AddType DEF write_binary_next, TypeOK
    <2>3. Address(write_binary) \in Addresses
      BY AddressType DEF TypeOK
    <2>4. full' \in BOOLEAN
      BY <1>2 DEF SourceRegisters, full_next
    <2> QED
      BY <1>2, <2>2, <2>3, <2>4 DEF Stored, SourceRegisters, write_gray_next, TypeOK, Coded
  <1> QED BY <1>1, <1>2

LEMMA DestinationRegistersType ==
  ASSUME TypeOK, Coded, NEW ready \in BOOLEAN,
         NEW sampled, ~destination_reset => sampled \in GrayCodes,
         DestinationRegisters(ready, sampled)
  PROVE  /\ read_binary' \in Pointers
         /\ read_gray' = Gray[read_binary']
         /\ {write_gray_sync1', write_gray_sync2'} \subseteq GrayCodes
         /\ output_valid' \in BOOLEAN
         /\ read_data' \in Data
         /\ delivered' \in Data
         /\ destination_reset => DestinationCleared'
  <1>1. CASE destination_reset
    BY <1>1, ZeroFacts, ZeroAssumption
       DEF DestinationRegisters, TypeOK, DestinationCleared
  <1>2. CASE ~destination_reset
    <2>1. pop(ready) \in BOOLEAN
      BY DEF pop, destination_valid, TypeOK
    <2>2. read_binary_next(ready) \in Pointers
      BY <2>1, AddType DEF read_binary_next, TypeOK
    <2>3. Address(read_binary_next(ready)) \in Addresses
      BY <2>2, AddressType
    <2>4. output_valid' \in BOOLEAN
      BY <1>2 DEF output_valid_next, DestinationRegisters
    <2> QED
      BY <1>2, <2>2, <2>3, <2>4 DEF DestinationRegisters, read_gray_next, TypeOK, Coded
  <1> QED BY <1>1, <1>2

LEMMA GrayTypes ==
  ASSUME write_binary \in Pointers, read_binary \in Pointers, Coded
  PROVE  {write_gray, read_gray, read_gray_sync1, read_gray_sync2,
          write_gray_sync1, write_gray_sync2} \subseteq Codes
  BY GrayIsCode DEF Coded, GrayCodes

(* A domain held in reset after it was cleared stands still; one that      *)
(* works moves.                                                            *)
LEMMA SourceHoldsOrMoves ==
  ASSUME TypeOK, Coded, NEW valid, NEW payload, NEW sampled,
         source_reset => SourceCleared,
         ~source_reset => sampled \in {read_gray, read_gray'},
         SourceRegisters(valid, payload, sampled)
  PROVE  SourceHolds \/ SourceMoves(valid, payload)
  <1>1. CASE source_reset
    BY <1>1 DEF SourceRegisters, SourceCleared, SourceHolds, sourceVars, Coded
  <1>2. CASE ~source_reset
    BY <1>2 DEF SourceRegisters, SourceMoves
  <1> QED BY <1>1, <1>2

LEMMA DestinationHoldsOrMoves ==
  ASSUME TypeOK, Coded, NEW ready, NEW sampled,
         destination_reset => DestinationCleared,
         ~destination_reset => sampled \in {write_gray, write_gray'},
         DestinationRegisters(ready, sampled)
  PROVE  DestinationHolds \/ DestinationMoves(ready)
  <1>1. CASE destination_reset
    BY <1>1 DEF DestinationRegisters, DestinationCleared, DestinationHolds,
                destinationVars, Coded
  <1>2. CASE ~destination_reset
    BY <1>2 DEF DestinationRegisters, DestinationMoves
  <1> QED BY <1>1, <1>2

(* An edge of either clock, or of both, keeps the invariant.               *)
LEMMA EdgeStep ==
  ASSUME Inv, NEW edges \in SUBSET {"source", "destination"},
         NEW valid \in BOOLEAN, NEW payload \in Data, NEW ready \in BOOLEAN,
         NEW r, NEW w,
         "source" \in edges => SourceRegisters(valid, payload, r),
         "source" \notin edges => UNCHANGED <<sourceVars, storage>>,
         "destination" \in edges => DestinationRegisters(ready, w),
         "destination" \notin edges => UNCHANGED destinationVars,
         ~source_reset => r \in {read_gray, read_gray'},
         ~destination_reset => w \in {write_gray, write_gray'},
         Clear(edges), UNCHANGED resetVars
  PROVE  Inv'
  <1> USE DEF Inv
  <1>1. /\ read_gray \in GrayCodes /\ write_gray \in GrayCodes
    BY GrayIsCode DEF Coded, TypeOK
  <1>2. ASSUME "source" \in edges, r \in GrayCodes \/ source_reset
        PROVE  /\ write_binary' \in Pointers
               /\ write_gray' = Gray[write_binary']
               /\ {read_gray_sync1', read_gray_sync2'} \subseteq GrayCodes
               /\ full' \in BOOLEAN
               /\ storage' \in [Addresses -> Data]
               /\ source_reset => SourceCleared'
    BY <1>2, SourceRegistersType
  <1>3. ASSUME "destination" \in edges, w \in GrayCodes \/ destination_reset
        PROVE  /\ read_binary' \in Pointers
               /\ read_gray' = Gray[read_binary']
               /\ {write_gray_sync1', write_gray_sync2'} \subseteq GrayCodes
               /\ output_valid' \in BOOLEAN
               /\ read_data' \in Data
               /\ delivered' \in Data
               /\ destination_reset => DestinationCleared'
    BY <1>3, DestinationRegistersType
  <1>4. /\ write_binary' \in Pointers /\ write_gray' = Gray[write_binary']
        /\ read_binary' \in Pointers /\ read_gray' = Gray[read_binary']
    <2>1. write_binary' \in Pointers /\ write_gray' = Gray[write_binary']
      <3>1. CASE "source" \in edges /\ source_reset
        BY <3>1, <1>2
      <3>2. CASE "source" \in edges /\ ~source_reset
        <4>1. push(valid) \in BOOLEAN
          BY DEF push, source_ready, TypeOK
        <4> QED BY <3>2, <4>1, AddType
                DEF SourceRegisters, write_binary_next, write_gray_next, TypeOK
      <3>3. CASE "source" \notin edges
        BY <3>3 DEF sourceVars, TypeOK, Coded
      <3> QED BY <3>1, <3>2, <3>3
    <2>2. read_binary' \in Pointers /\ read_gray' = Gray[read_binary']
      <3>1. CASE "destination" \in edges /\ destination_reset
        BY <3>1, <1>3
      <3>2. CASE "destination" \in edges /\ ~destination_reset
        <4>1. pop(ready) \in BOOLEAN
          BY DEF pop, destination_valid, TypeOK
        <4> QED BY <3>2, <4>1, AddType
                DEF DestinationRegisters, read_binary_next, read_gray_next, TypeOK
      <3>3. CASE "destination" \notin edges
        BY <3>3 DEF destinationVars, TypeOK, Coded
      <3> QED BY <3>1, <3>2, <3>3
    <2> QED BY <2>1, <2>2
  <1>5. /\ r \in GrayCodes \/ source_reset
        /\ w \in GrayCodes \/ destination_reset
    BY <1>1, <1>4, GrayIsCode
  <1>6. Coded'
    <2>1. {read_gray_sync1', read_gray_sync2'} \subseteq GrayCodes
      BY <1>2, <1>5 DEF sourceVars, Coded
    <2>2. {write_gray_sync1', write_gray_sync2'} \subseteq GrayCodes
      BY <1>3, <1>5 DEF destinationVars, Coded
    <2> QED BY <1>4, <2>1, <2>2 DEF Coded
  <1>7. TypeOK'
    <2>1. full' \in BOOLEAN /\ storage' \in [Addresses -> Data]
      BY <1>2, <1>5 DEF sourceVars, TypeOK
    <2>2. output_valid' \in BOOLEAN /\ read_data' \in Data /\ delivered' \in Data
      BY <1>3, <1>5 DEF destinationVars, TypeOK
    <2>3. cleared' \subseteq {"source", "destination"}
      BY DEF Clear, TypeOK
    <2>4. {write_gray', read_gray', read_gray_sync1', read_gray_sync2',
           write_gray_sync1', write_gray_sync2'} \subseteq Codes
      BY <1>4, <1>6, GrayIsCode DEF Coded, GrayCodes
    <2>5. source_reset' \in BOOLEAN /\ destination_reset' \in BOOLEAN
      BY DEF resetVars, TypeOK
    <2> QED BY <1>4, <2>1, <2>2, <2>3, <2>4, <2>5 DEF TypeOK
  <1>8. /\ source_reset' = source_reset /\ destination_reset' = destination_reset
        /\ cleared \subseteq cleared'
        /\ "source" \in cleared' /\ source_reset
              => "source" \in edges \/ "source" \in cleared
        /\ "destination" \in cleared' /\ destination_reset
              => "destination" \in edges \/ "destination" \in cleared
    BY DEF resetVars, Clear
  <1>9. source_reset' /\ "source" \in cleared' => SourceCleared'
    <2>1. CASE "source" \in edges
      BY <2>1, <1>2, <1>5, <1>8
    <2>2. CASE "source" \notin edges
      BY <2>2, <1>8 DEF ResetCoordinated, sourceVars, SourceCleared
    <2> QED BY <2>1, <2>2
  <1>10. destination_reset' /\ "destination" \in cleared' => DestinationCleared'
    <2>1. CASE "destination" \in edges
      BY <2>1, <1>3, <1>5, <1>8
    <2>2. CASE "destination" \notin edges
      BY <2>2, <1>8 DEF ResetCoordinated, destinationVars, DestinationCleared
    <2> QED BY <2>1, <2>2
  <1>11. ResetCoordinated'
    <2>1. cleared' # {"source", "destination"} => cleared # {"source", "destination"}
      BY <1>8, <1>7 DEF TypeOK
    <2> QED BY <1>8, <1>9, <1>10, <2>1 DEF ResetCoordinated
  <1>12. CASE Resetting
    <2>1. ~Resetting' => SourceCleared' /\ DestinationCleared'
      BY <1>12, <1>8, <1>9, <1>10 DEF Resetting
    <2>2. Resetting' \/ Working'
      BY <2>1, ClearedWorks, PTL
    <2> QED BY <1>6, <1>7, <1>11, <2>2
  <1>13. CASE ~Resetting
    <2>1. /\ source_reset => SourceCleared
          /\ destination_reset => DestinationCleared
      BY <1>13 DEF Resetting, ResetCoordinated
    <2>2. SourceHolds \/ SourceMoves(valid, payload)
      <3>1. CASE "source" \in edges
        BY <3>1, <2>1, SourceHoldsOrMoves
      <3>2. CASE "source" \notin edges
        BY <3>2 DEF SourceHolds
      <3> QED BY <3>1, <3>2
    <2>3. DestinationHolds \/ DestinationMoves(ready)
      <3>1. CASE "destination" \in edges
        BY <3>1, <2>1, DestinationHoldsOrMoves
      <3>2. CASE "destination" \notin edges
        BY <3>2 DEF DestinationHolds
      <3> QED BY <3>1, <3>2
    <2>4. Working'
      BY <1>6, <1>13, <2>2, <2>3, WorkingStep
    <2> QED BY <1>6, <1>7, <1>11, <2>4
  <1> QED BY <1>12, <1>13

LEMMA InitInv == Init => Inv
  <1> SUFFICES ASSUME Init PROVE Inv
    OBVIOUS
  <1>1. TypeOK
    BY ZeroFacts, ZeroAssumption DEF Init, TypeOK
  <1>2. Coded
    BY ZeroFacts DEF Init, Coded
  <1>3. SourceCleared /\ DestinationCleared
    BY DEF Init, SourceCleared, DestinationCleared
  <1>4. Working
    BY <1>3, ClearedWorks
  <1> QED BY <1>1, <1>2, <1>4 DEF Init, Inv, ResetCoordinated

(* Asserting the resets begins an episode; releasing one ends it only      *)
(* where both domains are cleared.                                         *)
LEMMA ResetStep ==
  ASSUME Inv, AssertReset \/ ReleaseSource \/ ReleaseDestination
  PROVE  Inv'
  <1> USE DEF Inv, resetVars, sourceVars, destinationVars
  <1>1. UNCHANGED <<sourceVars, destinationVars, storage>>
    BY DEF AssertReset, ReleaseSource, ReleaseDestination
  <1>2. TypeOK' /\ Coded' /\ (Working => Working')
    <2>1. TypeOK'
      BY <1>1 DEF AssertReset, ReleaseSource, ReleaseDestination, TypeOK
    <2>2. Coded'
      BY <1>1 DEF Coded
    <2>3. Working => Working'
      BY <1>1 DEF Working, PointersInOrder, Circuit
    <2> QED BY <2>1, <2>2, <2>3
  <1>3. CASE AssertReset
    <2>1. Resetting' /\ ResetCoordinated'
      BY <1>3 DEF AssertReset, Resetting, ResetCoordinated
    <2> QED BY <1>2, <2>1
  <1>4. CASE ReleaseSource
    <2>1. Working
      BY <1>4 DEF ReleaseSource, Resetting
    <2>2. ResetCoordinated'
      BY <1>1, <1>4 DEF ReleaseSource, ResetCoordinated, DestinationCleared, SourceCleared
    <2> QED BY <1>2, <2>1, <2>2
  <1>5. CASE ReleaseDestination
    <2>1. Working
      BY <1>5 DEF ReleaseDestination, Resetting
    <2>2. ResetCoordinated'
      BY <1>1, <1>5 DEF ReleaseDestination, ResetCoordinated, DestinationCleared, SourceCleared
    <2> QED BY <1>2, <2>1, <2>2
  <1> QED BY <1>3, <1>4, <1>5

LEMMA NextInv == Inv /\ [Next]_vars => Inv'
  <1> SUFFICES ASSUME Inv, [Next]_vars PROVE Inv'
    OBVIOUS
  <1>1. ASSUME NEW valid \in BOOLEAN, NEW payload \in Data, SourceEdge(valid, payload)
        PROVE  Inv'
    <2>1. "source" \in {"source"} /\ "destination" \notin {"source"}
      OBVIOUS
    <2>2. write_gray \in {write_gray, write_gray'}
      OBVIOUS
    <2> QED BY <1>1, <2>1, <2>2, EdgeStep DEF SourceEdge
  <1>2. ASSUME NEW ready \in BOOLEAN, DestinationEdge(ready)
        PROVE  Inv'
    <2>1. "destination" \in {"destination"} /\ "source" \notin {"destination"}
      OBVIOUS
    <2> QED BY <1>2, <2>1, EdgeStep, ZeroAssumption DEF DestinationEdge
  <1>3. ASSUME NEW valid \in BOOLEAN, NEW payload \in Data, NEW ready \in BOOLEAN,
               BothEdges(valid, payload, ready)
        PROVE  Inv'
    <2>1. PICK r \in Sampled(read_gray, IF destination_reset THEN Gray[0]
                                        ELSE read_gray_next(ready)),
               w \in Sampled(write_gray, IF source_reset THEN Gray[0]
                                         ELSE write_gray_next(valid)) :
             /\ SourceRegisters(valid, payload, r)
             /\ DestinationRegisters(ready, w)
             /\ Clear({"source", "destination"})
             /\ UNCHANGED resetVars
      BY <1>3 DEF BothEdges
    <2>2. ~source_reset => r \in {read_gray, read_gray'}
      <3> SUFFICES ASSUME ~source_reset PROVE r \in {read_gray, read_gray'}
        OBVIOUS
      <3>1. CASE destination_reset
        <4>1. read_binary = 0 /\ read_gray = Gray[0]
          BY <3>1 DEF Inv, ResetCoordinated, DestinationCleared, Coded
        <4>2. r \in Sampled(Gray[0], Gray[Add(0, FALSE)])
          BY <2>1, <3>1, <4>1, AddType, ZeroFacts
        <4>3. r \in {Gray[0], Gray[Add(0, FALSE)]}
          BY <4>2, SampledIsOldOrNew, ZeroFacts
        <4> QED BY <4>1, <4>3, AddType, ZeroFacts
      <3>2. CASE ~destination_reset
        <4>1. pop(ready) \in BOOLEAN
          BY DEF pop, destination_valid, Inv, TypeOK
        <4>2. r \in Sampled(Gray[read_binary], Gray[Add(read_binary, pop(ready))])
          BY <2>1, <3>2 DEF Inv, Coded, read_gray_next, read_binary_next
        <4>3. r \in {Gray[read_binary], Gray[Add(read_binary, pop(ready))]}
          BY <4>1, <4>2, SampledIsOldOrNew DEF Inv, TypeOK
        <4> QED BY <2>1, <3>2, <4>3
                DEF DestinationRegisters, read_gray_next, read_binary_next, Inv, Coded
      <3> QED BY <3>1, <3>2
    <2>3. ~destination_reset => w \in {write_gray, write_gray'}
      <3> SUFFICES ASSUME ~destination_reset PROVE w \in {write_gray, write_gray'}
        OBVIOUS
      <3>1. CASE source_reset
        <4>1. write_binary = 0 /\ write_gray = Gray[0]
          BY <3>1 DEF Inv, ResetCoordinated, SourceCleared, Coded
        <4>2. w \in Sampled(Gray[0], Gray[Add(0, FALSE)])
          BY <2>1, <3>1, <4>1, AddType, ZeroFacts
        <4>3. w \in {Gray[0], Gray[Add(0, FALSE)]}
          BY <4>2, SampledIsOldOrNew, ZeroFacts
        <4> QED BY <4>1, <4>3, AddType, ZeroFacts
      <3>2. CASE ~source_reset
        <4>1. push(valid) \in BOOLEAN
          BY DEF push, source_ready, Inv, TypeOK
        <4>2. w \in Sampled(Gray[write_binary], Gray[Add(write_binary, push(valid))])
          BY <2>1, <3>2 DEF Inv, Coded, write_gray_next, write_binary_next
        <4>3. w \in {Gray[write_binary], Gray[Add(write_binary, push(valid))]}
          BY <4>1, <4>2, SampledIsOldOrNew DEF Inv, TypeOK
        <4> QED BY <2>1, <3>2, <4>3
                DEF SourceRegisters, write_gray_next, write_binary_next, Inv, Coded
      <3> QED BY <3>1, <3>2
    <2>4. {"source", "destination"} \in SUBSET {"source", "destination"}
      OBVIOUS
    <2> QED BY <2>1, <2>2, <2>3, <2>4, EdgeStep
  <1>4. CASE AssertReset \/ ReleaseSource \/ ReleaseDestination
    BY <1>4, ResetStep
  <1>5. CASE UNCHANGED vars
    BY <1>5 DEF vars, sourceVars, destinationVars, resetVars, Inv, TypeOK, Coded,
                ResetCoordinated, SourceCleared, DestinationCleared, Resetting,
                Working, PointersInOrder, Circuit
  <1> QED
    BY <1>1, <1>2, <1>3, <1>4, <1>5
       DEF Next, SourceClock, DestinationClock, BothClocks

(* Every register of the crossing keeps to its width: the pointers of      *)
(* build_async_fifo_controller wrap within 2 * Depth, and the memory and   *)
(* the read register of _lower_async_fifo only ever hold payloads.         *)
THEOREM TypeCorrect == Spec => []TypeOK
  BY InitInv, NextInv, PTL DEF Spec, Inv

(* For every depth, and for every interleaving of the two clocks, the      *)
(* words held never exceed the storage and no pointer overtakes another.   *)
THEOREM NeverOverrunHolds == Spec => []NeverOverrun
  <1>1. Inv => NeverOverrun
    BY DEF Inv, NeverOverrun, Working
  <1> QED BY <1>1, InitInv, NextInv, PTL DEF Spec

(* Positions that are less than Depth apart, and not equal, have different *)
(* addresses.                                                              *)
LEMMA AddressesDiffer ==
  ASSUME NEW p \in Pointers, NEW q \in Pointers,
         Distance(p, q) > 0, Distance(p, q) < Depth
  PROVE  Address(p) # Address(q)
  BY SpanFacts DEF Pointers, Distance, Address

(* What the reader fetches is a word that it knows to be written and that  *)
(* the writer has not come round to.                                       *)
LEMMA FetchedIsNotWritten ==
  ASSUME Inv, NEW ready \in BOOLEAN, prefetch(ready), source_ready
  PROVE  Address(read_binary_next(ready)) # Address(write_binary)
  <1> DEFINE rs2 == Ungray(read_gray_sync2)
             rs1 == Ungray(read_gray_sync1)
             ws2 == Ungray(write_gray_sync2)
             ws1 == Ungray(write_gray_sync1)
  <1>1. /\ rs2 \in Pointers /\ rs1 \in Pointers /\ ws2 \in Pointers /\ ws1 \in Pointers
        /\ read_binary \in Pointers /\ write_binary \in Pointers
        /\ write_gray_sync2 = Gray[ws2]
    BY GrayUngray DEF Inv, TypeOK, Coded
  <1>2. ~destination_reset /\ ~source_reset
    BY DEF prefetch, source_ready
  <1>3. Circuit < Depth /\ ~full
    BY <1>2 DEF Inv, Working, Resetting, source_ready
  <1>4. Distance(read_binary, ws2) + Distance(ws2, ws1) + Distance(ws1, write_binary) < Depth
    <2>1. Distance(rs2, rs1) \in Nat /\ Distance(rs1, read_binary) \in Nat
      BY <1>1, DistanceType
    <2>2. /\ Distance(read_binary, ws2) \in Nat /\ Distance(ws2, ws1) \in Nat
          /\ Distance(ws1, write_binary) \in Nat
      BY <1>1, DistanceType
    <2>3. Circuit = Distance(rs2, rs1) + Distance(rs1, read_binary)
                      + Distance(read_binary, ws2) + Distance(ws2, ws1)
                      + Distance(ws1, write_binary)
      BY DEF Circuit, CircuitOf
    <2> HIDE DEF rs2, rs1, ws2, ws1
    <2> QED BY <1>3, <2>1, <2>2, <2>3, SpanFacts
  <1>5. /\ Distance(read_binary, write_binary) < Depth
        /\ Distance(read_binary, ws2) <= Distance(read_binary, write_binary)
    <2> HIDE DEF rs2, rs1, ws2, ws1
    <2>1. /\ Distance(read_binary, ws2) \in Nat /\ Distance(ws2, ws1) \in Nat
          /\ Distance(ws1, write_binary) \in Nat
      BY <1>1, DistanceType
    <2>2. Distance(read_binary, ws1) = Distance(read_binary, ws2) + Distance(ws2, ws1)
      BY <1>1, <1>4, <2>1, DistanceFrom, SpanFacts
    <2>3. Distance(read_binary, write_binary)
            = Distance(read_binary, ws1) + Distance(ws1, write_binary)
      BY <1>1, <1>4, <2>1, <2>2, DistanceFrom, SpanFacts
    <2> QED BY <1>4, <2>1, <2>2, <2>3
  <1>6. CASE ~pop(ready)
    <2>1. read_binary_next(ready) = read_binary
      BY <1>1, <1>6, AddType DEF read_binary_next, Add
    <2>2. read_binary # ws2
      BY <1>1, <1>6 DEF prefetch, unread_current, Inv, Coded
    <2> HIDE DEF rs2, rs1, ws2, ws1
    <2>3. Distance(read_binary, ws2) \in Nat /\ Distance(read_binary, ws2) # 0
      BY <1>1, <2>2, DistanceType
    <2>4. Distance(read_binary, write_binary) \in Nat /\ Distance(read_binary, write_binary) > 0
      BY <1>1, <1>5, <2>3, DistanceType
    <2> QED BY <1>1, <1>5, <2>1, <2>4, AddressesDiffer
  <1>7. CASE pop(ready)
    <2>1. read_binary_next(ready) = Add(read_binary, TRUE)
      BY <1>7 DEF read_binary_next, Add
    <2>2. read_binary # ws2
      BY <1>2, <1>7 DEF pop, destination_valid, Inv, Working, Resetting
    <2>3. Add(read_binary, TRUE) # ws2
      BY <1>1, <1>7, <2>1 DEF prefetch, unread_next, read_gray_next, pop, destination_valid
    <2> HIDE DEF rs2, rs1, ws2, ws1
    <2>4. Distance(read_binary, ws2) > 1
      BY <1>1, <2>2, <2>3, SpanFacts DEF Distance, Pointers, Add
    <2>5. Distance(Add(read_binary, TRUE), write_binary) > 0
            /\ Distance(Add(read_binary, TRUE), write_binary) < Depth
      BY <1>1, <1>5, <2>4, SpanFacts DEF Distance, Pointers, Add
    <2> QED BY <1>1, <2>1, <2>5, AddType, AddressesDiffer
  <1> QED BY <1>6, <1>7

(* The memory of _lower_async_fifo is never read and written at the same   *)
(* address at once, at any depth: a fetch stays behind the writer even     *)
(* when a push wraps round the storage.                                    *)
THEOREM NoCollisionHolds == Spec => []NoCollision
  <1>1. Inv => NoCollision
    BY FetchedIsNotWritten DEF NoCollision
  <1> QED BY <1>1, InitInv, NextInv, PTL DEF Spec

(* A beat that is offered and not taken stays offered with its payload     *)
(* through every edge of either clock: `output_valid` is dropped and the   *)
(* read register is loaded only behind a pop.                              *)
THEOREM StalledBeatAlwaysHolds == Spec => StalledBeatHolds
  <1> DEFINE Held == destination_valid /\ ~destination_reset' /\ read_binary' = read_binary
                       => output_valid' /\ read_data' = read_data
  <1>1. ASSUME NEW ready, NEW sampled, TypeOK, DestinationRegisters(ready, sampled),
               destination_valid, read_binary' = read_binary, ready \in BOOLEAN
        PROVE  output_valid' /\ read_data' = read_data
    <2>1. ~destination_reset /\ output_valid
      BY <1>1 DEF destination_valid
    <2>2. ~pop(ready)
      <3>1. read_binary' = Add(read_binary, pop(ready))
        BY <1>1, <2>1 DEF DestinationRegisters, read_binary_next
      <3>2. Add(read_binary, TRUE) # read_binary
        BY <1>1, SpanFacts DEF TypeOK, Pointers, Add
      <3>3. pop(ready) \in BOOLEAN
        BY <1>1 DEF pop, destination_valid
      <3> QED BY <1>1, <3>1, <3>2, <3>3
    <2>3. ~prefetch(ready)
      BY <2>1, <2>2 DEF prefetch
    <2> QED BY <1>1, <2>1, <2>2, <2>3 DEF DestinationRegisters, output_valid_next
  <1>2. ASSUME TypeOK, [Next]_vars PROVE [Held]_vars
    <2>1. ASSUME NEW valid \in BOOLEAN, NEW payload \in Data, SourceEdge(valid, payload)
          PROVE  Held
      BY <2>1 DEF SourceEdge, destinationVars, destination_valid
    <2>2. ASSUME NEW ready \in BOOLEAN, DestinationEdge(ready) PROVE Held
      BY <1>1, <1>2, <2>2 DEF DestinationEdge
    <2>3. ASSUME NEW valid \in BOOLEAN, NEW payload \in Data, NEW ready \in BOOLEAN,
                 BothEdges(valid, payload, ready)
          PROVE  Held
      BY <1>1, <1>2, <2>3 DEF BothEdges
    <2>4. CASE AssertReset
      BY <2>4 DEF AssertReset
    <2>5. CASE ReleaseSource \/ ReleaseDestination
      BY <2>5 DEF ReleaseSource, ReleaseDestination, destinationVars, destination_valid
    <2>6. CASE UNCHANGED vars
      BY <2>6
    <2> HIDE DEF Held
    <2> QED
      BY <1>2, <2>1, <2>2, <2>3, <2>4, <2>5, <2>6
         DEF Next, SourceClock, DestinationClock, BothClocks
  <1> QED BY <1>2, TypeCorrect, PTL DEF Spec, StalledBeatHolds

-----------------------------------------------------------------------------
(* The queue.  Its words lie in the memory from the reader's position to   *)
(* the writer's; a push adds the cell at the writer's position, which is   *)
(* none of theirs, and a pop leaves out the cell at the reader's.          *)

Words(cells, from, upto) ==
    [i \in 1..Distance(from, upto) |-> cells[Address(Forward(from, i - 1))]]

LEMMA ForwardFacts ==
  ASSUME NEW p \in Pointers, NEW q \in Pointers, NEW n \in Nat, n <= Distance(p, q)
  PROVE  /\ Forward(p, n) \in Pointers
         /\ Distance(Forward(p, n), q) = Distance(p, q) - n
         /\ n = Distance(p, q) => Forward(p, n) = q
         /\ n > 0 => Forward(Add(p, TRUE), n - 1) = Forward(p, n)
  BY SpanFacts DEF Pointers, Distance, Forward, Add

LEMMA WordsFacts ==
  ASSUME NEW cells \in [Addresses -> Data], NEW p \in Pointers, NEW q \in Pointers
  PROVE  /\ Words(cells, p, q) \in Seq(Data)
         /\ Len(Words(cells, p, q)) = Distance(p, q)
         /\ \A i \in 1..Distance(p, q) :
               Words(cells, p, q)[i] = cells[Address(Forward(p, i - 1))]
  <1> DEFINE n == Distance(p, q)
             w == Words(cells, p, q)
  <1>1. n \in Nat
    BY DistanceType
  <1>2. \A i \in 1..n : cells[Address(Forward(p, i - 1))] \in Data
    <2> SUFFICES ASSUME NEW i \in 1..n PROVE cells[Address(Forward(p, i - 1))] \in Data
      OBVIOUS
    <2>1. i - 1 \in Nat /\ i - 1 <= Distance(p, q)
      BY <1>1
    <2>2. Address(Forward(p, i - 1)) \in Addresses
      BY <2>1, ForwardFacts, AddressType
    <2> QED BY <2>2
  <1>3. w = [i \in 1..n |-> cells[Address(Forward(p, i - 1))]]
    BY DEF Words
  <1> HIDE DEF n, w
  <1>4. w \in [1..n -> Data]
    BY <1>2, <1>3
  <1>5. w \in Seq(Data) /\ Len(w) = n
    BY <1>1, <1>4, SeqDef, LenProperties
  <1>6. \A i \in 1..n : w[i] = cells[Address(Forward(p, i - 1))]
    BY <1>3
  <1> QED BY <1>5, <1>6 DEF n, w

(* A push appends its payload.                                             *)
LEMMA PutAppends ==
  ASSUME NEW cells \in [Addresses -> Data], NEW p \in Pointers, NEW q \in Pointers,
         NEW d \in Data, Distance(p, q) < Depth
  PROVE  Words([cells EXCEPT ![Address(q)] = d], p, Add(q, TRUE))
           = Append(Words(cells, p, q), d)
  <1> DEFINE n == Distance(p, q)
             after == [cells EXCEPT ![Address(q)] = d]
             w == Words(cells, p, q)
             v == Words(after, p, Add(q, TRUE))
  <1>1. n \in Nat /\ Distance(p, Add(q, TRUE)) = n + 1 /\ Add(q, TRUE) \in Pointers
    <2>1. n \in Nat /\ Add(q, TRUE) \in Pointers
      BY DistanceType, AddType
    <2>2. n < Span - 1
      BY <2>1, SpanFacts
    <2> QED BY <2>1, <2>2, DistanceAdd
  <1>2. after \in [Addresses -> Data]
    BY AddressType
  <1>3. /\ w \in Seq(Data) /\ Len(w) = n
        /\ \A i \in 1..n : w[i] = cells[Address(Forward(p, i - 1))]
    BY WordsFacts
  <1>4. /\ v \in Seq(Data) /\ Len(v) = n + 1
        /\ \A i \in 1..(n + 1) : v[i] = after[Address(Forward(p, i - 1))]
    <2> HIDE DEF after, n
    <2>1. Distance(p, Add(q, TRUE)) = n + 1 /\ after \in [Addresses -> Data]
      BY <1>1, <1>2
    <2>2. /\ v \in Seq(Data) /\ Len(v) = Distance(p, Add(q, TRUE))
          /\ \A i \in 1..Distance(p, Add(q, TRUE)) : v[i] = after[Address(Forward(p, i - 1))]
      BY <1>1, <1>2, WordsFacts
    <2> HIDE DEF v
    <2> QED BY <2>1, <2>2
  <1>5. v[n + 1] = d
    <2>1. Forward(p, n) = q
      <3>1. n \in Nat /\ n <= Distance(p, q) /\ n = Distance(p, q)
        BY <1>1
      <3> HIDE DEF n
      <3> QED BY <3>1, ForwardFacts
    <2>2. after[Address(q)] = d
      BY AddressType
    <2> HIDE DEF n, v, after
    <2>3. n + 1 \in 1..(n + 1) /\ (n + 1) - 1 = n
      BY <1>1
    <2>4. v[n + 1] = after[Address(Forward(p, (n + 1) - 1))]
      BY <1>4, <2>3
    <2> QED BY <2>1, <2>2, <2>3, <2>4
  <1>6. ASSUME NEW i \in 1..n PROVE v[i] = w[i]
    <2>1. i - 1 \in Nat /\ i - 1 <= n /\ i \in 1..(n + 1)
      BY <1>1
    <2>2. Forward(p, i - 1) \in Pointers /\ Distance(Forward(p, i - 1), q) = n - (i - 1)
      BY <2>1, ForwardFacts
    <2>3. Distance(Forward(p, i - 1), q) > 0 /\ Distance(Forward(p, i - 1), q) < Depth
      BY <1>1, <2>1, <2>2, SpanFacts
    <2>4. Address(Forward(p, i - 1)) # Address(q) /\ Address(Forward(p, i - 1)) \in Addresses
      BY <2>2, <2>3, AddressesDiffer, AddressType
    <2>5. after[Address(Forward(p, i - 1))] = cells[Address(Forward(p, i - 1))]
      BY <2>4
    <2> QED BY <1>3, <1>4, <2>1, <2>5
  <1> HIDE DEF v, w, n
  <1>7. Append(w, d) \in Seq(Data) /\ Len(Append(w, d)) = n + 1
    BY <1>3
  <1>8. \A i \in 1..(n + 1) : v[i] = Append(w, d)[i]
    <2>1. ASSUME NEW i \in 1..n PROVE Append(w, d)[i] = w[i]
      BY <1>3
    <2>2. Append(w, d)[n + 1] = d
      BY <1>3
    <2>3. ASSUME NEW i \in 1..(n + 1) PROVE i \in 1..n \/ i = n + 1
      BY <1>1
    <2> QED BY <1>5, <1>6, <2>1, <2>2, <2>3
  <1>9. v = Append(w, d)
    BY <1>4, <1>7, <1>8, SeqEqual
  <1> QED BY <1>9 DEF v, w

(* A pop takes the word at the reader's position.                          *)
LEMMA TakeTails ==
  ASSUME NEW cells \in [Addresses -> Data], NEW p \in Pointers, NEW q \in Pointers, p # q
  PROVE  /\ Words(cells, p, q) # <<>>
         /\ Head(Words(cells, p, q)) = cells[Address(p)]
         /\ Words(cells, Add(p, TRUE), q) = Tail(Words(cells, p, q))
         /\ Distance(Add(p, TRUE), q) = Distance(p, q) - 1
  <1> DEFINE n == Distance(p, q)
             w == Words(cells, p, q)
             v == Words(cells, Add(p, TRUE), q)
  <1>1. n \in Nat /\ n # 0 /\ Add(p, TRUE) \in Pointers
    BY DistanceType, AddType
  <1>2. Distance(Add(p, TRUE), q) = n - 1
    BY SpanFacts DEF Pointers, Distance, Add
  <1>3. /\ w \in Seq(Data) /\ Len(w) = n
        /\ \A i \in 1..n : w[i] = cells[Address(Forward(p, i - 1))]
    BY WordsFacts
  <1>4. /\ v \in Seq(Data) /\ Len(v) = n - 1
        /\ \A i \in 1..(n - 1) : v[i] = cells[Address(Forward(Add(p, TRUE), i - 1))]
    BY <1>1, <1>2, WordsFacts
  <1>5. Forward(p, 0) = p
    BY SpanFacts DEF Forward, Pointers
  <1>6. w[1] = cells[Address(p)]
    <2>1. 1 \in 1..n /\ 1 - 1 = 0
      BY <1>1
    <2>2. w[1] = cells[Address(Forward(p, 1 - 1))]
      BY <1>3, <2>1
    <2> QED BY <1>5, <2>1, <2>2
  <1>7. ASSUME NEW i \in 1..(n - 1) PROVE v[i] = w[i + 1]
    <2>1. i \in Nat /\ i > 0 /\ i <= n /\ i + 1 \in 1..n /\ (i + 1) - 1 = i
      BY <1>1
    <2>2. Forward(Add(p, TRUE), i - 1) = Forward(p, i)
      BY <2>1, ForwardFacts
    <2>3. w[i + 1] = cells[Address(Forward(p, (i + 1) - 1))]
      BY <1>3, <2>1
    <2> QED BY <1>4, <2>1, <2>2, <2>3
  <1> HIDE DEF v, w, n
  <1>8. w # <<>> /\ Head(w) = w[1]
    BY <1>1, <1>3
  <1>9. Tail(w) \in Seq(Data) /\ Len(Tail(w)) = n - 1
    BY <1>1, <1>3, <1>8
  <1>10. \A i \in 1..(n - 1) : Tail(w)[i] = w[i + 1]
    BY <1>1, <1>3, <1>8
  <1>11. v = Tail(w)
    BY <1>4, <1>7, <1>9, <1>10, SeqEqual
  <1> QED BY <1>2, <1>6, <1>8, <1>11 DEF v, w, n

(* What an edge of either clock, or of both, does to the words: `put` is a *)
(* push, `take` a pop.                                                     *)
Transfers(put, take, payload) ==
    /\ put \in BOOLEAN /\ take \in BOOLEAN /\ payload \in Data
    /\ put => ~full
    /\ take => output_valid
    /\ write_binary' = Add(write_binary, put)
    /\ read_binary' = Add(read_binary, take)
    /\ storage' = IF put THEN Stored(payload) ELSE storage
    /\ delivered' = IF take THEN read_data ELSE delivered

LEMMA SourceTransfers ==
  ASSUME TypeOK, NEW valid \in BOOLEAN, NEW payload \in Data, NEW sampled,
         source_reset => SourceCleared, SourceRegisters(valid, payload, sampled)
  PROVE  \E put \in BOOLEAN :
            /\ put => ~full
            /\ write_binary' = Add(write_binary, put)
            /\ storage' = IF put THEN Stored(payload) ELSE storage
  <1>1. CASE source_reset
    <2>1. write_binary' = Add(write_binary, FALSE) /\ storage' = storage
      BY <1>1, AddType, ZeroFacts DEF SourceRegisters, SourceCleared
    <2> QED BY <2>1
  <1>2. CASE ~source_reset
    <2>1. push(valid) \in BOOLEAN /\ (push(valid) => ~full)
      BY DEF push, source_ready, TypeOK
    <2> QED BY <1>2, <2>1 DEF SourceRegisters, write_binary_next
  <1> QED BY <1>1, <1>2

LEMMA DestinationTransfers ==
  ASSUME TypeOK, NEW ready \in BOOLEAN, NEW sampled,
         destination_reset => DestinationCleared, DestinationRegisters(ready, sampled)
  PROVE  \E take \in BOOLEAN :
            /\ take => output_valid
            /\ read_binary' = Add(read_binary, take)
            /\ delivered' = IF take THEN read_data ELSE delivered
  <1>1. CASE destination_reset
    <2>1. read_binary' = Add(read_binary, FALSE) /\ delivered' = delivered
      BY <1>1, AddType, ZeroFacts DEF DestinationRegisters, DestinationCleared
    <2> QED BY <2>1
  <1>2. CASE ~destination_reset
    <2>1. pop(ready) \in BOOLEAN /\ (pop(ready) => output_valid)
      BY DEF pop, destination_valid, TypeOK
    <2> QED BY <1>2, <2>1 DEF DestinationRegisters, read_binary_next
  <1> QED BY <1>1, <1>2

ClockStep == \E put, take \in BOOLEAN, payload \in Data : Transfers(put, take, payload)

(* A step outside a reset episode moves words, begins an episode or leaves *)
(* the words alone; during one it leaves the words alone or ends it.       *)
LEMMA StepKinds ==
  ASSUME Inv, [Next]_vars
  PROVE  \/ AssertReset
         \/ Resetting /\ UNCHANGED resetVars /\ delivered' = delivered
         \/ ~Resetting /\ ~Resetting' /\ ClockStep
         \/ ~Resetting /\ ~Resetting' /\ UNCHANGED <<sourceVars, destinationVars, storage>>
  <1>1. ASSUME ~Resetting
        PROVE  (source_reset => SourceCleared) /\ (destination_reset => DestinationCleared)
    BY <1>1 DEF Inv, ResetCoordinated, Resetting
  <1>2. ASSUME NEW edges, Clear(edges), UNCHANGED resetVars, ~Resetting
        PROVE  ~Resetting'
    BY <1>2 DEF Clear, Resetting, resetVars, Inv, TypeOK
  <1>3. ASSUME NEW valid \in BOOLEAN, NEW payload \in Data, SourceEdge(valid, payload)
        PROVE  \/ Resetting /\ UNCHANGED resetVars /\ delivered' = delivered
               \/ ~Resetting /\ ~Resetting' /\ ClockStep
    <2>1. CASE Resetting
      BY <1>3, <2>1 DEF SourceEdge, destinationVars
    <2>2. CASE ~Resetting
      <3>1. PICK put \in BOOLEAN :
              /\ put => ~full
              /\ write_binary' = Add(write_binary, put)
              /\ storage' = IF put THEN Stored(payload) ELSE storage
        BY <1>1, <1>3, <2>2, SourceTransfers DEF SourceEdge, Inv
      <3>2. read_binary' = Add(read_binary, FALSE) /\ delivered' = delivered
        BY <1>3, AddType DEF SourceEdge, destinationVars, Inv, TypeOK
      <3>3. Transfers(put, FALSE, payload)
        BY <3>1, <3>2 DEF Transfers
      <3>4. ~Resetting'
        BY <1>2, <1>3, <2>2 DEF SourceEdge
      <3> QED BY <2>2, <3>3, <3>4 DEF ClockStep
    <2> QED BY <2>1, <2>2
  <1>4. ASSUME NEW ready \in BOOLEAN, DestinationEdge(ready)
        PROVE  \/ Resetting /\ UNCHANGED resetVars /\ delivered' = delivered
               \/ ~Resetting /\ ~Resetting' /\ ClockStep
    <2>1. CASE Resetting
      BY <1>4, <2>1 DEF DestinationEdge, DestinationRegisters, Resetting
    <2>2. CASE ~Resetting
      <3>1. PICK take \in BOOLEAN :
              /\ take => output_valid
              /\ read_binary' = Add(read_binary, take)
              /\ delivered' = IF take THEN read_data ELSE delivered
        BY <1>1, <1>4, <2>2, DestinationTransfers DEF DestinationEdge, Inv
      <3>2. write_binary' = Add(write_binary, FALSE) /\ storage' = storage
        BY <1>4, AddType DEF DestinationEdge, sourceVars, Inv, TypeOK
      <3>3. Transfers(FALSE, take, ZeroData)
        BY <3>1, <3>2, ZeroAssumption DEF Transfers
      <3>4. ~Resetting'
        BY <1>2, <1>4, <2>2 DEF DestinationEdge
      <3> QED BY <2>2, <3>3, <3>4, ZeroAssumption DEF ClockStep
    <2> QED BY <2>1, <2>2
  <1>5. ASSUME NEW valid \in BOOLEAN, NEW payload \in Data, NEW ready \in BOOLEAN,
               BothEdges(valid, payload, ready)
        PROVE  \/ Resetting /\ UNCHANGED resetVars /\ delivered' = delivered
               \/ ~Resetting /\ ~Resetting' /\ ClockStep
    <2>1. CASE Resetting
      BY <1>5, <2>1 DEF BothEdges, DestinationRegisters, Resetting
    <2>2. CASE ~Resetting
      <3>0. PICK r, w : /\ SourceRegisters(valid, payload, r)
                        /\ DestinationRegisters(ready, w)
                        /\ Clear({"source", "destination"})
                        /\ UNCHANGED resetVars
        BY <1>5 DEF BothEdges
      <3>1. PICK put \in BOOLEAN :
              /\ put => ~full
              /\ write_binary' = Add(write_binary, put)
              /\ storage' = IF put THEN Stored(payload) ELSE storage
        BY <1>1, <2>2, <3>0, SourceTransfers DEF Inv
      <3>2. PICK take \in BOOLEAN :
              /\ take => output_valid
              /\ read_binary' = Add(read_binary, take)
              /\ delivered' = IF take THEN read_data ELSE delivered
        BY <1>1, <2>2, <3>0, DestinationTransfers DEF Inv
      <3>3. Transfers(put, take, payload)
        BY <3>1, <3>2 DEF Transfers
      <3>4. ~Resetting'
        BY <1>2, <2>2, <3>0
      <3> QED BY <2>2, <3>3, <3>4 DEF ClockStep
    <2> QED BY <2>1, <2>2
  <1>6. CASE ReleaseSource \/ ReleaseDestination
    <2>1. ~Resetting /\ ~Resetting'
      BY <1>6 DEF ReleaseSource, ReleaseDestination, Resetting
    <2> QED BY <1>6, <2>1 DEF ReleaseSource, ReleaseDestination
  <1>7. CASE UNCHANGED vars
    <2>1. Resetting' <=> Resetting
      BY <1>7 DEF vars, resetVars, Resetting
    <2> QED BY <1>7, <2>1 DEF vars, destinationVars
  <1> QED BY <1>3, <1>4, <1>5, <1>6, <1>7
          DEF Next, SourceClock, DestinationClock, BothClocks

(* The words held are at most the way round, and the reader knows only of  *)
(* words that are there.                                                   *)
LEMMA HeldFacts ==
  ASSUME Inv, ~Resetting
  PROVE  /\ ~full => Distance(read_binary, write_binary) < Depth
         /\ output_valid => /\ read_binary # write_binary
                            /\ read_data = storage[Address(read_binary)]
  <1> DEFINE rs2 == Ungray(read_gray_sync2)
             rs1 == Ungray(read_gray_sync1)
             ws2 == Ungray(write_gray_sync2)
             ws1 == Ungray(write_gray_sync1)
             rd == read_binary
             wr == write_binary
  <1>1. /\ rs2 \in Pointers /\ rs1 \in Pointers /\ ws2 \in Pointers /\ ws1 \in Pointers
        /\ rd \in Pointers /\ wr \in Pointers
    BY GrayUngray DEF Inv, TypeOK, Coded
  <1>2. /\ Circuit <= Depth /\ (~full => Circuit < Depth)
        /\ output_valid => rd # ws2 /\ read_data = storage[Address(rd)]
    BY DEF Inv, Working, PointersInOrder
  <1>3. Circuit = Distance(rs2, rs1) + Distance(rs1, rd) + Distance(rd, ws2)
                    + Distance(ws2, ws1) + Distance(ws1, wr)
    BY DEF Circuit, CircuitOf
  <1> HIDE DEF rs2, rs1, ws2, ws1, rd, wr
  <1>4. /\ Distance(rs2, rs1) \in Nat /\ Distance(rs1, rd) \in Nat /\ Distance(rd, ws2) \in Nat
        /\ Distance(ws2, ws1) \in Nat /\ Distance(ws1, wr) \in Nat
        /\ rd # ws2 => Distance(rd, ws2) # 0
    BY <1>1, DistanceType
  <1>5. Distance(rd, ws1) = Distance(rd, ws2) + Distance(ws2, ws1)
    BY <1>1, <1>2, <1>3, <1>4, DistanceFrom, SpanFacts
  <1>6. Distance(rd, wr) = Distance(rd, ws1) + Distance(ws1, wr)
    BY <1>1, <1>2, <1>3, <1>4, <1>5, DistanceFrom, SpanFacts
  <1>7. Distance(rd, wr) <= Circuit /\ Distance(rd, ws2) <= Distance(rd, wr)
    BY <1>3, <1>4, <1>5, <1>6
  <1>8. rd = wr => Distance(rd, wr) = 0
    BY <1>1, DistanceType
  <1>9. ~full => Distance(rd, wr) < Depth
    BY <1>2, <1>3, <1>4, <1>5, <1>6, <1>7, SpanFacts
  <1>10. rd # ws2 => rd # wr
    BY <1>4, <1>5, <1>6, <1>7, <1>8
  <1> QED BY <1>2, <1>9, <1>10 DEF rd, wr

LEMMA ContentsFacts ==
  ASSUME TypeOK
  PROVE  /\ Contents = Words(storage, read_binary, write_binary)
         /\ Contents \in Seq(Data) /\ Len(Contents) = Distance(read_binary, write_binary)
  <1>1. Contents = Words(storage, read_binary, write_binary)
    BY DEF Contents, Words
  <1> QED BY <1>1, WordsFacts DEF TypeOK

(* The contents after an edge: what was pushed is at their end, what was   *)
(* popped was at their head.                                               *)
LEMMA ContentsStep ==
  ASSUME Inv, ~Resetting, NEW put, NEW take, NEW payload, Transfers(put, take, payload)
  PROVE  /\ put => Len(Contents) < Depth
         /\ take => Contents # <<>> /\ Head(Contents) = read_data
         /\ put /\ take => Contents' = Append(Tail(Contents), payload)
         /\ put /\ ~take => Contents' = Append(Contents, payload)
         /\ ~put /\ take => Contents' = Tail(Contents)
         /\ ~put /\ ~take => Contents' = Contents
  <1> DEFINE rd == read_binary
             wr == write_binary
             rdn == Add(rd, TRUE)
             wrn == Add(wr, TRUE)
             new == [storage EXCEPT ![Address(wr)] = payload]
  <1>1. /\ rd \in Pointers /\ wr \in Pointers /\ rdn \in Pointers /\ storage \in [Addresses -> Data]
        /\ payload \in Data /\ put \in BOOLEAN /\ take \in BOOLEAN
    BY AddType DEF Inv, TypeOK, Transfers
  <1>2. Contents = Words(storage, rd, wr) /\ Len(Contents) = Distance(rd, wr)
    BY ContentsFacts DEF Inv
  <1>3. Contents' = Words(storage', read_binary', write_binary')
    BY DEF Contents, Words
  <1>4. /\ put => Distance(rd, wr) < Depth /\ storage' = new /\ write_binary' = wrn
        /\ ~put => storage' = storage /\ write_binary' = wr
        /\ take => rd # wr /\ read_data = storage[Address(rd)] /\ read_binary' = rdn
        /\ ~take => read_binary' = rd
    BY <1>1, HeldFacts, AddType DEF Transfers, Stored
  <1> HIDE DEF rd, wr, rdn, wrn, new
  <1>5. take => /\ Contents # <<>> /\ Head(Contents) = read_data
                /\ Words(storage, rdn, wr) = Tail(Contents)
                /\ Distance(rdn, wr) = Distance(rd, wr) - 1
    BY <1>1, <1>2, <1>4, TakeTails DEF rdn
  <1>6. put => Words(new, rd, wrn) = Append(Contents, payload)
    BY <1>1, <1>2, <1>4, PutAppends DEF new, wrn
  <1>7. put /\ take => Words(new, rdn, wrn) = Append(Tail(Contents), payload)
    <2> SUFFICES ASSUME put, take
                 PROVE  Words(new, rdn, wrn) = Append(Tail(Contents), payload)
      OBVIOUS
    <2>1. Distance(rd, wr) \in Nat /\ Distance(rdn, wr) \in Nat
      BY <1>1, DistanceType
    <2>2. Distance(rdn, wr) < Depth
      BY <1>4, <1>5, <2>1, SpanFacts
    <2>3. Words(new, rdn, wrn) = Append(Words(storage, rdn, wr), payload)
      BY <1>1, <2>2, PutAppends DEF new, wrn
    <2> QED BY <1>5, <2>3
  <1> QED BY <1>1, <1>2, <1>3, <1>4, <1>5, <1>6, <1>7

(* For every depth and payload set, and however the two clocks and the     *)
(* resets interleave, the crossing is a queue of Depth words: each word    *)
(* accepted is delivered once and in order unless a reset comes.           *)
THEOREM FifoIsQueue == Spec => ImplementsQueue
  <1> DEFINE q == IF Resetting THEN <<>> ELSE Contents
  <1>1. Init => Queue!Init
    <2> SUFFICES ASSUME Init PROVE Queue!Init
      OBVIOUS
    <2>1. Inv
      BY InitInv
    <2>2. Contents \in Seq(Data) /\ Len(Contents) = 0
      BY <2>1, ContentsFacts, DistanceType, ZeroFacts DEF Inv, Init
    <2>3. Contents = <<>>
      BY <2>2
    <2>4. Resetting = FALSE
      BY DEF Init, Resetting
    <2> QED BY <2>3, <2>4 DEF Init, Queue!Init
  <1>2. ASSUME Inv, Inv', [Next]_vars
        PROVE  [Queue!Next]_(Queue!vars)
    <2> USE DEF Queue!vars
    <2>0. Resetting \in BOOLEAN /\ Resetting' \in BOOLEAN
      BY DEF Resetting
    <2>1. CASE AssertReset
      <3>1. Resetting' = TRUE /\ q' = <<>> /\ delivered' = delivered
        BY <2>1 DEF AssertReset, Resetting, destinationVars
      <3> QED BY <3>1 DEF Queue!Next, Queue!Reset
    <2>2. CASE Resetting /\ UNCHANGED resetVars /\ delivered' = delivered
      <3>1. ~Resetting' => Contents' = <<>>
        <4> SUFFICES ASSUME ~Resetting' PROVE Contents' = <<>>
          OBVIOUS
        <4>1. read_binary' = 0 /\ write_binary' = 0
          BY <1>2, <2>2 DEF Inv, ResetCoordinated, Resetting, resetVars, TypeOK,
             SourceCleared, DestinationCleared
        <4>2. TypeOK'
          BY <1>2 DEF Inv
        <4>3. (Contents \in Seq(Data) /\ Len(Contents) = Distance(read_binary, write_binary))'
          BY <4>2, ContentsFacts, PTL
        <4>4. Distance(0, 0) = 0
          BY DEF Distance
        <4>5. Contents' \in Seq(Data) /\ Len(Contents') = 0
          BY <4>1, <4>3, <4>4
        <4> QED BY <4>5
      <3>2. q' = <<>> /\ q = <<>>
        BY <2>2, <3>1
      <3>3. CASE Resetting'
        <4>1. Resetting' = Resetting
          BY <2>0, <2>2, <3>3
        <4> QED BY <2>2, <3>2, <4>1
      <3>4. CASE ~Resetting'
        <4>1. Resetting' = FALSE
          BY <2>0, <3>4
        <4>2. Queue!Restart
          BY <2>2, <3>2, <4>1 DEF Queue!Restart
        <4> QED BY <4>2 DEF Queue!Next
      <3> QED BY <3>3, <3>4
    <2>3. CASE ~Resetting /\ ~Resetting' /\ ClockStep
      <3>1. Resetting' = Resetting /\ q = Contents /\ q' = Contents'
        BY <2>0, <2>3
      <3>2. PICK put \in BOOLEAN, take \in BOOLEAN, payload \in Data :
               Transfers(put, take, payload)
        BY <2>3 DEF ClockStep
      <3>3. /\ put => Len(Contents) < Depth
            /\ take => Contents # <<>> /\ Head(Contents) = read_data
            /\ put /\ take => Contents' = Append(Tail(Contents), payload)
            /\ put /\ ~take => Contents' = Append(Contents, payload)
            /\ ~put /\ take => Contents' = Tail(Contents)
            /\ ~put /\ ~take => Contents' = Contents
        BY <1>2, <2>3, <3>2, ContentsStep
      <3>4. delivered' = IF take THEN read_data ELSE delivered
        BY <3>2 DEF Transfers
      <3> HIDE DEF q
      <3>5. CASE put /\ take
        <4>1. Queue!PushPop(payload)
          BY <2>3, <3>1, <3>3, <3>4, <3>5 DEF Queue!PushPop, q
        <4> QED BY <4>1 DEF Queue!Next
      <3>6. CASE put /\ ~take
        <4>1. Queue!Push(payload)
          BY <2>3, <3>1, <3>3, <3>4, <3>6 DEF Queue!Push, q
        <4> QED BY <4>1 DEF Queue!Next
      <3>7. CASE ~put /\ take
        <4>1. Queue!Pop
          BY <2>3, <3>1, <3>3, <3>4, <3>7 DEF Queue!Pop, q
        <4> QED BY <4>1 DEF Queue!Next
      <3>8. CASE ~put /\ ~take
        BY <3>1, <3>3, <3>4, <3>8 DEF q
      <3> QED BY <3>5, <3>6, <3>7, <3>8
    <2>4. CASE ~Resetting /\ ~Resetting' /\ UNCHANGED <<sourceVars, destinationVars, storage>>
      <3>1. Resetting' = Resetting
        BY <2>0, <2>4
      <3>2. Contents' = Contents
        BY <2>4 DEF sourceVars, destinationVars, Contents
      <3> QED BY <2>4, <3>1, <3>2 DEF destinationVars
    <2> QED BY <1>2, <2>1, <2>2, <2>3, <2>4, StepKinds
  <1> QED BY <1>1, <1>2, InitInv, NextInv, PTL DEF Spec, ImplementsQueue, Queue!Spec
=============================================================================
