--------------------------- MODULE NumberProofs ---------------------------
(***************************************************************************)
(* Facts about numbers that several proofs need.                           *)
(*                                                                         *)
(* Induction and recursion over the numbers up to a bound are for the      *)
(* recursive functions of the models.  Both rest on the least element of a *)
(* set of numbers, and this on the well-founded order of the numbers.      *)
(*                                                                         *)
(* Powers of two and division by them are for the widths of registers.     *)
(* What the provers know of 2^n is only that it counts the subsets of n    *)
(* elements (FS_SUBSET); that each power is twice the one before is        *)
(* derived from it.                                                        *)
(***************************************************************************)
EXTENDS Integers, FiniteSetTheorems, WellFoundedInduction, TLAPS

(* A set of numbers that is not empty has a least one.                     *)
LEMMA Least ==
    ASSUME NEW T, T \subseteq Nat, T # {}
    PROVE  \E x \in T : \A y \in T : x <= y
<1> DEFINE Less == {ss \in Nat \X Nat : ss[1] < ss[2]}
<1>1. IsWellFoundedOn(Less, Nat)
    BY NatLessThanWellFounded, Zenon DEF OpToRel
<1> HIDE DEF Less
<1>2. PICK x \in T : \A y \in T : ~(<<y, x>> \in Less)
    BY <1>1, WFMin
<1>3. ASSUME NEW y \in T PROVE x <= y
  <2>1. x \in Nat /\ y \in Nat
    OBVIOUS
  <2>2. ~(y < x)
    BY <1>2, <2>1 DEF Less
  <2> QED
    BY <2>1, <2>2
<1> QED
    BY <1>3

(* Induction up to a bound.                                                *)
LEMMA UpTo ==
    ASSUME NEW n \in Nat, NEW S, 0 \in S,
           \A i \in 1..n : i - 1 \in S => i \in S
    PROVE  \A i \in 0..n : i \in S
<1> SUFFICES ASSUME NEW k \in 0..n, k \notin S PROVE FALSE
    OBVIOUS
<1> DEFINE T == {i \in 0..n : i \notin S}
<1>1. T \subseteq Nat /\ T # {}
    OBVIOUS
<1>2. PICK x \in T : \A y \in T : x <= y
    BY <1>1, Least
<1>3. x \in 1..n /\ x - 1 \in 0..n
    BY <1>2
<1>4. x - 1 \in S
    BY <1>2, <1>3
<1> QED
    BY <1>2, <1>3, <1>4

(* A function that is defined by recursion up to n exists.                 *)
Recurses(f, n, base, next) == f[0] = base /\ \A i \in 1..n : f[i] = next[i][f[i - 1]]

LEMMA Recursion ==
    ASSUME NEW n \in Nat, NEW D, NEW base \in D, NEW next \in [1..n -> [D -> D]]
    PROVE  \E f \in [0..n -> D] : Recurses(f, n, base, next)
<1> DEFINE Good(f, k) == f \in [0..k -> D] /\ f[0] = base
                         /\ \A i \in 1..k : f[i] = next[i][f[i - 1]]
           S == {k \in 0..n : \E f : Good(f, k)}
<1>1. 0 \in S
  <2> DEFINE g == [i \in 0..0 |-> base]
  <2>1. g \in [0..0 -> D] /\ g[0] = base
    OBVIOUS
  <2>2. \A i \in 1..0 : g[i] = next[i][g[i - 1]]
    OBVIOUS
  <2> HIDE DEF g
  <2>3. Good(g, 0)
    BY <2>1, <2>2
  <2> HIDE DEF Good
  <2> QED
    BY <2>3
<1>2. ASSUME NEW k \in 1..n, k - 1 \in S PROVE k \in S
  <2>1. PICK f : Good(f, k - 1)
    BY <1>2
  <2> DEFINE g == [i \in 0..k |-> IF i = k THEN next[k][f[k - 1]] ELSE f[i]]
  <2>2. k - 1 \in 0..(k - 1) /\ f[k - 1] \in D
    BY <2>1
  <2>3. next[k][f[k - 1]] \in D
    BY <2>2
  <2>4. g \in [0..k -> D]
    BY <2>1, <2>3
  <2>5. g[0] = base
    BY <2>1
  <2>6. ASSUME NEW i \in 1..k PROVE g[i] = next[i][g[i - 1]]
    BY <2>1
  <2>7. Good(g, k)
    BY <2>4, <2>5, <2>6
  <2> HIDE DEF g, Good
  <2> QED
    BY <2>7
<1>3. n \in S
  <2> HIDE DEF S
  <2>1. \A i \in 0..n : i \in S
    BY <1>1, <1>2, UpTo
  <2> QED
    BY <2>1
<1> QED
    BY <1>3 DEF Recurses

-----------------------------------------------------------------------------
(* Each power of two is twice the one before, and exceeds its exponent.    *)
LEMMA PowerOfZero == 2^0 = 1
<1>1. IsFiniteSet({}) /\ Cardinality({}) = 0
    BY FS_EmptySet
<1>2. Cardinality(SUBSET {}) = 2^0
    BY <1>1, FS_SUBSET
<1>3. SUBSET {} = {{}}
    OBVIOUS
<1>4. Cardinality({{}}) = 1
    BY FS_Singleton
<1> QED
    BY <1>2, <1>3, <1>4

LEMMA PowerDoubles ==
    ASSUME NEW n \in Nat
    PROVE  2^n \in Nat /\ 2^(n + 1) = 2 * 2^n
<1> DEFINE S == 1..n
           x == n + 1
           With == {B \cup {x} : B \in SUBSET S}
<1>1. IsFiniteSet(S) /\ Cardinality(S) = n
    BY FS_Interval
<1>0. x \notin S
    OBVIOUS
<1> HIDE DEF S
<1>2. x \notin S /\ IsFiniteSet(S \cup {x}) /\ Cardinality(S \cup {x}) = n + 1
  <2> HIDE DEF x
  <2>1. IsFiniteSet(S \cup {x})
        /\ Cardinality(S \cup {x}) = IF x \in S THEN Cardinality(S) ELSE Cardinality(S) + 1
    BY <1>1, FS_AddElement
  <2> QED
    BY <1>0, <1>1, <2>1
<1> HIDE DEF x
<1>3. IsFiniteSet(SUBSET S) /\ Cardinality(SUBSET S) = 2^n
    BY <1>1, FS_SUBSET
<1>4. Cardinality(SUBSET (S \cup {x})) = 2^(n + 1)
    BY <1>2, FS_SUBSET
<1>5. SUBSET (S \cup {x}) = (SUBSET S) \cup With
  <2>1. ASSUME NEW C \in SUBSET (S \cup {x}) PROVE C \in (SUBSET S) \cup With
    <3>1. CASE x \notin C
      BY <3>1
    <3>2. CASE x \in C
      <4>1. C \ {x} \in SUBSET S /\ C = (C \ {x}) \cup {x}
        BY <3>2
      <4> QED
        BY <4>1
    <3> QED
      BY <3>1, <3>2
  <2>2. ASSUME NEW C \in With PROVE C \in SUBSET (S \cup {x})
    OBVIOUS
  <2> QED
    BY <2>1, <2>2
<1>6. ExistsBijection(SUBSET S, With)
  <2> DEFINE f == [B \in SUBSET S |-> B \cup {x}]
  <2>1. f \in [SUBSET S -> With]
    OBVIOUS
  <2>2. ASSUME NEW B \in SUBSET S, NEW C \in SUBSET S, f[B] = f[C] PROVE B = C
    BY <2>2, <1>2
  <2>3. \A C \in With : \E B \in SUBSET S : f[B] = C
    OBVIOUS
  <2> HIDE DEF f, With
  <2>4. f \in Injection(SUBSET S, With)
    BY <2>1, <2>2 DEF Injection, IsInjective
  <2>5. f \in Surjection(SUBSET S, With)
    BY <2>1, <2>3, Zenon DEF Surjection
  <2> QED
    BY <2>4, <2>5 DEF Bijection, ExistsBijection
<1>7. IsFiniteSet(With) /\ Cardinality(With) = 2^n
    BY <1>3, <1>6, FS_Bijection
<1>8. (SUBSET S) \cap With = {}
    BY <1>2
<1> HIDE DEF With
<1>9. 2^n \in Nat
    BY <1>3, FS_CardinalityType
<1>10. Cardinality((SUBSET S) \cup With)
          = Cardinality(SUBSET S) + Cardinality(With) - Cardinality((SUBSET S) \cap With)
    BY <1>3, <1>7, FS_Union
<1>11. 2^(n + 1) = 2^n + 2^n - 0
    BY <1>3, <1>4, <1>5, <1>7, <1>8, <1>10, FS_EmptySet, Zenon
<1> QED
    BY <1>9, <1>11

LEMMA PowerExceeds ==
    ASSUME NEW n \in Nat
    PROVE  n < 2^n
<1> DEFINE K == {w \in 0..n : w < 2^w}
<1>1. 0 \in K
    BY PowerOfZero
<1>2. ASSUME NEW w \in 1..n, w - 1 \in K PROVE w \in K
  <2> DEFINE v == w - 1
  <2>1. v \in Nat /\ v + 1 = w /\ v < 2^v
    BY <1>2
  <2>2. 2^v \in Nat /\ 2^(v + 1) = 2 * 2^v
    BY <2>1, PowerDoubles
  <2> HIDE DEF v
  <2>3. v + 1 < 2^(v + 1)
    BY <2>1, <2>2
  <2> QED
    BY <2>1, <2>3
<1>3. n \in K
  <2> HIDE DEF K
  <2>1. \A w \in 0..n : w \in K
    BY <1>1, <1>2, UpTo
  <2> QED
    BY <2>1
<1> QED
    BY <1>3

LEMMA PowerMonotone ==
    ASSUME NEW a \in Nat, NEW b \in Nat, a <= b
    PROVE  2^a <= 2^b
<1> DEFINE n == b - a
           K == {d \in 0..n : 2^a <= 2^(a + d)}
<1>1. n \in Nat /\ a + n = b
    OBVIOUS
<1>2. 0 \in K
  <2>1. a + 0 = a /\ 2^a \in Nat
    BY PowerDoubles
  <2> QED
    BY <1>1, <2>1
<1>3. ASSUME NEW d \in 1..n, d - 1 \in K PROVE d \in K
  <2> DEFINE v == a + (d - 1)
  <2>1. v \in Nat /\ v + 1 = a + d /\ 2^a <= 2^v
    BY <1>3
  <2> HIDE DEF v
  <2>2. 2^a \in Nat /\ 2^v \in Nat /\ 2^(v + 1) = 2 * 2^v
    BY <2>1, PowerDoubles
  <2>3. 2^a <= 2^(v + 1)
    BY <2>1, <2>2
  <2> QED
    BY <2>1, <2>3
<1>4. n \in K
  <2> HIDE DEF K, n
  <2>1. \A d \in 0..n : d \in K
    BY <1>1, <1>2, <1>3, UpTo
  <2> QED
    BY <1>1, <2>1
<1> QED
    BY <1>1, <1>4

-----------------------------------------------------------------------------
(* Division: the quotient is the only number of its kind, and dividing by  *)
(* twice a number is halving what division by it gives.                    *)
LEMMA QuotientIs ==
    ASSUME NEW p \in Nat, NEW d \in Nat, d > 0, NEW q \in Nat,
           d * q <= p, p < d * q + d
    PROVE  p \div d = q
<1> DEFINE r == p \div d
<1>1. r \in Int /\ d * r <= p /\ p < d * r + d
    OBVIOUS
<1> HIDE DEF r
<1>2. ~(r < q)
  <2> SUFFICES ASSUME r + 1 <= q PROVE FALSE
    BY <1>1
  <2>1. d * (r + 1) <= d * q
    BY <1>1
  <2>2. d * (r + 1) = d * r + d
    BY <1>1
  <2> QED
    BY <1>1, <2>1, <2>2
<1>3. ~(q < r)
  <2> SUFFICES ASSUME q + 1 <= r PROVE FALSE
    BY <1>1
  <2>1. d * (q + 1) <= d * r
    BY <1>1
  <2>2. d * (q + 1) = d * q + d
    BY <1>1
  <2> QED
    BY <1>1, <2>1, <2>2
<1> QED
    BY <1>1, <1>2, <1>3 DEF r

LEMMA HalfOfQuotient ==
    ASSUME NEW p \in Nat, NEW d \in Nat, d > 0
    PROVE  p \div d \in Nat /\ p \div (2 * d) = (p \div d) \div 2
<1> DEFINE x == p \div d
           y == x \div 2
<1>1. x \in Nat /\ d * x <= p /\ p < d * x + d
    OBVIOUS
<1> HIDE DEF x
<1>2. y \in Nat /\ (x = 2 * y \/ x = 2 * y + 1)
    BY <1>1
<1> HIDE DEF y
<1>3. /\ d * y \in Nat /\ (2 * d) * y = 2 * (d * y)
      /\ d * (2 * y) = 2 * (d * y) /\ d * (2 * y + 1) = 2 * (d * y) + d
    BY <1>2
<1>4. (2 * d) * y <= p /\ p < (2 * d) * y + (2 * d)
    BY <1>1, <1>2, <1>3
<1>5. p \div (2 * d) = y
    BY <1>4, <1>2, QuotientIs
<1> QED
    BY <1>5, <1>1 DEF y, x

(* Halves and parities.                                                    *)
LEMMA HalfOfNext ==
    ASSUME NEW a \in Nat, NEW b \in {a, a + 1}
    PROVE  b \div 2 \in {a \div 2, a \div 2 + 1}
OBVIOUS

LEMMA HalfOfSum ==
    ASSUME NEW a \in Nat, NEW c \in Nat
    PROVE  /\ (a + 2 * c) \div 2 = a \div 2 + c
           /\ (2 * c - 1) \div 2 = c - 1
OBVIOUS

LEMMA Parity ==
    ASSUME NEW a \in Int, NEW c \in Int
    PROVE  /\ (a + 2 * c) % 2 = a % 2
           /\ (a + 2 * c + 1) % 2 = 1 - (a % 2)
           /\ a % 2 \in 0..1
<1>1. (a + 2 * c) % 2 = a % 2 /\ a % 2 \in 0..1
    OBVIOUS
<1>2. (a + 1) % 2 = 1 - (a % 2)
    OBVIOUS
<1>3. ((a + 1) + 2 * c) % 2 = (a + 1) % 2 /\ a + 2 * c + 1 = (a + 1) + 2 * c
    OBVIOUS
<1> QED
    BY <1>1, <1>2, <1>3
=============================================================================
