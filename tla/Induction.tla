------------------------------ MODULE Induction ------------------------------
(***************************************************************************)
(* Induction and iteration for the proofs about loops, with sets in place  *)
(* of predicates and functions in place of operators, so that the provers  *)
(* can use them; and the arithmetic of \div and % for a divisor that is    *)
(* not a number but a parameter.                                           *)
(***************************************************************************)
EXTENDS Integers, WellFoundedInduction, TLAPS

NatLess == {p \in Nat \X Nat : p[1] < p[2]}

LEMMA NatLessWellFounded == IsWellFoundedOn(NatLess, Nat)
<1>1. NatLess = OpToRel(<, Nat)
  BY DEF NatLess, OpToRel
<1> QED BY <1>1, NatLessThanWellFounded

\* A set with 0, and with n + 1 if it has n, has every natural number.
LEMMA SetInduction ==
  ASSUME NEW S, 0 \in S, \A n \in Nat : n \in S => n + 1 \in S
  PROVE  \A n \in Nat : n \in S
<1> DEFINE T == Nat \ S
<1>1. SUFFICES ASSUME T # {} PROVE FALSE
  OBVIOUS
<1>2. PICK x \in T : \A y \in T : ~ (<<y, x>> \in NatLess)
  <2> HIDE DEF T
  <2>1. T \subseteq Nat BY DEF T
  <2> QED BY <1>1, <2>1, NatLessWellFounded, WFMin
<1>3. x - 1 \in Nat /\ x - 1 < x
  BY <1>2
<1>4. x - 1 \in S
  BY <1>2, <1>3 DEF NatLess
<1> QED BY <1>2, <1>3, <1>4

\* Numbers of which there are any have a least one.
LEMMA LeastNumber ==
  ASSUME NEW S \in SUBSET Nat, S # {}
  PROVE  \E x \in S : \A y \in S : x <= y
<1>1. PICK x \in S : \A y \in S : ~ (<<y, x>> \in NatLess)
  BY NatLessWellFounded, WFMin
<1>2. \A y \in S : ~ (y < x)
  BY <1>1 DEF NatLess
<1> QED BY <1>2

\* The same up to a bound.
LEMMA BoundedInduction ==
  ASSUME NEW N \in Nat, NEW S, 0 \in S, \A n \in Nat : n < N /\ n \in S => n + 1 \in S
  PROVE  \A n \in 0 .. N : n \in S
<1> DEFINE T == {n \in Nat : n <= N => n \in S}
<1>1. 0 \in T
  OBVIOUS
<1>2. \A n \in Nat : n \in T => n + 1 \in T
  OBVIOUS
<1> HIDE DEF T
<1>3. \A n \in Nat : n \in T
  BY <1>1, <1>2, SetInduction
<1> QED BY <1>3 DEF T

\* The states of a loop of N rounds, whose round n takes a state x of T to
\* step[n][x]: there is such a sequence.
Runs(T, first, N, step) ==
  {f \in [0 .. N -> T] :
     f[0] = first /\ \A n \in Nat : n < N => f[n + 1] = step[n][f[n]]}

LEMMA IterationExists ==
  ASSUME NEW T, NEW first \in T, NEW N \in Nat, NEW step \in [Nat -> [T -> T]]
  PROVE  Runs(T, first, N, step) # {}
<1> DEFINE Run(k, f) == f[0] = first /\ \A n \in Nat : n < k => f[n + 1] = step[n][f[n]]
           S == {k \in Nat : \E f \in [0 .. k -> T] : Run(k, f)}
<1>1. 0 \in S
  <2>1. [i \in 0 .. 0 |-> first] \in [0 .. 0 -> T] /\ Run(0, [i \in 0 .. 0 |-> first])
    OBVIOUS
  <2> QED BY <2>1
<1>2. ASSUME NEW k \in Nat, k \in S PROVE k + 1 \in S
  <2>1. PICK f \in [0 .. k -> T] : Run(k, f)
    BY <1>2
  <2> DEFINE g == [i \in 0 .. k + 1 |-> IF i <= k THEN f[i] ELSE step[k][f[k]]]
  <2>2. f[k] \in T /\ step[k] \in [T -> T]
    OBVIOUS
  <2>3. step[k][f[k]] \in T
    BY <2>2
  <2>4. g \in [0 .. k + 1 -> T]
    BY <2>3
  <2>5. g[0] = first
    BY <2>1
  <2>6. ASSUME NEW n \in Nat, n < k + 1 PROVE g[n + 1] = step[n][g[n]]
    <3>1. CASE n < k
      BY <3>1, <2>1
    <3>2. CASE n = k
      BY <3>2
    <3> QED BY <3>1, <3>2, <2>6
  <2>7. Run(k + 1, g)
    BY <2>5, <2>6
  <2> HIDE DEF Run
  <2> QED BY <2>4, <2>7
<1> HIDE DEF S
<1>3. \A n \in Nat : n \in S
  BY <1>1, <1>2, SetInduction
<1>4. PICK f \in [0 .. N -> T] : Run(N, f)
  BY <1>3 DEF S
<1> QED BY <1>4 DEF Runs

\* Quotient and remainder are what they are said to be.
LEMMA DivModUnique ==
  ASSUME NEW k \in Nat \ {0}, NEW q \in Int, NEW r \in Int, 0 <= r, r < k
  PROVE  (q * k + r) \div k = q /\ (q * k + r) % k = r
<1> DEFINE a == q * k + r
<1>1. a \in Int /\ q * k \in Int
  OBVIOUS
<1>2. /\ a \div k \in Int /\ a % k \in Int /\ 0 <= a % k /\ a % k < k
      /\ a = k * (a \div k) + (a % k)
  BY <1>1
<1>3. a \div k = q
  <2> DEFINE p == a \div k  s == a % k
  <2> HIDE DEF p, s, a
  <2>1. p \in Int /\ s \in Int /\ 0 <= s /\ s < k /\ a = k * p + s /\ a = q * k + r
    BY <1>2 DEF p, s, a
  <2>2. CASE p < q
    <3>1. k * p + k <= q * k
      <4>1. p + 1 <= q
        BY <2>1, <2>2
      <4>2. k * (p + 1) <= k * q
        BY <4>1, <2>1
      <4> QED BY <4>2, <2>1
    <3>2. k * p \in Int /\ q * k \in Int
      BY <2>1
    <3> QED BY <3>1, <3>2, <2>1
  <2>3. CASE q < p
    <3>1. q * k + k <= k * p
      <4>1. q + 1 <= p
        BY <2>1, <2>3
      <4>2. k * (q + 1) <= k * p
        BY <4>1, <2>1
      <4> QED BY <4>2, <2>1
    <3>2. k * p \in Int /\ q * k \in Int
      BY <2>1
    <3> QED BY <3>1, <3>2, <2>1
  <2>4. p = q
    BY <2>1, <2>2, <2>3
  <2> QED BY <2>4 DEF p
<1>4. a % k = r
  <2>1. k * q = q * k /\ k * q \in Int
    OBVIOUS
  <2> QED BY <1>2, <1>3, <2>1
<1> QED BY <1>3, <1>4

LEMMA DivModParts ==
  ASSUME NEW a \in Int, NEW k \in Nat \ {0}
  PROVE  /\ a \div k \in Int /\ a % k \in Nat /\ a % k < k
         /\ a = (a \div k) * k + (a % k)
<1>1. a \div k \in Int /\ a % k \in Nat /\ a % k < k
  OBVIOUS
<1>2. a = k * (a \div k) + (a % k)
  OBVIOUS
<1>3. k * (a \div k) = (a \div k) * k
  BY <1>1
<1> QED BY <1>1, <1>2, <1>3

\* Reducing a part of a sum first changes nothing.
LEMMA ModOfSum ==
  ASSUME NEW a \in Int, NEW b \in Int, NEW k \in Nat \ {0}
  PROVE  ((a % k) + b) % k = (a + b) % k
<1> DEFINE q == a \div k  r == a % k  p == (r + b) \div k  s == (r + b) % k
<1>1. q \in Int /\ r \in Nat /\ a = q * k + r
  BY DivModParts
<1>2. p \in Int /\ s \in Nat /\ s < k /\ r + b = p * k + s
  BY <1>1, DivModParts
<1> HIDE DEF q, r, p, s
<1>3. a + b = (q + p) * k + s
  BY <1>1, <1>2
<1>4. ((q + p) * k + s) % k = s
  BY <1>1, <1>2, DivModUnique
<1> QED BY <1>3, <1>4 DEF s, r

\* Numbers less than k apart have the same remainder only if they are the same.
LEMMA ModInjective ==
  ASSUME NEW a \in Nat, NEW b \in Nat, NEW k \in Nat \ {0}, a <= b, b - a < k, a % k = b % k
  PROVE  a = b
<1> DEFINE q == a \div k  r == a % k  p == b \div k
<1>1. q \in Int /\ r \in Nat /\ r < k /\ a = q * k + r /\ p \in Int /\ b = p * k + r
  BY DivModParts
<1> HIDE DEF q, r, p
<1>2. CASE p <= q
  <2>1. p * k <= q * k
    BY <1>1, <1>2
  <2>2. p * k \in Int /\ q * k \in Int
    BY <1>1
  <2> QED BY <2>1, <2>2, <1>1
<1>3. CASE p >= q + 1
  <2>1. p * k >= (q + 1) * k
    BY <1>1, <1>3
  <2>2. (q + 1) * k = q * k + k /\ p * k \in Int /\ q * k \in Int
    BY <1>1
  <2> QED BY <2>1, <2>2, <1>1
<1> QED BY <1>1, <1>2, <1>3

\* A divisor of the modulus divides the remainder of its multiples.
LEMMA ModMultiple ==
  ASSUME NEW a \in Int, NEW m \in Nat \ {0}, NEW d \in Nat \ {0}
  PROVE  (a * d) % (m * d) = (a % m) * d
<1> DEFINE q == a \div m  r == a % m
<1>1. q \in Int /\ r \in Nat /\ r < m /\ a = q * m + r
  BY DivModParts
<1> HIDE DEF q, r
<1>2. a * d = q * (m * d) + r * d
  BY <1>1
<1>3. /\ m * d \in Nat \ {0} /\ r * d \in Int /\ 0 <= r * d /\ r * d < m * d
  <2>1. m * d \in Nat /\ r * d \in Nat
    BY <1>1
  <2>2. (r + 1) * d <= m * d
    BY <1>1
  <2>3. (r + 1) * d = r * d + d
    BY <1>1
  <2> QED BY <2>1, <2>2, <2>3
<1>4. (q * (m * d) + r * d) % (m * d) = r * d
  BY <1>1, <1>3, DivModUnique
<1> QED BY <1>2, <1>4 DEF r
=============================================================================
