------------------------------ MODULE Arithmetic ------------------------------
(***************************************************************************)
(* Facts about products and remainders for the proofs of the modules that  *)
(* count modulo something: the provers know linear arithmetic, and use     *)
(* these for the rest.                                                     *)
(***************************************************************************)
EXTENDS Integers, WellFoundedInduction, TLAPS

(* Multiplication distributes over addition.                               *)
LEMMA Distributes ==
  ASSUME NEW a \in Int, NEW b \in Int, NEW m \in Int
  PROVE  m * (a + b) = m * a + m * b
BY SMT

(* Quotient and remainder.                                                 *)
LEMMA Division ==
  ASSUME NEW x \in Nat, NEW m \in Nat \ {0}
  PROVE  /\ x = m * (x \div m) + (x % m)
         /\ x % m \in 0 .. m - 1
         /\ x \div m \in Nat
BY SMTT(30)

(* The remainder is determined.                                            *)
LEMMA RemainderIsUnique ==
  ASSUME NEW x \in Nat, NEW m \in Nat \ {0}, NEW q \in Nat,
         NEW r \in 0 .. m - 1, x = m * q + r
  PROVE  x % m = r
BY SMTT(30)

(* A counter that wraps at every step has the value that wraps once.       *)
LEMMA WrapsOnce ==
  ASSUME NEW x \in Nat, NEW d \in Nat, NEW m \in Nat \ {0}
  PROVE  ((x % m) + d) % m = (x + d) % m
<1> DEFINE r == x % m
           q == x \div m
           y == r + d
           r2 == y % m
           q2 == y \div m
<1>1. x = m * q + r /\ r \in 0 .. m - 1 /\ q \in Nat
  BY Division
<1>2. y \in Nat
  BY <1>1
<1>3. y = m * q2 + r2 /\ r2 \in 0 .. m - 1 /\ q2 \in Nat
  BY <1>2, Division
<1>4. m * (q + q2) = m * q + m * q2 /\ m * q \in Nat /\ m * q2 \in Nat
  BY <1>1, <1>3, Distributes
<1>5. x + d = m * (q + q2) + r2
  BY <1>1, <1>2, <1>3, <1>4
<1>6. q + q2 \in Nat /\ x + d \in Nat
  BY <1>1, <1>3
<1> HIDE DEF r, q, y, r2, q2
<1>7. (x + d) % m = r2
  BY <1>3, <1>5, <1>6, RemainderIsUnique
<1> QED BY <1>7 DEF r2, y, r

(* Two numbers that differ by less than m have different remainders.       *)
LEMMA RemaindersDiffer ==
  ASSUME NEW x \in Nat, NEW m \in Nat \ {0}, NEW d \in 1 .. m - 1
  PROVE  x % m # (x + d) % m
<1> DEFINE y == x + d
<1>1. y \in Nat /\ d \in Nat /\ m \in Int
  OBVIOUS
<1>2. PICK q \in Nat, r \in 0 .. m - 1 : x = m * q + r /\ r = x % m
  BY Division
<1>3. PICK q2 \in Nat, r2 \in 0 .. m - 1 : y = m * q2 + r2 /\ r2 = y % m
  BY <1>1, Division
<1>4. SUFFICES ASSUME r = r2
               PROVE  FALSE
  BY <1>2, <1>3
<1>5. PICK k \in Int : k = q2 - q
  OBVIOUS
<1>6. m * q2 = m * q + m * k
  <2>1. q2 = q + k
    BY <1>5
  <2> QED BY <2>1, Distributes
<1>7. m * q \in Int /\ m * k \in Int
  BY SMT
<1>8. d = m * k
  BY <1>1, <1>2, <1>3, <1>4, <1>6, <1>7
<1>9. CASE k <= 0
  <2>1. m * k <= 0
    BY <1>9, SMT
  <2> QED BY <1>8, <2>1
<1>10. CASE k >= 1
  <2>1. m * k >= m
    BY <1>10, SMT
  <2> QED BY <1>8, <2>1
<1> QED BY <1>9, <1>10

(* Among natural numbers there is a least one.                             *)
LEMMA Least ==
  ASSUME NEW T \in SUBSET Nat, T # {}
  PROVE  \E x \in T : \A y \in T : x <= y
<1> DEFINE R == OpToRel(<, Nat)
<1>1. IsWellFoundedOn(R, Nat)
  BY NatLessThanWellFounded
<1>2. \E x \in T : \A y \in T : ~ (<<y, x>> \in R)
  <2> HIDE DEF R
  <2> QED BY <1>1, WFMin
<1>3. \A x, y \in Nat : x < y => <<x, y>> \in R
  BY DEF OpToRel
<1> HIDE DEF R
<1>4. \E x \in T : \A y \in T : ~ (y < x)
  BY <1>2, <1>3, Zenon
<1> QED
  BY <1>4

(* Induction: a set of numbers with 0 and with the next of each is all.    *)
LEMMA Induction ==
  ASSUME NEW S \in SUBSET Nat, 0 \in S, \A n \in S : n + 1 \in S
  PROVE  S = Nat
<1> SUFFICES ASSUME Nat \ S # {} PROVE FALSE
  OBVIOUS
<1>1. PICK m \in Nat \ S : \A k \in Nat \ S : m <= k
  BY Least
<1>2. m - 1 \in S
  BY <1>1
<1> QED
  BY <1>1, <1>2

(* Definition by recursion: a function on numbers is given by its value at *)
(* 0 and by the step that makes each value from the one before.            *)
IsRecursive(f, V, v, step) ==
  /\ f \in [Nat -> V] /\ f[0] = v
  /\ \A n \in Nat : f[n + 1] = step[n][f[n]]

LEMMA Recursion ==
  ASSUME NEW V, NEW v \in V, NEW step \in [Nat -> [V -> V]]
  PROVE  \E f : IsRecursive(f, V, v, step)
<1> DEFINE Begins(g, n) ==
             g[0] = v /\ \A k \in 0 .. n - 1 : g[k + 1] = step[k][g[k]]
           T == {n \in Nat : \E g \in [0 .. n -> V] : Begins(g, n)}
<1>1. 0 \in T
  <2> DEFINE g == [k \in 0 .. 0 |-> v]
  <2>1. g \in [0 .. 0 -> V] /\ g[0] = v /\ 0 .. 0 - 1 = {}
    OBVIOUS
  <2> HIDE DEF g
  <2> QED BY <2>1
<1>2. ASSUME NEW n \in T PROVE n + 1 \in T
  <2>1. n \in Nat
    OBVIOUS
  <2>2. PICK g \in [0 .. n -> V] : Begins(g, n)
    OBVIOUS
  <2> DEFINE next == step[n][g[n]]
             h == [k \in 0 .. n + 1 |-> IF k = n + 1 THEN next ELSE g[k]]
  <2>3. g[n] \in V /\ next \in V
    <3>1. n \in 0 .. n
      BY <2>1
    <3>2. g[n] \in V
      BY <3>1
    <3> QED BY <2>1, <3>2
  <2> HIDE DEF next
  <2>4. h \in [0 .. n + 1 -> V]
    BY <2>1, <2>3
  <2>5. \A k \in 0 .. n : h[k] = g[k]
    BY <2>1
  <2>6. h[n + 1] = next
    BY <2>1
  <2> HIDE DEF h
  <2>7. Begins(h, n + 1)
    <3>1. h[0] = v
      BY <2>1, <2>2, <2>5
    <3>2. ASSUME NEW k \in 0 .. (n + 1) - 1 PROVE h[k + 1] = step[k][h[k]]
      <4>1. CASE k = n
        BY <2>1, <2>5, <2>6, <4>1 DEF next
      <4>2. CASE k # n
        <5>1. k \in 0 .. n - 1 /\ k \in 0 .. n /\ k + 1 \in 0 .. n
          BY <2>1, <4>2
        <5> QED BY <2>2, <2>5, <5>1
      <4> QED BY <4>1, <4>2
    <3> QED BY <3>1, <3>2
  <2> HIDE DEF Begins
  <2> QED BY <2>1, <2>4, <2>7
<1>3. T = Nat
  <2>1. T \in SUBSET Nat
    OBVIOUS
  <2> HIDE DEF T
  <2> QED BY <1>1, <1>2, <2>1, Induction
(* The beginnings agree with each other.                                   *)
<1>4. ASSUME NEW n \in Nat, NEW m \in Nat,
             NEW g \in [0 .. n -> V], NEW h \in [0 .. m -> V],
             Begins(g, n), Begins(h, m)
      PROVE  \A k \in Nat : k <= n /\ k <= m => g[k] = h[k]
  <2> DEFINE A == {k \in Nat : k <= n /\ k <= m => g[k] = h[k]}
  <2>1. 0 \in A
    BY <1>4
  <2>2. ASSUME NEW k \in A PROVE k + 1 \in A
    <3> SUFFICES ASSUME k + 1 <= n, k + 1 <= m PROVE g[k + 1] = h[k + 1]
      OBVIOUS
    <3>1. k \in 0 .. n - 1 /\ k \in 0 .. m - 1 /\ g[k] = h[k]
      OBVIOUS
    <3> QED BY <1>4, <3>1
  <2>3. A \in SUBSET Nat
    OBVIOUS
  <2> HIDE DEF A
  <2>4. A = Nat
    BY <2>1, <2>2, <2>3, Induction
  <2> QED BY <2>4 DEF A
<1> DEFINE part == [n \in Nat |-> CHOOSE g \in [0 .. n -> V] : Begins(g, n)]
           f == [n \in Nat |-> part[n][n]]
<1>5. \A n \in Nat : part[n] \in [0 .. n -> V] /\ Begins(part[n], n)
  <2> SUFFICES ASSUME NEW n \in Nat
               PROVE  part[n] \in [0 .. n -> V] /\ Begins(part[n], n)
    OBVIOUS
  <2>1. \E g \in [0 .. n -> V] : Begins(g, n)
    BY <1>3
  <2> HIDE DEF Begins
  <2> QED BY <2>1
<1> HIDE DEF part, T
<1>6. f \in [Nat -> V]
  BY <1>5
<1>7. f[0] = v
  BY <1>5
<1>8. ASSUME NEW n \in Nat PROVE f[n + 1] = step[n][f[n]]
  <2> DEFINE p == part[n]
             q == part[n + 1]
  <2>1. p \in [0 .. n -> V] /\ q \in [0 .. n + 1 -> V] /\ Begins(p, n) /\ Begins(q, n + 1)
    <3>1. n + 1 \in Nat
      OBVIOUS
    <3> HIDE DEF Begins
    <3> QED BY <1>5, <3>1
  <2>2. f[n] = p[n] /\ f[n + 1] = q[n + 1]
    OBVIOUS
  <2> HIDE DEF p, q
  <2>3. p[n] = q[n]
    <3>1. n + 1 \in Nat /\ n <= n /\ n <= n + 1
      OBVIOUS
    <3> HIDE DEF Begins
    <3> QED BY <1>4, <2>1, <3>1
  <2>4. n \in 0 .. (n + 1) - 1
    OBVIOUS
  <2> QED BY <2>1, <2>2, <2>3, <2>4
<1> HIDE DEF f
<1>9. IsRecursive(f, V, v, step)
  BY <1>6, <1>7, <1>8 DEF IsRecursive
<1> QED BY <1>9
===============================================================================
