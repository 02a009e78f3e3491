----------------------------- MODULE Arithmetic -----------------------------
(***************************************************************************)
(* What the proofs use of the natural numbers: induction, with a set in    *)
(* place of a predicate, the functions that are defined by recursion over  *)
(* an interval, which is how loops are written in the other modules,       *)
(* powers of two, and the digits of numbers (Numerals).                    *)
(***************************************************************************)
EXTENDS Numerals, WellFoundedInduction, FiniteSetTheorems, TLAPS

\* The provers have a minute for every leaf that asks for no other.
USE SMTT(60), ZenonT(60)

\* Every set of naturals that is not empty has a smallest element.
LEMMA SmallestElement ==
  ASSUME NEW T \in SUBSET Nat, T # {}
  PROVE  \E x \in T : \A y \in T : x <= y
<1>1. PICK x \in T : \A y \in T : <<y, x>> \notin OpToRel(<, Nat)
  BY WFMin, NatLessThanWellFounded, Zenon
<1>2. ASSUME NEW y \in T, y < x PROVE <<y, x>> \in OpToRel(<, Nat)
  BY <1>2 DEF OpToRel
<1>3. \A y \in T : ~(y < x)
  BY <1>1, <1>2, Zenon
<1> QED
  BY <1>3

\* What holds of 0, and of n + 1 if it holds of n, holds up to N.
LEMMA SetInduction ==
  ASSUME NEW N \in Nat, NEW S, 0 \in S, \A n \in 0 .. N - 1 : n \in S => n + 1 \in S
  PROVE  \A n \in 0 .. N : n \in S
<1> DEFINE T == {n \in 0 .. N : n \notin S}
<1>1. SUFFICES ASSUME T # {} PROVE FALSE
  BY <1>1
<1>2. T \in SUBSET Nat
  OBVIOUS
<1>3. PICK x \in T : \A y \in T : x <= y
  BY <1>1, <1>2, SmallestElement, Zenon
<1>4. x \in 0 .. N /\ x \notin S
  BY <1>3
<1>5. x # 0
  BY <1>4, Zenon
<1>6. x - 1 \in 0 .. N - 1 /\ x - 1 \in 0 .. N /\ (x - 1) + 1 = x /\ ~(x <= x - 1)
  BY <1>4, <1>5
<1>7. x - 1 \in S
  BY <1>3, <1>6, Zenon
<1> QED
  BY <1>4, <1>6, <1>7, Zenon

\* f is the value of a loop before its N steps and after each of them, the next
\* value being computed from the number of the step and the last value.
IsLoop(f, N, T, b, step) ==
  /\ f \in [0 .. N -> T]
  /\ f[0] = b
  /\ \A n \in 1 .. N : f[n] = step[<<n, f[n - 1]>>]

\* There is such an f.
LEMMA LoopExists ==
  ASSUME NEW N \in Nat, NEW T, NEW b \in T, NEW step \in [(1 .. N) \X T -> T]
  PROVE  \E f : IsLoop(f, N, T, b, step)
<1> DEFINE Up(m, f) == f[0] = b /\ \A n \in 1 .. m : f[n] = step[<<n, f[n - 1]>>]
           S == {m \in 0 .. N : \E f \in [0 .. m -> T] : Up(m, f)}
<1>1. 0 \in S
  <2>1. [n \in 0 .. 0 |-> b] \in [0 .. 0 -> T] /\ Up(0, [n \in 0 .. 0 |-> b])
    OBVIOUS
  <2>2. 0 \in 0 .. N
    OBVIOUS
  <2> HIDE DEF Up
  <2> QED
    BY <2>1, <2>2
<1>2. ASSUME NEW m \in 0 .. N - 1, m \in S PROVE m + 1 \in S
  <2>1. PICK f \in [0 .. m -> T] : Up(m, f)
    BY <1>2
  <2>2. m + 1 \in 1 .. N /\ m + 1 \in 0 .. N /\ m \in 0 .. m /\ m + 1 \notin 0 .. m
    OBVIOUS
  <2> DEFINE v == step[<<m + 1, f[m]>>]
             g == [n \in 0 .. m + 1 |-> IF n = m + 1 THEN v ELSE f[n]]
  <2>3. v \in T
    BY <2>2
  <2> HIDE DEF v
  <2>4. g \in [0 .. m + 1 -> T] /\ g[m + 1] = v /\ \A n \in 0 .. m : g[n] = f[n]
    BY <2>2, <2>3
  <2>5. g[0] = b
    BY <2>1, <2>4
  <2>6. ASSUME NEW n \in 1 .. m PROVE g[n] = step[<<n, g[n - 1]>>]
    <3>1. n \in 0 .. m /\ n - 1 \in 0 .. m
      OBVIOUS
    <3>2. g[n] = f[n] /\ g[n - 1] = f[n - 1]
      BY <2>4, <3>1, Zenon
    <3> QED
      BY <2>1, <3>2, Zenon
  <2>7. g[m + 1] = step[<<m + 1, g[m + 1 - 1]>>]
    BY <2>2, <2>4 DEF v
  <2> HIDE DEF g
  <2>8. \A n \in 1 .. m + 1 : n \in 1 .. m \/ n = m + 1
    OBVIOUS
  <2>9. Up(m + 1, g)
    <3>1. ASSUME NEW n \in 1 .. m + 1 PROVE g[n] = step[<<n, g[n - 1]>>]
      <4>1. CASE n \in 1 .. m
        BY <2>6, <4>1, Zenon
      <4>2. CASE n = m + 1
        BY <2>7, <4>2
      <4> QED
        BY <2>8, <4>1, <4>2, Zenon
    <3> QED
      BY <2>5, <3>1, Zenon
  <2> QED
    BY <2>2, <2>4, <2>9, Zenon
<1> HIDE DEF S
<1>3. \A n \in 0 .. N : n \in S
  BY <1>1, <1>2, SetInduction, Zenon
<1>4. N \in 0 .. N
  OBVIOUS
<1> QED
  BY <1>3, <1>4, Zenon DEF S, IsLoop

----------------------------------------------------------------------------
(***************************************************************************)
(* Division and powers of two.                                             *)
(***************************************************************************)

\* Quotient and rest.
LEMMA Divides ==
  ASSUME NEW n \in Int, NEW b \in Nat \ {0}
  PROVE  /\ n \div b \in Int /\ n % b \in 0 .. b - 1
         /\ n = (n \div b) * b + (n % b)
OBVIOUS

\* There are no others.
LEMMA DivideUnique ==
  ASSUME NEW n \in Int, NEW b \in Nat \ {0}, NEW q \in Int, NEW r \in 0 .. b - 1, n = q * b + r
  PROVE  n \div b = q /\ n % b = r
OBVIOUS

\* Numbers that are small.
LEMMA RestSmall ==
  ASSUME NEW n \in Int, NEW b \in Nat \ {0}
  PROVE  /\ 0 <= n /\ n < b => n \div b = 0 /\ n % b = n
         /\ -b <= n /\ n < 0 => n \div b = -1 /\ n % b = n + b
OBVIOUS

\* Division by a product, quotient and rest.
LEMMA DivideTwice ==
  ASSUME NEW n \in Int, NEW p \in Nat \ {0}, NEW b \in Nat \ {0}
  PROVE  (n \div p) \div b = n \div (p * b)
OBVIOUS

\* The rest has a digit more than the rest by one of the factors.
LEMMA RestTwice ==
  ASSUME NEW n \in Int, NEW p \in Nat \ {0}, NEW b \in Nat \ {0}
  PROVE  n % (p * b) = ((n \div p) % b) * p + (n % p)
OBVIOUS

\* A power of two is positive: it is the number of subsets of a finite set.
LEMMA PowerPositive ==
  ASSUME NEW k \in Nat
  PROVE  2 ^ k \in Nat \ {0}
<1>1. IsFiniteSet(1 .. k) /\ Cardinality(1 .. k) = k
  BY FS_Interval
<1>2. IsFiniteSet(SUBSET (1 .. k)) /\ Cardinality(SUBSET (1 .. k)) = 2 ^ k
  BY <1>1, FS_SUBSET
<1>3. SUBSET (1 .. k) # {}
  BY Zenon
<1> QED
  BY <1>2, <1>3, FS_CardinalityType, FS_EmptySet, Zenon

\* The subsets of two disjoint sets, and of their union.
LEMMA PowerAdd ==
  ASSUME NEW a \in Nat, NEW b \in Nat
  PROVE  2 ^ (a + b) = 2 ^ a * 2 ^ b
<1> DEFINE S == 1 .. a
           T == (a + 1) .. (a + b)
           f == [p \in (SUBSET S) \X (SUBSET T) |-> p[1] \cup p[2]]
<1>1. IsFiniteSet(S) /\ Cardinality(S) = a
  BY FS_Interval
<1>2. IsFiniteSet(T) /\ Cardinality(T) = b
  BY FS_Interval
<1>3. IsFiniteSet(1 .. (a + b)) /\ Cardinality(1 .. (a + b)) = a + b
  <2>1. PICK c \in Nat : c = a + b
    OBVIOUS
  <2>2. IsFiniteSet(1 .. c) /\ Cardinality(1 .. c) = c
    BY FS_Interval
  <2> QED
    BY <2>1, <2>2, Zenon
<1>4. S \cap T = {} /\ S \cup T = 1 .. (a + b)
  OBVIOUS
<1> HIDE DEF S, T
<1>5. IsFiniteSet(SUBSET S) /\ Cardinality(SUBSET S) = 2 ^ a
  BY <1>1, FS_SUBSET
<1>6. IsFiniteSet(SUBSET T) /\ Cardinality(SUBSET T) = 2 ^ b
  BY <1>2, FS_SUBSET
<1>7. Cardinality(SUBSET (S \cup T)) = 2 ^ (a + b)
  BY <1>3, <1>4, FS_SUBSET, Zenon
<1>8. IsFiniteSet((SUBSET S) \X (SUBSET T)) /\ Cardinality((SUBSET S) \X (SUBSET T)) = 2 ^ a * 2 ^ b
  BY <1>5, <1>6, FS_Product, ZenonT(60)
<1>9. f \in Bijection((SUBSET S) \X (SUBSET T), SUBSET (S \cup T))
  <2>1. f \in [(SUBSET S) \X (SUBSET T) -> SUBSET (S \cup T)]
    OBVIOUS
  <2>2. ASSUME NEW p \in (SUBSET S) \X (SUBSET T), NEW q \in (SUBSET S) \X (SUBSET T), f[p] = f[q] PROVE p = q
    <3>1. PICK p1 \in SUBSET S, p2 \in SUBSET T : p = <<p1, p2>>
      OBVIOUS
    <3>2. PICK q1 \in SUBSET S, q2 \in SUBSET T : q = <<q1, q2>>
      OBVIOUS
    <3>3. p1 \cup p2 = q1 \cup q2
      BY <2>2, <3>1, <3>2
    <3>4. p1 = q1 /\ p2 = q2
      BY <1>4, <3>3
    <3> QED
      BY <3>1, <3>2, <3>4
  <2>3. ASSUME NEW U \in SUBSET (S \cup T) PROVE \E p \in (SUBSET S) \X (SUBSET T) : f[p] = U
    <3> DEFINE r == <<U \cap S, U \cap T>>
    <3>1. r \in (SUBSET S) \X (SUBSET T)
      OBVIOUS
    <3>2. f[r] = (U \cap S) \cup (U \cap T)
      BY <3>1
    <3>3. (U \cap S) \cup (U \cap T) = U
      OBVIOUS
    <3> QED
      BY <3>1, <3>2, <3>3, Zenon
  <2>4. DOMAIN f = (SUBSET S) \X (SUBSET T)
    OBVIOUS
  <2> HIDE DEF f
  <2> QED
    BY <2>1, <2>2, <2>3, <2>4, Zenon DEF Bijection, Injection, Surjection, IsInjective
<1> HIDE DEF f
<1>10. Cardinality(SUBSET (S \cup T)) = Cardinality((SUBSET S) \X (SUBSET T))
  BY <1>8, <1>9, FS_Bijection, Zenon DEF ExistsBijection
<1> QED
  BY <1>7, <1>8, <1>10

----------------------------------------------------------------------------
(***************************************************************************)
(* Digits.                                                                 *)
(***************************************************************************)

\* There are as many digits as were asked for.
LEMMA DigitsType ==
  ASSUME NEW n \in Int, NEW w \in Nat, NEW k \in Nat
  PROVE  /\ DigitsOf(n, w, k) \in Seq(0 .. 2 ^ w - 1) /\ DigitsOf(n, w, k) \in Seq(Int)
         /\ Len(DigitsOf(n, w, k)) = k
         /\ \A i \in 1 .. k : DigitsOf(n, w, k)[i] = (n \div (2 ^ (w * (k - i)))) % (2 ^ w)
<1>1. ASSUME NEW i \in 1 .. k PROVE (n \div (2 ^ (w * (k - i)))) % (2 ^ w) \in 0 .. 2 ^ w - 1
  <2>1. w * (k - i) \in Nat
    OBVIOUS
  <2>2. 2 ^ (w * (k - i)) \in Nat \ {0} /\ 2 ^ w \in Nat \ {0}
    BY <2>1, PowerPositive
  <2> QED
    BY <2>2, Divides
<1> QED
  BY <1>1 DEF DigitsOf

\* The loop of FromDigits runs.
IsNumeral(u, ds, w) ==
  /\ u \in [0 .. Len(ds) -> Int]
  /\ u[0] = 0
  /\ \A i \in 1 .. Len(ds) : u[i] = u[i - 1] * 2 ^ w + ds[i]
  /\ FromDigits(ds, w) = u[Len(ds)]

\* The loop of FromDigits has a value for every sequence of digits.
LEMMA NumeralExists ==
  ASSUME NEW w \in Nat, NEW ds \in Seq(Int)
  PROVE  \E u : IsNumeral(u, ds, w)
<1> DEFINE N == Len(ds)
           Next1(i, x) == x * 2 ^ w + ds[i]
           step == [p \in (1 .. N) \X Int |-> Next1(p[1], p[2])]
           Is(g) == g = [i \in 0 .. N |-> IF i = 0 THEN 0 ELSE Next1(i, g[i - 1])]
           h == CHOOSE g : Is(g)
<1>1. N \in Nat /\ \A i \in 1 .. N, x \in Int : Next1(i, x) \in Int
  BY PowerPositive
<1>2. FromDigits(ds, w) = h[N]
  BY DEF FromDigits
<1> HIDE DEF N, Next1
<1>3. step \in [(1 .. N) \X Int -> Int] /\ \A i \in 1 .. N, x \in Int : step[<<i, x>>] = Next1(i, x)
  BY <1>1, Zenon
<1> HIDE DEF step
<1>4. PICK f \in [0 .. N -> Int] : f[0] = 0 /\ \A i \in 1 .. N : f[i] = step[<<i, f[i - 1]>>]
  <2>1. 0 \in Int
    OBVIOUS
  <2>2. \E f : IsLoop(f, N, Int, 0, step)
    BY <1>1, <1>3, <2>1, LoopExists, Zenon
  <2> QED
    BY <2>2, Zenon DEF IsLoop
<1>5. \A i \in 0 .. N : i = 0 \/ (i \in 1 .. N /\ i - 1 \in 0 .. N /\ i # 0)
  BY <1>1
<1>6. \A i \in 0 .. N : f[i] = IF i = 0 THEN 0 ELSE Next1(i, f[i - 1])
  BY <1>3, <1>4, <1>5, ZenonT(60)
<1>7. Is(f)
  BY <1>4, <1>6
<1>8. Is(h)
  BY <1>7, Zenon
<1> HIDE DEF h
<1>9. \A i \in 0 .. N : h[i] = IF i = 0 THEN 0 ELSE Next1(i, h[i - 1])
  BY <1>8, Zenon
<1>10. h[0] = 0 /\ \A i \in 1 .. N : h[i] = Next1(i, h[i - 1])
  <2>1. 0 \in 0 .. N /\ \A i \in 1 .. N : i \in 0 .. N /\ i # 0
    BY <1>1
  <2> QED
    BY <1>9, <2>1, Zenon
<1>11. \A i \in 0 .. N : h[i] \in Int
  <2> DEFINE G == {i \in 0 .. N : h[i] \in Int}
  <2>1. 0 \in G
    BY <1>1, <1>10
  <2>2. ASSUME NEW i \in 0 .. N - 1, i \in G PROVE i + 1 \in G
    <3>1. i + 1 \in 1 .. N /\ i + 1 \in 0 .. N /\ i + 1 - 1 = i
      BY <1>1
    <3>2. h[i + 1] = Next1(i + 1, h[i])
      BY <1>10, <3>1
    <3> QED
      BY <1>1, <2>2, <3>1, <3>2, Zenon
  <2> HIDE DEF G
  <2>3. \A i \in 0 .. N : i \in G
    BY <1>1, <2>1, <2>2, SetInduction, Zenon
  <2> QED
    BY <2>3 DEF G
<1>12. h = [i \in 0 .. N |-> h[i]]
  BY <1>8
<1>13. h \in [0 .. N -> Int]
  BY <1>11, <1>12
<1> QED
  BY <1>2, <1>10, <1>13, Zenon DEF IsNumeral, N, Next1

\* Powers of two, by the digit.
LEMMA PowerDigits ==
  ASSUME NEW w \in Nat, NEW k \in Nat
  PROVE  /\ 2 ^ (w * k) \in Nat \ {0} /\ 2 ^ w \in Nat \ {0}
         /\ 2 ^ (w * (k + 1)) = 2 ^ (w * k) * 2 ^ w
         /\ 2 ^ (w * 0) = 1
<1>1. w * k \in Nat /\ w * (k + 1) = w * k + w /\ w * 0 = 0
  OBVIOUS
<1>2. 2 ^ (w * k) \in Nat \ {0} /\ 2 ^ w \in Nat \ {0}
  BY <1>1, PowerPositive, Zenon
<1>3. 2 ^ (w * k + w) = 2 ^ (w * k) * 2 ^ w
  BY <1>1, PowerAdd, Zenon
<1>4. 2 ^ 0 = 1
  OBVIOUS
<1> QED
  BY <1>1, <1>2, <1>3, <1>4, Zenon

\* The digits of n are those of n, but for what is beyond them.
LEMMA FromDigitsOf ==
  ASSUME NEW n \in Int, NEW w \in Nat, NEW k \in Nat
  PROVE  FromDigits(DigitsOf(n, w, k), w) = n % (2 ^ (w * k))
<1> DEFINE ds == DigitsOf(n, w, k)
           P == [j \in 0 .. k |-> 2 ^ (w * j)]
<1>1. ds \in Seq(Int) /\ Len(ds) = k /\ \A i \in 1 .. k : ds[i] = (n \div P[k - i]) % (2 ^ w)
  <2>1. \A i \in 1 .. k : k - i \in 0 .. k
    OBVIOUS
  <2>2. \A i \in 1 .. k : P[k - i] = 2 ^ (w * (k - i))
    BY <2>1
  <2>3. ds \in Seq(Int) /\ Len(ds) = k /\ \A i \in 1 .. k : ds[i] = (n \div (2 ^ (w * (k - i)))) % (2 ^ w)
    BY DigitsType, Zenon
  <2> HIDE DEF P, ds
  <2> QED
    BY <2>2, <2>3, Zenon
<1>2. PICK u : IsNumeral(u, ds, w)
  BY <1>1, NumeralExists, Zenon
<1>3. P[0] = 1 /\ P[k] = 2 ^ (w * k) /\ 2 ^ w \in Nat \ {0}
  BY PowerDigits
<1>4. \A j \in 0 .. k : P[j] \in Nat \ {0}
  BY PowerDigits
<1>5. ASSUME NEW j \in 0 .. k - 1 PROVE P[j + 1] = P[j] * 2 ^ w
  <2>1. j \in 0 .. k /\ j + 1 \in 0 .. k /\ j \in Nat
    OBVIOUS
  <2>2. 2 ^ (w * (j + 1)) = 2 ^ (w * j) * 2 ^ w
    BY <2>1, PowerDigits
  <2> QED
    BY <2>1, <2>2
<1> HIDE DEF P, ds
<1> DEFINE G == {i \in 0 .. k : u[i] = (n \div P[k - i]) % P[i]}
<1>6. 0 \in G
  <2>1. n \div P[k] \in Int /\ \A x \in Int : x % 1 = 0
    BY <1>4
  <2>2. u[0] = 0 /\ k - 0 = k
    BY <1>2 DEF IsNumeral
  <2> QED
    BY <1>3, <2>1, <2>2
<1>7. ASSUME NEW i \in 0 .. k - 1, i \in G PROVE i + 1 \in G
  <2>1. i + 1 \in 1 .. k /\ k - i \in 0 .. k /\ k - (i + 1) \in 0 .. k - 1 /\ k - (i + 1) + 1 = k - i /\ i + 1 - 1 = i
        /\ i \in 0 .. k /\ k - (i + 1) \in 0 .. k
    OBVIOUS
  <2>2. u[i + 1] = u[i] * 2 ^ w + ds[i + 1] /\ ds[i + 1] = (n \div P[k - (i + 1)]) % (2 ^ w)
    <3>1. u[i + 1] = u[i + 1 - 1] * 2 ^ w + ds[i + 1]
      <4>1. \A j \in 1 .. k : u[j] = u[j - 1] * 2 ^ w + ds[j]
        BY <1>1, <1>2, Zenon DEF IsNumeral
      <4> QED
        BY <2>1, <4>1
    <3>2. ds[i + 1] = (n \div P[k - (i + 1)]) % (2 ^ w)
      BY <1>1, <2>1, Zenon
    <3> QED
      BY <2>1, <3>1, <3>2, Zenon
  <2>3. u[i] = (n \div P[k - i]) % P[i]
    BY <1>7
  <2>4. P[k - i] = P[k - (i + 1)] * 2 ^ w /\ P[i + 1] = P[i] * 2 ^ w
    BY <1>5, <2>1
  <2> DEFINE p == P[k - (i + 1)]
             q == P[i]
             b == 2 ^ w
             m == n \div p
  <2>5. p \in Nat \ {0} /\ q \in Nat \ {0} /\ b \in Nat \ {0}
    BY <1>3, <1>4, <2>1
  <2>6. u[i + 1] = ((n \div (p * b)) % q) * b + (m % b)
    BY <2>2, <2>3, <2>4
  <2>7. P[i + 1] = b * q
    BY <2>4, <2>5
  <2> HIDE DEF p, q, b
  <2>8. m \in Int /\ m \div b = n \div (p * b)
    BY <2>5, Divides, DivideTwice, Zenon
  <2> HIDE DEF m
  <2>9. m % (b * q) = ((m \div b) % q) * b + (m % b)
    BY <2>5, <2>8, RestTwice, Zenon
  <2>10. u[i + 1] = m % P[i + 1]
    BY <2>6, <2>7, <2>8, <2>9
  <2> QED
    BY <2>1, <2>10 DEF m, p
<1> HIDE DEF G
<1>8. \A i \in 0 .. k : i \in G
  BY <1>6, <1>7, SetInduction, Zenon
<1>9. k \in 0 .. k /\ k - k = 0 /\ n \div 1 = n
  OBVIOUS
<1>10. u[k] = (n \div P[k - k]) % P[k]
  BY <1>8, <1>9, Zenon DEF G
<1>11. FromDigits(ds, w) = u[k]
  BY <1>1, <1>2, Zenon DEF IsNumeral
<1> QED
  BY <1>3, <1>9, <1>10, <1>11 DEF ds

\* Powers of two grow.
LEMMA PowerGrows ==
  ASSUME NEW a \in Nat, NEW b \in Nat, a <= b
  PROVE  2 ^ a <= 2 ^ b
<1>1. b - a \in Nat /\ a + (b - a) = b
  OBVIOUS
<1>2. 2 ^ b = 2 ^ a * 2 ^ (b - a)
  BY <1>1, PowerAdd
<1>3. 2 ^ a \in Nat \ {0} /\ 2 ^ (b - a) \in Nat \ {0} /\ 2 ^ b \in Nat
  BY <1>1, PowerPositive
<1> QED
  BY <1>2, <1>3

\* All but the first power of two are even.
LEMMA PowerEven ==
  ASSUME NEW a \in Nat \ {0}
  PROVE  2 ^ (a - 1) \in Nat \ {0} /\ 2 ^ a = 2 * 2 ^ (a - 1) /\ 2 ^ a \div 2 = 2 ^ (a - 1)
<1>1. a - 1 \in Nat /\ 1 + (a - 1) = a
  OBVIOUS
<1>2. 2 ^ a = 2 ^ 1 * 2 ^ (a - 1)
  <2>1. 1 \in Nat
    OBVIOUS
  <2>2. 2 ^ (1 + (a - 1)) = 2 ^ 1 * 2 ^ (a - 1)
    BY <1>1, <2>1, PowerAdd, Zenon
  <2> QED
    BY <1>1, <2>2, Zenon
<1>3. 2 ^ (a - 1) \in Nat \ {0}
  BY <1>1, PowerPositive, Zenon
<1>4. 2 ^ 1 = 2
  OBVIOUS
<1>5. 2 ^ a = 2 * 2 ^ (a - 1)
  BY <1>2, <1>4, Zenon
<1>6. \A x \in Nat : (2 * x) \div 2 = x
  OBVIOUS
<1> QED
  BY <1>3, <1>5, <1>6, Zenon

\* The top bit of the first digit is that of the number.
LEMMA TopDigit ==
  ASSUME NEW n \in Int, NEW w \in Nat \ {0}, NEW k \in Nat \ {0}
  PROVE  DigitsOf(n, w, k)[1] >= 2 ^ w \div 2 <=> n % (2 ^ (w * k)) >= 2 ^ (w * k) \div 2
<1>1. k - 1 \in Nat /\ k - 1 + 1 = k /\ 1 \in 1 .. k
  OBVIOUS
<1> DEFINE P == 2 ^ (w * (k - 1))
           B == 2 ^ w
           H == 2 ^ (w - 1)
           d == (n \div P) % B
           r == n % P
<1>2. P \in Nat \ {0} /\ B \in Nat \ {0} /\ 2 ^ (w * k) = P * B
  <2>1. w \in Nat
    OBVIOUS
  <2>2. P \in Nat \ {0} /\ B \in Nat \ {0} /\ 2 ^ (w * (k - 1 + 1)) = P * B
    BY <1>1, <2>1, PowerDigits, Zenon
  <2> QED
    BY <1>1, <2>2, Zenon
<1>3. H \in Nat \ {0} /\ B = 2 * H /\ B \div 2 = H
  BY PowerEven
<1>4. DigitsOf(n, w, k)[1] = d
  BY <1>1, DigitsType, Zenon
<1> HIDE DEF P, B, H
<1>5. d \in Int /\ r \in 0 .. P - 1
  <2>1. n \div P \in Int /\ r \in 0 .. P - 1
    BY <1>2, Divides, Zenon
  <2>2. d \in 0 .. B - 1
    BY <1>2, <2>1, Divides, Zenon
  <2> QED
    BY <2>1, <2>2
<1>6. n % (P * B) = d * P + r
  BY <1>2, RestTwice, Zenon
<1> HIDE DEF d, r
<1>7. (P * B) \div 2 = P * H
  <2>1. P * H \in Int /\ P * B = 2 * (P * H)
    BY <1>2, <1>3
  <2>2. \A x \in Int : (2 * x) \div 2 = x
    OBVIOUS
  <2> QED
    BY <2>1, <2>2, Zenon
<1>8. ASSUME d >= H PROVE d * P + r >= P * H
  BY <1>2, <1>3, <1>5, <1>8
<1>9. ASSUME d < H PROVE d * P + r < P * H
  <2>1. d + 1 <= H
    BY <1>3, <1>5, <1>9
  <2>2. (d + 1) * P <= H * P
    BY <1>2, <1>3, <1>5, <2>1
  <2> QED
    BY <1>2, <1>3, <1>5, <2>2
<1>10. d >= H <=> d * P + r >= P * H
  BY <1>2, <1>3, <1>5, <1>8, <1>9
<1> QED
  BY <1>2, <1>3, <1>4, <1>6, <1>7, <1>10 DEF B

\* The last digits are those of the same number.
LEMMA DigitsTail ==
  ASSUME NEW n \in Int, NEW w \in Nat, NEW k \in Nat, NEW i \in 1 .. k + 1
  PROVE  SubSeq(DigitsOf(n, w, k), i, k) = DigitsOf(n, w, k - i + 1)
<1> DEFINE m == k - i + 1
           d == DigitsOf(n, w, k)
           e == DigitsOf(n, w, m)
<1>1. m \in Nat /\ \A j \in 1 .. m : j + i - 1 \in 1 .. k /\ k - (j + i - 1) = m - j
  OBVIOUS
<1>2. d \in Seq(Int) /\ Len(d) = k /\ \A j \in 1 .. k : d[j] = (n \div (2 ^ (w * (k - j)))) % (2 ^ w)
  BY DigitsType, Zenon
<1>3. e \in Seq(Int) /\ Len(e) = m /\ \A j \in 1 .. m : e[j] = (n \div (2 ^ (w * (m - j)))) % (2 ^ w)
  BY <1>1, DigitsType, Zenon
<1> HIDE DEF d, e
<1>4. ASSUME NEW j \in 1 .. m PROVE SubSeq(d, i, k)[j] = e[j]
  <2>1. SubSeq(d, i, k)[j] = d[j + i - 1]
    BY <1>2
  <2>2. j + i - 1 \in 1 .. k /\ k - (j + i - 1) = m - j
    BY <1>1
  <2> HIDE DEF m
  <2>3. d[j + i - 1] = (n \div (2 ^ (w * (k - (j + i - 1))))) % (2 ^ w)
    BY <1>2, <2>2, Zenon
  <2>4. e[j] = (n \div (2 ^ (w * (m - j)))) % (2 ^ w)
    BY <1>3, Zenon
  <2> QED
    BY <2>1, <2>2, <2>3, <2>4, Zenon
<1>5. SubSeq(d, i, k) \in Seq(Int) /\ Len(SubSeq(d, i, k)) = m
  BY <1>2
<1> HIDE DEF m
<1> QED
  BY <1>1, <1>3, <1>4, <1>5 DEF d, e, m

\* The elements of two sequences, one after the other.
LEMMA Concatenated ==
  ASSUME NEW s \in Seq(Int), NEW t \in Seq(Int)
  PROVE  /\ s \o t \in Seq(Int) /\ Len(s \o t) = Len(s) + Len(t)
         /\ \A j \in 1 .. Len(s) : (s \o t)[j] = s[j]
         /\ \A j \in 1 .. Len(t) : (s \o t)[Len(s) + j] = t[j]
OBVIOUS

\* Sequences that have the same elements are the same.
LEMMA SameElements ==
  ASSUME NEW s \in Seq(Int), NEW t \in Seq(Int), Len(s) = Len(t), \A j \in 1 .. Len(s) : s[j] = t[j]
  PROVE  s = t
OBVIOUS

\* Digits in front of those of a number repeat its sign.
LEMMA DigitsPad ==
  ASSUME NEW n \in Int, NEW w \in Nat, NEW k \in Nat, NEW p \in Nat, NEW d \in 0 .. 2 ^ w - 1,
         \/ n \in 0 .. 2 ^ (w * k) - 1 /\ d = 0
         \/ n \in -(2 ^ (w * k)) .. -1 /\ d = 2 ^ w - 1
  PROVE  [i \in 1 .. p |-> d] \o DigitsOf(n, w, k) = DigitsOf(n, w, k + p)
<1> DEFINE z == [i \in 1 .. p |-> d]
           e == DigitsOf(n, w, k)
           f == DigitsOf(n, w, k + p)
           B == 2 ^ w
<1>1. PICK m \in Nat : m = k + p
  OBVIOUS
<1>2. e \in Seq(Int) /\ Len(e) = k /\ \A j \in 1 .. k : e[j] = (n \div (2 ^ (w * (k - j)))) % (2 ^ w)
  BY DigitsType, Zenon
<1>3. f \in Seq(Int) /\ Len(f) = m /\ \A j \in 1 .. m : f[j] = (n \div (2 ^ (w * (m - j)))) % (2 ^ w)
  BY <1>1, DigitsType, Zenon
<1>4. B \in Nat \ {0}
  BY PowerPositive
<1>5. z \in Seq(Int) /\ Len(z) = p /\ \A j \in 1 .. p : z[j] = d
  BY <1>4
<1> HIDE DEF z, e, f
<1>6. ASSUME NEW j \in 1 .. p PROVE f[j] = d
  <2> DEFINE Q == 2 ^ (w * (m - j))
             M == 2 ^ (w * k)
  <2>1. j \in 1 .. m /\ w * k \in Nat /\ w * (m - j) \in Nat /\ w * k <= w * (m - j)
    <3>1. k <= m - j /\ m - j \in Nat /\ j \in 1 .. m
      BY <1>1
    <3>2. \A x, y \in Nat : x <= y => w * x <= w * y /\ w * x \in Nat /\ w * y \in Nat
      OBVIOUS
    <3> QED
      BY <3>1, <3>2, Zenon
  <2>2. M \in Nat \ {0} /\ Q \in Nat \ {0} /\ M <= Q
    BY <2>1, PowerPositive, PowerGrows, Zenon
  <2>3. f[j] = (n \div Q) % B
    BY <1>3, <2>1, Zenon
  <2> HIDE DEF Q
  <2>4. \/ n \in 0 .. M - 1 /\ d = 0
        \/ n \in -M .. -1 /\ d = B - 1
    OBVIOUS
  <2> HIDE DEF M, B
  <2>5. CASE n \in 0 .. M - 1 /\ d = 0
    <3>1. n = 0 * Q + n /\ n \in 0 .. Q - 1
      BY <2>2, <2>5
    <3>2. n \div Q = 0
      BY <2>2, <3>1, DivideUnique, SMT
    <3> QED
      BY <1>4, <2>3, <2>5, <3>2
  <2>6. CASE n \in -M .. -1 /\ d = B - 1
    <3>1. n = (-1) * Q + (n + Q) /\ n + Q \in 0 .. Q - 1
      BY <2>2, <2>6
    <3>2. n \div Q = -1
      BY <2>2, <3>1, DivideUnique, SMT
    <3>3. -1 = (-1) * B + (B - 1) /\ B - 1 \in 0 .. B - 1
      BY <1>4
    <3>4. (-1) % B = B - 1
      BY <1>4, <3>3, DivideUnique
    <3> QED
      BY <2>3, <2>6, <3>2, <3>4
  <2> QED
    BY <2>4, <2>5, <2>6, Zenon
<1>7. ASSUME NEW j \in 1 .. k PROVE f[p + j] = e[j]
  <2>1. p + j \in 1 .. m /\ m - (p + j) = k - j
    BY <1>1
  <2>2. f[p + j] = (n \div (2 ^ (w * (m - (p + j))))) % (2 ^ w)
    BY <1>3, <2>1, Zenon
  <2>3. e[j] = (n \div (2 ^ (w * (k - j)))) % (2 ^ w)
    BY <1>2, Zenon
  <2> QED
    BY <2>1, <2>2, <2>3, Zenon
<1>8. /\ z \o e \in Seq(Int) /\ Len(z \o e) = p + k
      /\ \A j \in 1 .. p : (z \o e)[j] = z[j]
      /\ \A j \in 1 .. k : (z \o e)[p + j] = e[j]
  BY <1>2, <1>5, Concatenated, Zenon
<1>9. Len(z \o e) = Len(f)
  BY <1>1, <1>3, <1>8
<1>10. ASSUME NEW j \in 1 .. m PROVE (z \o e)[j] = f[j]
  <2>1. CASE j \in 1 .. p
    BY <1>5, <1>6, <1>8, <2>1, Zenon
  <2>2. CASE j \notin 1 .. p
    <3>1. PICK i \in 1 .. k : j = p + i
      <4>1. j - p \in 1 .. k /\ j = p + (j - p)
        BY <1>1, <2>2
      <4> QED
        BY <4>1, Zenon
    <3> QED
      BY <1>7, <1>8, <3>1, Zenon
  <2> QED
    BY <2>1, <2>2, Zenon
<1>11. z \o e = f
  BY <1>3, <1>8, <1>9, <1>10, SameElements, Zenon
<1> QED
  BY <1>1, <1>11, Zenon DEF z, e, f

\* What is beyond the digits does not change them.
LEMMA DigitsOfRest ==
  ASSUME NEW n \in Int, NEW w \in Nat, NEW k \in Nat
  PROVE  DigitsOf(n % (2 ^ (w * k)), w, k) = DigitsOf(n, w, k)
<1> DEFINE M == 2 ^ (w * k)
           r == n % M
           q == n \div M
           B == 2 ^ w
<1>1. M \in Nat \ {0} /\ B \in Nat \ {0}
  BY PowerDigits, Zenon
<1> HIDE DEF M, B
<1>2. r \in Int /\ q \in Int /\ n = q * M + r
  <2>1. r \in 0 .. M - 1 /\ q \in Int /\ n = q * M + r
    BY <1>1, Divides, Zenon
  <2> HIDE DEF r
  <2> QED
    BY <1>1, <2>1
<1>3. ASSUME NEW i \in 1 .. k PROVE (r \div (2 ^ (w * (k - i)))) % B = (n \div (2 ^ (w * (k - i)))) % B
  <2> DEFINE Q == 2 ^ (w * (k - i))
             R == 2 ^ (w * (i - 1))
  <2>1. k - i \in Nat /\ i - 1 \in Nat /\ w * (k - i) \in Nat /\ w * (i - 1) \in Nat /\ w \in Nat
        /\ w * k = w * (k - i) + (w * (i - 1) + w) /\ w * (i - 1) + w \in Nat
    OBVIOUS
  <2>2. Q \in Nat \ {0} /\ R \in Nat \ {0}
    BY <2>1, PowerPositive, Zenon
  <2>3. M = Q * (R * B)
    <3>1. M = Q * 2 ^ (w * (i - 1) + w)
      BY <2>1, PowerAdd, Zenon DEF M
    <3>2. 2 ^ (w * (i - 1) + w) = R * B
      BY <2>1, PowerAdd, Zenon DEF B
    <3> QED
      BY <3>1, <3>2, Zenon
  <2> HIDE DEF Q, R, M, B, r, q
  <2> DEFINE x == r \div Q
             y == r % Q
             c == q * R
  <2>4. x \in Int /\ y \in 0 .. Q - 1 /\ r = x * Q + y
    BY <1>2, <2>2, Divides, Zenon
  <2>5. c \in Int
    BY <1>2, <2>2
  <2>6. n = (c * B + x) * Q + y
    BY <1>1, <1>2, <2>2, <2>3, <2>4
  <2> HIDE DEF c, x, y
  <2>7. c * B + x \in Int
    BY <1>1, <2>4, <2>5
  <2>8. n \div Q = c * B + x
    BY <2>2, <2>4, <2>6, <2>7, DivideUnique, Zenon
  <2>9. x \div B \in Int /\ x % B \in 0 .. B - 1 /\ x = (x \div B) * B + (x % B)
    BY <1>1, <2>4, Divides, Zenon
  <2>10. c * B + x = (c + (x \div B)) * B + (x % B) /\ c + (x \div B) \in Int
    BY <1>1, <2>4, <2>5, <2>9
  <2>11. (c * B + x) % B = x % B
    BY <1>1, <2>7, <2>9, <2>10, DivideUnique, Zenon
  <2> QED
    BY <2>8, <2>11, Zenon DEF x, Q
<1> QED
  BY <1>3, Zenon DEF DigitsOf, B, r, M
\* A number is less than the power of two that its digits have room for.
LEMMA NumeralBound ==
  ASSUME NEW w \in Nat, NEW ds \in Seq(0 .. 2 ^ w - 1)
  PROVE  ds \in Seq(Int) /\ FromDigits(ds, w) \in 0 .. 2 ^ (w * Len(ds)) - 1
<1> DEFINE B == 2 ^ w
           k == Len(ds)
           P == [j \in 0 .. k |-> 2 ^ (w * j)]
<1>1. B \in Nat \ {0} /\ k \in Nat
  BY PowerPositive
<1>2. ds \in Seq(Int) /\ \A i \in 1 .. k : ds[i] \in 0 .. B - 1
  BY <1>1
<1>3. PICK u : IsNumeral(u, ds, w)
  BY <1>2, NumeralExists, Zenon
<1>4. P[0] = 1 /\ P[k] = 2 ^ (w * k)
  BY <1>1, PowerDigits
<1>5. \A j \in 0 .. k : P[j] \in Nat \ {0}
  BY <1>1, PowerDigits
<1>6. ASSUME NEW j \in 0 .. k - 1 PROVE P[j + 1] = P[j] * B
  <2>1. j \in 0 .. k /\ j + 1 \in 0 .. k /\ j \in Nat
    BY <1>1
  <2>2. 2 ^ (w * (j + 1)) = 2 ^ (w * j) * 2 ^ w
    BY <2>1, PowerDigits, ZenonT(60)
  <2> QED
    BY <2>1, <2>2
<1>7. /\ u[0] = 0 /\ FromDigits(ds, w) = u[k]
      /\ \A i \in 1 .. k : u[i] = u[i - 1] * B + ds[i]
  BY <1>3, Zenon DEF IsNumeral
<1> HIDE DEF P, B, k
<1> DEFINE G == {i \in 0 .. k : u[i] \in 0 .. P[i] - 1}
<1>8. 0 \in G
  BY <1>1, <1>4, <1>7
<1>9. ASSUME NEW i \in 0 .. k - 1, i \in G PROVE i + 1 \in G
  <2>1. i + 1 \in 1 .. k /\ i + 1 - 1 = i /\ i \in 0 .. k /\ i + 1 \in 0 .. k
    BY <1>1
  <2>2. u[i + 1] = u[i] * B + ds[i + 1]
    <3>1. u[i + 1] = u[i + 1 - 1] * B + ds[i + 1]
      BY <1>7, <2>1
    <3> QED
      BY <2>1, <3>1, Zenon
  <2> DEFINE x == u[i]
             d == ds[i + 1]
             p == P[i]
  <2>3. x \in 0 .. p - 1 /\ d \in 0 .. B - 1 /\ p \in Nat \ {0} /\ P[i + 1] = p * B
    BY <1>2, <1>5, <1>6, <1>9, <2>1, Zenon
  <2>4. u[i + 1] = x * B + d
    BY <2>2, Zenon
  <2> HIDE DEF x, d, p
  <2>5. x + 1 <= p /\ (x + 1) * B <= p * B
    BY <1>1, <2>3
  <2>6. x * B + d \in 0 .. p * B - 1
    BY <1>1, <2>3, <2>5
  <2> QED
    BY <2>1, <2>3, <2>4, <2>6
<1> HIDE DEF G
<1>10. \A i \in 0 .. k : i \in G
  BY <1>1, <1>8, <1>9, SetInduction, Zenon
<1>11. k \in 0 .. k
  BY <1>1
<1>12. u[k] \in 0 .. P[k] - 1
  BY <1>10, <1>11, Zenon DEF G
<1> QED
  BY <1>2, <1>4, <1>7, <1>12, Zenon DEF k

\* Zeros in front do not change a number.
LEMMA NumeralZeros ==
  ASSUME NEW w \in Nat, NEW p \in Nat, NEW ds \in Seq(Int)
  PROVE  FromDigits([i \in 1 .. p |-> 0] \o ds, w) = FromDigits(ds, w)
<1> DEFINE z == [i \in 1 .. p |-> 0]
           e == z \o ds
           k == Len(ds)
           B == 2 ^ w
<1>1. z \in Seq(Int) /\ Len(z) = p /\ \A j \in 1 .. p : z[j] = 0
  OBVIOUS
<1> HIDE DEF z
<1>2. /\ e \in Seq(Int) /\ Len(e) = p + k
      /\ \A j \in 1 .. p : e[j] = 0
      /\ \A j \in 1 .. k : e[p + j] = ds[j]
  <2>1. /\ e \in Seq(Int) /\ Len(e) = Len(z) + k
        /\ \A j \in 1 .. Len(z) : e[j] = z[j]
        /\ \A j \in 1 .. k : e[Len(z) + j] = ds[j]
    BY <1>1, Concatenated, Zenon
  <2> QED
    BY <1>1, <2>1, Zenon
<1>3. B \in Nat \ {0} /\ k \in Nat
  BY PowerPositive
<1>4. PICK u : IsNumeral(u, ds, w)
  BY NumeralExists, Zenon
<1>5. PICK v : IsNumeral(v, e, w)
  BY <1>2, NumeralExists, Zenon
<1>6. PICK m \in Nat : m = p + k
  BY <1>3
<1>7. /\ u[0] = 0 /\ FromDigits(ds, w) = u[k]
      /\ \A i \in 1 .. k : u[i] = u[i - 1] * B + ds[i]
  BY <1>4, Zenon DEF IsNumeral
<1>8. /\ v[0] = 0 /\ FromDigits(e, w) = v[m]
      /\ \A i \in 1 .. m : v[i] = v[i - 1] * B + e[i]
  BY <1>2, <1>5, <1>6, Zenon DEF IsNumeral
<1> HIDE DEF e, k, B
<1> DEFINE G == {i \in 0 .. p : v[i] = 0}
           H == {i \in 0 .. k : v[p + i] = u[i]}
<1>9. \A i \in 0 .. p : i \in G
  <2>1. 0 \in G
    BY <1>8
  <2>2. ASSUME NEW i \in 0 .. p - 1, i \in G PROVE i + 1 \in G
    <3>1. PICK j \in 1 .. m : j = i + 1 /\ j \in 1 .. p /\ j - 1 = i
      BY <1>3, <1>6
    <3>2. v[j] = v[j - 1] * B + e[j]
      BY <1>8, Zenon
    <3>3. e[j] = 0 /\ v[j - 1] = 0
      BY <1>2, <2>2, <3>1, Zenon
    <3>4. v[j] = 0
      BY <1>3, <3>2, <3>3
    <3> QED
      BY <3>1, <3>4
  <2> HIDE DEF G
  <2> QED
    BY <2>1, <2>2, SetInduction, Zenon
<1>10. \A i \in 0 .. k : i \in H
  <2>1. 0 \in H
    <3>1. p \in 0 .. p /\ p + 0 = p
      OBVIOUS
    <3>2. v[p] = 0
      BY <1>9, <3>1, Zenon DEF G
    <3> QED
      BY <1>3, <1>7, <3>1, <3>2
  <2>2. ASSUME NEW i \in 0 .. k - 1, i \in H PROVE i + 1 \in H
    <3>1. PICK j \in 1 .. k : j = i + 1 /\ j - 1 = i
      BY <1>3
    <3>2. PICK q \in 1 .. m : q = p + j /\ q - 1 = p + i
      BY <1>3, <1>6, <3>1
    <3>3. v[q] = v[q - 1] * B + e[q]
      BY <1>8, Zenon
    <3>4. u[j] = u[j - 1] * B + ds[j]
      BY <1>7, Zenon
    <3>5. v[q - 1] = u[j - 1]
      BY <2>2, <3>1, <3>2, Zenon
    <3>6. e[q] = ds[j]
      BY <1>2, <3>2, Zenon
    <3>7. v[q] = u[j]
      BY <3>3, <3>4, <3>5, <3>6, Zenon
    <3> QED
      BY <3>1, <3>2, <3>7
  <2> HIDE DEF H
  <2> QED
    BY <1>3, <2>1, <2>2, SetInduction, Zenon
<1>11. k \in 0 .. k
  BY <1>3
<1>12. v[p + k] = u[k]
  BY <1>10, <1>11, Zenon DEF H
<1> QED
  BY <1>6, <1>7, <1>8, <1>12, Zenon DEF e, z
=============================================================================
