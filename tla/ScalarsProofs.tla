--------------------------- MODULE ScalarsProofs ----------------------------
(***************************************************************************)
(* Proofs about Scalars, for bytes of any number of bits and all values of *)
(* the Go types: what Marshal writes has the lengths of its type and       *)
(* Unmarshal reads it as what it was.                                      *)
(*                                                                         *)
(* encodeBigInt writes the two's complement of its number, with a length   *)
(* that is a multiple of eight, and unpadBigInt leaves one with fewer      *)
(* bytes.  What is left are divisions.                                     *)
(***************************************************************************)
EXTENDS Scalars, Arithmetic, TLAPS

\* The provers have a minute for every leaf that asks for no other.
USE SMTT(60), ZenonT(60)

----------------------------------------------------------------------------
(***************************************************************************)
(* Bytes.                                                                  *)
(***************************************************************************)

\* The numbers of k bytes.
LEMMA PowFacts ==
  ASSUME NEW k \in Nat
  PROVE  /\ Pow(k) \in Nat \ {0}
         /\ Pow(k + 1) = Pow(k) * Base
         /\ \A m \in Nat : k <= m => Pow(k) <= Pow(m)
         /\ k # 0 => Pow(k) \div 2 \in Nat \ {0} /\ Pow(k) = 2 * (Pow(k) \div 2)
<1>1. ByteBits \in Nat \ {0} /\ ByteBits \in Nat /\ ByteBits * k \in Nat
  BY ByteAssumption
<1>2. Pow(k) \in Nat \ {0} /\ Pow(k + 1) = Pow(k) * Base
  BY <1>1, PowerDigits, Zenon DEF Pow, Base
<1>3. ASSUME NEW m \in Nat, k <= m PROVE Pow(k) <= Pow(m)
  <2>1. ByteBits * m \in Nat /\ ByteBits * k <= ByteBits * m
    BY <1>1, <1>3
  <2> QED
    BY <1>1, <2>1, PowerGrows, Zenon DEF Pow
<1>4. ASSUME k # 0 PROVE Pow(k) \div 2 \in Nat \ {0} /\ Pow(k) = 2 * (Pow(k) \div 2)
  <2>1. ByteBits * k \in Nat \ {0}
    BY <1>1, <1>4
  <2> QED
    BY <2>1, PowerEven, Zenon DEF Pow
<1> QED
  BY <1>2, <1>3, <1>4, Zenon

\* A byte has at least two values.
LEMMA BaseFacts == Base \in Nat \ {0} /\ Base \div 2 \in Nat \ {0} /\ Base = 2 * (Base \div 2) /\ Pow(0) = 1 /\ Pow(1) = Base
<1>1. ByteBits * 1 = ByteBits /\ ByteBits * 0 = 0 /\ 2 ^ 0 = 1 /\ 1 # 0 /\ 1 \in Nat
  BY ByteAssumption
<1>2. Pow(1) = Base /\ Pow(0) = 1
  BY <1>1, Zenon DEF Pow, Base
<1>3. Pow(1) \in Nat \ {0} /\ Pow(1) \div 2 \in Nat \ {0} /\ Pow(1) = 2 * (Pow(1) \div 2)
  BY <1>1, PowFacts, Zenon
<1> QED
  BY <1>2, <1>3, Zenon

\* PutUint32 and PutUint64 write k bytes, of which the i-th is a digit.
LEMMA BigEndianIs ==
  ASSUME NEW n \in Int, NEW k \in Nat
  PROVE  /\ BigEndian(n, k) \in Seq(Int) /\ Len(BigEndian(n, k)) = k
         /\ \A i \in 1 .. k : BigEndian(n, k)[i] = (n \div Pow(k - i)) % Base
<1>1. ByteBits \in Nat
  BY ByteAssumption
<1> QED
  BY <1>1, DigitsType, Zenon DEF BigEndian, Pow, Base

\* Uint32 and Uint64 read what PutUint32 and PutUint64 write.
LEMMA UnsignedBytes ==
  ASSUME NEW n \in Int, NEW k \in Nat
  PROVE  Unsigned(BigEndian(n, k)) = n % Pow(k)
<1>1. ByteBits \in Nat
  BY ByteAssumption
<1> QED
  BY <1>1, FromDigitsOf, Zenon DEF BigEndian, Pow, Unsigned

\* The top bit of the first byte is the sign.
LEMMA TopBitBytes ==
  ASSUME NEW n \in Int, NEW k \in Nat \ {0}
  PROVE  TopBit(BigEndian(n, k)[1]) <=> n % Pow(k) >= Pow(k) \div 2
BY TopDigit, ByteAssumption, Zenon DEF BigEndian, Pow, Base, TopBit

\* Two's complement.
LEMMA RestFits ==
  ASSUME NEW n \in Int, NEW k \in Nat \ {0}, Fits(n, k)
  PROVE  /\ n >= 0 => n % Pow(k) = n /\ n < Pow(k) \div 2
         /\ n < 0 => n % Pow(k) = n + Pow(k) /\ n + Pow(k) >= Pow(k) \div 2
<1> DEFINE M == Pow(k)
           H == Pow(k) \div 2
<1>1. M \in Nat \ {0} /\ H \in Nat \ {0} /\ M = 2 * H
  BY PowFacts, Zenon
<1>2. -H <= n /\ n < H
  BY Zenon DEF Fits
<1> HIDE DEF M, H
<1>3. /\ n >= 0 => n % M = n /\ n < H
      /\ n < 0 => n % M = n + M /\ n + M >= H
  <2>1. /\ 0 <= n /\ n < M => n % M = n
        /\ -M <= n /\ n < 0 => n % M = n + M
    BY <1>1, RestSmall, Zenon
  <2> QED
    BY <1>1, <1>2, <2>1
<1> QED
  BY <1>3, Zenon DEF M, H

\* Reading the two's complement gives the number.
LEMMA SignedBytes ==
  ASSUME NEW n \in Int, NEW k \in Nat \ {0}, Fits(n, k)
  PROVE  Signed(BigEndian(n, k)) = n
<1> DEFINE M == Pow(k)
           H == Pow(k) \div 2
           t == TopBit(BigEndian(n, k)[1])
<1>1. M \in Nat \ {0} /\ H \in Nat \ {0} /\ M = 2 * H
  BY PowFacts, Zenon
<1>2. t <=> n % M >= H
  BY TopBitBytes, Zenon
<1>3. Signed(BigEndian(n, k)) = (n % M) - (IF t THEN M ELSE 0)
  BY UnsignedBytes, BigEndianIs, Zenon DEF Signed
<1>4. /\ n >= 0 => n % M = n /\ n < H
      /\ n < 0 => n % M = n + M /\ n + M >= H
  BY RestFits, Zenon
<1> HIDE DEF M, H, t
<1>5. CASE n >= 0
  BY <1>1, <1>2, <1>3, <1>4, <1>5
<1>6. CASE n < 0
  BY <1>1, <1>2, <1>3, <1>4, <1>6
<1> QED
  BY <1>5, <1>6

\* A byte that only repeats the sign is not needed.
LEMMA FitsLess ==
  ASSUME NEW n \in Int, NEW k \in Nat \ {0}, Fits(n, k + 1), IsPad(BigEndian(n, k + 1), 1)
  PROVE  Fits(n, k)
<1> DEFINE M == Pow(k)
           H == Pow(k) \div 2
           h == Base \div 2
           d == (n \div M) % Base
           r == n % M
<1>1. M \in Nat \ {0} /\ H \in Nat \ {0} /\ M = 2 * H /\ Pow(k + 1) = M * Base
  BY PowFacts, Zenon
<1>2. Base \in Nat \ {0} /\ h \in Nat \ {0} /\ Base = 2 * h
  BY BaseFacts, Zenon
<1>3. PICK m \in Nat \ {0} : m = k + 1
  OBVIOUS
<1>4. m \in Nat /\ 1 \in 1 .. m /\ 2 \in 1 .. m /\ m - 1 = k /\ m - 2 = k - 1 /\ 1 + 1 = 2 /\ 1 \in 1 .. k /\ k \in Nat
  BY <1>3
<1>5. /\ BigEndian(n, m)[1] = d
      /\ BigEndian(n, m)[2] = BigEndian(n, k)[1]
  <2>1. BigEndian(n, m)[1] = (n \div Pow(m - 1)) % Base /\ BigEndian(n, m)[2] = (n \div Pow(m - 2)) % Base
    BY <1>4, BigEndianIs, Zenon
  <2>2. BigEndian(n, k)[1] = (n \div Pow(k - 1)) % Base
    BY <1>4, BigEndianIs, Zenon
  <2> QED
    BY <1>4, <2>1, <2>2, Zenon
<1>6. d = IF r >= H THEN Base - 1 ELSE 0
  BY <1>3, <1>4, <1>5, TopBitBytes, Zenon DEF IsPad
<1>7. n % (M * Base) = d * M + r /\ r \in 0 .. M - 1
  BY <1>1, <1>2, RestTwice, Divides, ZenonT(60)
<1>8. /\ n >= 0 => n % (M * Base) = n /\ n < (M * Base) \div 2
      /\ n < 0 => n % (M * Base) = n + M * Base /\ n + M * Base >= (M * Base) \div 2
  <2>1. Fits(n, m) /\ Pow(m) = M * Base
    BY <1>1, <1>3, Zenon
  <2>2. /\ n >= 0 => n % Pow(m) = n /\ n < Pow(m) \div 2
        /\ n < 0 => n % Pow(m) = n + Pow(m) /\ n + Pow(m) >= Pow(m) \div 2
    BY <2>1, RestFits, Zenon
  <2> QED
    BY <2>1, <2>2, Zenon
<1>9. (M * Base) \div 2 = M * h
  <2> HIDE DEF M, h
  <2>1. M * h \in Int /\ M * Base = 2 * (M * h)
    BY <1>1, <1>2
  <2>2. \A x \in Int : (2 * x) \div 2 = x
    OBVIOUS
  <2> QED
    BY <2>1, <2>2, Zenon
<1> HIDE DEF M, H, h, d, r
<1>10. CASE r >= H
  <2>1. n % (M * Base) = M * Base - M + r
    BY <1>1, <1>2, <1>6, <1>7, <1>10
  <2>2. n < 0
    <3>1. M <= M * h /\ M * Base = 2 * (M * h)
      BY <1>1, <1>2
    <3>2. M * Base - M + r >= M * h
      BY <1>1, <1>2, <1>7, <3>1
    <3> QED
      BY <1>1, <1>2, <1>8, <1>9, <2>1, <3>2
  <2>3. n = r - M
    BY <1>1, <1>2, <1>7, <1>8, <2>1, <2>2
  <2> QED
    BY <1>1, <1>7, <1>10, <2>3 DEF Fits, M, H
<1>11. CASE ~(r >= H)
  <2>1. n % (M * Base) = r
    BY <1>1, <1>6, <1>7, <1>11
  <2>2. n >= 0
    <3>1. M <= M * h /\ r < M
      BY <1>1, <1>2, <1>7
    <3> QED
      BY <1>1, <1>2, <1>7, <1>8, <1>9, <2>1, <3>1
  <2>3. n = r
    BY <1>8, <2>1, <2>2
  <2> QED
    BY <1>1, <1>7, <1>11, <2>3 DEF Fits, M, H
<1> QED
  BY <1>10, <1>11, Zenon

----------------------------------------------------------------------------
(***************************************************************************)
(* Big integers.                                                           *)
(***************************************************************************)

\* unpadBigInt leaves bytes that are enough.
LEMMA UnpadBytes ==
  ASSUME NEW n \in Int, NEW k \in Nat \ {0}, Fits(n, k)
  PROVE  \E m \in Nat \ {0} : unpadBigInt(BigEndian(n, k)) = BigEndian(n, m) /\ Fits(n, m)
<1> DEFINE bs == BigEndian(n, k)
           I == {i \in 1 .. k : i = k \/ ~IsPad(bs, i)}
<1>1. k \in Nat /\ bs \in Seq(Int) /\ Len(bs) = k /\ \A i \in 1 .. k : bs[i] = (n \div Pow(k - i)) % Base
  <2>1. k \in Nat
    OBVIOUS
  <2> QED
    BY <2>1, BigEndianIs, Zenon
<1>2. bs # <<>>
  BY <1>1
<1>3. I \in SUBSET Nat /\ k \in I
  OBVIOUS
<1>4. \E x \in I : \A y \in I : x <= y
  BY <1>3, SmallestElement, Zenon
<1> DEFINE f == Min(I)
<1>5. f \in I /\ \A y \in I : f <= y
  BY <1>4, Zenon DEF Min
<1>6. unpadBigInt(bs) = SubSeq(bs, f, k)
  BY <1>1, <1>2, Zenon DEF unpadBigInt
<1> HIDE DEF f, bs
<1>7. f \in 1 .. k /\ \A i \in 1 .. f - 1 : i # k /\ IsPad(bs, i)
  <2>1. f \in 1 .. k
    BY <1>5
  <2>2. \A i \in 1 .. f - 1 : i \in 1 .. k /\ ~(f <= i)
    BY <2>1
  <2> QED
    BY <1>5, <2>1, <2>2, Zenon
<1> DEFINE G == {j \in 0 .. f - 1 : Fits(n, k - j)}
<1>8. 0 \in G
  <2>1. 0 \in 0 .. f - 1 /\ k - 0 = k
    BY <1>7
  <2> QED
    BY <2>1, Zenon
<1>9. ASSUME NEW j \in 0 .. (f - 1) - 1, j \in G PROVE j + 1 \in G
  <2>1. PICK m \in Nat \ {0}, l \in Nat \ {0} : m = k - j /\ l = k - (j + 1) /\ l + 1 = m
    <3>1. k - j \in Nat \ {0} /\ k - (j + 1) \in Nat \ {0} /\ k - (j + 1) + 1 = k - j
      BY <1>7
    <3> QED
      BY <3>1, Zenon
  <2>2. PICK a \in 1 .. k, b \in 1 .. k : a = j + 1 /\ b = a + 1
    <3>1. j + 1 \in 1 .. k /\ j + 1 + 1 \in 1 .. k
      BY <1>7
    <3> QED
      BY <3>1, Zenon
  <2>3. a \in 1 .. f - 1 /\ k - a = m - 1 /\ k - b = m - 2 /\ 1 \in 1 .. m /\ 2 \in 1 .. m /\ 1 + 1 = 2 /\ m \in Nat
    BY <1>7, <2>1, <2>2
  <2>4. \A i \in 1 .. m : BigEndian(n, m)[i] = (n \div Pow(m - i)) % Base
    BY <2>3, BigEndianIs, Zenon
  <2>5. IsPad(BigEndian(n, m), 1)
    <3>1. IsPad(bs, a)
      BY <1>7, <2>3, Zenon
    <3>2. bs[a] = (n \div Pow(m - 1)) % Base /\ bs[b] = (n \div Pow(m - 2)) % Base
      BY <1>1, <2>3, Zenon
    <3>3. BigEndian(n, m)[1] = bs[a] /\ BigEndian(n, m)[2] = bs[b]
      BY <2>3, <2>4, <3>2, Zenon
    <3> QED
      BY <2>2, <2>3, <3>1, <3>3, Zenon DEF IsPad
  <2>6. Fits(n, m)
    BY <1>9, <2>1, Zenon
  <2>7. Fits(n, l)
    BY <2>1, <2>5, <2>6, FitsLess, Zenon
  <2>8. j + 1 \in 0 .. f - 1
    BY <1>7
  <2> QED
    BY <2>1, <2>7, <2>8, Zenon
<1> HIDE DEF G
<1>10. f - 1 \in Nat /\ f - 1 \in 0 .. f - 1 /\ k - (f - 1) = k - f + 1 /\ k - f + 1 \in Nat \ {0} /\ f \in 1 .. k + 1
  BY <1>7
<1>11. \A j \in 0 .. f - 1 : j \in G
  BY <1>8, <1>9, <1>10, SetInduction, Zenon
<1>12. Fits(n, k - f + 1)
  BY <1>10, <1>11, Zenon DEF G
<1>13. SubSeq(bs, f, k) = BigEndian(n, k - f + 1)
  <2>1. ByteBits \in Nat
    BY ByteAssumption
  <2> QED
    BY <1>1, <1>10, <2>1, DigitsTail, ZenonT(60) DEF bs, BigEndian
<1> QED
  BY <1>6, <1>10, <1>12, <1>13, Zenon DEF bs

\* There are powers of two beyond any number.
LEMMA PowerBeyond ==
  ASSUME NEW n \in Nat
  PROVE  n < 2 ^ n
<1> DEFINE G == {m \in 0 .. n : m < 2 ^ m}
<1>1. 0 \in G
  OBVIOUS
<1>2. ASSUME NEW m \in 0 .. n - 1, m \in G PROVE m + 1 \in G
  <2>1. m \in Nat /\ 1 \in Nat /\ m + 1 \in 0 .. n /\ 2 ^ 1 = 2
    OBVIOUS
  <2>2. 2 ^ (m + 1) = 2 ^ m * 2 /\ 2 ^ m \in Nat \ {0}
    BY <2>1, PowerAdd, PowerPositive, ZenonT(60)
  <2>3. m < 2 ^ m
    BY <1>2
  <2> DEFINE p == 2 ^ m
  <2> HIDE DEF p
  <2>4. m + 1 < p * 2
    BY <2>1, <2>2, <2>3 DEF p
  <2> QED
    BY <2>1, <2>2, <2>4, Zenon DEF p
<1> HIDE DEF G
<1>3. \A m \in 0 .. n : m \in G
  BY <1>1, <1>2, SetInduction, Zenon
<1>4. n \in 0 .. n
  OBVIOUS
<1> QED
  BY <1>3, <1>4, Zenon DEF G

\* The length of a number in bits, and in bytes.
LEMMA BitLenIs ==
  ASSUME NEW n \in Nat
  PROVE  BitLen(n) \in Nat /\ n < 2 ^ BitLen(n)
<1> DEFINE T == {k \in 0 .. n : n < 2 ^ k}
           K(k) == n < 2 ^ k /\ \A j \in 0 .. k - 1 : 2 ^ j <= n
<1>1. T \in SUBSET Nat /\ n \in T
  BY PowerBeyond
<1>2. PICK k \in T : \A y \in T : k <= y
  BY <1>1, SmallestElement, Zenon
<1>3. k \in 0 .. n /\ n < 2 ^ k
  BY <1>2, Zenon
<1>4. ASSUME NEW j \in 0 .. k - 1 PROVE 2 ^ j <= n
  <2>1. j \in 0 .. n /\ j \in Nat /\ ~(k <= j)
    BY <1>3
  <2>2. ~(n < 2 ^ j)
    BY <1>2, <2>1, Zenon
  <2>3. 2 ^ j \in Nat \ {0}
    BY <2>1, PowerPositive, Zenon
  <2> QED
    BY <2>2, <2>3
<1>5. \E x \in 0 .. n : K(x)
  BY <1>3, <1>4, Zenon
<1>6. BitLen(n) \in 0 .. n /\ K(BitLen(n))
  BY <1>5, Zenon DEF BitLen
<1>7. \A x \in 0 .. n : x \in Nat
  OBVIOUS
<1> QED
  BY <1>6, <1>7, Zenon

\* big.Int.Bytes writes as many bytes as the number needs.
LEMMA ByteLenIs ==
  ASSUME NEW n \in Nat
  PROVE  ByteLen(n) \in Nat /\ n < Pow(ByteLen(n)) /\ \A j \in 0 .. ByteLen(n) - 1 : Pow(j) <= n
<1> DEFINE T == {k \in 0 .. n : n < Pow(k)}
           K(k) == n < Pow(k) /\ \A j \in 0 .. k - 1 : Pow(j) <= n
<1>1. T \in SUBSET Nat /\ n \in T
  <2>1. ByteBits * n \in Nat /\ n <= ByteBits * n
    BY ByteAssumption
  <2>2. n < 2 ^ n /\ 2 ^ n <= Pow(n)
    BY <2>1, PowerBeyond, PowerGrows, Zenon DEF Pow
  <2>3. 2 ^ n \in Nat \ {0} /\ Pow(n) \in Nat \ {0}
    BY PowFacts, PowerPositive, Zenon
  <2>4. n < Pow(n)
    BY <2>2, <2>3
  <2>5. n \in 0 .. n /\ 0 .. n \subseteq Nat
    OBVIOUS
  <2> QED
    BY <2>4, <2>5, Zenon
<1>2. PICK k \in T : \A y \in T : k <= y
  BY <1>1, SmallestElement, Zenon
<1>3. k \in 0 .. n /\ n < Pow(k)
  BY <1>2, Zenon
<1>4. ASSUME NEW j \in 0 .. k - 1 PROVE Pow(j) <= n
  <2>1. j \in 0 .. n /\ j \in Nat /\ ~(k <= j)
    BY <1>3
  <2>2. ~(n < Pow(j))
    BY <1>2, <2>1, Zenon
  <2>3. Pow(j) \in Nat \ {0}
    BY <2>1, PowFacts, Zenon
  <2> QED
    BY <2>2, <2>3
<1>5. \E x \in 0 .. n : K(x)
  BY <1>3, <1>4, Zenon
<1>6. ByteLen(n) \in 0 .. n /\ K(ByteLen(n))
  BY <1>5, Zenon DEF ByteLen
<1>7. \A x \in 0 .. n : x \in Nat
  OBVIOUS
<1> QED
  BY <1>6, <1>7, Zenon

\* Bytes in front of those of a number.
LEMMA BytesPad ==
  ASSUME NEW n \in Int, NEW k \in Nat, NEW p \in Nat, NEW d \in 0 .. Base - 1,
         (n \in 0 .. Pow(k) - 1 /\ d = 0) \/ (n \in -Pow(k) .. -1 /\ d = Base - 1)
  PROVE  [i \in 1 .. p |-> d] \o BigEndian(n, k) = BigEndian(n, k + p)
<1>1. ByteBits \in Nat
  BY ByteAssumption
<1>2. d \in 0 .. 2 ^ ByteBits - 1
  BY Zenon DEF Base
<1>3. \/ n \in 0 .. 2 ^ (ByteBits * k) - 1 /\ d = 0
      \/ n \in -(2 ^ (ByteBits * k)) .. -1 /\ d = 2 ^ ByteBits - 1
  BY Zenon DEF Base, Pow
<1>4. [i \in 1 .. p |-> d] \o DigitsOf(n, ByteBits, k) = DigitsOf(n, ByteBits, k + p)
  BY <1>1, <1>2, <1>3, DigitsPad, ZenonT(60)
<1> QED
  BY <1>4, Zenon DEF BigEndian

\* More bytes repeat the sign.
LEMMA SignBytes ==
  ASSUME NEW n \in Int, NEW k \in Nat \ {0}, Fits(n, k), NEW p \in Nat
  PROVE  /\ n >= 0 => Zeros(p) \o BigEndian(n, k) = BigEndian(n, k + p)
         /\ n < 0 => Ones(p) \o BigEndian(n, k) = BigEndian(n, k + p)
         /\ Fits(n, k + p)
<1> DEFINE M == Pow(k)
           H == Pow(k) \div 2
<1>1. M \in Nat \ {0} /\ H \in Nat \ {0} /\ M = 2 * H /\ k \in Nat /\ -H <= n /\ n < H
  BY PowFacts, Zenon DEF Fits
<1>3. Base \in Nat \ {0}
  BY BaseFacts, Zenon
<1>4. ASSUME n >= 0 PROVE Zeros(p) \o BigEndian(n, k) = BigEndian(n, k + p)
  <2>1. n \in 0 .. M - 1 /\ 0 \in 0 .. Base - 1
    <3> HIDE DEF M, H
    <3> QED
      BY <1>1, <1>3, <1>4
  <2> QED
    BY <1>1, <2>1, BytesPad, Zenon DEF Zeros
<1>5. ASSUME n < 0 PROVE Ones(p) \o BigEndian(n, k) = BigEndian(n, k + p)
  <2>1. n \in -M .. -1 /\ Base - 1 \in 0 .. Base - 1
    <3> HIDE DEF M, H
    <3> QED
      BY <1>1, <1>3, <1>5
  <2> QED
    BY <1>1, <2>1, BytesPad, Zenon DEF Ones
<1>6. Fits(n, k + p)
  <2>1. PICK m \in Nat \ {0} : m = k + p
    OBVIOUS
  <2>2. m \in Nat /\ k <= m
    BY <2>1
  <2> DEFINE N == Pow(m)
             G == Pow(m) \div 2
  <2>3. M <= N /\ N \in Nat \ {0} /\ G \in Nat \ {0} /\ N = 2 * G
    BY <1>1, <2>2, PowFacts, Zenon
  <2>4. -G <= n /\ n < G
    <3> HIDE DEF M, H, N, G
    <3> QED
      BY <1>1, <2>3
  <2> QED
    BY <2>1, <2>4, Zenon DEF Fits
<1> QED
  BY <1>4, <1>5, <1>6, Zenon

\* The bytes of a positive number are enough for its two's complement.
LEMMA PositiveBytes ==
  ASSUME NEW n \in Nat \ {0}
  PROVE  \E k \in Nat \ {0} : Positive(n) = BigEndian(n, k) /\ Fits(n, k)
<1> DEFINE k == ByteLen(n)
           M == Pow(k)
           H == Pow(k) \div 2
<1>1. k \in Nat /\ n < M /\ n \in Nat /\ n \in Int
  <2>1. n \in Nat /\ n \in Int
    OBVIOUS
  <2> QED
    BY <2>1, ByteLenIs, Zenon
<1>2. k # 0
  <2>1. ASSUME k = 0 PROVE FALSE
    <3>1. M = 1
      BY <2>1, BaseFacts, Zenon
    <3> QED
      BY <1>1, <3>1
  <2> QED
    BY <2>1, Zenon
<1> HIDE DEF k
<1>3. k \in Nat \ {0}
  BY <1>1, <1>2, Zenon
<1>4. M \in Nat \ {0} /\ H \in Nat \ {0} /\ M = 2 * H /\ Pow(k + 1) = M * Base
  BY <1>1, <1>2, PowFacts, Zenon
<1>5. Bytes(n) = BigEndian(n, k)
  BY Zenon DEF Bytes, k
<1>6. n % M = n
  <2> HIDE DEF M
  <2> QED
    BY <1>1, <1>4, RestSmall
<1>7. TopBit(Bytes(n)[1]) <=> n >= H
  BY <1>1, <1>3, <1>5, <1>6, TopBitBytes, Zenon
<1>8. CASE n >= H
  <2>1. Positive(n) = <<0>> \o BigEndian(n, k)
    BY <1>5, <1>7, <1>8, Zenon DEF Positive
  <2>2. <<0>> = [i \in 1 .. 1 |-> 0] /\ 1 \in Nat
    OBVIOUS
  <2>4. Base \in Nat \ {0} /\ Base \div 2 \in Nat \ {0} /\ Base = 2 * (Base \div 2)
    BY BaseFacts, Zenon
  <2>5. n \in 0 .. M - 1 /\ 0 \in 0 .. Base - 1
    <3> HIDE DEF M, H
    <3> QED
      BY <1>1, <1>4, <2>4
  <2>6. [i \in 1 .. 1 |-> 0] \o BigEndian(n, k) = BigEndian(n, k + 1)
    BY <1>1, <2>2, <2>5, BytesPad, ZenonT(60)
  <2>7. PICK m \in Nat \ {0} : m = k + 1
    BY <1>1
  <2> DEFINE N == Pow(m)
             G == Pow(m) \div 2
  <2>8. N \in Nat \ {0} /\ G \in Nat \ {0} /\ N = 2 * G /\ N = M * Base
    BY <1>4, <2>7, PowFacts, Zenon
  <2>9. -G <= n /\ n < G
    <3> DEFINE b == Base \div 2
    <3> HIDE DEF M, H, N, G, b
    <3>1. b \in Nat \ {0} /\ N = M * (2 * b)
      BY <2>4, <2>8, Zenon DEF b
    <3>2. M * (2 * b) = 2 * (M * b) /\ M <= M * b /\ M * b \in Nat
      BY <1>4, <3>1
    <3> QED
      BY <1>1, <1>4, <2>8, <3>1, <3>2
  <2>10. Fits(n, m)
    BY <2>9, Zenon DEF Fits
  <2> QED
    BY <2>1, <2>2, <2>6, <2>7, <2>10, Zenon
<1>9. CASE ~(n >= H)
  <2>1. Positive(n) = BigEndian(n, k)
    BY <1>5, <1>7, <1>9, Zenon DEF Positive
  <2>2. -H <= n /\ n < H
    <3> HIDE DEF M, H
    <3> QED
      BY <1>1, <1>4, <1>9
  <2> QED
    BY <1>3, <2>1, <2>2, Zenon DEF Fits
<1> QED
  BY <1>8, <1>9, Zenon

\* So are those of a negative one.
LEMMA NegativeBytes ==
  ASSUME NEW n \in Int, n < 0
  PROVE  \E k \in Nat \ {0} : Negative(n) = BigEndian(n, k) /\ Fits(n, k)
<1> DEFINE b == BitLen(-n)
           j == b \div ByteBits + 1
           M == Pow(j)
           H == Pow(j) \div 2
           r == n + M
           bs == BigEndian(n, j)
<1>1. -n \in Nat
  OBVIOUS
<1>2. b \in Nat /\ -n < 2 ^ b
  BY <1>1, BitLenIs, Zenon
<1> HIDE DEF b
<1>3. ByteBits \in Nat \ {0} /\ ByteBits \in Nat
  BY ByteAssumption
<1>4. j \in Nat \ {0} /\ j \in Nat /\ ByteBits * j \in Nat /\ b + 1 <= ByteBits * j /\ b + 1 \in Nat /\ 1 \in Nat /\ 2 ^ 1 = 2
  <2> DEFINE q == b \div ByteBits
  <2>1. q \in Int /\ b % ByteBits \in 0 .. ByteBits - 1 /\ b = q * ByteBits + (b % ByteBits)
    BY <1>2, <1>3, Divides
  <2> HIDE DEF q
  <2>2. q \in Nat
    BY <1>2, <1>3, <2>1
  <2>3. b + 1 <= ByteBits * (q + 1)
    BY <1>2, <1>3, <2>1, <2>2
  <2> QED
    BY <1>2, <1>3, <2>2, <2>3 DEF q
<1> HIDE DEF j
<1>5. M \in Nat \ {0} /\ H \in Nat \ {0} /\ M = 2 * H
  BY <1>4, PowFacts, Zenon
<1>6. -n < H
  <2>1. 2 ^ (b + 1) <= M /\ 2 ^ (b + 1) = 2 ^ b * 2 /\ 2 ^ b \in Nat \ {0}
    BY <1>2, <1>4, PowerAdd, PowerGrows, PowerPositive, Zenon DEF Pow
  <2> DEFINE p == 2 ^ b
  <2>2. p \in Nat \ {0} /\ p * 2 <= M /\ -n < p
    BY <1>2, <2>1, Zenon
  <2> HIDE DEF M, H, p
  <2> QED
    BY <1>5, <2>2
<1>7. r \in Nat /\ r < M /\ H <= r /\ n % M = r /\ -H <= n /\ n < H
  <2> HIDE DEF M, H
  <2> QED
    BY <1>5, <1>6, RestSmall
<1>8. Fits(n, j)
  BY <1>7, Zenon DEF Fits
<1>9. ByteLen(r) = j
  <2> DEFINE l == ByteLen(r)
  <2>1. l \in Nat /\ r < Pow(l) /\ \A i \in 0 .. l - 1 : Pow(i) <= r
    BY <1>7, ByteLenIs, Zenon
  <2> HIDE DEF l
  <2>2. ASSUME l < j PROVE FALSE
    <3>1. PICK m \in Nat : m + 1 = j /\ l <= m
      <4>1. j - 1 \in Nat /\ j - 1 + 1 = j /\ l <= j - 1
        BY <1>4, <2>1, <2>2
      <4> QED
        BY <4>1, Zenon
    <3>2. Pow(l) <= Pow(m) /\ Pow(m) * Base = M /\ Pow(m) \in Nat \ {0} /\ Pow(l) \in Nat \ {0}
      BY <2>1, <3>1, PowFacts, Zenon
    <3>3. Base \in Nat \ {0} /\ Base \div 2 \in Nat \ {0} /\ Base = 2 * (Base \div 2)
      BY BaseFacts, Zenon
    <3> DEFINE P == Pow(m)
               h == Base \div 2
    <3>4. Pow(l) <= P /\ P * (2 * h) = M /\ P \in Nat \ {0} /\ h \in Nat \ {0}
      BY <3>2, <3>3, Zenon
    <3> HIDE DEF P, h, M, H
    <3>5. P * (2 * h) = 2 * (P * h) /\ P <= P * h /\ P * h \in Nat
      BY <3>4
    <3> QED
      BY <1>5, <1>7, <2>1, <3>2, <3>4, <3>5
  <2>3. ASSUME j < l PROVE FALSE
    <3>1. j \in 0 .. l - 1
      BY <1>4, <2>1, <2>3
    <3>2. M <= r
      BY <2>1, <3>1, Zenon
    <3> HIDE DEF M, H
    <3> QED
      BY <1>5, <1>7, <3>2
  <2>4. l = j
    BY <1>4, <2>1, <2>2, <2>3
  <2> QED
    BY <2>4, Zenon DEF l
<1>10. Bytes(r) = bs
  <2>1. BigEndian(n % M, j) = BigEndian(n, j)
    BY <1>3, <1>4, DigitsOfRest, Zenon DEF BigEndian, Pow
  <2>2. Bytes(r) = BigEndian(r, j)
    BY <1>9, Zenon DEF Bytes
  <2>3. n % M = r
    BY <1>7, Zenon
  <2> HIDE DEF M, H
  <2> QED
    BY <2>1, <2>2, <2>3, Zenon
<1>11. bs \in Seq(Int) /\ Len(bs) = j
  BY <1>4, BigEndianIs, Zenon
<1>12. Negative(n) = IF Len(bs) >= 2 /\ bs[1] = Base - 1 /\ TopBit(bs[2]) THEN Tail(bs) ELSE bs
  BY <1>10, Zenon DEF Negative, b, j
<1>13. CASE Len(bs) >= 2 /\ bs[1] = Base - 1 /\ TopBit(bs[2])
  <2>1. PICK k \in Nat \ {0} : k + 1 = j
    <3>1. j - 1 \in Nat \ {0} /\ j - 1 + 1 = j
      BY <1>4, <1>11, <1>13
    <3> QED
      BY <3>1, Zenon
  <2>2. 1 + 1 = 2 /\ 2 \in 1 .. j + 1 /\ j - 2 + 1 = k
    BY <1>4, <2>1
  <2>3. IsPad(bs, 1)
    BY <1>13, <2>2, Zenon DEF IsPad
  <2>4. Fits(n, k)
    BY <1>8, <2>1, <2>3, FitsLess, Zenon
  <2>5. SubSeq(bs, 2, j) = BigEndian(n, k)
    BY <1>3, <1>4, <2>2, DigitsTail, ZenonT(60) DEF BigEndian
  <2>6. Tail(bs) = SubSeq(bs, 2, j)
    <3> HIDE DEF bs
    <3> QED
      BY <1>11, <1>13
  <2> QED
    BY <1>12, <1>13, <2>4, <2>5, <2>6, Zenon
<1>14. CASE ~(Len(bs) >= 2 /\ bs[1] = Base - 1 /\ TopBit(bs[2]))
  BY <1>4, <1>8, <1>12, <1>14, Zenon
<1> QED
  BY <1>13, <1>14, Zenon

\* Padding fills up to a multiple of eight.
LEMMA PaddingFills ==
  ASSUME NEW k \in Nat
  PROVE  Padding(k) \in Nat /\ (k + Padding(k)) % 8 = 0
BY DEF Padding

\* encodeBigInt writes a two's complement that is a multiple of eight bytes
\* long.
LEMMA BigIntBytes ==
  ASSUME NEW n \in Int
  PROVE  \E k \in Nat \ {0} : encodeBigInt(n) = BigEndian(n, k) /\ Fits(n, k) /\ k % 8 = 0
<1>1. CASE n = 0
  <2>1. PICK k \in Nat \ {0} : k = 8
    OBVIOUS
  <2>2. k \in Nat /\ k % 8 = 0
    BY <2>1
  <2>3. Pow(k) \div 2 \in Nat \ {0}
    BY <2>1, <2>2, PowFacts, Zenon
  <2>4. Fits(n, k)
    <3> DEFINE H == Pow(k) \div 2
    <3>1. H \in Nat \ {0}
      BY <2>3, Zenon
    <3> HIDE DEF H
    <3>2. -H <= n /\ n < H
      BY <1>1, <3>1
    <3> QED
      BY <3>2, Zenon DEF Fits, H
  <2>5. encodeBigInt(n) = Zeros(k)
    BY <1>1, <2>1, Zenon DEF encodeBigInt
  <2>6. Zeros(k) \in Seq(Int) /\ Len(Zeros(k)) = k /\ \A i \in 1 .. k : Zeros(k)[i] = 0
    BY <2>2 DEF Zeros
  <2>7. BigEndian(n, k) \in Seq(Int) /\ Len(BigEndian(n, k)) = k
        /\ \A i \in 1 .. k : BigEndian(n, k)[i] = (n \div Pow(k - i)) % Base
    BY <2>2, BigEndianIs, Zenon
  <2>8. ASSUME NEW i \in 1 .. k PROVE (n \div Pow(k - i)) % Base = 0
    <3>1. PICK m \in Nat : m = k - i
      BY <2>2
    <3>2. Pow(m) \in Nat \ {0} /\ Base \in Nat \ {0}
      BY PowFacts, BaseFacts, Zenon
    <3> DEFINE P == Pow(m)
               B == Base
    <3>3. P \in Nat \ {0} /\ B \in Nat \ {0}
      BY <3>2, Zenon
    <3> HIDE DEF P, B
    <3>4. (n \div P) % B = 0
      BY <1>1, <3>3
    <3> QED
      BY <3>1, <3>4, Zenon DEF P, B
  <2>9. \A i \in 1 .. k : Zeros(k)[i] = BigEndian(n, k)[i]
    BY <2>6, <2>7, <2>8, Zenon
  <2>10. Zeros(k) = BigEndian(n, k)
    BY <2>6, <2>7, <2>9, SameElements, Zenon
  <2> QED
    BY <2>2, <2>4, <2>5, <2>10, Zenon
<1>2. CASE n > 0
  <2>1. n \in Nat \ {0} /\ n >= 0 /\ n # 0
    BY <1>2
  <2>2. PICK k \in Nat \ {0} : Positive(n) = BigEndian(n, k) /\ Fits(n, k)
    BY <2>1, PositiveBytes, Zenon
  <2>3. k \in Nat /\ Len(BigEndian(n, k)) = k
    BY BigEndianIs, Zenon
  <2>4. PICK p \in Nat : p = Padding(k) /\ (k + p) % 8 = 0
    BY <2>3, PaddingFills, Zenon
  <2>5. Zeros(p) \o BigEndian(n, k) = BigEndian(n, k + p) /\ Fits(n, k + p)
    BY <2>1, <2>2, SignBytes, Zenon
  <2>6. encodeBigInt(n) = Zeros(p) \o BigEndian(n, k)
    BY <1>2, <2>1, <2>2, <2>3, <2>4, Zenon DEF encodeBigInt
  <2>7. k + p \in Nat \ {0}
    OBVIOUS
  <2> QED
    BY <2>4, <2>5, <2>6, <2>7, ZenonT(60)
<1>3. CASE n < 0
  <2>1. ~(n > 0) /\ n # 0
    BY <1>3
  <2>2. PICK k \in Nat \ {0} : Negative(n) = BigEndian(n, k) /\ Fits(n, k)
    BY <1>3, NegativeBytes, Zenon
  <2>3. k \in Nat /\ Len(BigEndian(n, k)) = k
    BY BigEndianIs, Zenon
  <2>4. PICK p \in Nat : p = Padding(k) /\ (k + p) % 8 = 0
    BY <2>3, PaddingFills, Zenon
  <2>5. Ones(p) \o BigEndian(n, k) = BigEndian(n, k + p) /\ Fits(n, k + p)
    BY <1>3, <2>2, SignBytes, Zenon
  <2>6. encodeBigInt(n) = Ones(p) \o BigEndian(n, k)
    BY <2>1, <2>2, <2>3, <2>4, Zenon DEF encodeBigInt
  <2>7. k + p \in Nat \ {0}
    OBVIOUS
  <2> QED
    BY <2>4, <2>5, <2>6, <2>7, Zenon
<1> QED
  BY <1>1, <1>2, <1>3

\* unmarshalBigInt reads the number back.
LEMMA BigIntBack ==
  ASSUME NEW n \in Int
  PROVE  unmarshalBigInt(unpadBigInt(encodeBigInt(n))) = n
<1>1. PICK k \in Nat \ {0} : encodeBigInt(n) = BigEndian(n, k) /\ Fits(n, k)
  BY BigIntBytes, Zenon
<1>2. PICK m \in Nat \ {0} : unpadBigInt(BigEndian(n, k)) = BigEndian(n, m) /\ Fits(n, m)
  BY <1>1, UnpadBytes, Zenon
<1>3. Signed(BigEndian(n, m)) = n
  BY <1>2, SignedBytes, Zenon
<1>4. Len(BigEndian(n, m)) = m /\ Len(<<>>) = 0 /\ m # 0
  BY BigEndianIs
<1> QED
  BY <1>1, <1>2, <1>3, <1>4, Zenon DEF unmarshalBigInt

----------------------------------------------------------------------------
(***************************************************************************)
(* What encode writes.                                                     *)
(***************************************************************************)

\* The kinds differ.
LEMMA EncodeKindIs ==
  ASSUME NEW v
  PROVE  /\ v.kind = "string" => encodeKind(v) = Wrote(TypeTextString, v.s)
         /\ v.kind = "bytes" => encodeKind(v) = Wrote(TypeByteString, v.s)
         /\ v.kind = "bool" => encodeKind(v) = encodeBool(v.n)
         /\ IsNumber(v) => encodeKind(v) = IF v.n > MaxInt32 THEN Err("ErrIntOverflow") ELSE encodeInt(v.n)
         /\ v.kind \in {"int64", "uint64"} => encodeKind(v) = encodeLongInt(v.n)
BY DEF encodeKind, IsNumber, SmallInts, SmallUints

\* So do those of the special types.
LEMMA EncodeSpecialIs ==
  ASSUME NEW v, NEW flags
  PROVE  /\ v.kind = "bigint" => encodeSpecial(v, flags) = Wrote(TypeBigInteger, encodeBigInt(v.n))
         /\ v.kind = "duration" => encodeSpecial(v, flags) = encodeInterval(v.n)
         /\ v.kind = "time" => \/ encodeSpecial(v, flags) = encodeDateTimeExtended(v.n)
                               \/ encodeSpecial(v, flags) = encodeDateTime(v.n)
BY DEF encodeSpecial

\* The ways to write a value.
WritesNumber(i, l) ==
  \/ IsNumber(i.v) /\ (l = encodeInt(i.v.n) \/ l = encodeEnum(i.v.n))
  \/ i.v.kind \in {"int64", "uint64"} /\ l = encodeLongInt(i.v.n)
  \/ i.v.kind = "bool" /\ l = encodeBool(i.v.n)
  \/ i.v.kind = "bigint" /\ l = Wrote(TypeBigInteger, encodeBigInt(i.v.n))
  \/ i.v.kind = "duration" /\ l = encodeInterval(i.v.n)
  \/ i.v.kind = "time" /\ (l = encodeDateTimeExtended(i.v.n) \/ l = encodeDateTime(i.v.n))

WritesString(i, l) ==
  \/ i.v.kind = "string" /\ \E x : l = encodeInt(x) \/ l = encodeEnum(x)
  \/ i.v.kind = "string" /\ l = Wrote(TypeTextString, i.v.s)
  \/ i.v.kind = "bytes" /\ l = Wrote(TypeByteString, i.v.s)

\* What is not an error was written in one of them, or skipped.
LEMMA EncodeIs ==
  ASSUME NEW i \in Input, encode(i).res \in {"ok", "skip"}
  PROVE  \/ /\ encode(i) = None
            /\ i.v.kind = "nil" \/ EmptyBytes(i.v) \/ i.v = Zero(i.v.kind)
         \/ encode(i).res = "ok" /\ (WritesNumber(i, encode(i)) \/ WritesString(i, encode(i)))
<1> DEFINE l == encode(i)
<1>1. ASSUME NEW cause, cause \notin {"ok", "skip"}, l = Err(cause) PROVE FALSE
  BY <1>1 DEF Err
<1>2. \A t, b : Wrote(t, b).res = "ok"
  BY DEF Wrote
<1>3. i.v.kind \in Kinds \cup {"nil", "float"}
  BY DEF Input, GoValue
<1>4. CASE IsNil(i.v)
  <2>1. encode(i) = None
    BY <1>4, Zenon DEF encode
  <2>2. i.v.kind = "nil" \/ i.v = Zero(i.v.kind)
    BY <1>4 DEF IsNil, Zero
  <2> QED
    BY <2>1, <2>2, Zenon
<1>5. CASE i.v.kind = "float"
  <2>1. ~IsNil(i.v)
    BY <1>5 DEF IsNil, Zero
  <2>2. l = Err("ErrUnsupportedTypeError")
    BY <1>5, <2>1, Zenon DEF encode
  <2> QED
    BY <1>1, <2>2
<1>6. CASE i.v.kind \in Kinds /\ ~IsNil(i.v) /\ "omitempty" \in i.flags /\ isEmptyValue(i.v)
  <2>1. i.v.kind # "float"
    BY <1>6 DEF Kinds, SmallInts, SmallUints
  <2> QED
    BY <1>6, <2>1, Zenon DEF encode, isEmptyValue
<1>7. CASE i.v.kind \in Kinds /\ ~IsNil(i.v) /\ ~("omitempty" \in i.flags /\ isEmptyValue(i.v))
  <2>1. i.v.kind # "float"
    BY <1>7 DEF Kinds, SmallInts, SmallUints
  <2>2. i.tagged
    <3>1. ASSUME ~i.tagged PROVE FALSE
      <4>1. l = Err("ErrNoTag")
        BY <1>7, <2>1, <3>1, Zenon DEF encode
      <4> QED
        BY <1>1, <4>1
    <3> QED
      BY <3>1, Zenon
  <2>3. CASE AsEnum(i) /\ (IsNumber(i.v) \/ Parses(i))
    <3>1. l = encodeEnumOrMask(i)
      BY <1>7, <2>1, <2>2, <2>3, Zenon DEF encode
    <3>2. l = encodeInt(EnumNumber(i)) \/ l = encodeEnum(EnumNumber(i))
      BY <3>1, Zenon DEF encodeEnumOrMask
    <3>3. l.res = "ok"
      BY <1>2, <3>2, Zenon DEF encodeInt, encodeEnum
    <3>4. CASE IsNumber(i.v)
      BY <3>2, <3>3, <3>4, Zenon DEF EnumNumber, WritesNumber
    <3>5. CASE ~IsNumber(i.v)
      BY <2>3, <3>2, <3>3, <3>5, Zenon DEF Parses, WritesString
    <3> QED
      BY <3>4, <3>5, Zenon
  <2>4. CASE ~(AsEnum(i) /\ (IsNumber(i.v) \/ Parses(i)))
    <3>1. ~(AsEnum(i) /\ EnumError(i))
      <4>1. ASSUME AsEnum(i) /\ EnumError(i) PROVE FALSE
        <5>1. l = Err("ErrEnum")
          BY <1>7, <2>1, <2>2, <2>4, <4>1, ZenonT(60) DEF encode
        <5> QED
          BY <1>1, <5>1
      <4> QED
        BY <4>1, Zenon
    <3>2. l = IF i.v.kind \in SpecialTypes THEN encodeSpecial(i.v, i.flags) ELSE encodeKind(i.v)
      BY <1>7, <2>1, <2>2, <2>4, <3>1, ZenonT(60) DEF encode
    <3>3. CASE i.v.kind \in SpecialTypes
      <4>1. WritesNumber(i, l)
        BY <3>2, <3>3, EncodeSpecialIs, Zenon DEF SpecialTypes, WritesNumber
      <4>2. l = Wrote(TypeBigInteger, encodeBigInt(i.v.n)) \/ l = encodeInterval(i.v.n)
            \/ l = encodeDateTimeExtended(i.v.n) \/ l = encodeDateTime(i.v.n)
        BY <3>2, <3>3, EncodeSpecialIs, Zenon DEF SpecialTypes
      <4>3. l.res = "ok"
        BY <1>2, <4>2, Zenon DEF encodeInterval, encodeDateTimeExtended, encodeDateTime
      <4> QED
        BY <4>1, <4>3, Zenon
    <3>4. CASE i.v.kind \notin SpecialTypes
      <4>1. i.v.kind \in {"string", "bytes", "bool", "int64", "uint64"} \/ IsNumber(i.v)
        BY <1>7, <3>4 DEF Kinds, SpecialTypes, IsNumber
      <4>2. l = encodeKind(i.v)
        BY <3>2, <3>4, Zenon
      <4>3. CASE i.v.kind = "string"
        <5>1. l = Wrote(TypeTextString, i.v.s)
          BY <4>2, <4>3, EncodeKindIs, Zenon
        <5>2. l.res = "ok"
          BY <1>2, <5>1, Zenon
        <5> QED
          BY <4>3, <5>1, <5>2, Zenon DEF WritesString
      <4>4. CASE i.v.kind = "bytes"
        <5>1. l = Wrote(TypeByteString, i.v.s)
          BY <4>2, <4>4, EncodeKindIs, Zenon
        <5>2. l.res = "ok"
          BY <1>2, <5>1, Zenon
        <5> QED
          BY <4>4, <5>1, <5>2, Zenon DEF WritesString
      <4>5. CASE i.v.kind = "bool"
        <5>1. l = encodeBool(i.v.n)
          BY <4>2, <4>5, EncodeKindIs, Zenon
        <5>2. l.res = "ok"
          BY <1>2, <5>1, Zenon DEF encodeBool
        <5> QED
          BY <4>5, <5>1, <5>2, Zenon DEF WritesNumber
      <4>6. CASE i.v.kind \in {"int64", "uint64"}
        <5>1. l = encodeLongInt(i.v.n)
          BY <4>2, <4>6, EncodeKindIs, Zenon
        <5>2. l.res = "ok"
          BY <1>2, <5>1, Zenon DEF encodeLongInt
        <5> QED
          BY <4>6, <5>1, <5>2, Zenon DEF WritesNumber
      <4>7. CASE IsNumber(i.v)
        <5>1. ~(i.v.n > MaxInt32)
          <6>1. ASSUME i.v.n > MaxInt32 PROVE FALSE
            <7>1. l = Err("ErrIntOverflow")
              BY <4>2, <4>7, <6>1, EncodeKindIs, Zenon
            <7> QED
              BY <1>1, <7>1
          <6> QED
            BY <6>1, Zenon
        <5>2. l = encodeInt(i.v.n)
          BY <4>2, <4>7, <5>1, EncodeKindIs, Zenon
        <5>3. l.res = "ok"
          BY <1>2, <5>2, Zenon DEF encodeInt
        <5> QED
          BY <4>7, <5>2, <5>3, Zenon DEF WritesNumber
      <4> QED
        BY <4>1, <4>3, <4>4, <4>5, <4>6, <4>7, ZenonT(60)
    <3> QED
      BY <3>3, <3>4, Zenon
  <2> QED
    BY <2>3, <2>4, Zenon
<1> QED
  BY <1>3, <1>4, <1>5, <1>6, <1>7, Zenon DEF IsNil

----------------------------------------------------------------------------
(***************************************************************************)
(* Lengths.                                                                *)
(***************************************************************************)

\* PutUint32 and PutUint64 write a fixed number of bytes.
LEMMA BytesLen ==
  ASSUME NEW x, NEW k \in Nat
  PROVE  Len(BigEndian(x, k)) = k
<1> DEFINE e(i) == (x \div (2 ^ (ByteBits * (k - i)))) % (2 ^ ByteBits)
           S == {e(i) : i \in 1 .. k}
<1>1. BigEndian(x, k) = [i \in 1 .. k |-> e(i)]
  BY Zenon DEF BigEndian, DigitsOf
<1> HIDE DEF e
<1>2. [i \in 1 .. k |-> e(i)] \in [1 .. k -> S]
  BY Zenon
<1>3. \A f \in [1 .. k -> S] : f \in Seq(S) /\ Len(f) = k
  <2> HIDE DEF S
  <2> QED
    OBVIOUS
<1> QED
  BY <1>1, <1>2, <1>3, Zenon

\* The types differ.
LEMMA TypesDiffer ==
  /\ TypeInteger \in IntTypes \ (LongTypes \cup TextTypes \cup {TypeBigInteger})
  /\ TypeEnumeration \in IntTypes \ (LongTypes \cup TextTypes \cup {TypeBigInteger})
  /\ TypeInterval \in IntTypes \ (LongTypes \cup TextTypes \cup {TypeBigInteger})
  /\ TypeLongInteger \in LongTypes \ (IntTypes \cup TextTypes \cup {TypeBigInteger})
  /\ TypeBoolean \in LongTypes \ (IntTypes \cup TextTypes \cup {TypeBigInteger})
  /\ TypeDateTime \in LongTypes \ (IntTypes \cup TextTypes \cup {TypeBigInteger})
  /\ TypeDateTimeExtended \in LongTypes \ (IntTypes \cup TextTypes \cup {TypeBigInteger})
  /\ TypeBigInteger \notin IntTypes \cup LongTypes \cup TextTypes
  /\ TypeTextString \in TextTypes \ (IntTypes \cup LongTypes \cup {TypeBigInteger})
  /\ TypeByteString \in TextTypes \ (IntTypes \cup LongTypes \cup {TypeBigInteger})
BY DEF IntTypes, LongTypes, TextTypes, TypeInteger, TypeEnumeration, TypeInterval, TypeLongInteger, TypeBoolean,
       TypeDateTime, TypeDateTimeExtended, TypeBigInteger, TypeTextString, TypeByteString

HasLength(l) ==
  /\ l.type \in IntTypes => Len(l.raw) = lenInt
  /\ l.type \in LongTypes => Len(l.raw) = lenLongInt
  /\ l.type = TypeBigInteger => Len(l.raw) % 8 = 0

\* What encode writes has the length of its type.
LEMMA EncodedLength ==
  ASSUME NEW i \in Input, encode(i).res = "ok"
  PROVE  HasLength(encode(i))
<1>1. \A t, b : Wrote(t, b).type = t /\ Wrote(t, b).raw = b
  BY DEF Wrote
<1>2. lenInt \in Nat /\ lenLongInt \in Nat
  BY DEF lenInt, lenLongInt
<1>3. ASSUME NEW t \in IntTypes \ (LongTypes \cup TextTypes \cup {TypeBigInteger}), NEW x,
             encode(i) = Wrote(t, BigEndian(x, lenInt))
      PROVE  HasLength(encode(i))
  <2>1. encode(i).type = t /\ encode(i).raw = BigEndian(x, lenInt)
    BY <1>3, SMTT(60) DEF Wrote
  <2>2. Len(encode(i).raw) = lenInt
    BY <1>2, <2>1, BytesLen, Zenon
  <2>3. t \in IntTypes /\ t \notin LongTypes /\ t # TypeBigInteger
    BY <1>3, Zenon
  <2> QED
    BY <2>1, <2>2, <2>3, Zenon DEF HasLength
<1>4. ASSUME NEW t \in LongTypes \ (IntTypes \cup TextTypes \cup {TypeBigInteger}), NEW x,
             encode(i) = Wrote(t, BigEndian(x, lenLongInt))
      PROVE  HasLength(encode(i))
  <2>1. encode(i).type = t /\ encode(i).raw = BigEndian(x, lenLongInt)
    BY <1>4, SMTT(60) DEF Wrote
  <2>2. Len(encode(i).raw) = lenLongInt
    BY <1>2, <2>1, BytesLen, Zenon
  <2>3. t \in LongTypes /\ t \notin IntTypes /\ t # TypeBigInteger
    BY <1>4, Zenon
  <2> QED
    BY <2>1, <2>2, <2>3, Zenon DEF HasLength
<1>5. ASSUME NEW t \in TextTypes \ (IntTypes \cup LongTypes \cup {TypeBigInteger}), NEW b, encode(i) = Wrote(t, b)
      PROVE  HasLength(encode(i))
  <2>1. encode(i).type = t
    BY <1>1, <1>5, Zenon
  <2>2. t \notin IntTypes /\ t \notin LongTypes /\ t # TypeBigInteger
    BY <1>5, Zenon
  <2> QED
    BY <2>1, <2>2, Zenon DEF HasLength
<1>6. ASSUME encode(i) = Wrote(TypeBigInteger, encodeBigInt(i.v.n))
      PROVE  HasLength(encode(i))
  <2>1. i.v.n \in Int
    BY DEF Input, GoValue
  <2>2. PICK k \in Nat \ {0} : encodeBigInt(i.v.n) = BigEndian(i.v.n, k) /\ k % 8 = 0
    BY <2>1, BigIntBytes, Zenon
  <2>3. Len(encodeBigInt(i.v.n)) % 8 = 0
    BY <2>2, BytesLen
  <2> QED
    <3>1. encode(i).type = TypeBigInteger /\ encode(i).raw = encodeBigInt(i.v.n)
      BY <1>6, SMTT(60) DEF Wrote
    <3>2. TypeBigInteger \notin IntTypes /\ TypeBigInteger \notin LongTypes
      BY TypesDiffer, Zenon
    <3> QED
      BY <2>3, <3>1, <3>2, Zenon DEF HasLength
<1>7. encode(i) # None
  BY DEF None
<1>8. WritesNumber(i, encode(i)) \/ WritesString(i, encode(i))
  BY <1>7, EncodeIs, Zenon
<1>9. ASSUME NEW x, encode(i) = encodeInt(x) \/ encode(i) = encodeEnum(x) PROVE HasLength(encode(i))
  BY <1>3, <1>9, TypesDiffer, Zenon DEF encodeInt, encodeEnum
<1>10. ASSUME NEW x, encode(i) = encodeLongInt(x) \/ encode(i) = encodeBool(x) PROVE HasLength(encode(i))
  BY <1>4, <1>10, TypesDiffer, Zenon DEF encodeLongInt, encodeBool
<1>11. ASSUME NEW x, encode(i) = encodeInterval(x) PROVE HasLength(encode(i))
  BY <1>3, <1>11, TypesDiffer, Zenon DEF encodeInterval
<1>12. ASSUME NEW x, encode(i) = encodeDateTimeExtended(x) \/ encode(i) = encodeDateTime(x) PROVE HasLength(encode(i))
  BY <1>4, <1>12, TypesDiffer, Zenon DEF encodeDateTimeExtended, encodeDateTime
<1>13. CASE WritesNumber(i, encode(i))
  BY <1>6, <1>9, <1>10, <1>11, <1>12, <1>13, ZenonT(60) DEF WritesNumber
<1>14. CASE WritesString(i, encode(i))
  BY <1>5, <1>9, <1>14, TypesDiffer, ZenonT(60) DEF WritesString
<1> QED
  BY <1>8, <1>13, <1>14, Zenon

----------------------------------------------------------------------------
(***************************************************************************)
(* What unmarshal reads.                                                   *)
(***************************************************************************)

\* The number of TTLV.Value, type by type.
LEMMA ValueNumberIs ==
  ASSUME NEW l
  PROVE  /\ l.type \in {TypeInteger, TypeLongInteger} => ValueNumber(l) = Signed(l.raw)
         /\ l.type = TypeEnumeration => ValueNumber(l) = Unsigned(l.raw)
         /\ l.type = TypeBigInteger => ValueNumber(l) = unmarshalBigInt(unpadBigInt(l.raw))
         /\ l.type = TypeBoolean => ValueNumber(l) = IF l.raw[8] # 0 THEN 1 ELSE 0
         /\ l.type = TypeInterval => ValueNumber(l) = Int64(Unsigned(l.raw) * Second)
         /\ l.type = TypeDateTime => ValueNumber(l) = Signed(l.raw) * Second
         /\ l.type = TypeDateTimeExtended => ValueNumber(l) = Int64(Signed(l.raw) * Kilo)
         /\ l.type = TypeTextString => ValueNumber(l) = 0
         /\ l.type = TypeByteString => ValueNumber(l) = IF l.raw = <<>> THEN 0 ELSE 1
BY DEF ValueNumber, TextTypes, TypeInteger, TypeEnumeration, TypeInterval, TypeLongInteger, TypeBoolean,
       TypeDateTime, TypeDateTimeExtended, TypeBigInteger, TypeTextString, TypeByteString

\* The kinds that a type is stored in, type by type.
LEMMA AcceptedIs ==
  /\ Accepted(TypeInteger) = SmallInts \cup SmallUints
  /\ Accepted(TypeEnumeration) = SmallInts \cup SmallUints
  /\ Accepted(TypeLongInteger) = {"int64", "duration", "uint64"}
  /\ Accepted(TypeInterval) = {"int64", "duration"}
  /\ Accepted(TypeBigInteger) = {"bigint"}
  /\ Accepted(TypeBoolean) = {"bool"}
  /\ Accepted(TypeTextString) = {"string"}
  /\ Accepted(TypeByteString) = {"bytes"}
  /\ Accepted(TypeDateTime) = {"time"}
  /\ Accepted(TypeDateTimeExtended) = {"time"}
BY DEF Accepted, ValueKind, TextTypes, TypeInteger, TypeEnumeration, TypeInterval, TypeLongInteger, TypeBoolean,
       TypeDateTime, TypeDateTimeExtended, TypeBigInteger, TypeTextString, TypeByteString

\* The integers that fit the types of the code.
LEMMA WidthIs ==
  ASSUME NEW kind \in SmallInts \cup SmallUints
  PROVE  Width(kind) \in Nat \ {0} /\ Width(kind) <= 8 /\ (Width(kind) <= 4 \/ kind \in {"int", "uint"})
BY DEF SmallInts, SmallUints, Width

\* Conversions to 64 bits.
LEMMA Convert64 ==
  ASSUME NEW n \in Int
  PROVE  /\ Fits(n, 8) => Int64(n) = n
         /\ UFits(n, 8) => Uint64(n) = n
         /\ Fits(n, 8) /\ n < 0 => Uint64(n) = n + Pow(8)
<1> DEFINE M == Pow(8)
           H == Pow(8) \div 2
<1>1. 8 \in Nat /\ 8 # 0 /\ 8 \in Nat \ {0}
  OBVIOUS
<1>2. M \in Nat \ {0} /\ H \in Nat \ {0} /\ M = 2 * H
  BY <1>1, PowFacts, Zenon
<1>3. ASSUME Fits(n, 8) PROVE Int64(n) = n /\ (n < 0 => Uint64(n) = n + M)
  <2>1. /\ n >= 0 => n % M = n /\ n < H
        /\ n < 0 => n % M = n + M /\ n + M >= H
    BY <1>1, <1>3, RestFits, Zenon
  <2>2. Int64(n) = IF n % M < H THEN n % M ELSE (n % M) - M
    BY Zenon DEF Int64
  <2>3. Uint64(n) = n % M
    BY Zenon DEF Uint64
  <2> HIDE DEF M, H
  <2> QED
    BY <1>2, <2>1, <2>2, <2>3
<1>4. ASSUME UFits(n, 8) PROVE Uint64(n) = n
  <2>1. 0 <= n /\ n < M
    BY <1>4, Zenon DEF UFits
  <2>2. Uint64(n) = n % M
    BY Zenon DEF Uint64
  <2> HIDE DEF M, H
  <2> QED
    BY <1>2, <2>1, <2>2, RestSmall
<1> QED
  BY <1>3, <1>4, Zenon

\* Four bytes fit into eight, with room.
LEMMA FourEight ==
  ASSUME NEW n \in Int
  PROVE  /\ Fits(n, 4) => Fits(n, 8)
         /\ UFits(n, 4) => Fits(n, 8) /\ UFits(n, 8)
         /\ Fits(n, 4) => ~(n + Pow(8) < Pow(4))
<1> DEFINE A == Pow(4)
           B == Pow(8)
           a == Pow(4) \div 2
           b == Pow(8) \div 2
<1>1. 4 \in Nat /\ 5 \in Nat /\ 8 \in Nat /\ 4 + 1 = 5 /\ 5 <= 8 /\ 4 # 0 /\ 8 # 0
  OBVIOUS
<1>2. A \in Nat \ {0} /\ a \in Nat \ {0} /\ A = 2 * a /\ B \in Nat \ {0} /\ b \in Nat \ {0} /\ B = 2 * b
  BY <1>1, PowFacts, Zenon
<1>3. Pow(5) = A * Base /\ Pow(5) <= B
  BY <1>1, PowFacts, Zenon
<1>4. 2 * A <= B
  <2> DEFINE c == Base
             h == Base \div 2
             D == Pow(5)
  <2>1. c \in Nat \ {0} /\ h \in Nat \ {0} /\ c = 2 * h
    BY BaseFacts, Zenon
  <2>2. D = A * c /\ D <= B
    BY <1>3, Zenon
  <2> HIDE DEF c, h, D, A, B, a, b
  <2>3. A * c = 2 * (A * h) /\ A <= A * h
    BY <1>2, <2>1
  <2> QED
    BY <1>2, <2>1, <2>2, <2>3
<1>5. /\ Fits(n, 4) <=> -a <= n /\ n < a
      /\ Fits(n, 8) <=> -b <= n /\ n < b
      /\ UFits(n, 4) <=> 0 <= n /\ n < A
      /\ UFits(n, 8) <=> 0 <= n /\ n < B
  BY Zenon DEF Fits, UFits
<1> HIDE DEF A, B, a, b
<1>6. /\ Fits(n, 4) => Fits(n, 8)
      /\ UFits(n, 4) => Fits(n, 8) /\ UFits(n, 8)
      /\ Fits(n, 4) => ~(n + B < A)
  BY <1>2, <1>4, <1>5
<1> QED
  BY <1>6, Zenon DEF A, B

\* The value that is stored.
LEMMA ValueIs ==
  ASSUME NEW v \in GoValue, NEW m, NEW l,
         IF l.type \in TextTypes THEN l.raw = v.s ELSE v.s = <<>>
  PROVE  Value(l, v.kind, m) = [v EXCEPT !.n = m]
BY DEF Value, GoValue

\* A number of four bytes is stored in a variable that it fits.
LEMMA NumberStored ==
  ASSUME NEW n \in Int, NEW l, (l = encodeInt(n) /\ Fits(n, 4)) \/ (l = encodeEnum(n) /\ UFits(n, 4)),
         NEW kind \in SmallInts \cup SmallUints
  PROVE  /\ unmarshal(l, kind) = storeNumber(l, kind)
         /\ ValueNumber(l) = n /\ l.type \notin TextTypes
         /\ UFits(n, 4) \/ Fits(n, 4)
<1>1. kind # "any"
  BY DEF SmallInts, SmallUints
<1>2. 4 \in Nat /\ 4 \in Nat \ {0}
  OBVIOUS
<1>3. CASE l = encodeInt(n) /\ Fits(n, 4)
  <2>1. l.type = TypeInteger /\ l.raw = BigEndian(n, 4)
    BY <1>3, SMTT(60) DEF encodeInt, Wrote, lenInt
  <2>2. Signed(BigEndian(n, 4)) = n
    BY <1>2, <1>3, SignedBytes, Zenon
  <2>3. ValueNumber(l) = n
    BY <2>1, <2>2, ValueNumberIs, Zenon
  <2>4. unmarshal(l, kind) = storeNumber(l, kind)
    BY <1>1, <2>1, AcceptedIs, Zenon DEF unmarshal
  <2>5. l.type \notin TextTypes
    BY <2>1, TypesDiffer, Zenon
  <2> QED
    BY <1>3, <2>3, <2>4, <2>5, ZenonT(60)
<1>4. CASE l = encodeEnum(n) /\ UFits(n, 4)
  <2>1. l.type = TypeEnumeration /\ l.raw = BigEndian(n, 4)
    BY <1>4, SMTT(60) DEF encodeEnum, Wrote, lenInt
  <2>2. Unsigned(BigEndian(n, 4)) = n % Pow(4)
    BY <1>2, UnsignedBytes, Zenon
  <2>3. n % Pow(4) = n
    <3> DEFINE M == Pow(4)
    <3>1. M \in Nat \ {0} /\ 0 <= n /\ n < M
      BY <1>2, <1>4, PowFacts, Zenon DEF UFits
    <3> HIDE DEF M
    <3>2. n % M = n
      BY <3>1, RestSmall
    <3> QED
      BY <3>2, Zenon DEF M
  <2>4. ValueNumber(l) = n
    BY <2>1, <2>2, <2>3, ValueNumberIs, ZenonT(60)
  <2>5. unmarshal(l, kind) = storeNumber(l, kind)
    BY <1>1, <2>1, AcceptedIs, Zenon DEF unmarshal
  <2>6. l.type \notin TextTypes
    BY <2>1, TypesDiffer, Zenon
  <2> QED
    BY <1>4, <2>4, <2>5, <2>6, ZenonT(60)
<1> QED
  BY <1>3, <1>4, Zenon

\* OverflowInt and OverflowUint see what would change, but for a uint.
LEMMA NumberSame ==
  ASSUME NEW n \in Int, NEW l, (l = encodeInt(n) /\ Fits(n, 4)) \/ (l = encodeEnum(n) /\ UFits(n, 4)),
         NEW kind \in SmallInts \cup SmallUints, ~(kind = "uint" /\ n < 0)
  PROVE  /\ unmarshal(l, kind).res = "ok" => unmarshal(l, kind) = Stored(Value(l, kind, n))
         /\ kind \in SmallInts /\ Fits(n, Width(kind)) => unmarshal(l, kind) = Stored(Value(l, kind, n))
         /\ kind \in SmallUints /\ UFits(n, Width(kind)) => unmarshal(l, kind) = Stored(Value(l, kind, n))
<1>1. unmarshal(l, kind) = storeNumber(l, kind) /\ ValueNumber(l) = n /\ (UFits(n, 4) \/ Fits(n, 4))
  BY NumberStored, Zenon
<1>2. Failed("ErrIntOverflow").res # "ok"
  BY DEF Failed
<1>3. SmallInts \cap SmallUints = {}
  BY DEF SmallInts, SmallUints
<1>4. CASE kind \in SmallInts
  <2>1. kind \notin SmallUints
    BY <1>3, <1>4, Zenon
  <2>2. unmarshal(l, kind) = IF Fits(n, Width(kind)) THEN Stored(Value(l, kind, n)) ELSE Failed("ErrIntOverflow")
    BY <1>1, <2>1, ZenonT(60) DEF storeNumber
  <2> QED
    BY <1>2, <2>1, <2>2, Zenon
<1>5. CASE kind \in SmallUints
  <2>1. kind \notin SmallInts
    BY <1>3, <1>5, Zenon
  <2>2. unmarshal(l, kind) = IF UFits(Uint64(n), Width(kind)) THEN Stored(Value(l, kind, Uint64(n)))
                             ELSE Failed("ErrIntOverflow")
    BY <1>1, <1>5, Zenon DEF storeNumber
  <2>3. CASE n >= 0
    <3>1. UFits(n, 4)
      <4>1. ASSUME Fits(n, 4) PROVE UFits(n, 4)
        <5> DEFINE M == Pow(4)
                   H == Pow(4) \div 2
        <5>1. 4 \in Nat /\ 4 # 0
          OBVIOUS
        <5>2. M \in Nat \ {0} /\ H \in Nat \ {0} /\ M = 2 * H /\ n < H
          BY <4>1, <5>1, PowFacts, ZenonT(60) DEF Fits
        <5> HIDE DEF M, H
        <5>3. 0 <= n /\ n < M
          BY <2>3, <5>2
        <5> QED
          BY <5>3, Zenon DEF UFits, M
      <4> QED
        BY <1>1, <4>1, Zenon
    <3>2. Uint64(n) = n
      BY <3>1, FourEight, Convert64, ZenonT(60)
    <3> QED
      BY <1>2, <2>1, <2>2, <3>2, ZenonT(60)
  <2>4. CASE n < 0
    <3>1. ~UFits(n, 4) /\ ~UFits(n, Width(kind))
      BY <2>4 DEF UFits
    <3>2. Fits(n, 4) /\ Fits(n, 8)
      BY <1>1, <3>1, FourEight, ZenonT(60)
    <3>3. Uint64(n) = n + Pow(8) /\ ~(n + Pow(8) < Pow(4))
      BY <2>4, <3>2, Convert64, FourEight, ZenonT(60)
    <3>4. Width(kind) \in Nat /\ Width(kind) <= 4 /\ 4 \in Nat
      <4>1. kind # "int" /\ kind # "uint"
        BY <1>5, <2>1, <2>4 DEF SmallInts
      <4> QED
        BY <4>1, WidthIs
    <3>5. Pow(Width(kind)) <= Pow(4) /\ Pow(Width(kind)) \in Nat \ {0} /\ Pow(4) \in Nat \ {0} /\ Pow(8) \in Nat \ {0}
      <4>1. 8 \in Nat
        OBVIOUS
      <4> QED
        BY <3>4, <4>1, PowFacts, ZenonT(60)
    <3>6. ~UFits(n + Pow(8), Width(kind))
      <4> DEFINE A == Pow(Width(kind))
                 B == Pow(4)
                 C == Pow(8)
      <4>1. A <= B /\ A \in Nat /\ B \in Nat /\ C \in Nat /\ ~(n + C < B)
        BY <3>3, <3>5, Zenon
      <4> HIDE DEF A, B, C
      <4>2. ~(n + C < A)
        BY <4>1
      <4> QED
        BY <4>2, Zenon DEF UFits, A, C
    <3> QED
      BY <1>2, <2>1, <2>2, <3>1, <3>3, <3>6, ZenonT(60)
  <2> QED
    BY <2>3, <2>4
<1> QED
  BY <1>4, <1>5, Zenon

\* The round trip of an integer of at most four bytes, or an enumeration.
LEMMA NumberBack ==
  ASSUME NEW v \in GoValue, HasType(v), IsNumber(v), NEW l,
         (l = encodeInt(v.n) /\ Fits(v.n, 4)) \/ (l = encodeEnum(v.n) /\ UFits(v.n, 4))
  PROVE  unmarshal(l, v.kind) = Stored([v EXCEPT !.n = v.n])
<1>1. v.n \in Int /\ v.kind \in SmallInts \cup SmallUints
  BY DEF GoValue, IsNumber
<1>2. v.kind \in SmallUints => ~(v.n < 0)
  BY <1>1 DEF HasType, UFits
<1>3. v.s = <<>>
  <2>1. v.kind \notin {"string", "bytes"}
    BY <1>1 DEF SmallInts, SmallUints
  <2> QED
    BY <2>1, Zenon DEF HasType
<1>4. l.type \notin TextTypes
  BY <1>1, NumberStored, Zenon
<1>5. Value(l, v.kind, v.n) = [v EXCEPT !.n = v.n]
  BY <1>3, <1>4, ValueIs, ZenonT(60)
<1>6. "uint" \in SmallUints
  BY DEF SmallUints
<1>7. unmarshal(l, v.kind) = Stored(Value(l, v.kind, v.n))
  BY <1>1, <1>2, <1>6, NumberSame, ZenonT(60) DEF HasType
<1> QED
  BY <1>5, <1>7, Zenon

\* Where there is nothing to convert, unmarshal stores the number it reads.
LEMMA OtherStored ==
  ASSUME NEW v \in GoValue, HasType(v), v.kind \notin SmallInts \cup SmallUints \cup {"any", "uint64"},
         NEW l, v.kind \in Accepted(l.type), IF l.type \in TextTypes THEN l.raw = v.s ELSE v.s = <<>>
  PROVE  unmarshal(l, v.kind) = Stored([v EXCEPT !.n = ValueNumber(l)])
<1>1. unmarshal(l, v.kind) = Stored(Value(l, v.kind, ValueNumber(l)))
  BY Zenon DEF unmarshal
<1> QED
  BY <1>1, ValueIs, Zenon

\* The round trip of an integer of eight bytes: a uint64 with its top bit set is
\* written as a negative Long Integer, and Uint64 undoes that.
LEMMA LongBack ==
  ASSUME NEW v \in GoValue, HasType(v), v.kind \in {"int64", "uint64"}
  PROVE  unmarshal(encodeLongInt(v.n), v.kind) = Stored([v EXCEPT !.n = v.n])
<1> DEFINE l == encodeLongInt(v.n)
<1>1. l.type = TypeLongInteger /\ l.raw = BigEndian(v.n, 8)
  BY SMTT(60) DEF encodeLongInt, Wrote, lenLongInt
<1>2. v.n \in Int /\ v.s = <<>> /\ 8 \in Nat \ {0} /\ 8 \in Nat /\ 8 # 0
  BY DEF GoValue, HasType
<1>3. ValueNumber(l) = Signed(BigEndian(v.n, 8)) /\ l.type \notin TextTypes /\ v.kind \in Accepted(l.type)
  BY <1>1, ValueNumberIs, AcceptedIs, TypesDiffer, ZenonT(60)
<1> HIDE DEF l
<1>4. v.kind \notin SmallInts \cup SmallUints \cup {"any"}
  BY DEF SmallInts, SmallUints
<1>5. CASE v.kind = "int64"
  <2>1. Fits(v.n, 8)
    BY <1>5 DEF HasType, Width
  <2>2. ValueNumber(l) = v.n
    BY <1>2, <1>3, <2>1, SignedBytes, ZenonT(60)
  <2>3. v.kind # "uint64"
    BY <1>5
  <2> QED
    BY <1>2, <1>3, <1>4, <2>2, <2>3, OtherStored, ZenonT(60) DEF l
<1>6. CASE v.kind = "uint64"
  <2>1. UFits(v.n, 8)
    BY <1>6 DEF HasType, Width
  <2>2. Uint64(Signed(BigEndian(v.n, 8))) = v.n
    <3> DEFINE M == Pow(8)
               t == TopBit(BigEndian(v.n, 8)[1])
    <3>1. M \in Nat \ {0}
      BY <1>2, PowFacts, Zenon
    <3>2. 0 <= v.n /\ v.n < M
      BY <2>1, Zenon DEF UFits
    <3>3. Signed(BigEndian(v.n, 8)) = (v.n % M) - (IF t THEN M ELSE 0)
      BY <1>2, UnsignedBytes, BigEndianIs, Zenon DEF Signed
    <3>4. Uint64(Signed(BigEndian(v.n, 8))) = Signed(BigEndian(v.n, 8)) % M
      BY Zenon DEF Uint64
    <3> HIDE DEF M, t
    <3>5. v.n % M = v.n
      BY <1>2, <3>1, <3>2, RestSmall
    <3>6. CASE t
      <4>1. Signed(BigEndian(v.n, 8)) = v.n - M
        BY <3>3, <3>5, <3>6, ZenonT(60)
      <4>2. (v.n - M) % M = v.n
        <5>1. -M <= v.n - M /\ v.n - M < 0 /\ v.n - M \in Int /\ v.n - M + M = v.n
          BY <1>2, <3>1, <3>2
        <5> QED
          BY <3>1, <5>1, RestSmall, ZenonT(60)
      <4> QED
        BY <3>4, <4>1, <4>2, ZenonT(60)
    <3>7. CASE ~t
      <4>1. v.n - 0 = v.n
        BY <1>2
      <4> QED
        BY <3>3, <3>4, <3>5, <3>7, <4>1, ZenonT(60)
    <3> QED
      BY <3>6, <3>7, Zenon
  <2>3. unmarshal(l, v.kind) = Stored(Value(l, v.kind, v.n))
    BY <1>3, <1>4, <1>6, <2>2, ZenonT(60) DEF unmarshal
  <2> QED
    BY <1>2, <1>3, <2>3, ValueIs, ZenonT(60) DEF l
<1> QED
  BY <1>5, <1>6, Zenon

\* The round trip of a boolean, which is the last of eight bytes.
LEMMA BoolBack ==
  ASSUME NEW v \in GoValue, HasType(v), v.kind = "bool"
  PROVE  unmarshal(encodeBool(v.n), v.kind) = Stored([v EXCEPT !.n = v.n])
<1> DEFINE l == encodeBool(v.n)
<1>1. l.type = TypeBoolean /\ l.raw = BigEndian(v.n, 8)
  BY SMTT(60) DEF encodeBool, Wrote, lenLongInt
<1>2. v.n \in {0, 1} /\ v.n \in Int /\ v.s = <<>> /\ 8 \in Nat /\ 8 \in 1 .. 8 /\ 8 - 8 = 0
  BY DEF HasType
<1>3. l.type \notin TextTypes /\ v.kind \in Accepted(l.type)
  BY <1>1, AcceptedIs, TypesDiffer, Zenon
<1>4. BigEndian(v.n, 8)[8] = (v.n \div Pow(0)) % Base
  BY <1>2, BigEndianIs, Zenon
<1>5. (v.n \div Pow(0)) % Base = v.n
  <2> DEFINE B == Base
             h == Base \div 2
             P == Pow(0)
  <2>1. B \in Nat \ {0} /\ h \in Nat \ {0} /\ B = 2 * h /\ P = 1
    BY BaseFacts, Zenon
  <2> HIDE DEF B, h, P
  <2>2. v.n \div P = v.n
    BY <1>2, <2>1
  <2>3. v.n % B = v.n
    BY <1>2, <2>1, RestSmall
  <2> QED
    BY <2>2, <2>3, Zenon DEF B, P
<1>6. ValueNumber(l) = IF l.raw[8] # 0 THEN 1 ELSE 0
  BY <1>1, ValueNumberIs, Zenon
<1>7. l.raw[8] = v.n
  BY <1>1, <1>4, <1>5, Zenon
<1> HIDE DEF l
<1>8. ValueNumber(l) = v.n
  BY <1>2, <1>6, <1>7
<1>9. v.kind \notin SmallInts \cup SmallUints \cup {"any", "uint64"}
  BY DEF SmallInts, SmallUints
<1> QED
  BY <1>2, <1>3, <1>8, <1>9, OtherStored, ZenonT(60) DEF l

\* The round trip of a big integer.
LEMMA BigBack ==
  ASSUME NEW v \in GoValue, HasType(v), v.kind = "bigint"
  PROVE  unmarshal(Wrote(TypeBigInteger, encodeBigInt(v.n)), v.kind) = Stored([v EXCEPT !.n = v.n])
<1> DEFINE l == Wrote(TypeBigInteger, encodeBigInt(v.n))
<1>1. l.type = TypeBigInteger /\ l.raw = encodeBigInt(v.n)
  BY SMTT(60) DEF Wrote
<1>2. v.n \in Int /\ v.s = <<>>
  BY DEF GoValue, HasType
<1>3. l.type \notin TextTypes /\ v.kind \in Accepted(l.type)
  BY <1>1, AcceptedIs, TypesDiffer, Zenon
<1>4. ValueNumber(l) = v.n
  BY <1>1, <1>2, ValueNumberIs, BigIntBack, Zenon
<1> HIDE DEF l
<1>5. v.kind \notin SmallInts \cup SmallUints \cup {"any", "uint64"}
  BY DEF SmallInts, SmallUints
<1> QED
  BY <1>2, <1>3, <1>4, <1>5, OtherStored, ZenonT(60) DEF l

\* The round trip of a string or of bytes: no bytes are read as nil.
LEMMA StringBack ==
  ASSUME NEW v \in GoValue, HasType(v), NEW t,
         (v.kind = "string" /\ t = TypeTextString) \/ (v.kind = "bytes" /\ t = TypeByteString)
  PROVE  unmarshal(Wrote(t, v.s), v.kind) = Stored([v EXCEPT !.n = IF EmptyBytes(v) THEN 0 ELSE v.n])
<1> DEFINE l == Wrote(t, v.s)
<1>1. l.type = t /\ l.raw = v.s
  BY SMTT(60) DEF Wrote
<1>2. /\ v.kind = "string" => v.n = 0 /\ ~EmptyBytes(v)
      /\ v.kind = "bytes" => (EmptyBytes(v) <=> v.s = <<>>) /\ (v.s # <<>> => v.n = 1)
  BY DEF HasType, EmptyBytes
<1>3. l.type \in TextTypes /\ v.kind \in Accepted(l.type)
  <2>1. CASE v.kind = "string" /\ t = TypeTextString
    BY <1>1, <2>1, AcceptedIs, TypesDiffer, ZenonT(60)
  <2>2. CASE v.kind = "bytes" /\ t = TypeByteString
    BY <1>1, <2>2, AcceptedIs, TypesDiffer, Zenon
  <2> QED
    BY <2>1, <2>2, Zenon
<1>4. ValueNumber(l) = IF EmptyBytes(v) THEN 0 ELSE v.n
  <2>1. CASE v.kind = "string" /\ t = TypeTextString
    BY <1>1, <1>2, <2>1, ValueNumberIs, Zenon
  <2>2. CASE v.kind = "bytes" /\ t = TypeByteString
    <3>1. ValueNumber(l) = IF v.s = <<>> THEN 0 ELSE 1
      BY <1>1, <2>2, ValueNumberIs, Zenon
    <3> QED
      BY <1>2, <2>2, <3>1, Zenon
  <2> QED
    BY <2>1, <2>2, Zenon
<1> HIDE DEF l
<1>5. v.kind \notin SmallInts \cup SmallUints \cup {"any", "uint64"}
  BY DEF SmallInts, SmallUints
<1> QED
  BY <1>1, <1>3, <1>4, <1>5, OtherStored, ZenonT(60) DEF l

\* The units of time are not zero.
LEMMA SecondIs == Kilo \in Nat \ {0} /\ Mega \in Nat \ {0} /\ Second \in Nat \ {0}
BY ScalarsAssumption DEF Second

\* A duration loses what is less than a second.
LEMMA DurationBack ==
  ASSUME NEW v \in GoValue, HasType(v), v.kind = "duration", v.n >= 0, UFits(Quotient(v.n, Second), 4)
  PROVE  unmarshal(encodeInterval(v.n), v.kind) = Stored([v EXCEPT !.n = v.n - (v.n % Second)])
<1> DEFINE l == encodeInterval(v.n)
           S == Second
           q == v.n \div S
<1>1. l.type = TypeInterval /\ l.raw = BigEndian(Quotient(v.n, S), 4)
  BY SMTT(60) DEF encodeInterval, Wrote, lenInt
<1>2. v.n \in Int /\ v.s = <<>> /\ 4 \in Nat /\ 4 # 0 /\ 8 \in Nat /\ 8 # 0
  BY DEF GoValue, HasType
<1>3. Quotient(v.n, S) = q /\ S \in Nat \ {0}
  BY SecondIs, Zenon DEF Quotient
<1>4. l.type \notin TextTypes /\ v.kind \in Accepted(l.type)
  BY <1>1, AcceptedIs, TypesDiffer, Zenon
<1>5. q \in Int /\ v.n % S \in 0 .. S - 1 /\ v.n = q * S + (v.n % S)
  BY <1>2, <1>3, Divides, Zenon
<1>6. UFits(q, 4)
  BY <1>3, Zenon
<1>7. Fits(v.n, 8)
  BY DEF HasType, Width
<1>8. ValueNumber(l) = Int64(Unsigned(BigEndian(q, 4)) * S)
  BY <1>1, <1>3, ValueNumberIs, Zenon
<1>9. Unsigned(BigEndian(q, 4)) = q % Pow(4)
  BY <1>2, <1>5, UnsignedBytes, Zenon
<1> HIDE DEF l, S, q
<1>10. q % Pow(4) = q
  <2> DEFINE M == Pow(4)
  <2>1. M \in Nat \ {0} /\ 0 <= q /\ q < M
    BY <1>2, <1>6, PowFacts, ZenonT(60) DEF UFits
  <2> HIDE DEF M
  <2>2. q % M = q
    BY <1>5, <2>1, RestSmall
  <2> QED
    BY <2>2, Zenon DEF M
<1>11. Fits(q * S, 8)
  <2> DEFINE H == Pow(8) \div 2
  <2>1. H \in Nat \ {0} /\ v.n < H
    BY <1>2, <1>7, PowFacts, ZenonT(60) DEF Fits
  <2>2. 0 <= q
    BY <1>6, Zenon DEF UFits
  <2> HIDE DEF H
  <2>3. 0 <= q * S /\ q * S <= v.n
    BY <1>2, <1>3, <1>5, <2>2
  <2>4. -H <= q * S /\ q * S < H
    BY <1>2, <1>3, <1>5, <2>1, <2>3
  <2> QED
    BY <2>4, Zenon DEF Fits, H
<1>12. q * S \in Int /\ q * S = v.n - (v.n % S)
  <2>1. PICK r \in Int, m \in Int : r = v.n % S /\ m = v.n /\ m = q * S + r
    BY <1>2, <1>5
  <2>2. q * S \in Int /\ q * S = m - r
    BY <1>3, <1>5, <2>1
  <2> QED
    BY <2>1, <2>2, Zenon
<1>13. ValueNumber(l) = v.n - (v.n % S)
  BY <1>8, <1>9, <1>10, <1>11, <1>12, Convert64, ZenonT(60)
<1>14. v.kind \notin SmallInts \cup SmallUints \cup {"any", "uint64"}
  BY DEF SmallInts, SmallUints
<1> QED
  BY <1>2, <1>4, <1>13, <1>14, OtherStored, ZenonT(60) DEF l, S

\* So does a time, before the epoch too.
LEMMA TimeBack ==
  ASSUME NEW v \in GoValue, HasType(v), v.kind = "time"
  PROVE  unmarshal(encodeDateTime(v.n), v.kind) = Stored([v EXCEPT !.n = v.n - (v.n % Second)])
<1> DEFINE l == encodeDateTime(v.n)
           S == Second
           q == v.n \div S
<1>1. l.type = TypeDateTime /\ l.raw = BigEndian(q, 8)
  BY SMTT(60) DEF encodeDateTime, Wrote, lenLongInt
<1>2. v.n \in Int /\ v.s = <<>> /\ 8 \in Nat \ {0}
  BY DEF GoValue, HasType
<1>3. S \in Nat \ {0}
  BY SecondIs, Zenon
<1>4. l.type \notin TextTypes /\ v.kind \in Accepted(l.type)
  BY <1>1, AcceptedIs, TypesDiffer, Zenon
<1>5. q \in Int /\ v.n % S \in 0 .. S - 1 /\ v.n = q * S + (v.n % S)
  BY <1>2, <1>3, Divides, Zenon
<1>6. Fits(q, 8)
  BY Zenon DEF HasType
<1>7. ValueNumber(l) = q * S
  <2>1. Signed(BigEndian(q, 8)) = q
    BY <1>2, <1>5, <1>6, SignedBytes, ZenonT(60)
  <2>2. ValueNumber(l) = Signed(BigEndian(q, 8)) * S
    BY <1>1, ValueNumberIs, Zenon
  <2> QED
    BY <2>1, <2>2, Zenon
<1> HIDE DEF l, S, q
<1>8. q * S = v.n - (v.n % S)
  BY <1>2, <1>3, <1>5
<1>9. v.kind \notin SmallInts \cup SmallUints \cup {"any", "uint64"}
  BY DEF SmallInts, SmallUints
<1>10. ValueNumber(l) = v.n - (v.n % S)
  BY <1>7, <1>8, Zenon
<1> QED
  BY <1>2, <1>4, <1>9, <1>10, OtherStored, ZenonT(60) DEF l, S

\* The seconds and microseconds of a time are its microseconds.
LEMMA Microseconds ==
  ASSUME NEW t \in Int
  PROVE  (t \div Second) * Mega + ((t % Second) \div Kilo) = t \div Kilo
<1> DEFINE S == Second
           q == t \div S
           r == t % S
           p == r \div Kilo
           z == r % Kilo
<1>1. Kilo \in Nat \ {0} /\ Mega \in Nat \ {0} /\ S \in Nat \ {0} /\ S = Kilo * Mega
  BY SecondIs, Zenon DEF Second
<1>2. q \in Int /\ r \in 0 .. S - 1 /\ t = q * S + r
  BY <1>1, Divides, ZenonT(60)
<1>3. r \in Int
  BY <1>2
<1>4. p \in Int /\ z \in 0 .. Kilo - 1 /\ r = p * Kilo + z
  BY <1>1, <1>3, Divides, Zenon
<1> HIDE DEF S, q, r, p, z
<1>5. q * Mega + p \in Int /\ t = (q * Mega + p) * Kilo + z
  BY <1>1, <1>2, <1>4
<1>6. t \div Kilo = q * Mega + p
  BY <1>1, <1>4, <1>5, DivideUnique, ZenonT(60)
<1> QED
  BY <1>6, Zenon DEF S, q, r, p

\* An extended time keeps them.
LEMMA TimeExtendedBack ==
  ASSUME NEW v \in GoValue, HasType(v), v.kind = "time", Fits(v.n - (v.n % Kilo), 8)
  PROVE  unmarshal(encodeDateTimeExtended(v.n), v.kind) = Stored([v EXCEPT !.n = v.n - (v.n % Kilo)])
<1> DEFINE l == encodeDateTimeExtended(v.n)
           q == v.n \div Kilo
<1>1. v.n \in Int /\ v.s = <<>> /\ 8 \in Nat \ {0} /\ 8 \in Nat /\ 8 # 0
  BY DEF GoValue, HasType
<1>2. l.type = TypeDateTimeExtended /\ l.raw = BigEndian((v.n \div Second) * Mega + ((v.n % Second) \div Kilo), 8)
  BY SMTT(60) DEF encodeDateTimeExtended, Wrote, lenLongInt
<1>3. l.raw = BigEndian(q, 8)
  BY <1>1, <1>2, Microseconds, ZenonT(60)
<1>4. Kilo \in Nat \ {0}
  BY SecondIs, Zenon
<1>5. l.type \notin TextTypes /\ v.kind \in Accepted(l.type)
  BY <1>2, AcceptedIs, TypesDiffer, Zenon
<1>6. q \in Int /\ v.n % Kilo \in 0 .. Kilo - 1 /\ v.n = q * Kilo + (v.n % Kilo)
  BY <1>1, <1>4, Divides, Zenon
<1>7. ValueNumber(l) = Int64(Signed(BigEndian(q, 8)) * Kilo)
  BY <1>2, <1>3, ValueNumberIs, ZenonT(60)
<1> HIDE DEF l, q
<1>8. q * Kilo = v.n - (v.n % Kilo) /\ q * Kilo \in Int
  BY <1>1, <1>4, <1>6
<1>9. Fits(q * Kilo, 8)
  BY <1>8, Zenon
<1>10. Fits(q, 8)
  <2> DEFINE H == Pow(8) \div 2
  <2>1. H \in Nat \ {0} /\ -H <= q * Kilo /\ q * Kilo < H
    BY <1>1, <1>9, PowFacts, ZenonT(60) DEF Fits
  <2> HIDE DEF H
  <2>2. (q >= 0 => q <= q * Kilo) /\ (q < 0 => q * Kilo <= q)
    <3>1. q \in Int
      BY <1>6, Zenon
    <3>2. \A a \in Int, b \in Nat \ {0} : (a >= 0 => a <= a * b) /\ (a < 0 => a * b <= a)
      OBVIOUS
    <3> QED
      BY <1>4, <3>1, <3>2, Zenon
  <2>3. -H <= q /\ q < H
    BY <1>6, <1>8, <2>1, <2>2
  <2> QED
    BY <2>3, Zenon DEF Fits, H
<1>11. Signed(BigEndian(q, 8)) = q
  BY <1>1, <1>6, <1>10, SignedBytes, Zenon
<1>12. ValueNumber(l) = v.n - (v.n % Kilo)
  BY <1>7, <1>8, <1>9, <1>11, Convert64, Zenon
<1>13. v.kind \notin SmallInts \cup SmallUints \cup {"any", "uint64"}
  BY DEF SmallInts, SmallUints
<1> QED
  BY <1>1, <1>5, <1>12, <1>13, OtherStored, ZenonT(60) DEF l

----------------------------------------------------------------------------
(***************************************************************************)
(* The theorems.                                                           *)
(***************************************************************************)

\* leaf is what encode made of the input and back is what unmarshal made of
\* the leaf.
SInv ==
  /\ in \in Inputs
  /\ leaf = IF pc = "encode" THEN None ELSE encode(in)
  /\ pc = "decode" => leaf.res \in {"ok", "skip"}
  /\ pc = "done" /\ leaf.res \in {"ok", "skip"} =>
       /\ dest \in Kinds \cup {"any"}
       /\ back = IF leaf.res = "skip" THEN Stored(Zero(dest)) ELSE unmarshal(leaf, dest)

\* The variables of the two steps agree in every state.
LEMMA SInvHolds == Spec => []SInv
<1>1. Init => SInv
  BY DEF Init, SInv
<1>2. SInv /\ [Next]_vars => SInv'
  <2> SUFFICES ASSUME SInv, [Next]_vars PROVE SInv'
    OBVIOUS
  <2>1. CASE Encode
    BY <2>1 DEF Encode, SInv
  <2>2. CASE Decode
    BY <2>2 DEF Decode, SInv
  <2>3. CASE UNCHANGED vars
    BY <2>3 DEF vars, SInv
  <2> QED
    BY <2>1, <2>2, <2>3, Zenon DEF Next
<1> QED
  BY <1>1, <1>2, PTL DEF Spec

\* encode writes values of the lengths that ValidHeader demands: four bytes,
\* eight, or a multiple of eight for a big integer of any size.
THEOREM ScalarsValidLengths == Spec => []ValidLengths
<1>1. SInv => ValidLengths
  <2> SUFFICES ASSUME SInv, leaf.res = "ok" PROVE HasLength(leaf)
    BY Zenon DEF ValidLengths, HasLength
  <2>1. leaf # None
    BY DEF None
  <2>2. leaf = encode(in) /\ in \in Input
    BY <2>1, ScalarsAssumption, Zenon DEF SInv
  <2>3. encode(in).res = "ok"
    BY <2>2, Zenon
  <2>4. HasLength(encode(in))
    BY <2>2, <2>3, EncodedLength, Zenon
  <2> QED
    BY <2>2, <2>4, Zenon
<1> QED
  BY <1>1, SInvHolds, PTL

\* What the wire type says of the value, and makes of it.
LEMMA RangeIs ==
  /\ leaf.type = TypeInteger => (InRange <=> Fits(in.v.n, 4)) /\ Rounded = in.v.n
  /\ leaf.type = TypeEnumeration => (InRange <=> UFits(in.v.n, 4)) /\ Rounded = in.v.n
  /\ leaf.type = TypeInterval => (InRange <=> UFits(Quotient(in.v.n, Second), 4) /\ in.v.n >= 0)
                                 /\ Rounded = in.v.n - (in.v.n % Second)
  /\ leaf.type = TypeDateTimeExtended => (InRange <=> Fits(in.v.n - (in.v.n % Kilo), 8))
                                         /\ Rounded = in.v.n - (in.v.n % Kilo)
  /\ leaf.type = TypeDateTime => Rounded = in.v.n - (in.v.n % Second)
  /\ leaf.type \in {0, TypeLongInteger, TypeBoolean, TypeBigInteger, TypeTextString, TypeByteString}
       => Rounded = in.v.n
BY DEF InRange, Rounded, lenInt, lenLongInt, TypeInteger, TypeEnumeration, TypeInterval, TypeLongInteger,
       TypeBoolean, TypeDateTime, TypeDateTimeExtended, TypeBigInteger, TypeTextString, TypeByteString

\* A number that was written as one of four bytes.
LEMMA NumberWritten ==
  ASSUME IsNumber(in.v), leaf = encodeInt(in.v.n) \/ leaf = encodeEnum(in.v.n), InRange
  PROVE  /\ (leaf = encodeInt(in.v.n) /\ Fits(in.v.n, 4)) \/ (leaf = encodeEnum(in.v.n) /\ UFits(in.v.n, 4))
         /\ Rounded = in.v.n
<1>1. \A x : encodeInt(x).type = TypeInteger /\ encodeEnum(x).type = TypeEnumeration
  BY SMTT(60) DEF encodeInt, encodeEnum, Wrote
<1>2. CASE leaf = encodeInt(in.v.n)
  <2>1. leaf.type = TypeInteger
    BY <1>1, <1>2, ZenonT(60)
  <2> QED
    BY <1>2, <2>1, RangeIs, ZenonT(60)
<1>3. CASE leaf = encodeEnum(in.v.n)
  <2>1. leaf.type = TypeEnumeration
    BY <1>1, <1>3, Zenon
  <2> QED
    BY <1>3, <2>1, RangeIs, ZenonT(60)
<1> QED
  BY <1>2, <1>3, Zenon

\* The number that an integer variable holds after unmarshal is the one that
\* encode was given, whatever the two integer types are: what does not fit is
\* refused.
THEOREM ScalarsNumbersNotChanged == Spec => []NumbersNotChanged
<1>1. SInv => NumbersNotChanged
  <2> SUFFICES ASSUME SInv, pc = "done", leaf.res = "ok", back.res = "ok", IsNumber(in.v), InRange,
                      dest \in SmallInts \cup SmallUints, ~(dest = "uint" /\ in.v.n < 0)
               PROVE  back.v.n = in.v.n
    BY Zenon DEF NumbersNotChanged
  <2>1. leaf = encode(in) /\ in \in Input /\ leaf.res # "skip"
    BY ScalarsAssumption DEF SInv
  <2>2. in.v.n \in Int /\ in.v.kind \in SmallInts \cup SmallUints
    BY <2>1 DEF Input, GoValue, IsNumber
  <2>3. back = unmarshal(leaf, dest)
    BY <2>1, Zenon DEF SInv
  <2>4. leaf = encodeInt(in.v.n) \/ leaf = encodeEnum(in.v.n)
    <3>1. encode(in).res \in {"ok", "skip"} /\ encode(in) # None
      BY <2>1 DEF None
    <3>2. WritesNumber(in, leaf) \/ WritesString(in, leaf)
      BY <2>1, <3>1, EncodeIs, ZenonT(60)
    <3>3. in.v.kind \notin {"int64", "uint64", "bool", "bigint", "duration", "time", "string", "bytes"}
      BY <2>2 DEF SmallInts, SmallUints
    <3> QED
      BY <3>2, <3>3, ZenonT(60) DEF WritesNumber, WritesString
  <2>5. (leaf = encodeInt(in.v.n) /\ Fits(in.v.n, 4)) \/ (leaf = encodeEnum(in.v.n) /\ UFits(in.v.n, 4))
    BY <2>4, NumberWritten, ZenonT(60)
  <2>6. back = Stored(Value(leaf, dest, in.v.n))
    BY <2>2, <2>3, <2>5, NumberSame, ZenonT(60)
  <2> QED
    BY <2>6 DEF Stored, Value
<1> QED
  BY <1>1, SInvHolds, PTL

\* The round trip, for every value of every type: what Marshal accepts comes
\* back from Unmarshal as it was, up to the precision of its wire type.
THEOREM ScalarsRoundTrip == Spec => []RoundTrip
<1>1. SInv => RoundTrip
  <2> DEFINE v == in.v
  <2> SUFFICES ASSUME SInv, pc = "done", dest = v.kind, leaf.res \in {"ok", "skip"}, InRange,
                      ~(v.kind = "string" /\ leaf.type \in {TypeInteger, TypeEnumeration})
               PROVE  back = Stored(IF EmptyBytes(v) THEN Zero("bytes") ELSE [v EXCEPT !.n = Rounded])
    BY Zenon DEF RoundTrip
  <2>1. leaf = encode(in) /\ in \in Input /\ HasType(v)
    BY ScalarsAssumption DEF SInv
  <2>2. v \in GoValue /\ dest \in Kinds \cup {"any"}
    BY <2>1 DEF Input, SInv
  <2>3. v.kind # "nil" /\ v.n \in Int
    BY <2>2 DEF Kinds, SmallInts, SmallUints, GoValue
  <2>4. \A t, b : Wrote(t, b).type = t
    BY SMTT(60) DEF Wrote
  <2>5. ASSUME leaf = None, ~EmptyBytes(v)
        PROVE  back = Stored([v EXCEPT !.n = Rounded])
    <3>1. v = Zero(v.kind)
      <4>1. encode(in).res \in {"ok", "skip"} /\ encode(in).res # "ok"
        BY <2>1, <2>5 DEF None
      <4> QED
        BY <2>1, <2>3, <2>5, <4>1, EncodeIs, ZenonT(60)
    <3>2. leaf.res = "skip" /\ leaf.type = 0
      BY <2>5 DEF None
    <3>3. back = Stored(v)
      BY <3>1, <3>2, Zenon DEF SInv
    <3>4. Rounded = v.n
      BY <3>2, RangeIs, Zenon
    <3>5. [v EXCEPT !.n = v.n] = v
      BY <2>2 DEF GoValue
    <3> QED
      BY <3>3, <3>4, <3>5, ZenonT(60)
  <2>6. ASSUME leaf # None, ~EmptyBytes(v)
        PROVE  back = Stored([v EXCEPT !.n = Rounded])
    <3>1. encode(in).res = "ok" /\ (WritesNumber(in, leaf) \/ WritesString(in, leaf))
      BY <2>1, <2>6, EncodeIs, ZenonT(60)
    <3>2. back = unmarshal(leaf, v.kind)
      <4>1. leaf.res # "skip"
        BY <2>1, <3>1
      <4> QED
        BY <4>1, Zenon DEF SInv
    <3>3. CASE IsNumber(v) /\ (leaf = encodeInt(v.n) \/ leaf = encodeEnum(v.n))
      <4>1. /\ Rounded = v.n
            /\ (leaf = encodeInt(v.n) /\ Fits(v.n, 4)) \/ (leaf = encodeEnum(v.n) /\ UFits(v.n, 4))
        BY <3>3, NumberWritten, Zenon
      <4> QED
        <5>1. unmarshal(leaf, v.kind) = Stored([v EXCEPT !.n = v.n])
          BY <2>1, <2>2, <3>3, <4>1, NumberBack, ZenonT(60)
        <5> QED
          BY <3>2, <4>1, <5>1, ZenonT(60)
    <3>4. CASE v.kind \in {"int64", "uint64"} /\ leaf = encodeLongInt(v.n)
      <4>1. leaf.type = TypeLongInteger
        BY <2>4, <3>4, Zenon DEF encodeLongInt
      <4>2. Rounded = v.n
        BY <4>1, RangeIs, ZenonT(60)
      <4> QED
        BY <2>1, <2>2, <3>2, <3>4, <4>2, LongBack, ZenonT(60)
    <3>5. CASE v.kind = "bool" /\ leaf = encodeBool(v.n)
      <4>1. leaf.type = TypeBoolean
        BY <2>4, <3>5, Zenon DEF encodeBool
      <4>2. Rounded = v.n
        BY <4>1, RangeIs, Zenon
      <4> QED
        BY <2>1, <2>2, <3>2, <3>5, <4>2, BoolBack, ZenonT(60)
    <3>6. CASE v.kind = "bigint" /\ leaf = Wrote(TypeBigInteger, encodeBigInt(v.n))
      <4>1. leaf.type = TypeBigInteger
        BY <2>4, <3>6, Zenon
      <4>2. Rounded = v.n
        BY <4>1, RangeIs, ZenonT(60)
      <4> QED
        BY <2>1, <2>2, <3>2, <3>6, <4>2, BigBack, ZenonT(60)
    <3>7. CASE v.kind = "duration" /\ leaf = encodeInterval(v.n)
      <4>1. leaf.type = TypeInterval
        BY <2>4, <3>7, ZenonT(60) DEF encodeInterval
      <4>2. Rounded = v.n - (v.n % Second) /\ UFits(Quotient(v.n, Second), 4) /\ v.n >= 0
        BY <4>1, RangeIs, ZenonT(60)
      <4> QED
        BY <2>1, <2>2, <3>2, <3>7, <4>2, DurationBack, ZenonT(60)
    <3>8. CASE v.kind = "time" /\ leaf = encodeDateTime(v.n)
      <4>1. leaf.type = TypeDateTime
        BY <2>4, <3>8, Zenon DEF encodeDateTime
      <4>2. Rounded = v.n - (v.n % Second)
        BY <4>1, RangeIs, Zenon
      <4> QED
        BY <2>1, <2>2, <3>2, <3>8, <4>2, TimeBack, ZenonT(60)
    <3>9. CASE v.kind = "time" /\ leaf = encodeDateTimeExtended(v.n)
      <4>1. leaf.type = TypeDateTimeExtended
        BY <2>4, <3>9, Zenon DEF encodeDateTimeExtended
      <4>2. Rounded = v.n - (v.n % Kilo) /\ Fits(v.n - (v.n % Kilo), 8)
        BY <4>1, RangeIs, ZenonT(60)
      <4> QED
        BY <2>1, <2>2, <3>2, <3>9, <4>2, TimeExtendedBack, ZenonT(60)
    <3>10. CASE v.kind = "string" /\ \E x : leaf = encodeInt(x) \/ leaf = encodeEnum(x)
      <4>1. leaf.type \in {TypeInteger, TypeEnumeration}
        BY <2>4, <3>10, Zenon DEF encodeInt, encodeEnum
      <4> QED
        BY <3>10, <4>1, Zenon
    <3>11. CASE v.kind = "string" /\ leaf = Wrote(TypeTextString, v.s)
      <4>1. leaf.type = TypeTextString
        BY <2>4, <3>11, ZenonT(60)
      <4>2. Rounded = v.n
        BY <4>1, RangeIs, ZenonT(60)
      <4> QED
        BY <2>1, <2>2, <2>6, <3>2, <3>11, <4>2, StringBack, ZenonT(60)
    <3>12. CASE v.kind = "bytes" /\ leaf = Wrote(TypeByteString, v.s)
      <4>1. leaf.type = TypeByteString
        BY <2>4, <3>12, Zenon
      <4>2. Rounded = v.n
        BY <4>1, RangeIs, Zenon
      <4> QED
        BY <2>1, <2>2, <2>6, <3>2, <3>12, <4>2, StringBack, ZenonT(60)
    <3> QED
      BY <3>1, <3>3, <3>4, <3>5, <3>6, <3>7, <3>8, <3>9, <3>10, <3>11, <3>12, ZenonT(60) DEF WritesNumber, WritesString
  <2>7. ASSUME EmptyBytes(v)
        PROVE  back = Stored(Zero("bytes"))
    <3>1. v.kind = "bytes" /\ v.s = <<>> /\ v.kind # "string"
      BY <2>7 DEF EmptyBytes
    <3>2. CASE leaf = None
      <4>1. leaf.res = "skip"
        BY <3>2 DEF None
      <4> QED
        BY <3>1, <4>1, Zenon DEF SInv
    <3>3. CASE leaf # None
      <4>1. encode(in).res = "ok" /\ (WritesNumber(in, leaf) \/ WritesString(in, leaf))
        BY <2>1, <3>3, EncodeIs, ZenonT(60)
      <4>2. ~IsNumber(v) /\ v.kind \notin {"int64", "uint64", "bool", "bigint", "duration", "time"}
        BY <3>1 DEF IsNumber, SmallInts, SmallUints
      <4>3. leaf = Wrote(TypeByteString, v.s)
        BY <3>1, <4>1, <4>2, ZenonT(60) DEF WritesNumber, WritesString
      <4>4. back = unmarshal(leaf, v.kind)
        <5>1. leaf.res # "skip"
          BY <2>1, <4>1
        <5> QED
          BY <5>1, Zenon DEF SInv
      <4>5. back = Stored([v EXCEPT !.n = 0])
        BY <2>1, <2>2, <2>7, <3>1, <4>3, <4>4, StringBack, ZenonT(60)
      <4>6. [v EXCEPT !.n = 0] = Zero("bytes")
        BY <2>2, <3>1 DEF GoValue, Zero
      <4> QED
        BY <4>5, <4>6, Zenon
    <3> QED
      BY <3>2, <3>3, Zenon
  <2> QED
    BY <2>5, <2>6, <2>7, Zenon
<1> QED
  BY <1>1, SInvHolds, PTL
=============================================================================
