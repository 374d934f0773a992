-------------------------- MODULE PacketCodecProofs -------------------------
(***************************************************************************)
(* Proofs about PacketCodec, for any base of the bytes, sizes of numbers,   *)
(* byte orders of the machines, values and number of values.               *)
(*                                                                         *)
(* That what is read is what was written says nothing of a step by itself:  *)
(* the step has to know where in the buffer the value starts that it reads. *)
(* Inv says it: the buffer is the bytes of the values that were written,    *)
(* one after the other (Coded), and the position of the reader is at the    *)
(* start of the value that is expected (Cuts), as long as the formats of    *)
(* those before it carried them.                                            *)
(*                                                                         *)
(* Below it are the numbers: what division leaves (Splits), that the bytes  *)
(* of a number are its digits and their number is it again (HighDigits,     *)
(* UnsignedEncode), for numbers with a sign and without (DecodeEncode).     *)
(***************************************************************************)
EXTENDS PacketCodec, SharedLemmas, SequenceTheorems, TLAPS

-----------------------------------------------------------------------------
(* Division.                                                                *)

\* q and r are what v leaves when it is divided by n.
Splits(v, n, q, r) == q \in Int /\ r \in 0..(n - 1) /\ v = n * q + r

\* Division splits every number.
LEMMA SplitExists ==
  ASSUME NEW v \in Int, NEW n \in Nat \ {0}
  PROVE  \E q, r : Splits(v, n, q, r) /\ v \div n = q /\ v % n = r
<1>1. v \div n \in Int
  OBVIOUS
<1>2. v % n \in 0..(n - 1)
  OBVIOUS
<1>3. PICK q \in Int : v \div n = q
  BY <1>1
<1>4. PICK r \in 0..(n - 1) : v % n = r
  BY <1>2
<1>5. v = n * q + r
  BY <1>3, <1>4
<1>6. QED
  BY <1>3, <1>4, <1>5 DEF Splits

\* Products of positive numbers, and of a number by a larger one.
LEMMA ProductPositive ==
  ASSUME NEW a \in Nat, NEW b \in Nat
  PROVE  a * b \in Nat /\ (a # 0 => a * b >= b)
OBVIOUS

LEMMA ProductMonotone ==
  ASSUME NEW n \in Nat, NEW a \in Int, NEW b \in Int, a <= b
  PROVE  n * a <= n * b
OBVIOUS

\* What the provers need of products said of single terms.
LEMMA Distribute ==
  ASSUME NEW n \in Int, NEW a \in Int, NEW b \in Int
  PROVE  n * (a + b) = n * a + n * b /\ n * (a - b) = n * a - n * b
         /\ n * a \in Int
OBVIOUS

LEMMA Associate ==
  ASSUME NEW n \in Int, NEW a \in Int, NEW b \in Int
  PROVE  n * (a * b) = (n * a) * b /\ a * b = b * a
OBVIOUS

\* A number is split in one way.
LEMMA SplitOnce ==
  ASSUME NEW v \in Int, NEW n \in Nat \ {0}, NEW q, NEW r, Splits(v, n, q, r),
         NEW d, NEW m, Splits(v, n, d, m)
  PROVE  d = q /\ m = r
<1>1. /\ q \in Int /\ r \in 0..(n - 1) /\ v = n * q + r
      /\ d \in Int /\ m \in 0..(n - 1) /\ v = n * d + m
  BY DEF Splits
<1>2. ASSUME d < q PROVE FALSE
  <2>1. n * (d + 1) <= n * q
    BY <1>1, <1>2, ProductMonotone
  <2>2. n * (d + 1) = n * d + n * 1
    BY <1>1, Distribute
  <2>3. n * q \in Int /\ n * d \in Int
    BY <1>1, Distribute
  <2> DEFINE nq == n * q
             nd == n * d
  <2> HIDE DEF nq, nd
  <2>4. nd + n <= nq /\ nq \in Int /\ nd \in Int /\ v = nq + r /\ v = nd + m
    BY <1>1, <2>1, <2>2, <2>3 DEF nq, nd
  <2>5. QED
    BY <1>1, <2>4
<1>3. ASSUME d > q PROVE FALSE
  <2>1. n * (q + 1) <= n * d
    BY <1>1, <1>3, ProductMonotone
  <2>2. n * (q + 1) = n * q + n * 1
    BY <1>1, Distribute
  <2>3. n * q \in Int /\ n * d \in Int
    BY <1>1, Distribute
  <2> DEFINE nq == n * q
             nd == n * d
  <2> HIDE DEF nq, nd
  <2>4. nq + n <= nd /\ nq \in Int /\ nd \in Int /\ v = nq + r /\ v = nd + m
    BY <1>1, <2>1, <2>2, <2>3 DEF nq, nd
  <2>5. QED
    BY <1>1, <2>4
<1>4. d = q
  BY <1>1, <1>2, <1>3
<1>5. m = r
  <2> DEFINE nq == n * q
  <2>1. nq \in Int /\ v = nq + r /\ v = nq + m
    BY <1>1, <1>4, Distribute
  <2> HIDE DEF nq
  <2>2. QED
    BY <1>1, <2>1
<1>6. QED
  BY <1>4, <1>5

\* What divides is what \div and % give.
LEMMA SplitIs ==
  ASSUME NEW v \in Int, NEW n \in Nat \ {0}, NEW q, NEW r, Splits(v, n, q, r)
  PROVE  v \div n = q /\ v % n = r
BY SplitExists, SplitOnce

\* To divide twice is to divide by the product.
LEMMA SplitTwice ==
  ASSUME NEW v \in Int, NEW n \in Nat \ {0}, NEW b \in Nat \ {0},
         NEW q, NEW r, Splits(v, n, q, r), NEW p, NEW s, Splits(q, b, p, s)
  PROVE  Splits(v, b * n, p, n * s + r)
<1> DEFINE low == n * s + r
<1>1. q \in Int /\ r \in 0..(n - 1) /\ v = n * q + r
  BY DEF Splits
<1>2. p \in Int /\ s \in 0..(b - 1) /\ q = b * p + s
  BY DEF Splits
<1>3. b * n \in Nat \ {0} /\ b * p \in Int /\ n * s \in Int /\ n * b = b * n
  BY <1>2, ProductPositive, Distribute, Associate
<1>4. n * q = (b * n) * p + n * s
  <2>1. n * (b * p + s) = n * (b * p) + n * s
    BY <1>2, <1>3, Distribute
  <2>2. n * (b * p) = (n * b) * p
    BY <1>2, Associate
  <2>3. QED
    BY <1>2, <1>3, <2>1, <2>2
<1>5. low \in 0..(b * n - 1)
  <2>1. n * s <= n * (b - 1) /\ n * 0 <= n * s
    BY <1>2, ProductMonotone
  <2>2. n * (b - 1) = n * b - n * 1 /\ n * 0 = 0 /\ n * 1 = n
    BY Distribute
  <2> DEFINE bn == b * n
             ns == n * s
  <2> HIDE DEF bn, ns
  <2>3. ns <= bn - n /\ 0 <= ns /\ bn \in Int /\ ns \in Int
    BY <1>3, <2>1, <2>2 DEF bn, ns
  <2>4. ns + r \in 0..(bn - 1)
    BY <1>1, <2>3
  <2>5. QED
    BY <2>4 DEF bn, ns
<1>6. v = (b * n) * p + low
  <2> DEFINE x == (b * n) * p
             ns == n * s
             nq == n * q
  <2>1. x \in Int /\ ns \in Int /\ nq = x + ns /\ v = nq + r
    BY <1>1, <1>2, <1>3, <1>4, Distribute
  <2> HIDE DEF x, ns, nq
  <2>2. v = x + (ns + r)
    BY <1>1, <2>1
  <2>3. QED
    BY <2>2 DEF x, ns
<1>7. QED
  BY <1>2, <1>5, <1>6 DEF Splits

-----------------------------------------------------------------------------
(* The recursive functions.                                                 *)

\* The recursive definition of Power defines what it says.
LEMMA PowerIs ==
    /\ Power \in [Nat -> Nat \ {0}]
    /\ Power[0] = 1
    /\ \A n \in Nat : Power[n + 1] = Base * Power[n]
<1> DEFINE step == [x \in Nat \X (Nat \ {0}) |-> Base * x[2]]
           Def(p) == [n \in Nat |-> IF n = 0 THEN 1 ELSE Base * p[n - 1]]
<1>1. Base \in Nat \ {0}
  BY ByteAssumption
<1>2. step \in [Nat \X (Nat \ {0}) -> Nat \ {0}]
  <2>1. ASSUME NEW x \in Nat \X (Nat \ {0}) PROVE Base * x[2] \in Nat \ {0}
    BY <1>1, ProductPositive
  <2>2. QED
    BY <2>1
<1>3. \A n \in Nat, p \in Nat \ {0} : step[<<n, p>>] = Base * p
  OBVIOUS
<1>4. PICK p \in [Nat -> Nat \ {0}] :
         p[0] = 1 /\ \A n \in Nat : p[n + 1] = step[<<n, p[n]>>]
  <2> DEFINE S == Nat \ {0}
             a == 1
  <2>1. a \in S /\ step \in [Nat \X S -> S]
    BY <1>2
  <2> HIDE DEF S, a, step
  <2>2. \E p \in [Nat -> S] : Solves(p, a, step)
    BY <2>1, Recursion
  <2>3. QED
    BY <2>2 DEF S, a, Solves
<1> HIDE DEF step
<1>5. ASSUME NEW n \in Nat, n # 0 PROVE p[n] = Base * p[n - 1]
  <2>1. n - 1 \in Nat /\ (n - 1) + 1 = n
    BY <1>5
  <2>2. QED
    BY <1>3, <1>4, <2>1
<1>6. p = Def(p)
  <2>1. \A n \in Nat : p[n] = IF n = 0 THEN 1 ELSE Base * p[n - 1]
    BY <1>4, <1>5
  <2>2. p = [n \in Nat |-> p[n]]
    BY <1>4
  <2>3. QED
    BY <2>1, <2>2
<1>7. Power = CHOOSE q : q = Def(q)
  BY DEF Power
<1>8. Power = Def(Power)
  <2> HIDE DEF Def
  <2>1. QED
    BY <1>6, <1>7
<1>9. \A n \in Nat : Power[n] = IF n = 0 THEN 1 ELSE Base * Power[n - 1]
  BY <1>8
<1>10. Power[0] = 1 /\ \A n \in Nat : Power[n + 1] = Base * Power[n]
  <2>1. ASSUME NEW n \in Nat PROVE Power[n + 1] = Base * Power[n]
    <3>1. n + 1 \in Nat /\ n + 1 # 0 /\ (n + 1) - 1 = n
      OBVIOUS
    <3>2. QED
      BY <1>9, <3>1
  <2>2. QED
    BY <1>9, <2>1
<1>11. \A n \in Nat : Power[n] \in Nat \ {0}
  <2> DEFINE T == {n \in Nat : Power[n] \in Nat \ {0}}
  <2>1. 0 \in T
    BY <1>10
  <2>2. ASSUME NEW n \in Nat, n \in T PROVE n + 1 \in T
    BY <1>1, <1>10, <2>2, ProductPositive
  <2>3. \A n \in Nat : n \in T
    <3> HIDE DEF T
    <3>1. QED
      BY <2>1, <2>2, AllNumbers
  <2>4. QED
    BY <2>3
<1>12. Power = [n \in Nat |-> Power[n]]
  BY <1>8
<1>13. QED
  BY <1>10, <1>11, <1>12

\* A power of an even number is even.
LEMMA PowerEven ==
  ASSUME NEW n \in Nat \ {0}
  PROVE  \E h \in Nat \ {0} : Power[n] = 2 * h /\ Power[n] \div 2 = h
<1>1. PICK b \in Nat \ {0} : Base = 2 * b
  BY ByteAssumption
<1>2. n - 1 \in Nat /\ (n - 1) + 1 = n
  OBVIOUS
<1>3. PICK p \in Nat \ {0} : p = Power[n - 1] /\ Power[n] = Base * p
  BY <1>2, PowerIs
<1>4. b * p \in Nat \ {0}
  BY ProductPositive
<1>5. (2 * b) * p = 2 * (b * p)
  BY Associate
<1>6. Power[n] = 2 * (b * p)
  BY <1>1, <1>3, <1>5
<1> DEFINE h == b * p
<1> HIDE DEF h
<1>7. h \in Nat \ {0} /\ Power[n] = 2 * h
  BY <1>4, <1>6 DEF h
<1>8. QED
  BY <1>7

\* What v \div Power[i] is, step by step.
LEMMA Shifts ==
  ASSUME NEW v \in Int
  PROVE  /\ v \div Power[0] = v
         /\ \A i \in Nat : v \div Power[i] \in Int
         /\ \A i \in Nat : v \div Power[i + 1] = (v \div Power[i]) \div Base
<1>1. \A i \in Nat : Power[i] \in Nat \ {0}
  BY PowerIs
<1>2. v \div Power[0] = v
  BY PowerIs
<1>3. \A i \in Nat : v \div Power[i] \in Int
  BY <1>1
<1>4. ASSUME NEW i \in Nat
      PROVE  v \div Power[i + 1] = (v \div Power[i]) \div Base
  <2>1. PICK p \in Nat \ {0} : p = Power[i] /\ Power[i + 1] = Base * p
    BY PowerIs
  <2>2. PICK b \in Nat \ {0} : b = Base
    BY ByteAssumption
  <2>3. PICK m \in Nat \ {0} : m = b * p
    BY ProductPositive
  <2>4. PICK q, r : Splits(v, p, q, r) /\ v \div p = q
    BY SplitExists
  <2>5. PICK t, s : Splits(q, b, t, s) /\ q \div b = t
    <3>1. q \in Int
      BY <2>4 DEF Splits
    <3>2. QED
      BY <3>1, SplitExists
  <2>6. Splits(v, m, t, p * s + r)
    BY <2>3, <2>4, <2>5, SplitTwice
  <2>7. v \div m = t
    BY <2>6, SplitIs
  <2>8. QED
    BY <2>1, <2>2, <2>3, <2>4, <2>5, <2>7
<1>5. QED
  BY <1>2, <1>3, <1>4

\* The recursive definition of High defines what it says.
LEMMA HighIs ==
  ASSUME NEW b \in Seq(0..(Base - 1))
  PROVE  /\ High(b) \in [0..Len(b) -> Nat]
         /\ High(b)[0] = 0
         /\ \A k \in 1..Len(b) :
               High(b)[k] = b[Len(b) + 1 - k] + Base * High(b)[k - 1]
<1> DEFINE n == Len(b)
           Def(h) == [i \in 0..n |-> IF i = 0 THEN 0
                                     ELSE b[n + 1 - i] + Base * h[i - 1]]
           next(k, x) == IF k < n THEN b[n - k] + Base * x ELSE x
           step == [x \in Nat \X Nat |-> next(x[1], x[2])]
<1>1. Base \in Nat /\ n \in Nat
  BY ByteAssumption
<1>2. \A k \in 1..n : b[k] \in Nat
  BY <1>1, ElementOfSeq
<1> HIDE DEF n
<1>3. ASSUME NEW k \in Nat, NEW x \in Nat PROVE next(k, x) \in Nat
  <2>1. CASE k < n
    <3>1. n - k \in 1..n
      BY <1>1, <2>1
    <3>2. b[n - k] \in Nat /\ Base * x \in Nat
      BY <1>1, <1>2, <3>1, ProductPositive
    <3> DEFINE y == Base * x
               z == b[n - k]
    <3> HIDE DEF y, z
    <3>3. y + z \in Nat
      BY <3>2 DEF y, z
    <3>4. z + y \in Nat
      BY <3>2 DEF y, z
    <3>5. QED
      BY <2>1, <3>4 DEF y, z
  <2>2. CASE ~(k < n)
    BY <2>2
  <2>3. QED
    BY <2>1, <2>2
<1>4. step \in [Nat \X Nat -> Nat]
  BY <1>3
<1>5. \A k, x \in Nat : step[<<k, x>>] = next(k, x)
  OBVIOUS
<1> HIDE DEF step
<1>6. PICK f \in [Nat -> Nat] :
         f[0] = 0 /\ \A k \in Nat : f[k + 1] = step[<<k, f[k]>>]
  <2> DEFINE a == 0
  <2>1. a \in Nat
    OBVIOUS
  <2> HIDE DEF a
  <2>2. \E f \in [Nat -> Nat] : Solves(f, a, step)
    BY <1>4, <2>1, Recursion
  <2>3. QED
    BY <2>2 DEF a, Solves
<1> DEFINE g == [i \in 0..n |-> f[i]]
<1>7. ASSUME NEW i \in 0..n, i # 0 PROVE f[i] = b[n + 1 - i] + Base * f[i - 1]
  <2>1. i - 1 \in Nat /\ (i - 1) + 1 = i /\ i - 1 < n /\ n - (i - 1) = n + 1 - i
    BY <1>1, <1>7
  <2>2. f[i] = step[<<i - 1, f[i - 1]>>]
    BY <1>6, <2>1
  <2>3. step[<<i - 1, f[i - 1]>>] = next(i - 1, f[i - 1])
    BY <1>5, <1>6, <2>1
  <2>4. QED
    BY <2>1, <2>2, <2>3
<1>8. g = Def(g)
  <2>1. ASSUME NEW i \in 0..n
        PROVE  g[i] = IF i = 0 THEN 0 ELSE b[n + 1 - i] + Base * g[i - 1]
    <3>1. CASE i = 0
      BY <1>6, <3>1
    <3>2. CASE i # 0
      <4>1. i - 1 \in 0..n
        BY <1>1, <3>2
      <4>2. g[i] = f[i] /\ g[i - 1] = f[i - 1]
        BY <4>1
      <4>3. QED
        BY <1>7, <3>2, <4>2
    <3>3. QED
      BY <3>1, <3>2
  <2>2. g = [i \in 0..n |-> g[i]]
    OBVIOUS
  <2> HIDE DEF g
  <2>3. QED
    BY <2>1, <2>2
<1>9. High(b) = CHOOSE h : h = Def(h)
  BY DEF High, n
<1>10. High(b) = Def(High(b))
  <2> HIDE DEF Def, g
  <2>1. QED
    BY <1>8, <1>9
<1> DEFINE h == High(b)
<1> HIDE DEF h
<1>11. h = Def(h)
  BY <1>10 DEF h
<1>12. \A i \in 0..n : h[i] = IF i = 0 THEN 0 ELSE b[n + 1 - i] + Base * h[i - 1]
  BY <1>11
<1>13. h[0] = 0 /\ \A k \in 1..n : h[k] = b[n + 1 - k] + Base * h[k - 1]
  BY <1>1, <1>12
<1>14. \A k \in 0..n : h[k] \in Nat
  <2> DEFINE T == {k \in Nat : k <= n => h[k] \in Nat}
  <2>1. 0 \in T
    BY <1>13
  <2>2. ASSUME NEW k \in Nat, k \in T PROVE k + 1 \in T
    <3>1. CASE k + 1 <= n
      <4>1. k <= n /\ k + 1 \in 1..n /\ (k + 1) - 1 = k /\ n + 1 - (k + 1) = n - k
            /\ n - k \in 1..n
        BY <1>1, <3>1
      <4>2. h[k + 1] = b[n - k] + Base * h[k]
        BY <1>13, <4>1
      <4>3. h[k] \in Nat
        BY <2>2, <4>1
      <4>4. next(k, h[k]) = b[n - k] + Base * h[k]
        BY <1>1, <4>1
      <4>5. next(k, h[k]) \in Nat
        BY <1>3, <4>3
      <4>6. h[k + 1] \in Nat
        <5> HIDE DEF next
        <5>1. h[k + 1] = next(k, h[k])
          BY <4>2, <4>4, Zenon
        <5>2. QED
          BY <4>5, <5>1, Zenon
      <4>7. QED
        BY <4>6
    <3>2. CASE ~(k + 1 <= n)
      BY <3>2
    <3>3. QED
      BY <3>1, <3>2
  <2>3. \A k \in Nat : k \in T
    <3> HIDE DEF T
    <3>1. QED
      BY <2>1, <2>2, AllNumbers
  <2>4. QED
    BY <1>1, <2>3
<1>15. h \in [0..n -> Nat]
  <2>1. h = [i \in 0..n |-> h[i]]
    BY <1>11
  <2>2. QED
    BY <1>14, <2>1
<1>16. QED
  BY <1>13, <1>15 DEF h, n

-----------------------------------------------------------------------------
(* Numbers and their bytes.                                                 *)

\* What a byte is.
Byte == 0..(Base - 1)

\* The n bytes of v, the lowest first.
Digits(v, n) == [i \in 1..n |-> (v \div Power[i - 1]) % Base]

\* The bytes that the strings and lines are about.
LEMMA ByteFacts ==
    Base \in Nat \ {0} /\ Base - 1 \in Nat /\ 0 \in Byte /\ CR \in Byte /\ LF \in Byte
    /\ Byte \subseteq Nat /\ CR # 0 /\ LF # 0 /\ CR # LF
BY ByteAssumption DEF Byte

\* The bytes of a number are bytes.
LEMMA DigitsType ==
  ASSUME NEW v \in Int, NEW n \in Nat
  PROVE  Digits(v, n) \in Seq(Byte) /\ Len(Digits(v, n)) = n
<1>1. ASSUME NEW i \in 1..n PROVE (v \div Power[i - 1]) % Base \in Byte
  <2>1. PICK q \in Int : q = v \div Power[i - 1]
    BY Shifts
  <2>2. q % Base \in Byte
    BY ByteFacts DEF Byte
  <2>3. QED
    BY <2>1, <2>2
<1>2. Digits(v, n) \in [1..n -> Byte]
  BY <1>1 DEF Digits
<1>3. QED
  BY <1>2, IsASeq, LenProperties

\* The bytes of InOrder are those of s, forwards or backwards.
LEMMA InOrderIs ==
  ASSUME NEW S, NEW s \in Seq(S), NEW order
  PROVE  /\ InOrder(s, order) \in Seq(S)
         /\ Len(InOrder(s, order)) = Len(s)
         /\ InOrder(InOrder(s, order), order) = s
<1>1. CASE order = 1
  <2> DEFINE n == Len(s)
             r == [i \in 1..n |-> s[(n - i) + 1]]
  <2>1. n \in Nat /\ s \in [1..n -> S]
    OBVIOUS
  <2>2. Reverse(s) = r
    BY DEF Reverse
  <2>3. r \in [1..n -> S]
    BY <2>1
  <2>4. r \in Seq(S) /\ Len(r) = n
    BY <2>1, <2>3, IsASeq, LenProperties
  <2>5. Reverse(r) = [i \in 1..n |-> r[(n - i) + 1]]
    BY <2>4 DEF Reverse
  <2>6. \A i \in 1..n : r[(n - i) + 1] = s[i]
    BY <2>1
  <2>7. Reverse(r) = [i \in 1..n |-> s[i]]
    BY <2>5, <2>6
  <2>8. s = [i \in 1..n |-> s[i]]
    BY <2>1
  <2>9. QED
    BY <1>1, <2>2, <2>4, <2>7, <2>8 DEF InOrder
<1>2. CASE order # 1
  BY <1>2 DEF InOrder
<1>3. QED
  BY <1>1, <1>2

\* One byte has one order.
LEMMA InOrderOne ==
  ASSUME NEW S, NEW s \in Seq(S), Len(s) = 1, NEW order
  PROVE  InOrder(s, order) = s
<1>1. Reverse(s) = [i \in 1..1 |-> s[(1 - i) + 1]]
  BY DEF Reverse
<1>2. \A i \in 1..1 : (1 - i) + 1 = i
  OBVIOUS
<1>3. s = [i \in 1..1 |-> s[i]]
  OBVIOUS
<1>4. Reverse(s) = s
  BY <1>1, <1>2, <1>3
<1>5. QED
  BY <1>4 DEF InOrder

\* Encode gives the digits of a number in its byte order.
LEMMA EncodeType ==
  ASSUME NEW v \in Int, NEW n \in Nat, NEW order
  PROVE  /\ Encode(v, n, order) \in Seq(Byte) /\ Len(Encode(v, n, order)) = n
         /\ Encode(v, n, order) = InOrder(Digits(v, n), order)
<1>1. Encode(v, n, order) = InOrder(Digits(v, n), order)
  BY DEF Encode, Digits
<1>2. QED
  BY <1>1, DigitsType, InOrderIs

\* Read from the highest byte down, the bytes of v give v but for what is above
\* them.
LEMMA HighDigits ==
  ASSUME NEW v \in Int, NEW n \in Nat
  PROVE  \A k \in 0..n : High(Digits(v, n))[k] =
            v \div Power[n - k] - Power[k] * (v \div Power[n])
<1> DEFINE d == Digits(v, n)
           h == High(d)
           q == [i \in Nat |-> v \div Power[i]]
           top == q[n]
           T == {k \in Nat : k <= n => h[k] = q[n - k] - Power[k] * top}
<1>1. /\ q \in [Nat -> Int]
      /\ \A i \in Nat : q[i] = v \div Power[i] /\ q[i + 1] = q[i] \div Base
  BY Shifts
<1>2. d \in Seq(Byte) /\ Len(d) = n
  BY DigitsType
<1>3. ASSUME NEW i \in Nat, i < n PROVE d[i + 1] = q[i] % Base
  <2>1. i + 1 \in 1..n /\ (i + 1) - 1 = i
    BY <1>3
  <2>2. QED
    BY <1>1, <2>1 DEF Digits
<1> HIDE DEF d, q
<1>4. /\ h[0] = 0
      /\ \A k \in 1..n : h[k] = d[n + 1 - k] + Base * h[k - 1]
      /\ \A k \in 0..n : h[k] \in Nat
  BY <1>2, HighIs DEF Byte
<1> HIDE DEF h
<1>5. top \in Int
  BY <1>1
<1> HIDE DEF top
<1>6. \A k \in Nat : Power[k] \in Nat /\ Power[k] * top \in Int
  BY <1>5, PowerIs, Distribute
<1>7. 0 \in T
  <2>1. Power[0] = 1 /\ 1 * top = top /\ n - 0 = n
    BY <1>5, PowerIs
  <2>2. h[0] = q[n - 0] - Power[0] * top
    BY <1>4, <1>5, <2>1 DEF top
  <2>3. QED
    BY <2>2
<1>8. ASSUME NEW k \in Nat, k \in T PROVE k + 1 \in T
  <2>1. CASE k + 1 <= n
    <3>1. /\ n - (k + 1) \in Nat /\ n - (k + 1) < n /\ (n - (k + 1)) + 1 = n - k
          /\ k <= n /\ k + 1 \in 1..n /\ (k + 1) - 1 = k
          /\ n + 1 - (k + 1) = n - k
      BY <2>1
    <3> DEFINE i == n - (k + 1)
    <3>2. i \in Nat /\ i < n /\ i + 1 = n - k
      BY <3>1
    <3> HIDE DEF i
    <3>3. PICK a, r : Splits(q[i], Base, a, r) /\ q[i] \div Base = a /\ q[i] % Base = r
      BY <1>1, <3>2, ByteFacts, SplitExists
    <3>4. a \in Int /\ r \in Int /\ q[i] = Base * a + r
      BY <3>3, ByteFacts DEF Splits
    <3>5. q[n - k] = a
      BY <1>1, <3>2, <3>3
    <3>6. d[n - k] = r
      BY <1>3, <3>2, <3>3
    <3>7. h[k + 1] = r + Base * h[k]
      BY <1>4, <3>1, <3>6
    <3>8. PICK c \in Int : c = Power[k] * top
      BY <1>6
    <3>9. h[k] = a - c
      BY <1>8, <3>1, <3>5, <3>8
    <3>10. Base * (a - c) = Base * a - Base * c
      BY <3>4, ByteFacts, Distribute
    <3>11. Base * c = Power[k + 1] * top
      <4>1. PICK p \in Nat : p = Power[k] /\ Power[k + 1] = Base * p
        BY PowerIs
      <4>2. Base * (p * top) = (Base * p) * top
        BY <1>5, ByteFacts, Associate
      <4>3. QED
        BY <3>8, <4>1, <4>2
    <3>12. h[k + 1] = q[i] - Power[k + 1] * top
      <4> DEFINE x == Base * a
                 y == Base * c
      <4>1. x \in Int /\ y \in Int /\ q[i] = x + r
        BY <3>4, ByteFacts, Distribute
      <4>2. Base * h[k] = x - y
        BY <3>9, <3>10
      <4>3. y = Power[k + 1] * top
        BY <3>11
      <4> HIDE DEF x, y
      <4>4. h[k + 1] = r + (x - y)
        BY <3>7, <4>2
      <4>5. h[k + 1] = q[i] - y
        BY <3>4, <4>1, <4>4
      <4>6. QED
        BY <4>3, <4>5
    <3>13. QED
      BY <3>12 DEF i
  <2>2. CASE ~(k + 1 <= n)
    BY <2>2
  <2>3. QED
    BY <2>1, <2>2
<1>9. \A k \in Nat : k \in T
  <2> HIDE DEF T
  <2>1. QED
    BY <1>7, <1>8, AllNumbers
<1>10. ASSUME NEW k \in 0..n
       PROVE  h[k] = v \div Power[n - k] - Power[k] * (v \div Power[n])
  <2>1. k \in Nat /\ k <= n /\ n - k \in Nat
    OBVIOUS
  <2>2. h[k] = q[n - k] - Power[k] * top
    BY <1>9, <2>1
  <2>3. q[n - k] = v \div Power[n - k] /\ top = v \div Power[n]
    BY <1>1, <2>1 DEF top
  <2>4. QED
    BY <2>2, <2>3
<1>11. QED
  BY <1>10 DEF h, d

\* The number of the n bytes of v is v modulo what they hold.
LEMMA UnsignedEncode ==
  ASSUME NEW v \in Int, NEW n \in Nat, NEW order
  PROVE  Unsigned(Encode(v, n, order), order) = v % Power[n]
<1> DEFINE d == Digits(v, n)
<1>1. d \in Seq(Byte) /\ Len(d) = n
  BY DigitsType
<1>2. Encode(v, n, order) = InOrder(d, order) /\ Len(Encode(v, n, order)) = n
  BY EncodeType
<1>3. InOrder(InOrder(d, order), order) = d
  BY <1>1, InOrderIs
<1>4. Unsigned(Encode(v, n, order), order) = High(d)[n]
  BY <1>2, <1>3 DEF Unsigned
<1>5. High(d)[n] = v \div Power[n - n] - Power[n] * (v \div Power[n])
  BY HighDigits
<1>6. n - n = 0 /\ v \div Power[0] = v
  BY Shifts
<1>7. PICK p \in Nat \ {0} : p = Power[n]
  BY PowerIs
<1>8. PICK q, r : Splits(v, p, q, r) /\ v \div p = q /\ v % p = r
  BY SplitExists
<1>9. q \in Int /\ r \in Int /\ p * q \in Int /\ v = p * q + r
  BY <1>8, Distribute DEF Splits
<1> HIDE DEF d
<1>10. High(d)[n] = v - p * q
  BY <1>5, <1>6, <1>7, <1>8
<1> DEFINE x == p * q
<1> HIDE DEF x
<1>11. x \in Int /\ v = x + r /\ High(d)[n] = v - x
  BY <1>9, <1>10 DEF x
<1>12. High(d)[n] = r
  BY <1>9, <1>11
<1>13. QED
  BY <1>4, <1>7, <1>8, <1>12

\* What n bytes hold is less than their power.
LEMMA UnsignedRange ==
  ASSUME NEW s \in Seq(Byte), NEW order
  PROVE  Unsigned(s, order) \in 0..(Power[Len(s)] - 1)
<1> DEFINE b == InOrder(s, order)
           n == Len(s)
           h == High(b)
           T == {k \in Nat : k <= n => h[k] < Power[k]}
<1>1. b \in Seq(Byte) /\ Len(b) = n /\ n \in Nat
  BY InOrderIs
<1>2. \A k \in 1..n : b[k] \in Byte
  BY <1>1, ElementOfSeq
<1> HIDE DEF b, n
<1>3. /\ h[0] = 0
      /\ \A k \in 1..n : h[k] = b[n + 1 - k] + Base * h[k - 1]
      /\ \A k \in 0..n : h[k] \in Nat
  BY <1>1, HighIs DEF Byte
<1> HIDE DEF h
<1>4. 0 \in T
  <2>1. h[0] = 0 /\ Power[0] = 1 /\ 0 < 1
    BY <1>3, PowerIs
  <2>2. h[0] < Power[0]
    BY <2>1
  <2>3. QED
    BY <2>2
<1>5. ASSUME NEW k \in Nat, k \in T PROVE k + 1 \in T
  <2>1. CASE k + 1 <= n
    <3>1. k <= n /\ k + 1 \in 1..n /\ (k + 1) - 1 = k /\ n + 1 - (k + 1) \in 1..n
          /\ k \in 0..n
      BY <1>1, <2>1
    <3>2. PICK c \in Nat : c < Base /\ h[k + 1] = c + Base * h[k]
      <4>1. h[k + 1] = b[n + 1 - (k + 1)] + Base * h[(k + 1) - 1]
        BY <1>3, <3>1
      <4>2. b[n + 1 - (k + 1)] \in Byte
        BY <1>2, <3>1
      <4>3. PICK c \in Nat : c < Base /\ c = b[n + 1 - (k + 1)]
        BY <4>2, ByteFacts DEF Byte
      <4>4. QED
        BY <3>1, <4>1, <4>3
    <3>3. PICK p \in Nat : p = Power[k] /\ Power[k + 1] = Base * p
      BY PowerIs
    <3>4. PICK x \in Nat : x = h[k] /\ x < p
      BY <1>3, <1>5, <3>1, <3>3
    <3>5. Base * (x + 1) <= Base * p /\ Base * (x + 1) = Base * x + Base * 1
      BY <3>4, ByteFacts, ProductMonotone, Distribute
    <3> DEFINE y == Base * x
               z == Base * p
    <3>6. y \in Int /\ z \in Int /\ y + Base <= z
      BY <3>5, ByteFacts, Distribute
    <3> HIDE DEF y, z
    <3>7. c + y < z
      BY <3>2, <3>6, ByteFacts
    <3>8. h[k + 1] = c + y /\ Power[k + 1] = z
      BY <3>2, <3>3, <3>4 DEF y, z
    <3>9. QED
      BY <3>7, <3>8
  <2>2. CASE ~(k + 1 <= n)
    BY <2>2
  <2>3. QED
    BY <2>1, <2>2
<1>6. \A k \in Nat : k \in T
  <2> HIDE DEF T
  <2>1. QED
    BY <1>4, <1>5, AllNumbers
<1>7. h[n] < Power[n] /\ h[n] \in Nat /\ Power[n] \in Nat
  <2>1. n \in 0..n /\ n \in Nat /\ n <= n
    BY <1>1
  <2>2. h[n] \in Nat /\ Power[n] \in Nat
    BY <1>3, <2>1, PowerIs
  <2>3. n \in T
    BY <1>6, <2>1
  <2>4. QED
    BY <2>1, <2>2, <2>3
<1>8. Unsigned(s, order) = h[n]
  BY DEF Unsigned, h, b, n
<1>9. QED
  BY <1>7, <1>8 DEF n

-----------------------------------------------------------------------------
(* The formats of numbers.                                                  *)

\* The formats of numbers: what their sizes, ranges and offsets are.
LEMMA FormatFacts ==
  ASSUME NEW f \in NumberFormats
  PROVE  /\ Size[f] \in Nat \ {0} /\ Power[Size[f]] \in Nat
         /\ Offset(f) \in Int
         /\ \E h \in Nat \ {0} : Power[Size[f]] = 2 * h /\ Power[Size[f]] \div 2 = h
         /\ f \in Signed => Offset(f) = 0
<1>1. Size[f] \in Nat \ {0}
  BY FormatAssumption DEF NumberFormats
<1>2. Offset(f) \in Int
  BY ByteAssumption DEF Offset
<1>3. f \in Signed => Offset(f) = 0
  BY FormatAssumption DEF Offset
<1>4. Power[Size[f]] \in Nat
  BY <1>1, PowerIs
<1>5. QED
  BY <1>1, <1>2, <1>3, <1>4, PowerEven

\* A number that its format has is what its bytes say.
LEMMA DecodeEncode ==
  ASSUME NEW f \in NumberFormats, NEW v \in Int, Fits(f, v), NEW order
  PROVE  Decode(f, Encode(v + Offset(f), Size[f], order), order) - Offset(f) = v
<1> DEFINE n == Size[f]
           k == Offset(f)
           s == Encode(v + k, n, order)
           u == Unsigned(s, order)
<1>1. PICK p \in Nat, h \in Nat \ {0} :
         p = Power[n] /\ p = 2 * h /\ p \div 2 = h
  BY FormatFacts
<1>2. n \in Nat \ {0} /\ k \in Int /\ (f \in Signed => k = 0)
  BY FormatFacts
<1>3. IF f \in Signed THEN v \in -h..h - 1 ELSE v + k \in 0..p - 1
  BY <1>1 DEF Fits
<1>4. Decode(f, s, order) = IF f \in Signed /\ u >= h THEN u - p ELSE u
  BY <1>1 DEF Decode
<1>5. v + k \in Int /\ p \in Nat \ {0}
  BY <1>1, <1>2
<1>6. u = (v + k) % p
  BY <1>1, <1>2, <1>5, UnsignedEncode
<1> HIDE DEF n, k, u
<1>7. CASE f \notin Signed
  <2>1. v + k \in 0..p - 1
    BY <1>3, <1>7
  <2>2. Splits(v + k, p, 0, v + k)
    BY <1>5, <2>1 DEF Splits
  <2>3. u = v + k
    BY <1>5, <1>6, <2>2, SplitIs
  <2>4. QED
    BY <1>2, <1>4, <1>7, <2>3 DEF k, n
<1>8. CASE f \in Signed
  <2>1. k = 0 /\ v \in -h..h - 1 /\ v + k = v
    BY <1>2, <1>3, <1>8
  <2>2. CASE v >= 0
    <3>1. Splits(v, p, 0, v)
      BY <1>1, <2>1, <2>2 DEF Splits
    <3>2. u = v
      BY <1>5, <1>6, <2>1, <3>1, SplitIs
    <3>3. Decode(f, s, order) = v
      BY <1>1, <1>4, <2>1, <3>2
    <3>4. QED
      BY <2>1, <3>3 DEF k, n
  <2>3. CASE v < 0
    <3>1. Splits(v, p, -1, v + p)
      BY <1>1, <2>1, <2>3 DEF Splits
    <3>2. u = v + p
      BY <1>5, <1>6, <2>1, <3>1, SplitIs
    <3>3. u >= h /\ u - p = v
      BY <1>1, <2>1, <2>3, <3>2
    <3>4. Decode(f, s, order) = v
      BY <1>4, <1>8, <3>3
    <3>5. QED
      BY <2>1, <3>4 DEF k, n
  <2>4. QED
    BY <2>1, <2>2, <2>3
<1>9. QED
  BY <1>7, <1>8

\* Any bytes of its size are a number that the format has.
LEMMA DecodeFits ==
  ASSUME NEW f \in NumberFormats, NEW s \in Seq(Byte), Len(s) = Size[f], NEW order
  PROVE  /\ Decode(f, s, order) \in Int
         /\ Decode(f, s, order) - Offset(f) \in Int
         /\ Fits(f, Decode(f, s, order) - Offset(f))
<1> DEFINE n == Size[f]
           k == Offset(f)
           u == Unsigned(s, order)
           d == Decode(f, s, order)
<1>1. PICK p \in Nat, h \in Nat \ {0} :
         p = Power[n] /\ p = 2 * h /\ p \div 2 = h
  BY FormatFacts
<1>2. n \in Nat \ {0} /\ k \in Int /\ (f \in Signed => k = 0)
  BY FormatFacts
<1>3. Fits(f, d - k) = IF f \in Signed THEN d - k \in -h..h - 1
                                       ELSE (d - k) + k \in 0..p - 1
  BY <1>1 DEF Fits
<1>4. d = IF f \in Signed /\ u >= h THEN u - p ELSE u
  BY <1>1 DEF Decode
<1>5. u \in 0..p - 1
  BY <1>1, UnsignedRange
<1> HIDE DEF n, k, u, d
<1>6. d \in Int /\ d - k \in Int
  BY <1>1, <1>2, <1>4, <1>5
<1>7. CASE f \notin Signed
  <2>1. d = u /\ (d - k) + k = d
    BY <1>2, <1>4, <1>6, <1>7
  <2>2. QED
    BY <1>3, <1>5, <1>6, <1>7, <2>1 DEF d, k
<1>8. CASE f \in Signed
  <2>1. k = 0 /\ d - k = d
    BY <1>2, <1>6, <1>8
  <2>2. d \in -h..h - 1
    BY <1>1, <1>4, <1>5, <1>8
  <2>3. QED
    BY <1>3, <1>6, <1>8, <2>1, <2>2 DEF d, k
<1>9. QED
  BY <1>7, <1>8

\* So is what a Read function returns for a number that is not there.
LEMMA MissingFits ==
  ASSUME NEW f \in NumberFormats
  PROVE  -Offset(f) \in Int /\ Fits(f, -Offset(f))
<1> DEFINE k == Offset(f)
<1>1. PICK p \in Nat, h \in Nat \ {0} :
         p = Power[Size[f]] /\ p = 2 * h /\ p \div 2 = h
  BY FormatFacts
<1>2. k \in Int /\ (f \in Signed => k = 0)
  BY FormatFacts
<1>3. Fits(f, -k) = IF f \in Signed THEN -k \in -h..h - 1 ELSE -k + k \in 0..p - 1
  BY <1>1 DEF Fits
<1> HIDE DEF k
<1>4. -k \in Int /\ -k + k = 0 /\ 0 \in 0..p - 1 /\ 0 \in -h..h - 1
  BY <1>1, <1>2
<1>5. (f \in Signed => -k \in -h..h - 1) /\ -k + k \in 0..p - 1
  BY <1>2, <1>4
<1>6. QED
  BY <1>3, <1>4, <1>5 DEF k

\* A length is a short, which has a sign.
LEMMA ShortFacts ==
    /\ "short" \in NumberFormats /\ Offset("short") = 0 /\ "short" \in Signed
    /\ Size["short"] \in Nat \ {0}
    /\ Power[Size["short"]] \div 2 \in Nat
BY FormatFacts, FormatAssumption DEF NumberFormats, Offset

\* The length of a string that a short holds is read as it was written.
LEMMA LengthRead ==
  ASSUME NEW n \in Nat, n < Power[Size["short"]] \div 2, NEW order
  PROVE  Decode("short", Encode(n, Size["short"], order), order) = n
<1>1. PICK p \in Nat, h \in Nat \ {0} :
         p = Power[Size["short"]] /\ p = 2 * h /\ p \div 2 = h
  BY FormatFacts, ShortFacts
<1>2. Fits("short", n)
  <2>1. n \in -h..h - 1
    BY <1>1
  <2>2. QED
    BY <1>1, <2>1, ShortFacts DEF Fits
<1>3. n \in Int /\ n + 0 = n
  OBVIOUS
<1>4. Decode("short", Encode(n, Size["short"], order), order) - 0 = n
  BY <1>2, <1>3, ShortFacts, DecodeEncode
<1>5. Decode("short", Encode(n, Size["short"], order), order) \in Int
  BY <1>3, EncodeType, ShortFacts, DecodeFits
<1>6. QED
  BY <1>4, <1>5

\* The bytes of a number of one byte have one order.
LEMMA OneByteOrder ==
  ASSUME NEW v \in Int, NEW a, NEW b, NEW f
  PROVE  /\ Encode(v, 1, a) = Encode(v, 1, b)
         /\ Size[f] = 1 => \A s \in Seq(Byte) :
               Len(s) = 1 => Decode(f, s, a) = Decode(f, s, b)
<1>1. Encode(v, 1, a) = Encode(v, 1, b)
  <2>1. Digits(v, 1) \in Seq(Byte) /\ Len(Digits(v, 1)) = 1
    BY DigitsType
  <2>2. InOrder(Digits(v, 1), a) = Digits(v, 1) /\ InOrder(Digits(v, 1), b) = Digits(v, 1)
    BY <2>1, InOrderOne
  <2>3. \A o : Encode(v, 1, o) = InOrder(Digits(v, 1), o)
    BY EncodeType
  <2>4. QED
    BY <2>2, <2>3
<1>2. ASSUME NEW s \in Seq(Byte), Len(s) = 1
      PROVE  Decode(f, s, a) = Decode(f, s, b)
  <2>1. InOrder(s, a) = s /\ InOrder(s, b) = s
    BY <1>2, InOrderOne
  <2>2. Unsigned(s, a) = Unsigned(s, b)
    BY <2>1 DEF Unsigned
  <2>3. QED
    BY <2>2 DEF Decode
<1>3. QED
  BY <1>1, <1>2

\* SetEndian says what it means: the order of the bytes of a number is that of the
\* EndianType, whichever the machine has.
LEMMA OrderIsMeant ==
  ASSUME NEW type \in 0..2, NEW local \in 1..2
  PROVE  Order(type, local) = Meant(type, local) /\ Order(type, local) \in {1, 2}
BY DEF Order, Meant

-----------------------------------------------------------------------------
(* Values and their bytes.                                                  *)

\* Min is the least of a set of numbers.
LEMMA MinIs ==
  ASSUME NEW T \in SUBSET Nat, T # {}
  PROVE  Min(T) \in T /\ \A y \in T : Min(T) <= y
<1>1. \E x \in T : \A y \in T : x <= y
  BY LeastNatural
<1>2. QED
  BY <1>1 DEF Min

\* A string without a zero is all that is read of it.
LEMMA CStringIs ==
  ASSUME NEW s \in Seq(Byte)
  PROVE  /\ CString(s) \in Seq(Byte)
         /\ ~Contains(s, 0) => CString(s) = s
<1> DEFINE zeros == {i \in 1..Len(s) : s[i] = 0}
           m == Min(zeros)
<1>1. CASE zeros = {}
  <2>1. CString(s) = s
    BY <1>1 DEF CString
  <2>2. QED
    BY <2>1
<1>2. CASE zeros # {}
  <2>1. m \in 1..Len(s)
    <3>1. zeros \in SUBSET Nat
      OBVIOUS
    <3>2. m \in zeros
      BY <1>2, <3>1, MinIs
    <3>3. QED
      BY <3>2
  <2>2. CString(s) = SubSeq(s, 1, m - 1)
    BY <1>2 DEF CString
  <2>3. Contains(s, 0)
    BY <1>2 DEF Contains
  <2> HIDE DEF m
  <2>4. \A i \in 1..(m - 1) : s[i] \in Byte
    BY <2>1, ElementOfSeq
  <2>5. SubSeq(s, 1, m - 1) \in Seq(Byte)
    BY <2>1, <2>4, SubSeqProperties
  <2>6. QED
    BY <2>2, <2>3, <2>5
<1>3. QED
  BY <1>1, <1>2

-----------------------------------------------------------------------------
(* What the bytes of a buffer are.                                          *)

\* Whether a value is a number.
IsNumber(item) == item.format \in NumberFormats

\* The bytes of a value.
Code(item) ==
    LET s == CString(item.value) IN
    IF IsNumber(item)
    THEN Encode(item.value[1] + Offset(item.format), Size[item.format], item.order)
    ELSE CASE item.format = "string" ->
                Encode(Len(s), Size["short"], item.order) \o s
           [] item.format = "ntstring" -> Append(s, 0)
           [] item.format = "line" -> s
           [] OTHER -> item.value

\* The values that a script can have written.
Written ==
    {item \in Item :
       IF IsNumber(item)
       THEN \E v \in Int : item.value = <<v>> /\ Fits(item.format, v)
       ELSE item.value \in Seq(Byte)}

\* The line end is written, and so read, as bytes of its own.
LinesEnd(items) ==
    \A i \in 1..Len(items) :
       items[i].format = "line" =>
          /\ i + 1 \in 1..Len(items)
          /\ items[i + 1].format = "raw" /\ items[i + 1].value = <<CR, LF>>

\* The bytes s are in b behind the first n.
At(b, n, s) == \A k \in 1..Len(s) : b[n + k] = s[k]

\* The first i of the items end at c[i] in b.
Cuts(b, items, c) ==
    /\ c \in [0..Len(items) -> 0..Len(b)]
    /\ c[0] = 0 /\ c[Len(items)] = Len(b)
    /\ \A i \in 1..Len(items) :
         /\ c[i] = c[i - 1] + Len(Code(items[i]))
         /\ At(b, c[i - 1], Code(items[i]))

\* The bytes of b are those of the items, one after the other.
Spelled(b, items) ==
    b \in Seq(Byte) /\ items \in Seq(Written) /\ \E c : Cuts(b, items, c)

Coded(b, items) == Spelled(b, items) /\ LinesEnd(items)

\* No format is both of a number and of bytes.
LEMMA FormatsApart ==
    \A f \in {"string", "ntstring", "raw", "line"} : f \notin NumberFormats
BY FormatAssumption DEF NumberFormats

\* What the bytes of a value of each format are.
LEMMA CodeIs ==
  ASSUME NEW item \in Written
  PROVE  /\ IsNumber(item) =>
              Code(item) = Encode(item.value[1] + Offset(item.format),
                                  Size[item.format], item.order)
         /\ item.format = "string" =>
              Code(item) = Encode(Len(CString(item.value)), Size["short"],
                                  item.order) \o CString(item.value)
         /\ item.format = "ntstring" => Code(item) = Append(CString(item.value), 0)
         /\ item.format = "line" => Code(item) = CString(item.value)
         /\ item.format = "raw" => Code(item) = item.value
BY FormatsApart DEF Code, IsNumber

\* What the values of each format are.
LEMMA WrittenIs ==
  ASSUME NEW item \in Written
  PROVE  /\ item \in Item /\ item.order \in {1, 2}
         /\ IsNumber(item) =>
              /\ item.format \in NumberFormats
              /\ \E v \in Int : /\ item.value = <<v>> /\ item.value[1] = v
                                /\ Fits(item.format, v)
         /\ ~IsNumber(item) =>
              /\ item.value \in Seq(Byte)
              /\ item.format \in {"string", "ntstring", "raw", "line"}
BY DEF Written, Item, IsNumber

\* They are bytes.
LEMMA CodeType ==
  ASSUME NEW item \in Written
  PROVE  Code(item) \in Seq(Byte) /\ Len(Code(item)) \in Nat
<1>1. CASE IsNumber(item)
  <2>1. PICK v \in Int : item.value[1] = v
    BY <1>1, WrittenIs
  <2>2. PICK u \in Int : u = v + Offset(item.format)
    BY <1>1, FormatFacts, WrittenIs
  <2>3. Size[item.format] \in Nat
    BY <1>1, FormatFacts, WrittenIs
  <2>4. Encode(u, Size[item.format], item.order) \in Seq(Byte)
    BY <2>3, EncodeType
  <2>5. Code(item) \in Seq(Byte)
    BY <1>1, <2>1, <2>2, <2>4, CodeIs
  <2>6. QED
    BY <2>5
<1>2. CASE ~IsNumber(item)
  <2>1. item.value \in Seq(Byte) /\ CString(item.value) \in Seq(Byte)
    BY <1>2, WrittenIs, CStringIs
  <2> DEFINE s == CString(item.value)
             e == Encode(Len(s), Size["short"], item.order)
  <2>2. s \in Seq(Byte) /\ Len(s) \in Nat
    BY <2>1
  <2>3. e \in Seq(Byte)
    BY <2>2, EncodeType, ShortFacts
  <2>4. e \o s \in Seq(Byte) /\ Append(s, 0) \in Seq(Byte)
    <3> HIDE DEF e, s
    <3>1. QED
      BY <2>2, <2>3, ByteFacts
  <2>5. Code(item) \in {e \o s, Append(s, 0), s, item.value}
    BY <1>2, CodeIs, WrittenIs
  <2> HIDE DEF e, s
  <2>6. Code(item) \in Seq(Byte)
    BY <2>1, <2>2, <2>4, <2>5
  <2>7. QED
    BY <2>6
<1>3. QED
  BY <1>1, <1>2

\* No value has no bytes.
LEMMA CodedNone == Coded(<<>>, <<>>)
<1> DEFINE c == [i \in 0..0 |-> 0]
<1>1. Cuts(<<>>, <<>>, c)
  BY DEF Cuts
<1>2. LinesEnd(<<>>)
  BY DEF LinesEnd
<1>3. QED
  BY <1>1, <1>2 DEF Coded, Spelled

\* One value and its bytes.
LEMMA SpelledOne ==
  ASSUME NEW item \in Written
  PROVE  Spelled(Code(item), <<item>>)
<1> DEFINE b == Code(item)
           n == Len(b)
           c == [i \in 0..1 |-> IF i = 0 THEN 0 ELSE n]
<1>1. b \in Seq(Byte) /\ n \in Nat
  BY CodeType
<1>2. <<item>> \in Seq(Written) /\ Len(<<item>>) = 1 /\ <<item>>[1] = item
  OBVIOUS
<1> HIDE DEF n
<1>3. c \in [0..1 -> 0..n] /\ c[0] = 0 /\ c[1] = n
  BY <1>1
<1> HIDE DEF c
<1>4. At(b, 0, b)
  <2> HIDE DEF b
  <2>1. QED
    BY <1>1 DEF At
<1>5. Cuts(b, <<item>>, c)
  <2>1. c[1] = c[1 - 1] + Len(Code(item)) /\ At(b, c[1 - 1], Code(item))
    BY <1>1, <1>3, <1>4 DEF n
  <2>2. \A i \in 1..Len(<<item>>) : i = 1
    BY <1>2
  <2>3. QED
    BY <1>2, <1>3, <2>1, <2>2 DEF Cuts, n
<1>6. QED
  BY <1>1, <1>2, <1>5 DEF Spelled

\* The bytes of two lists of values, one behind the other.
LEMMA SpelledJoin ==
  ASSUME NEW b1, NEW i1, Spelled(b1, i1), NEW b2, NEW i2, Spelled(b2, i2)
  PROVE  Spelled(b1 \o b2, i1 \o i2)
<1> DEFINE m1 == Len(i1)
           m2 == Len(i2)
           n1 == Len(b1)
           n2 == Len(b2)
           b == b1 \o b2
           items == i1 \o i2
<1>1. /\ b1 \in Seq(Byte) /\ b2 \in Seq(Byte) /\ n1 \in Nat /\ n2 \in Nat
      /\ i1 \in Seq(Written) /\ i2 \in Seq(Written) /\ m1 \in Nat /\ m2 \in Nat
  BY DEF Spelled
<1>2. PICK c1 : Cuts(b1, i1, c1)
  BY DEF Spelled
<1>3. PICK c2 : Cuts(b2, i2, c2)
  BY DEF Spelled
<1>4. /\ b \in Seq(Byte) /\ Len(b) = n1 + n2
      /\ \A k \in 1..n1 + n2 : b[k] = IF k <= n1 THEN b1[k] ELSE b2[k - n1]
  BY <1>1, ConcatProperties
<1>5. /\ items \in Seq(Written) /\ Len(items) = m1 + m2
      /\ \A k \in 1..m1 + m2 : items[k] = IF k <= m1 THEN i1[k] ELSE i2[k - m1]
  BY <1>1, ConcatProperties
<1>6. /\ c1 \in [0..m1 -> 0..n1] /\ c1[0] = 0 /\ c1[m1] = n1
      /\ \A i \in 1..m1 : c1[i] = c1[i - 1] + Len(Code(i1[i]))
                          /\ At(b1, c1[i - 1], Code(i1[i]))
  BY <1>2 DEF Cuts
<1>7. /\ c2 \in [0..m2 -> 0..n2] /\ c2[0] = 0 /\ c2[m2] = n2
      /\ \A i \in 1..m2 : c2[i] = c2[i - 1] + Len(Code(i2[i]))
                          /\ At(b2, c2[i - 1], Code(i2[i]))
  BY <1>3 DEF Cuts
<1>8. /\ \A k \in 1..m1 : Len(Code(i1[k])) \in Nat
      /\ \A k \in 1..m2 : Len(Code(i2[k])) \in Nat
  BY <1>1, CodeType, ElementOfSeq
<1> HIDE DEF m1, m2, n1, n2, b, items
<1> DEFINE c == [k \in 0..m1 + m2 |-> IF k <= m1 THEN c1[k] ELSE n1 + c2[k - m1]]
<1>9. /\ c \in [0..m1 + m2 -> 0..n1 + n2]
      /\ \A k \in 0..m1 : c[k] = c1[k]
      /\ \A k \in 0..m2 : c[m1 + k] = n1 + c2[k]
  <2>1. ASSUME NEW k \in 0..m1 + m2
        PROVE  (IF k <= m1 THEN c1[k] ELSE n1 + c2[k - m1]) \in 0..n1 + n2
    <3>1. CASE k <= m1
      <4>1. c1[k] \in 0..n1
        BY <1>1, <1>6, <3>1
      <4>2. QED
        BY <1>1, <3>1, <4>1
    <3>2. CASE ~(k <= m1)
      <4>1. k - m1 \in 0..m2
        BY <1>1, <3>2
      <4>2. PICK x \in 0..n2 : x = c2[k - m1]
        BY <1>7, <4>1
      <4>3. n1 + x \in 0..n1 + n2
        BY <1>1, <4>2
      <4>4. QED
        BY <3>2, <4>2, <4>3
    <3>3. QED
      BY <3>1, <3>2
  <2>2. \A k \in 0..m1 : c[k] = c1[k]
    BY <1>1
  <2>3. ASSUME NEW k \in 0..m2 PROVE c[m1 + k] = n1 + c2[k]
    <3>1. m1 + k \in 0..m1 + m2 /\ (m1 + k) - m1 = k
      BY <1>1
    <3>2. CASE k = 0
      BY <1>1, <1>6, <1>7, <3>1, <3>2
    <3>3. CASE k # 0
      <4>1. ~(m1 + k <= m1)
        BY <1>1, <3>3
      <4>2. QED
        BY <3>1, <4>1
    <3>4. QED
      BY <3>2, <3>3
  <2>4. c \in [0..m1 + m2 -> 0..n1 + n2]
    BY <2>1
  <2>5. QED
    BY <2>2, <2>3, <2>4
<1> HIDE DEF c
<1>10. c[0] = 0 /\ c[m1 + m2] = n1 + n2
  BY <1>1, <1>6, <1>7, <1>9
<1>11. ASSUME NEW i \in 1..m1 + m2
       PROVE  c[i] = c[i - 1] + Len(Code(items[i])) /\ At(b, c[i - 1], Code(items[i]))
  <2>1. CASE i <= m1
    <3>1. i \in 1..m1 /\ i \in 0..m1 /\ i - 1 \in 0..m1
      BY <1>1, <2>1
    <3>2. items[i] = i1[i] /\ c[i] = c1[i] /\ c[i - 1] = c1[i - 1]
      BY <1>5, <1>9, <2>1, <3>1
    <3> DEFINE s == Code(i1[i])
    <3>3. PICK x \in 0..n1, y \in 0..n1 :
             x = c1[i - 1] /\ y = c1[i] /\ y = x + Len(s) /\ At(b1, x, s)
      BY <1>6, <3>1
    <3>4. Len(s) \in Nat
      BY <1>8, <3>1
    <3> HIDE DEF s
    <3>5. ASSUME NEW k \in 1..Len(s) PROVE b[x + k] = s[k]
      <4>1. x + k \in 1..n1 + n2 /\ x + k <= n1
        BY <1>1, <3>3, <3>4
      <4>2. b[x + k] = b1[x + k]
        BY <1>4, <4>1
      <4>3. QED
        BY <3>3, <4>2 DEF At
    <3>6. At(b, x, s)
      BY <3>5 DEF At
    <3>7. QED
      BY <3>2, <3>3, <3>6 DEF s
  <2>2. CASE ~(i <= m1)
    <3> DEFINE j == i - m1
    <3>1. j \in 1..m2 /\ j \in 0..m2 /\ j - 1 \in 0..m2 /\ m1 + j = i
          /\ m1 + (j - 1) = i - 1
      BY <1>1, <2>2
    <3>2. items[i] = i2[j]
      BY <1>5, <2>2
    <3> HIDE DEF j
    <3>3. c[i] = n1 + c2[j] /\ c[i - 1] = n1 + c2[j - 1]
      <4>1. c[m1 + j] = n1 + c2[j] /\ c[m1 + (j - 1)] = n1 + c2[j - 1]
        BY <1>9, <3>1
      <4>2. QED
        BY <3>1, <4>1
    <3> DEFINE s == Code(i2[j])
    <3>4. PICK x \in 0..n2, y \in 0..n2 :
             x = c2[j - 1] /\ y = c2[j] /\ y = x + Len(s) /\ At(b2, x, s)
      BY <1>7, <3>1
    <3>5. Len(s) \in Nat
      BY <1>8, <3>1
    <3> HIDE DEF s
    <3>6. ASSUME NEW k \in 1..Len(s) PROVE b[(n1 + x) + k] = s[k]
      <4>1. /\ (n1 + x) + k \in 1..n1 + n2 /\ ~((n1 + x) + k <= n1)
            /\ ((n1 + x) + k) - n1 = x + k
        <5>1. k \in Nat /\ k >= 1 /\ x \in Nat /\ x + k \in Nat /\ x + k <= n2
          <6>1. n2 \in Nat /\ x \in Nat /\ y \in Nat /\ y <= n2
            BY <1>1
          <6>2. PICK l \in Nat : l = Len(s)
            BY <3>5
          <6>3. y = x + l /\ k \in 1..l
            BY <3>4, <6>2
          <6>4. QED
            BY <6>1, <6>2, <6>3
        <5> DEFINE z == x + k
        <5>2. (n1 + x) + k = n1 + z
          BY <1>1, <5>1
        <5>3. z \in Nat /\ z >= 1 /\ z <= n2
          BY <5>1
        <5> HIDE DEF z
        <5>4. n1 + z \in 1..n1 + n2 /\ ~(n1 + z <= n1) /\ (n1 + z) - n1 = z
          BY <1>1, <5>3
        <5>5. QED
          BY <5>2, <5>4 DEF z
      <4>2. b[(n1 + x) + k] = b2[x + k]
        BY <1>4, <4>1
      <4>3. QED
        BY <3>4, <4>2 DEF At
    <3>7. At(b, n1 + x, s)
      BY <3>6 DEF At
    <3>8. n1 + y = (n1 + x) + Len(s)
      BY <1>1, <3>4, <3>5
    <3>9. QED
      BY <3>2, <3>3, <3>4, <3>7, <3>8 DEF s
  <2>3. QED
    BY <2>1, <2>2
<1>12. Cuts(b, items, c)
  BY <1>4, <1>5, <1>9, <1>10, <1>11 DEF Cuts
<1>13. QED
  BY <1>4, <1>5, <1>12 DEF Spelled, b, items

\* Nor does the end of a line get lost between them.
LEMMA CodedJoin ==
  ASSUME NEW b1, NEW i1, Coded(b1, i1), NEW b2, NEW i2, Coded(b2, i2)
  PROVE  Coded(b1 \o b2, i1 \o i2)
<1> DEFINE m1 == Len(i1)
           m2 == Len(i2)
           items == i1 \o i2
<1>1. Spelled(b1, i1) /\ LinesEnd(i1) /\ Spelled(b2, i2) /\ LinesEnd(i2)
  BY DEF Coded
<1>2. i1 \in Seq(Written) /\ i2 \in Seq(Written) /\ m1 \in Nat /\ m2 \in Nat
  BY <1>1 DEF Spelled
<1>3. /\ Len(items) = m1 + m2
      /\ \A k \in 1..m1 + m2 : items[k] = IF k <= m1 THEN i1[k] ELSE i2[k - m1]
  BY <1>2, ConcatProperties
<1> HIDE DEF items
<1>4. ASSUME NEW i \in 1..m1 + m2, items[i].format = "line"
      PROVE  /\ i + 1 \in 1..m1 + m2 /\ items[i + 1].format = "raw"
             /\ items[i + 1].value = <<CR, LF>>
  <2>1. CASE i <= m1
    <3>1. i1[i].format = "line" /\ i \in 1..m1
      BY <1>2, <1>3, <1>4, <2>1
    <3>2. i + 1 \in 1..m1 /\ i1[i + 1].format = "raw" /\ i1[i + 1].value = <<CR, LF>>
      BY <1>1, <3>1 DEF LinesEnd
    <3>3. i + 1 \in 1..m1 + m2 /\ items[i + 1] = i1[i + 1]
      BY <1>2, <1>3, <3>2
    <3>4. QED
      BY <3>2, <3>3
  <2>2. CASE ~(i <= m1)
    <3> DEFINE j == i - m1
    <3>1. j \in 1..m2 /\ items[i] = i2[j]
      BY <1>2, <1>3, <2>2
    <3>2. j + 1 \in 1..m2 /\ i2[j + 1].format = "raw" /\ i2[j + 1].value = <<CR, LF>>
      BY <1>1, <1>4, <3>1 DEF LinesEnd
    <3>3. i + 1 \in 1..m1 + m2 /\ ~(i + 1 <= m1) /\ (i + 1) - m1 = j + 1
      BY <1>2, <2>2, <3>2
    <3>4. items[i + 1] = i2[j + 1]
      BY <1>3, <3>3
    <3>5. QED
      BY <3>2, <3>3, <3>4
  <2>3. QED
    BY <2>1, <2>2
<1>5. LinesEnd(items)
  BY <1>3, <1>4 DEF LinesEnd
<1>6. QED
  BY <1>1, <1>5, SpelledJoin DEF Coded, items

\* A value that is no line is its bytes.
LEMMA CodedOne ==
  ASSUME NEW item \in Written, item.format # "line"
  PROVE  Coded(Code(item), <<item>>)
<1>1. LinesEnd(<<item>>)
  BY DEF LinesEnd
<1>2. QED
  BY <1>1, SpelledOne DEF Coded

\* A line is its bytes and those of its end.
LEMMA CodedLine ==
  ASSUME NEW item \in Written, NEW end \in Written,
         end.format = "raw", end.value = <<CR, LF>>
  PROVE  Coded(Code(item) \o <<CR, LF>>, <<item>> \o <<end>>)
<1>1. Code(end) = <<CR, LF>>
  BY CodeIs
<1>2. Spelled(Code(item) \o <<CR, LF>>, <<item>> \o <<end>>)
  <2>1. Spelled(Code(item), <<item>>) /\ Spelled(Code(end), <<end>>)
    BY SpelledOne
  <2>2. Spelled(<<CR, LF>>, <<end>>)
    BY <1>1, <2>1
  <2>3. QED
    BY <2>1, <2>2, SpelledJoin
<1> DEFINE s == <<item>> \o <<end>>
<1>3. Len(s) = 2 /\ s[1] = item /\ s[2] = end
  <2>1. <<item>> \in Seq(Written) /\ <<end>> \in Seq(Written)
        /\ Len(<<item>>) = 1 /\ Len(<<end>>) = 1
        /\ <<item>>[1] = item /\ <<end>>[1] = end
    OBVIOUS
  <2>2. /\ Len(s) = 1 + 1
        /\ \A k \in 1..1 + 1 : s[k] = IF k <= 1 THEN <<item>>[k] ELSE <<end>>[k - 1]
    BY <2>1, ConcatProperties
  <2>3. 1 \in 1..1 + 1 /\ 2 \in 1..1 + 1 /\ 2 - 1 = 1 /\ ~(2 <= 1) /\ 1 + 1 = 2
    OBVIOUS
  <2> HIDE DEF s
  <2>4. QED
    BY <2>1, <2>2, <2>3
<1> HIDE DEF s
<1>4. LinesEnd(s)
  <2>1. s[1 + 1] = end /\ 1 + 1 \in 1..Len(s)
    BY <1>3
  <2>2. ASSUME NEW i \in 1..Len(s), s[i].format = "line" PROVE i = 1
    BY <1>3, <2>2
  <2>3. QED
    BY <2>1, <2>2 DEF LinesEnd
<1>5. QED
  BY <1>2, <1>4 DEF Coded, s

-----------------------------------------------------------------------------
(* The invariant.                                                           *)

\* The first n values that were read are values their formats carry.
Carried(n) == \A i \in 1..n : Carries(sent[i], got[i].order)

\* And the next one is, if it is read now.
CarriedNext == Carried(Len(got)) /\ Carries(Expected, Meant(in.endian, LocalIn))

\* The buffers of the writer hold what was written.
WriterOK ==
    /\ endian \in [Packets -> EndianTypes \union {0}]
    /\ bytes \in [Packets -> Seq(Byte)]
    /\ wrote \in [Packets -> Seq(Written)]
    /\ \A p \in Packets : Coded(bytes[p], wrote[p])

\* The packet that was received holds what was sent.
ArrivedOK ==
    /\ in \in [buf : Seq(Byte), pos : Nat, endian : EndianTypes \union {0}]
    /\ sent \in Seq(Written)
    /\ Coded(in.buf, sent)

\* The reader has its position where the next value starts, as long as the
\* formats carried what it read, and got what was written.
ReaderOK ==
    /\ in.pos <= Len(in.buf)
    /\ got \in Seq(Got) /\ Len(got) <= Len(sent)
    /\ \A i \in 1..Len(got) :
         sent[i].format \in NumberFormats => Fits(sent[i].format, got[i].value[1])
    /\ \A i \in 1..Len(got) : Carried(i) => got[i].value = AsRead(sent[i])
    /\ \A c : Cuts(in.buf, sent, c) /\ Carried(Len(got)) => in.pos = c[Len(got)]

\* What C++ leaves undefined has happened only after a value that was not carried.
StageOK ==
    /\ stage \in {"write", "read", "undefined"}
    /\ stage = "write" => got = <<>>
    /\ stage = "undefined" => ~CarriedNext

Inv == WriterOK /\ ArrivedOK /\ ReaderOK /\ StageOK

\* At the start nothing is written.
LEMMA InitInv == Init => Inv
<1> SUFFICES ASSUME Init PROVE Inv
  OBVIOUS
<1>1. WriterOK
  BY CodedNone DEF Init, WriterOK
<1>2. ArrivedOK
  BY CodedNone DEF Init, ArrivedOK
<1>3. ReaderOK
  BY DEF Init, ReaderOK, Cuts
<1>4. StageOK
  BY DEF Init, StageOK
<1>5. QED
  BY <1>1, <1>2, <1>3, <1>4 DEF Inv

\* What the writer does leaves the reader alone.
LEMMA WriterOnly ==
  ASSUME Inv, WriterOK', stage = "write", UNCHANGED <<in, sent, got, stage>>
  PROVE  Inv'
<1>1. ArrivedOK'
  BY DEF Inv, ArrivedOK
<1>2. ReaderOK'
  BY DEF Inv, ReaderOK, Carried
<1>3. StageOK'
  BY DEF Inv, StageOK
<1>4. QED
  BY <1>1, <1>2, <1>3 DEF Inv

\* Put adds values and their bytes.
LEMMA PutSound ==
  ASSUME Inv, NEW p \in Packets, NEW s, NEW items, Coded(s, items),
         Put(p, s, items)
  PROVE  Inv'
<1>1. /\ stage = "write"
      /\ bytes' = [bytes EXCEPT ![p] = bytes[p] \o s]
      /\ wrote' = [wrote EXCEPT ![p] = wrote[p] \o items]
      /\ UNCHANGED <<endian, in, sent, got, stage>>
  BY DEF Put
<1>2. /\ endian \in [Packets -> EndianTypes \union {0}]
      /\ bytes \in [Packets -> Seq(Byte)] /\ wrote \in [Packets -> Seq(Written)]
      /\ \A q \in Packets : Coded(bytes[q], wrote[q])
  BY DEF Inv, WriterOK
<1>3. Coded(bytes[p] \o s, wrote[p] \o items)
  BY <1>2, CodedJoin
<1>4. bytes[p] \o s \in Seq(Byte) /\ wrote[p] \o items \in Seq(Written)
  BY <1>3 DEF Coded, Spelled
<1> DEFINE b == bytes[p] \o s
           w == wrote[p] \o items
<1> HIDE DEF b, w
<1>5. /\ bytes' = [bytes EXCEPT ![p] = b] /\ wrote' = [wrote EXCEPT ![p] = w]
      /\ b \in Seq(Byte) /\ w \in Seq(Written) /\ Coded(b, w)
  BY <1>1, <1>3, <1>4 DEF b, w
<1>6. bytes' \in [Packets -> Seq(Byte)] /\ wrote' \in [Packets -> Seq(Written)]
  BY <1>2, <1>5
<1>7. ASSUME NEW q \in Packets PROVE Coded(bytes'[q], wrote'[q])
  <2>1. CASE q = p
    <3>1. bytes'[q] = b /\ wrote'[q] = w
      BY <1>2, <1>5, <2>1
    <3>2. QED
      BY <1>5, <3>1
  <2>2. CASE q # p
    <3>1. bytes'[q] = bytes[q] /\ wrote'[q] = wrote[q]
      BY <1>2, <1>5, <2>2
    <3>2. QED
      BY <1>2, <3>1
  <2>3. QED
    BY <2>1, <2>2
<1>8. WriterOK'
  BY <1>1, <1>2, <1>6, <1>7 DEF WriterOK
<1>9. QED
  BY <1>1, <1>8, WriterOnly

\* The byte orders.
LEMMA EndianFacts ==
    /\ LocalOut \in 1..2 /\ LocalIn \in 1..2
    /\ \A type \in EndianTypes \union {0} : type \in 0..2
<1>1. LocalOut \in {1, 2} /\ LocalIn \in {1, 2}
  BY EndianAssumption
<1>2. LocalOut \in 1..2 /\ LocalIn \in 1..2
  BY <1>1
<1>3. ASSUME NEW type \in EndianTypes \union {0} PROVE type \in 0..2
  BY EndianAssumption
<1>4. QED
  BY <1>2, <1>3

\* What New gives.
LEMMA NewIs ==
  ASSUME Inv, NEW p \in Packets, NEW f, NEW v
  PROVE  /\ OutOrder(p) = Meant(endian[p], LocalOut) /\ OutOrder(p) \in {1, 2}
         /\ New(p, f, v) = <<[format |-> f, value |-> v, order |-> OutOrder(p)]>>
<1>1. endian[p] \in 0..2 /\ LocalOut \in 1..2
  <2>1. endian[p] \in EndianTypes \union {0}
    BY DEF Inv, WriterOK
  <2>2. QED
    BY <2>1, EndianFacts
<1> DEFINE type == endian[p]
           o == Order(type, LocalOut)
<1>2. o = Meant(type, LocalOut) /\ o \in {1, 2}
  BY <1>1, OrderIsMeant
<1> HIDE DEF o, type
<1>3. OutOrder(p) = o
  BY DEF OutOrder, o, type
<1>4. Meant(endian[p], LocalOut) = o
  BY <1>2 DEF type
<1>5. QED
  BY <1>2, <1>3, <1>4 DEF New

\* Values as they are written.
LEMMA WrittenBytes ==
  ASSUME NEW f \in {"string", "ntstring", "raw", "line"}, NEW s \in Seq(Byte),
         NEW o \in {1, 2}
  PROVE  [format |-> f, value |-> s, order |-> o] \in Written
<1>1. s \in Value
  <2>1. Byte \subseteq Int
    BY ByteFacts
  <2>2. QED
    BY <2>1, SeqMonotonic DEF Value
<1>2. QED
  BY <1>1, FormatsApart DEF Written, Item, IsNumber

LEMMA WrittenNumber ==
  ASSUME NEW f \in NumberFormats, NEW v \in Int, Fits(f, v), NEW o \in {1, 2}
  PROVE  [format |-> f, value |-> <<v>>, order |-> o] \in Written
BY DEF Written, Item, IsNumber, Value

\* One lemma for each step of the writer.
LEMMA StepWriteNumber ==
  ASSUME Inv, NEW p \in Packets, NEW f \in NumberFormats, NEW v \in Numbers,
         WriteNumber(p, f, v)
  PROVE  Inv'
<1> DEFINE o == OutOrder(p)
           item == [format |-> f, value |-> <<v>>, order |-> o]
           s == Encode(v + Offset(f), Size[f], o)
<1>1. Fits(f, v) /\ Put(p, s, New(p, f, <<v>>)) /\ v \in Int
  BY ScriptAssumption DEF WriteNumber
<1>2. o \in {1, 2} /\ New(p, f, <<v>>) = <<item>>
  BY NewIs
<1> HIDE DEF o
<1>3. item \in Written
  BY <1>1, <1>2, WrittenNumber
<1>4. item.format = f /\ item.order = o /\ item.value[1] = v /\ item.format # "line"
  BY FormatsApart
<1> HIDE DEF item
<1>5. Code(item) = s
  BY <1>3, <1>4, CodeIs DEF IsNumber
<1>6. Coded(s, <<item>>)
  BY <1>3, <1>4, <1>5, CodedOne
<1>7. Put(p, s, <<item>>)
  BY <1>1, <1>2
<1> HIDE DEF s
<1>8. QED
  BY <1>6, <1>7, PutSound

LEMMA StepWriteString ==
  ASSUME Inv, NEW p \in Packets, NEW s \in Strings, WriteString(p, s)
  PROVE  Inv'
<1> DEFINE o == OutOrder(p)
           item == [format |-> "string", value |-> s, order |-> o]
           b == Encode(Len(CString(s)), Size["short"], o) \o CString(s)
<1>1. Put(p, b, New(p, "string", s)) /\ s \in Seq(Byte)
  BY ScriptAssumption DEF WriteString, Byte
<1>2. o \in {1, 2} /\ New(p, "string", s) = <<item>>
  BY NewIs
<1> HIDE DEF o
<1>3. item \in Written
  BY <1>1, <1>2, WrittenBytes
<1>4. item.format = "string" /\ item.order = o /\ item.value = s
  OBVIOUS
<1> HIDE DEF item
<1>5. Code(item) = b
  BY <1>3, <1>4, CodeIs
<1>6. Coded(b, <<item>>)
  BY <1>3, <1>4, <1>5, CodedOne
<1>7. Put(p, b, <<item>>)
  BY <1>1, <1>2
<1> HIDE DEF b
<1>8. QED
  BY <1>6, <1>7, PutSound

LEMMA StepWriteStringNT ==
  ASSUME Inv, NEW p \in Packets, NEW s \in Strings, WriteStringNT(p, s)
  PROVE  Inv'
<1> DEFINE o == OutOrder(p)
           item == [format |-> "ntstring", value |-> s, order |-> o]
           b == Append(CString(s), 0)
<1>1. Put(p, b, New(p, "ntstring", s)) /\ s \in Seq(Byte)
  BY ScriptAssumption DEF WriteStringNT, Byte
<1>2. o \in {1, 2} /\ New(p, "ntstring", s) = <<item>>
  BY NewIs
<1> HIDE DEF o
<1>3. item \in Written
  BY <1>1, <1>2, WrittenBytes
<1>4. item.format = "ntstring" /\ item.value = s
  OBVIOUS
<1> HIDE DEF item
<1>5. Code(item) = b
  BY <1>3, <1>4, CodeIs
<1>6. Coded(b, <<item>>)
  BY <1>3, <1>4, <1>5, CodedOne
<1>7. Put(p, b, <<item>>)
  BY <1>1, <1>2
<1> HIDE DEF b
<1>8. QED
  BY <1>6, <1>7, PutSound

LEMMA StepWriteStringRaw ==
  ASSUME Inv, NEW p \in Packets, NEW s \in Strings, WriteStringRaw(p, s)
  PROVE  Inv'
<1> DEFINE o == OutOrder(p)
           item == [format |-> "raw", value |-> s, order |-> o]
<1>1. Put(p, s, New(p, "raw", s)) /\ s \in Seq(Byte)
  BY ScriptAssumption DEF WriteStringRaw, Byte
<1>2. o \in {1, 2} /\ New(p, "raw", s) = <<item>>
  BY NewIs
<1> HIDE DEF o
<1>3. item \in Written
  BY <1>1, <1>2, WrittenBytes
<1>4. item.format = "raw" /\ item.value = s
  OBVIOUS
<1> HIDE DEF item
<1>5. Code(item) = s
  BY <1>3, <1>4, CodeIs
<1>6. Coded(s, <<item>>)
  BY <1>3, <1>4, <1>5, CodedOne
<1>7. Put(p, s, <<item>>)
  BY <1>1, <1>2
<1>8. QED
  BY <1>6, <1>7, PutSound

LEMMA StepWriteLine ==
  ASSUME Inv, NEW p \in Packets, NEW s \in Strings, WriteLine(p, s)
  PROVE  Inv'
<1> DEFINE o == OutOrder(p)
           end == <<CR, LF>>
           line == [format |-> "line", value |-> s, order |-> o]
           raw == [format |-> "raw", value |-> end, order |-> o]
           b == CString(s) \o end
<1>1. /\ Put(p, b, New(p, "line", s) \o New(p, "raw", end)) /\ s \in Seq(Byte)
  BY ScriptAssumption DEF WriteLine, Byte
<1>2. /\ o \in {1, 2} /\ New(p, "line", s) = <<line>>
      /\ New(p, "raw", end) = <<raw>>
  BY NewIs
<1>3. end \in Seq(Byte)
  BY ByteFacts
<1> HIDE DEF o
<1>4. line \in Written /\ raw \in Written
  <2> HIDE DEF end
  <2>1. QED
    BY <1>1, <1>2, <1>3, WrittenBytes
<1>5. /\ line.format = "line" /\ line.value = s
      /\ raw.format = "raw" /\ raw.value = end
  OBVIOUS
<1> HIDE DEF line, raw
<1>6. Code(line) = CString(s)
  BY <1>4, <1>5, CodeIs
<1>7. Coded(Code(line) \o <<CR, LF>>, <<line>> \o <<raw>>)
  BY <1>4, <1>5, CodedLine
<1> DEFINE items == <<line>> \o <<raw>>
<1>8. Coded(b, items)
  BY <1>6, <1>7
<1>9. Put(p, b, items)
  BY <1>1, <1>2
<1> HIDE DEF b, items
<1>10. QED
  BY <1>8, <1>9, PutSound

LEMMA StepWritePacket ==
  ASSUME Inv, NEW p \in Packets, NEW q \in Packets, WritePacket(p, q)
  PROVE  Inv'
<1>1. Put(p, bytes[q], wrote[q])
  BY DEF WritePacket
<1>2. Coded(bytes[q], wrote[q])
  BY DEF Inv, WriterOK
<1>3. QED
  BY <1>1, <1>2, PutSound

LEMMA StepSetEndian ==
  ASSUME Inv, NEW p \in Packets, NEW type \in EndianTypes, SetEndian(p, type)
  PROVE  Inv'
<1>1. WriterOK'
  BY DEF Inv, WriterOK, SetEndian
<1>2. QED
  BY <1>1, WriterOnly DEF SetEndian

LEMMA StepSend ==
  ASSUME Inv, NEW p \in Packets, Send(p)
  PROVE  Inv'
<1>1. WriterOK'
  BY CodedNone DEF WriterOK, Send
<1>2. /\ in' = [buf |-> bytes[p], pos |-> 0, endian |-> 0]
      /\ sent' = wrote[p] /\ stage' = "read" /\ got' = <<>>
  BY DEF Send, Inv, StageOK
<1>3. in'.buf = bytes[p] /\ in'.pos = 0
  BY <1>2
<1>4. /\ Coded(bytes[p], wrote[p])
      /\ bytes[p] \in Seq(Byte) /\ wrote[p] \in Seq(Written)
  BY DEF Inv, WriterOK
<1>5. ArrivedOK'
  BY <1>2, <1>3, <1>4 DEF ArrivedOK
<1>6. ReaderOK'
  <2>1. got' \in Seq(Got) /\ Len(got') = 0
    BY <1>2
  <2>2. Len(sent') \in Nat /\ Len(in'.buf) \in Nat
    BY <1>2, <1>3, <1>4
  <2>3. ASSUME NEW c, Cuts(in'.buf, sent', c) PROVE in'.pos = c[Len(got')]
    BY <1>3, <2>1, <2>3 DEF Cuts
  <2>4. QED
    BY <1>3, <2>1, <2>2, <2>3 DEF ReaderOK
<1>7. StageOK'
  BY <1>2 DEF StageOK
<1>8. QED
  BY <1>1, <1>5, <1>6, <1>7 DEF Inv

-----------------------------------------------------------------------------
(* Reading.                                                                 *)

\* The bytes behind the position.
LEMMA AheadIs ==
  ASSUME Inv
  PROVE  /\ in.buf \in Seq(Byte) /\ in.pos \in Nat /\ Len(in.buf) \in Nat
         /\ Ahead \in Nat /\ in.pos + Ahead = Len(in.buf)
<1>1. in.buf \in Seq(Byte) /\ in.pos \in Nat /\ in.pos <= Len(in.buf)
  BY DEF Inv, ArrivedOK, ReaderOK
<1>2. QED
  BY <1>1 DEF Ahead

\* What is ahead.
LEMMA ComingIs ==
  ASSUME Inv, NEW m \in Nat, m <= Ahead
  PROVE  /\ Coming(m) \in Seq(Byte) /\ Len(Coming(m)) = m
         /\ \A k \in 1..m : Coming(m)[k] = in.buf[in.pos + k]
<1> DEFINE b == in.buf
           a == in.pos
<1>1. /\ b \in Seq(Byte) /\ a \in Nat /\ Len(b) \in Nat /\ a + m <= Len(b)
  BY AheadIs
<1> HIDE DEF b, a
<1>2. \A i \in (a + 1)..(a + m) : b[i] \in Byte
  BY <1>1, ElementOfSeq
<1> DEFINE s == SubSeq(b, a + 1, a + m)
<1>3. /\ s \in Seq(Byte)
      /\ Len(s) = IF a + 1 <= a + m THEN (a + m) - (a + 1) + 1 ELSE 0
      /\ \A k \in 1..((a + m) - (a + 1) + 1) : s[k] = b[(a + 1) + k - 1]
  BY <1>1, <1>2, SubSeqProperties
<1> HIDE DEF s
<1>4. Len(s) = m /\ (a + m) - (a + 1) + 1 = m
  BY <1>1, <1>3
<1>5. \A k \in 1..m : (a + 1) + k - 1 = a + k
  BY <1>1
<1>6. Coming(m) = s
  BY DEF Coming, s, a, b
<1>7. \A k \in 1..m : s[k] = b[a + k]
  BY <1>3, <1>4, <1>5
<1>8. QED
  BY <1>3, <1>4, <1>6, <1>7 DEF a, b

\* What is ahead, when the bytes of a value are.
LEMMA ComingAt ==
  ASSUME Inv, NEW s \in Seq(Byte), Len(s) <= Ahead, At(in.buf, in.pos, s)
  PROVE  Coming(Len(s)) = s
<1> DEFINE m == Len(s)
           t == Coming(m)
<1>1. m \in Nat /\ m <= Ahead
  OBVIOUS
<1>2. t \in Seq(Byte) /\ Len(t) = m /\ \A k \in 1..m : t[k] = in.buf[in.pos + k]
  BY <1>1, ComingIs
<1>3. \A k \in 1..m : t[k] = s[k]
  BY <1>2 DEF At
<1> HIDE DEF t
<1>4. t = s
  BY <1>2, <1>3, SeqEqual
<1>5. QED
  BY <1>4 DEF t

\* The order in which the reader takes the bytes of a number.
LEMMA InNowIs ==
  ASSUME Inv
  PROVE  InNow = Meant(in.endian, LocalIn) /\ InNow \in {1, 2}
<1>1. in.endian \in 0..2
  <2>1. in.endian \in EndianTypes \union {0}
    BY DEF Inv, ArrivedOK
  <2>2. QED
    BY <2>1, EndianFacts
<1> DEFINE type == in.endian
<1> HIDE DEF type
<1>2. Order(type, LocalIn) = Meant(type, LocalIn) /\ Order(type, LocalIn) \in {1, 2}
  BY <1>1, EndianFacts, OrderIsMeant DEF type
<1>3. QED
  BY <1>2 DEF InNow, type

\* As long as the formats carry what is read, the value expected is ahead.
LEMMA ExpectedHere ==
  ASSUME Inv, Len(got) < Len(sent)
  PROVE  /\ Expected \in Written
         /\ CarriedNext =>
              /\ Carries(Expected, Meant(in.endian, LocalIn))
              /\ Len(Code(Expected)) <= Ahead
              /\ At(in.buf, in.pos, Code(Expected))
              /\ Len(got) + 1 = Len(sent) => Ahead = Len(Code(Expected))
              /\ Expected.format = "line" =>
                   /\ Len(Code(Expected)) + 2 <= Ahead
                   /\ At(in.buf, in.pos + Len(Code(Expected)), <<CR, LF>>)
<1> DEFINE n == Len(got)
           b == in.buf
           s == Code(Expected)
<1>1. /\ sent \in Seq(Written) /\ Len(sent) \in Nat /\ n \in Nat
      /\ n + 1 \in 1..Len(sent) /\ (n + 1) - 1 = n
  BY DEF Inv, ArrivedOK, ReaderOK
<1>2. Expected \in Written /\ Expected = sent[n + 1]
  BY <1>1, ElementOfSeq DEF Expected
<1>3. PICK c : Cuts(b, sent, c)
  BY DEF Inv, ArrivedOK, Coded, Spelled
<1>4. /\ c \in [0..Len(sent) -> 0..Len(b)] /\ c[Len(sent)] = Len(b)
      /\ \A i \in 1..Len(sent) : c[i] = c[i - 1] + Len(Code(sent[i]))
                                 /\ At(b, c[i - 1], Code(sent[i]))
  BY <1>3 DEF Cuts
<1>5. c[n + 1] = c[n] + Len(s) /\ At(b, c[n], s) /\ Len(s) \in Nat
      /\ c[n] \in Nat /\ c[n + 1] \in 0..Len(b)
  <2>1. c[n + 1] = c[(n + 1) - 1] + Len(Code(sent[n + 1]))
        /\ At(b, c[(n + 1) - 1], Code(sent[n + 1]))
    BY <1>1, <1>4
  <2>2. c[n] \in 0..Len(b) /\ c[n + 1] \in 0..Len(b)
    BY <1>1, <1>4
  <2>3. Len(s) \in Nat
    BY <1>2, CodeType
  <2>4. QED
    BY <1>1, <1>2, <2>1, <2>2, <2>3
<1>6. Len(b) \in Nat /\ in.pos \in Nat /\ Ahead \in Nat /\ in.pos + Ahead = Len(b)
  BY AheadIs
<1> SUFFICES ASSUME CarriedNext
             PROVE  /\ Carries(Expected, Meant(in.endian, LocalIn))
                    /\ Len(s) <= Ahead /\ At(b, in.pos, s)
                    /\ n + 1 = Len(sent) => Ahead = Len(s)
                    /\ Expected.format = "line" =>
                         /\ Len(s) + 2 <= Ahead
                         /\ At(b, in.pos + Len(s), <<CR, LF>>)
  BY <1>2
<1>7. Carries(Expected, Meant(in.endian, LocalIn)) /\ Carried(n)
  BY DEF CarriedNext
<1>8. in.pos = c[n]
  BY <1>3, <1>7 DEF Inv, ReaderOK
<1> HIDE DEF n, b, s
<1>9. Len(s) <= Ahead /\ At(b, in.pos, s) /\ c[n + 1] = in.pos + Len(s)
  BY <1>5, <1>6, <1>8
<1>10. n + 1 = Len(sent) => Ahead = Len(s)
  BY <1>4, <1>5, <1>6, <1>9
<1>11. ASSUME Expected.format = "line"
       PROVE  Len(s) + 2 <= Ahead /\ At(b, in.pos + Len(s), <<CR, LF>>)
  <2>1. LinesEnd(sent)
    BY DEF Inv, ArrivedOK, Coded
  <2> DEFINE j == n + 1
  <2>2. j \in 1..Len(sent) /\ sent[j].format = "line"
    BY <1>1, <1>2, <1>11
  <2> HIDE DEF j
  <2>3. /\ j + 1 \in 1..Len(sent) /\ sent[j + 1].format = "raw"
        /\ sent[j + 1].value = <<CR, LF>>
    BY <2>1, <2>2 DEF LinesEnd
  <2>4. sent[j + 1] \in Written
    BY <1>1, <2>3, ElementOfSeq
  <2>5. Code(sent[j + 1]) = <<CR, LF>>
    BY <2>3, <2>4, CodeIs
  <2>6. c[j + 1] = c[(j + 1) - 1] + Len(Code(sent[j + 1]))
        /\ At(b, c[(j + 1) - 1], Code(sent[j + 1])) /\ c[j + 1] \in 0..Len(b)
    BY <1>4, <2>3
  <2>7. (j + 1) - 1 = j /\ Len(<<CR, LF>>) = 2
    BY <1>1, <2>2
  <2>8. c[j + 1] = c[j] + 2 /\ At(b, c[j], <<CR, LF>>)
    BY <2>5, <2>6, <2>7
  <2>9. c[j] = in.pos + Len(s)
    BY <1>9 DEF j
  <2>10. Len(s) + 2 <= Ahead
    BY <1>5, <1>6, <2>6, <2>8, <2>9
  <2>11. QED
    BY <2>8, <2>9, <2>10
<1>12. QED
  BY <1>7, <1>9, <1>10, <1>11

\* What the reader does leaves the writer alone.
LEMMA ReaderOnly ==
  ASSUME Inv, UNCHANGED <<endian, bytes, wrote>>
  PROVE  WriterOK'
BY DEF Inv, WriterOK

\* A Read function that returns what was written, or anything that its format has
\* once a value was not carried.
LEMMA ReturnSound ==
  ASSUME Inv, stage = "read", Len(got) < Len(sent),
         NEW v \in Value, NEW m \in Nat, m <= Ahead,
         Expected.format \in NumberFormats => Fits(Expected.format, v[1]),
         CarriedNext => v = AsRead(Expected) /\ m = Len(Code(Expected)),
         Return(v, m)
  PROVE  Inv'
<1> DEFINE g == [value |-> v, order |-> Meant(in.endian, LocalIn)]
<1>0. PICK n \in Nat : n = Len(got)
  BY DEF Inv, ReaderOK
<1>1. /\ got' = Append(got, g) /\ in' = [in EXCEPT !.pos = in.pos + m]
      /\ UNCHANGED <<endian, bytes, wrote, sent, stage>>
  BY DEF Return
<1>2. g \in Got /\ g.value = v /\ g.order = Meant(in.endian, LocalIn)
  BY InNowIs DEF Got
<1> HIDE DEF g
<1>3. /\ got \in Seq(Got) /\ Len(got) = n /\ n < Len(sent) /\ Len(sent) \in Nat
      /\ sent \in Seq(Written)
      /\ in \in [buf : Seq(Byte), pos : Nat, endian : EndianTypes \union {0}]
      /\ Coded(in.buf, sent)
      /\ \A i \in 1..n : sent[i].format \in NumberFormats =>
                            Fits(sent[i].format, got[i].value[1])
      /\ \A i \in 1..n : Carried(i) => got[i].value = AsRead(sent[i])
      /\ \A c : Cuts(in.buf, sent, c) /\ Carried(n) => in.pos = c[n]
  BY <1>0 DEF Inv, ReaderOK, ArrivedOK
<1>4. /\ got' \in Seq(Got) /\ Len(got') = n + 1 /\ got'[n + 1] = g
      /\ \A i \in 1..n : got'[i] = got[i]
  BY <1>1, <1>2, <1>3, AppendProperties
<1>5. /\ in' \in [buf : Seq(Byte), pos : Nat, endian : EndianTypes \union {0}]
      /\ in'.buf = in.buf /\ in'.pos = in.pos + m /\ sent' = sent
  <2> DEFINE x == in.pos + m
  <2>1. x \in Nat
    BY <1>3
  <2>2. in' = [in EXCEPT !.pos = x] /\ sent' = sent
    BY <1>1
  <2> HIDE DEF x
  <2>3. /\ in' \in [buf : Seq(Byte), pos : Nat, endian : EndianTypes \union {0}]
        /\ in'.buf = in.buf /\ in'.pos = x
    BY <1>3, <2>1, <2>2
  <2>4. QED
    BY <2>2, <2>3 DEF x
<1>6. Expected = sent[n + 1] /\ \A i \in 1..n + 1 : i \in 1..n \/ i = n + 1
  BY <1>0, <1>3 DEF Expected
<1>7. \A i \in 0..n : Carried(i)' <=> Carried(i)
  BY <1>3, <1>4, <1>5 DEF Carried
<1>8. Carried(n + 1)' => CarriedNext
  <2>1. ASSUME Carried(n + 1)' PROVE CarriedNext
    <3>1. \A i \in 1..n + 1 : Carries(sent[i], got'[i].order)
      BY <1>5, <2>1 DEF Carried
    <3>2. Carries(Expected, Meant(in.endian, LocalIn))
      BY <1>2, <1>3, <1>4, <1>6, <3>1
    <3>3. Carried(n)
      <4>1. ASSUME NEW i \in 1..n PROVE Carries(sent[i], got[i].order)
        <5>1. i \in 1..n + 1 /\ got'[i] = got[i]
          BY <1>3, <1>4
        <5>2. QED
          BY <3>1, <5>1
      <4>2. QED
        BY <4>1 DEF Carried
    <3>4. QED
      BY <1>0, <3>2, <3>3 DEF CarriedNext
  <2>2. QED
    BY <2>1
<1>9. WriterOK'
  BY <1>1, ReaderOnly
<1>10. ArrivedOK'
  BY <1>3, <1>5 DEF ArrivedOK
<1>11. in'.pos <= Len(in'.buf)
  BY <1>5, AheadIs
<1>12. ASSUME NEW i \in 1..n + 1, sent[i].format \in NumberFormats
       PROVE  Fits(sent[i].format, got'[i].value[1])
  <2>1. CASE i \in 1..n
    BY <1>3, <1>4, <1>12, <2>1
  <2>2. CASE i = n + 1
    <3>1. got'[i].value = v /\ sent[i] = Expected
      BY <1>2, <1>4, <1>6, <2>2
    <3>2. QED
      BY <1>12, <3>1
  <2>3. QED
    BY <1>6, <2>1, <2>2
<1>13. ASSUME NEW i \in 1..n + 1, Carried(i)' PROVE got'[i].value = AsRead(sent[i])
  <2>1. CASE i \in 1..n
    <3>1. i \in 0..n /\ Carried(i)
      BY <1>7, <1>13, <2>1
    <3>2. QED
      BY <1>3, <1>4, <2>1, <3>1
  <2>2. CASE i = n + 1
    <3>1. CarriedNext
      BY <1>8, <1>13, <2>2
    <3>2. QED
      BY <1>2, <1>4, <1>6, <2>2, <3>1
  <2>3. QED
    BY <1>6, <2>1, <2>2
<1>14. ASSUME NEW c, Cuts(in.buf, sent, c), Carried(n + 1)'
       PROVE  in.pos + m = c[n + 1]
  <2>1. CarriedNext
    BY <1>8, <1>14
  <2>2. in.pos = c[n]
    BY <1>0, <1>3, <1>14, <2>1 DEF CarriedNext
  <2>3. n + 1 \in 1..Len(sent) /\ (n + 1) - 1 = n
    BY <1>3
  <2>4. c[n + 1] = c[(n + 1) - 1] + Len(Code(sent[n + 1]))
    BY <1>14, <2>3 DEF Cuts
  <2>5. QED
    BY <1>6, <2>1, <2>2, <2>3, <2>4
<1>15. ReaderOK'
  <2>1. got' \in Seq(Got) /\ Len(got') <= Len(sent')
    BY <1>3, <1>4, <1>5
  <2>2. \A i \in 1..Len(got') : sent'[i].format \in NumberFormats =>
           Fits(sent'[i].format, got'[i].value[1])
    BY <1>4, <1>5, <1>12
  <2>3. \A i \in 1..Len(got') : Carried(i)' => got'[i].value = AsRead(sent'[i])
    BY <1>4, <1>5, <1>13
  <2>4. \A c : Cuts(in'.buf, sent', c) /\ Carried(Len(got))' => in'.pos = c[Len(got')]
    BY <1>4, <1>5, <1>14
  <2>5. QED
    BY <1>11, <2>1, <2>2, <2>3, <2>4 DEF ReaderOK
<1>16. StageOK'
  BY <1>1 DEF StageOK
<1>17. QED
  BY <1>9, <1>10, <1>15, <1>16 DEF Inv

\* What C++ leaves undefined happens only after a value that was not carried.
LEMMA UndefinedSound ==
  ASSUME Inv, ~CarriedNext, Undefined
  PROVE  Inv'
<1>1. stage' = "undefined" /\ UNCHANGED <<endian, bytes, wrote, in, sent, got>>
  BY DEF Undefined
<1>2. WriterOK'
  BY <1>1, ReaderOnly
<1>3. ArrivedOK'
  BY <1>1 DEF Inv, ArrivedOK
<1>4. ReaderOK'
  BY <1>1 DEF Inv, ReaderOK, Carried
<1>5. StageOK'
  BY <1>1 DEF StageOK, CarriedNext, Carried, Expected
<1>6. QED
  BY <1>2, <1>3, <1>4, <1>5 DEF Inv

\* One lemma for each step of the reader.
LEMMA StepSetEndianIn ==
  ASSUME Inv, NEW type \in EndianTypes, SetEndianIn(type)
  PROVE  Inv'
<1>1. /\ stage = "read" /\ in' = [in EXCEPT !.endian = type]
      /\ UNCHANGED <<endian, bytes, wrote, sent, got, stage>>
  BY DEF SetEndianIn
<1>2. in \in [buf : Seq(Byte), pos : Nat, endian : EndianTypes \union {0}]
  BY DEF Inv, ArrivedOK
<1>3. /\ in' \in [buf : Seq(Byte), pos : Nat, endian : EndianTypes \union {0}]
      /\ in'.buf = in.buf /\ in'.pos = in.pos
  BY <1>1, <1>2
<1>4. WriterOK'
  BY <1>1, ReaderOnly
<1>5. ArrivedOK'
  BY <1>1, <1>3 DEF Inv, ArrivedOK
<1>6. ReaderOK'
  BY <1>1, <1>3 DEF Inv, ReaderOK, Carried
<1>7. StageOK'
  BY <1>1 DEF StageOK
<1>8. QED
  BY <1>4, <1>5, <1>6, <1>7 DEF Inv

-----------------------------------------------------------------------------
(* The Read functions.                                                      *)

LEMMA StepReadNumber ==
  ASSUME Inv, NEW f \in NumberFormats, ReadNumber(f)
  PROVE  Inv'
<1> DEFINE n == Size[f]
           k == Offset(f)
           d == Decode(f, Coming(n), InNow)
<1>1. /\ stage = "read" /\ Len(got) < Len(sent) /\ Expected.format = f
      /\ IF Ahead >= n THEN Return(<<d - k>>, n) ELSE Return(<<-k>>, 0)
  BY DEF ReadNumber, Expects
<1>2. n \in Nat \ {0} /\ k \in Int
  BY FormatFacts
<1>3. Ahead \in Nat
  BY AheadIs
<1>4. PICK v \in Int : /\ Expected \in Written /\ Expected.value = <<v>>
                       /\ Expected.value[1] = v /\ Fits(f, v)
  BY <1>1, ExpectedHere, WrittenIs DEF IsNumber
<1>5. AsRead(Expected) = <<v>>
  <2>1. f # "ntstring"
    BY FormatsApart
  <2>2. QED
    BY <1>1, <1>4, <2>1 DEF AsRead
<1> DEFINE o == Expected.order
           s == Encode(v + k, n, o)
<1>6. Code(Expected) = s
  BY <1>1, <1>4, CodeIs DEF IsNumber
<1>7. v + k \in Int /\ s \in Seq(Byte) /\ Len(s) = n
  <2>1. v + k \in Int
    BY <1>2
  <2>2. n \in Nat
    BY <1>2
  <2> HIDE DEF k, n
  <2>3. QED
    BY <2>1, <2>2, EncodeType
<1>8. CASE Ahead >= n
  <2>1. Coming(n) \in Seq(Byte) /\ Len(Coming(n)) = n
    BY <1>2, <1>3, <1>8, ComingIs
  <2>2. d - k \in Int /\ Fits(f, d - k)
    BY <2>1, DecodeFits
  <2>3. ASSUME CarriedNext PROVE d - k = v
    <3>1. /\ Carries(Expected, Meant(in.endian, LocalIn))
          /\ Len(s) <= Ahead /\ At(in.buf, in.pos, s)
      BY <1>1, <1>6, <2>3, ExpectedHere
    <3>2. Coming(n) = s
      <4> HIDE DEF s, n
      <4>1. QED
        BY <1>7, <3>1, ComingAt
    <3>3. o = InNow \/ n = 1
      <4>1. f \notin {"raw", "ntstring", "line"}
        BY FormatsApart
      <4>2. QED
        BY <1>1, <3>1, <4>1, InNowIs DEF Carries
    <3>4. Decode(f, s, o) - k = v
      BY <1>4, DecodeEncode
    <3>5. Decode(f, s, InNow) = Decode(f, s, o)
      <4>1. CASE o = InNow
        BY <4>1
      <4>2. CASE n = 1
        <5> HIDE DEF s, o
        <5>1. QED
          BY <1>7, <4>2, OneByteOrder
      <4>3. QED
        BY <3>3, <4>1, <4>2
    <3>6. QED
      BY <3>2, <3>4, <3>5
  <2>4. Return(<<d - k>>, n)
    BY <1>1, <1>8
  <2> DEFINE x == d - k
  <2>5. x \in Int /\ Fits(f, x) /\ (CarriedNext => x = v) /\ Return(<<x>>, n)
    BY <2>2, <2>3, <2>4
  <2> HIDE DEF x, d, k, s
  <2>6. <<x>> \in Value /\ <<x>>[1] = x
    BY <2>5 DEF Value
  <2>7. CarriedNext => <<x>> = AsRead(Expected) /\ n = Len(Code(Expected))
    BY <1>5, <1>6, <1>7, <2>5
  <2> HIDE DEF n
  <2>8. Expected.format \in NumberFormats => Fits(Expected.format, <<x>>[1])
    BY <1>1, <2>5, <2>6
  <2>9. QED
    BY <1>1, <1>2, <1>3, <1>8, <2>5, <2>6, <2>7, <2>8, ReturnSound
<1>9. CASE ~(Ahead >= n)
  <2> DEFINE x == -k
  <2>1. x \in Int /\ Fits(f, x)
    BY MissingFits
  <2>2. Return(<<x>>, 0)
    BY <1>1, <1>9
  <2>3. ~CarriedNext
    <3>1. ASSUME CarriedNext PROVE Len(s) <= Ahead
      BY <1>1, <1>6, <3>1, ExpectedHere
    <3> HIDE DEF s, n
    <3>2. QED
      BY <1>2, <1>3, <1>7, <1>9, <3>1
  <2> HIDE DEF x
  <2>4. <<x>> \in Value /\ <<x>>[1] = x
    BY <2>1 DEF Value
  <2>5. Expected.format \in NumberFormats => Fits(Expected.format, <<x>>[1])
    BY <1>1, <2>1, <2>4
  <2>6. 0 \in Nat /\ 0 <= Ahead
    BY <1>3
  <2>7. QED
    BY <1>1, <2>2, <2>3, <2>4, <2>5, <2>6, ReturnSound
<1>10. QED
  BY <1>8, <1>9

\* Bytes are a value that a Read function may return.
LEMMA BytesAreValue ==
  ASSUME NEW s \in Seq(Byte)
  PROVE  s \in Value
<1>1. Byte \subseteq Int
  BY ByteFacts
<1>2. QED
  BY <1>1, SeqMonotonic DEF Value

\* What is behind e in e \o s.
LEMMA BehindIn ==
  ASSUME NEW e \in Seq(Byte), NEW s \in Seq(Byte)
  PROVE  SubSeq(e \o s, Len(e) + 1, Len(e) + Len(s)) = s
<1> DEFINE m == Len(e)
           n == Len(s)
           b == e \o s
           t == SubSeq(b, m + 1, m + n)
<1>1. /\ m \in Nat /\ n \in Nat /\ b \in Seq(Byte) /\ Len(b) = m + n
      /\ \A k \in 1..m + n : b[k] = IF k <= m THEN e[k] ELSE s[k - m]
  BY ConcatProperties
<1> HIDE DEF m, n, b
<1>2. \A k \in (m + 1)..(m + n) : b[k] \in Byte
  BY <1>1, ElementOfSeq
<1>3. /\ t \in Seq(Byte)
      /\ Len(t) = IF m + 1 <= m + n THEN (m + n) - (m + 1) + 1 ELSE 0
      /\ \A k \in 1..((m + n) - (m + 1) + 1) : t[k] = b[(m + 1) + k - 1]
  BY <1>1, <1>2, SubSeqProperties
<1> HIDE DEF t
<1>4. Len(t) = n /\ (m + n) - (m + 1) + 1 = n
  BY <1>1, <1>3
<1>5. ASSUME NEW k \in 1..n PROVE t[k] = s[k]
  <2>1. (m + 1) + k - 1 = m + k /\ m + k \in 1..m + n /\ ~(m + k <= m)
        /\ (m + k) - m = k
    BY <1>1
  <2>2. t[k] = b[m + k]
    BY <1>3, <1>4, <2>1
  <2>3. QED
    BY <1>1, <2>1, <2>2
<1>6. t = s
  <2>1. Len(s) = n
    BY DEF n
  <2>2. QED
    BY <1>3, <1>4, <1>5, <2>1, SeqEqual
<1>7. QED
  BY <1>6 DEF t, b, m, n

\* The first of two pieces of bytes is where both are.
LEMMA AtFirst ==
  ASSUME NEW e \in Seq(Byte), NEW s \in Seq(Byte), NEW b, NEW n, At(b, n, e \o s)
  PROVE  At(b, n, e)
<1>1. /\ Len(e) \in Nat /\ Len(s) \in Nat /\ Len(e \o s) = Len(e) + Len(s)
      /\ \A k \in 1..Len(e) : (e \o s)[k] = e[k]
  BY ConcatProperties
<1> DEFINE t == e \o s
<1> HIDE DEF t
<1>2. ASSUME NEW k \in 1..Len(e) PROVE b[n + k] = e[k]
  <2>1. k \in 1..Len(t) /\ t[k] = e[k] /\ At(b, n, t)
    BY <1>1 DEF t
  <2>2. QED
    BY <2>1 DEF At
<1>3. QED
  BY <1>2 DEF At

LEMMA StepReadString ==
  ASSUME Inv, ReadString
  PROVE  Inv'
<1> DEFINE short == Size["short"]
           n == IF Ahead >= short THEN short ELSE 0
           length == IF n = 0 THEN 0 ELSE Decode("short", Coming(n), InNow)
           s == Expected.value
           o == Expected.order
           e == Encode(Len(s), short, o)
           all == CString(SubSeq(Coming(n + length), n + 1, n + length))
<1>1. /\ stage = "read" /\ Len(got) < Len(sent) /\ Expected.format = "string"
      /\ \/ length < 0 /\ Undefined
         \/ length \in 0..Ahead - n /\ Return(all, n + length)
         \/ length > Ahead - n /\ Return(<<>>, n)
  BY DEF ReadString, Expects
<1>2. short \in Nat \ {0} /\ Ahead \in Nat /\ n \in Nat /\ n <= Ahead
  BY ShortFacts, AheadIs
<1>3. Expected.format \notin NumberFormats
  BY <1>1, FormatsApart
<1>4. Expected \in Written /\ s \in Seq(Byte)
  BY <1>1, <1>3, ExpectedHere, WrittenIs DEF IsNumber
<1> HIDE DEF n
<1>5. length \in Int
  <2>1. CASE n = 0
    BY <2>1
  <2>2. CASE n # 0
    <3>1. Coming(n) \in Seq(Byte) /\ Len(Coming(n)) = short
      BY <1>2, <2>2, ComingIs DEF n
    <3>2. Decode("short", Coming(n), InNow) \in Int
      BY <3>1, DecodeFits, ShortFacts
    <3>3. QED
      BY <2>2, <3>2
  <2>3. QED
    BY <2>1, <2>2
<1>6. e \in Seq(Byte) /\ Len(e) = short /\ Len(s) \in Nat
  BY <1>2, <1>4, EncodeType
<1>7. ASSUME CarriedNext
      PROVE  /\ n = short /\ length = Len(s)
             /\ length \in 0..Ahead - n /\ n + length = Len(Code(Expected))
             /\ all = s
  <2>1. /\ Carries(Expected, Meant(in.endian, LocalIn))
        /\ Len(Code(Expected)) <= Ahead
        /\ At(in.buf, in.pos, Code(Expected))
    BY <1>1, <1>7, ExpectedHere
  <2>2. /\ o = InNow /\ ~Contains(s, 0) /\ Len(s) < Power[short] \div 2
    BY <1>1, <1>3, <2>1, InNowIs DEF Carries
  <2>3. CString(s) = s
    BY <1>4, <2>2, CStringIs
  <2> DEFINE code == e \o s
  <2>4. Code(Expected) = code
    <3>1. Code(Expected) = Encode(Len(CString(s)), short, o) \o CString(s)
      BY <1>1, <1>4, CodeIs
    <3> DEFINE c == CString(s)
    <3>2. c = s /\ Code(Expected) = Encode(Len(c), short, o) \o c
      BY <2>3, <3>1
    <3> HIDE DEF c, s, o, short
    <3>3. Encode(Len(c), short, o) = e
      BY <3>2 DEF e
    <3>4. QED
      BY <3>2, <3>3 DEF code
  <2>5. code \in Seq(Byte) /\ Len(code) = short + Len(s)
    <3> HIDE DEF s, o, short
    <3>1. e \in Seq(Byte) /\ s \in Seq(Byte) /\ Len(e) = short
      BY <1>4, <1>6
    <3> HIDE DEF e
    <3>2. QED
      BY <3>1, ConcatProperties DEF code
  <2> HIDE DEF e
  <2>6. At(in.buf, in.pos, code) /\ short + Len(s) <= Ahead
    BY <2>1, <2>4, <2>5
  <2>7. n = short
    BY <1>2, <1>6, <2>6 DEF n
  <2>8. Coming(short) = e
    <3>1. At(in.buf, in.pos, e) /\ Len(e) <= Ahead
      BY <1>2, <1>4, <1>6, <2>6, AtFirst
    <3>2. QED
      BY <1>6, <3>1, ComingAt
  <2>9. length = Len(s)
    <3>1. length = Decode("short", e, InNow)
      BY <1>2, <2>7, <2>8
    <3>2. Decode("short", Encode(Len(s), short, InNow), InNow) = Len(s)
      BY <1>6, <2>2, LengthRead
    <3>3. QED
      BY <2>2, <3>1, <3>2 DEF e
  <2> HIDE DEF code, length
  <2>10. Coming(n + length) = code
    <3>1. Coming(Len(code)) = code
      BY <2>5, <2>6, ComingAt
    <3>2. QED
      BY <2>5, <2>7, <2>9, <3>1
  <2>11. SubSeq(code, Len(e) + 1, Len(e) + Len(s)) = s
    BY <1>4, <1>6, BehindIn DEF code
  <2>12. all = s
    BY <1>6, <2>3, <2>7, <2>9, <2>10, <2>11
  <2>13. length \in 0..Ahead - n /\ n + length = Len(Code(Expected))
    BY <1>2, <1>6, <2>4, <2>5, <2>6, <2>7, <2>9
  <2>14. QED
    BY <2>7, <2>9, <2>12, <2>13
<1> HIDE DEF length
<1>8. CASE length < 0 /\ Undefined
  <2>1. ~CarriedNext
    BY <1>5, <1>7, <1>8
  <2>2. QED
    BY <1>8, <2>1, UndefinedSound
<1>9. CASE length \in 0..Ahead - n /\ Return(all, n + length)
  <2> DEFINE m == n + length
             t == Coming(m)
  <2>1. m \in Nat /\ m <= Ahead
    BY <1>2, <1>5, <1>9
  <2> HIDE DEF m
  <2>2. t \in Seq(Byte) /\ Len(t) = m
    BY <2>1, ComingIs
  <2> HIDE DEF t
  <2>3. \A i \in (n + 1)..m : t[i] \in Byte
    BY <1>2, <2>1, <2>2, ElementOfSeq
  <2>4. SubSeq(t, n + 1, m) \in Seq(Byte)
    BY <1>2, <2>1, <2>3, SubSeqProperties
  <2>5. CString(SubSeq(t, n + 1, m)) \in Seq(Byte)
    BY <2>4, CStringIs
  <2>6. all \in Value
    BY <2>5, BytesAreValue DEF t, m
  <2>7. Return(all, m)
    BY <1>9 DEF m
  <2>8. AsRead(Expected) = s
    BY <1>1 DEF AsRead
  <2>9. CarriedNext => all = AsRead(Expected) /\ m = Len(Code(Expected))
    BY <1>7, <2>8 DEF m
  <2> HIDE DEF all
  <2>10. QED
    BY <1>1, <1>3, <2>1, <2>6, <2>7, <2>9, ReturnSound
<1>10. CASE length > Ahead - n /\ Return(<<>>, n)
  <2>1. ~CarriedNext
    BY <1>2, <1>5, <1>7, <1>10
  <2>2. <<>> \in Value
    BY DEF Value
  <2>3. QED
    BY <1>1, <1>2, <1>3, <1>10, <2>1, <2>2, ReturnSound
<1>11. QED
  BY <1>1, <1>8, <1>9, <1>10

LEMMA StepReadBytes ==
  ASSUME Inv, ReadBytes
  PROVE  Inv'
<1> DEFINE s == Expected.value
           n == Len(s)
<1>1. /\ stage = "read" /\ Len(got) < Len(sent) /\ Expected.format = "raw"
      /\ IF Ahead >= n THEN Return(Coming(n), n) ELSE Undefined
  BY DEF ReadBytes, Expects
<1>2. Expected.format \notin NumberFormats
  BY <1>1, FormatsApart
<1>3. Expected \in Written /\ s \in Seq(Byte) /\ n \in Nat
  BY <1>1, <1>2, ExpectedHere, WrittenIs DEF IsNumber
<1>4. Code(Expected) = s /\ AsRead(Expected) = s
  BY <1>1, <1>3, CodeIs DEF AsRead
<1>5. ASSUME CarriedNext PROVE n <= Ahead /\ Coming(n) = s
  <2>1. Len(s) <= Ahead /\ At(in.buf, in.pos, s)
    BY <1>1, <1>4, <1>5, ExpectedHere
  <2>2. QED
    BY <1>3, <2>1, ComingAt
<1> HIDE DEF n, s
<1>6. CASE Ahead >= n
  <2>1. n <= Ahead
    BY <1>3, <1>6, AheadIs
  <2>2. Coming(n) \in Value
    BY <1>3, <2>1, ComingIs, BytesAreValue
  <2>3. Return(Coming(n), n)
    BY <1>1, <1>6
  <2>4. CarriedNext => Coming(n) = AsRead(Expected) /\ n = Len(Code(Expected))
    BY <1>4, <1>5 DEF n
  <2>5. QED
    BY <1>1, <1>2, <1>3, <2>1, <2>2, <2>3, <2>4, ReturnSound
<1>7. CASE ~(Ahead >= n)
  <2>1. ~CarriedNext
    BY <1>3, <1>5, <1>7, AheadIs
  <2>2. Undefined
    BY <1>1, <1>7
  <2>3. QED
    BY <2>1, <2>2, UndefinedSound
<1>8. QED
  BY <1>6, <1>7

LEMMA StepReadStringAll ==
  ASSUME Inv, ReadStringAll
  PROVE  Inv'
<1> DEFINE s == Expected.value
           n == Ahead
<1>1. /\ stage = "read" /\ Len(got) < Len(sent) /\ Expected.format = "raw"
      /\ Len(got) + 1 = Len(sent) /\ Return(Coming(n), n)
  BY DEF ReadStringAll, Expects
<1>2. Expected.format \notin NumberFormats
  BY <1>1, FormatsApart
<1>3. Expected \in Written /\ s \in Seq(Byte)
  BY <1>1, <1>2, ExpectedHere, WrittenIs DEF IsNumber
<1>4. Code(Expected) = s /\ AsRead(Expected) = s
  BY <1>1, <1>3, CodeIs DEF AsRead
<1>5. n \in Nat /\ n <= Ahead
  BY AheadIs
<1>6. ASSUME CarriedNext PROVE n = Len(s) /\ Coming(n) = s
  <2>1. Len(s) <= Ahead /\ At(in.buf, in.pos, s) /\ Ahead = Len(s)
    BY <1>1, <1>4, <1>6, ExpectedHere
  <2>2. Coming(Len(s)) = s
    BY <1>3, <2>1, ComingAt
  <2>3. QED
    BY <2>1, <2>2
<1> HIDE DEF n, s
<1>7. Coming(n) \in Value
  BY <1>5, ComingIs, BytesAreValue
<1>8. CarriedNext => Coming(n) = AsRead(Expected) /\ n = Len(Code(Expected))
  BY <1>4, <1>6
<1>9. QED
  BY <1>1, <1>2, <1>5, <1>7, <1>8, ReturnSound

LEMMA StepReadStringNT ==
  ASSUME Inv, ReadStringNT
  PROVE  Inv'
<1> DEFINE s == Expected.value
           zeros == {i \in 1..Ahead : in.buf[in.pos + i] = 0}
           n == IF zeros = {} THEN Ahead ELSE Min(zeros)
<1>1. /\ stage = "read" /\ Len(got) < Len(sent) /\ Expected.format = "ntstring"
      /\ Return(Coming(n), n)
  BY DEF ReadStringNT, Expects
<1>2. Expected.format \notin NumberFormats
  BY <1>1, FormatsApart
<1>3. Expected \in Written /\ s \in Seq(Byte)
  BY <1>1, <1>2, ExpectedHere, WrittenIs DEF IsNumber
<1>4. Ahead \in Nat /\ zeros \in SUBSET Nat
  BY AheadIs
<1>5. zeros # {} => Min(zeros) \in zeros /\ \A i \in zeros : Min(zeros) <= i
  <2> HIDE DEF zeros
  <2>1. QED
    BY <1>4, MinIs
<1>6. n \in Nat /\ n <= Ahead
  BY <1>4, <1>5
<1>7. AsRead(Expected) = Append(s, 0)
  BY <1>1 DEF AsRead
<1>8. ASSUME CarriedNext
      PROVE  Code(Expected) = Append(s, 0) /\ n = Len(Append(s, 0))
             /\ Coming(n) = Append(s, 0)
  <2> DEFINE code == Append(s, 0)
  <2>1. /\ Carries(Expected, Meant(in.endian, LocalIn))
        /\ Len(Code(Expected)) <= Ahead
        /\ At(in.buf, in.pos, Code(Expected))
    BY <1>1, <1>8, ExpectedHere
  <2>2. ~Contains(s, 0)
    BY <1>1, <2>1 DEF Carries
  <2>3. Code(Expected) = code
    BY <1>1, <1>3, <2>2, CStringIs, CodeIs
  <2>4. /\ code \in Seq(Byte) /\ Len(code) = Len(s) + 1 /\ Len(s) \in Nat
        /\ code[Len(s) + 1] = 0 /\ \A k \in 1..Len(s) : code[k] = s[k]
    BY <1>3, ByteFacts, AppendProperties
  <2> HIDE DEF code, s, n
  <2>5. Len(code) <= Ahead /\ \A k \in 1..Len(code) : in.buf[in.pos + k] = code[k]
    BY <2>1, <2>3 DEF At
  <2>6. Len(s) + 1 \in zeros
    BY <1>4, <2>4, <2>5
  <2>7. ASSUME NEW i \in zeros PROVE Len(s) + 1 <= i
    <3>1. i \in 1..Ahead /\ in.buf[in.pos + i] = 0
      OBVIOUS
    <3>2. ASSUME i <= Len(s) PROVE FALSE
      <4>1. i \in 1..Len(s) /\ i \in 1..Len(code)
        BY <1>4, <2>4, <3>1, <3>2
      <4>2. s[i] = 0
        BY <2>4, <2>5, <3>1, <4>1
      <4>3. QED
        BY <2>2, <4>1, <4>2 DEF Contains
    <3>3. QED
      BY <1>4, <2>4, <3>1, <3>2
  <2>8. n = Len(s) + 1
    <3>1. zeros # {} /\ n = Min(zeros)
      BY <2>6 DEF n
    <3> HIDE DEF zeros
    <3>2. n \in zeros /\ n <= Len(s) + 1 /\ Len(s) + 1 <= n
      BY <1>5, <2>6, <2>7, <3>1
    <3>3. QED
      BY <1>6, <2>4, <3>2
  <2>9. Coming(n) = code
    <3>1. Coming(Len(code)) = code
      BY <2>1, <2>3, <2>4, ComingAt
    <3>2. QED
      BY <2>4, <2>8, <3>1
  <2>10. QED
    BY <2>3, <2>4, <2>8, <2>9 DEF code
<1> HIDE DEF n, s
<1>9. Coming(n) \in Value
  BY <1>6, ComingIs, BytesAreValue
<1>10. CarriedNext => Coming(n) = AsRead(Expected) /\ n = Len(Code(Expected))
  BY <1>7, <1>8
<1>11. QED
  BY <1>1, <1>2, <1>6, <1>9, <1>10, ReturnSound

\* The bytes that ReadLine compares are those of a line end.
LEMMA EndAt ==
  ASSUME Inv, NEW i \in Nat, i + 2 <= Ahead
  PROVE  (SubSeq(in.buf, in.pos + i + 1, in.pos + i + 2) = <<CR, LF>>) <=>
           (in.buf[in.pos + i + 1] = CR /\ in.buf[in.pos + i + 2] = LF)
<1> DEFINE b == in.buf
           a == in.pos + i
           t == SubSeq(b, a + 1, a + 2)
<1>1. /\ b \in Seq(Byte) /\ a \in Nat /\ Len(b) \in Nat /\ a + 2 <= Len(b)
  BY AheadIs
<1> HIDE DEF b, a
<1>2. \A k \in (a + 1)..(a + 2) : b[k] \in Byte
  BY <1>1, ElementOfSeq
<1>3. /\ t \in Seq(Byte)
      /\ Len(t) = IF a + 1 <= a + 2 THEN (a + 2) - (a + 1) + 1 ELSE 0
      /\ \A k \in 1..((a + 2) - (a + 1) + 1) : t[k] = b[(a + 1) + k - 1]
  BY <1>1, <1>2, SubSeqProperties
<1> HIDE DEF t
<1>4. /\ a + 1 <= a + 2 /\ (a + 2) - (a + 1) + 1 = 2
      /\ (a + 1) + 1 - 1 = a + 1 /\ (a + 1) + 2 - 1 = a + 2
      /\ 1 \in 1..2 /\ 2 \in 1..2
  BY <1>1
<1>5. Len(t) = 2 /\ t[1] = b[a + 1] /\ t[2] = b[a + 2]
  BY <1>3, <1>4
<1>6. <<CR, LF>> \in Seq(Byte)
  BY ByteFacts
<1> DEFINE e == <<CR, LF>>
<1>7. e \in Seq(Byte) /\ Len(e) = 2 /\ e[1] = CR /\ e[2] = LF
  BY <1>6
<1> HIDE DEF e
<1>8. t = e <=> t[1] = e[1] /\ t[2] = e[2]
  <2>1. ASSUME t[1] = e[1], t[2] = e[2] PROVE t = e
    <3>1. \A k \in 1..2 : k = 1 \/ k = 2
      OBVIOUS
    <3>2. \A k \in 1..Len(t) : t[k] = e[k]
      BY <1>5, <2>1, <3>1
    <3>3. QED
      BY <1>3, <1>5, <1>7, <3>2, SeqEqual
  <2>2. QED
    BY <2>1
<1>9. t = e <=> b[a + 1] = CR /\ b[a + 2] = LF
  BY <1>5, <1>7, <1>8
<1>10. QED
  BY <1>9 DEF t, e, b, a

\* The same of two bytes of a string.
LEMMA PairIn ==
  ASSUME NEW s \in Seq(Byte), NEW i \in 1..Len(s) - 1,
         s[i] = CR, s[i + 1] = LF
  PROVE  SubSeq(s, i, i + 1) = <<CR, LF>>
<1>1. i \in Nat /\ i >= 1 /\ Len(s) \in Nat /\ i + 1 <= Len(s)
  OBVIOUS
<1>2. \A k \in i..(i + 1) : s[k] \in Byte
  BY <1>1, ElementOfSeq
<1> DEFINE t == SubSeq(s, i, i + 1)
<1>3. /\ t \in Seq(Byte)
      /\ Len(t) = IF i <= i + 1 THEN (i + 1) - i + 1 ELSE 0
      /\ \A k \in 1..((i + 1) - i + 1) : t[k] = s[i + k - 1]
  BY <1>1, <1>2, SubSeqProperties
<1> HIDE DEF t
<1>4. /\ i <= i + 1 /\ (i + 1) - i + 1 = 2 /\ i + 1 - 1 = i /\ i + 2 - 1 = i + 1
      /\ 1 \in 1..2 /\ 2 \in 1..2
  BY <1>1
<1>5. Len(t) = 2 /\ t[1] = CR /\ t[2] = LF
  BY <1>3, <1>4
<1> DEFINE e == <<CR, LF>>
<1>6. e \in Seq(Byte) /\ Len(e) = 2 /\ e[1] = CR /\ e[2] = LF
  BY ByteFacts
<1> HIDE DEF e
<1>7. \A k \in 1..2 : k = 1 \/ k = 2
  OBVIOUS
<1>8. \A k \in 1..Len(t) : t[k] = e[k]
  BY <1>5, <1>6, <1>7
<1>9. t = e
  BY <1>3, <1>5, <1>6, <1>8, SeqEqual
<1>10. QED
  BY <1>9 DEF t, e

LEMMA StepReadLine ==
  ASSUME Inv, ReadLine
  PROVE  Inv'
<1> DEFINE s == Expected.value
           ends == {i \in 0..Ahead - 2 :
                      SubSeq(in.buf, in.pos + i + 1, in.pos + i + 2) = <<CR, LF>>}
           n == IF ends # {} THEN Min(ends)
                ELSE IF Ahead < 2 THEN 0 ELSE Ahead - 1
<1>1. /\ stage = "read" /\ Len(got) < Len(sent) /\ Expected.format = "line"
      /\ Return(Coming(n), n)
  BY DEF ReadLine, Expects
<1>2. Expected.format \notin NumberFormats
  BY <1>1, FormatsApart
<1>3. Expected \in Written /\ s \in Seq(Byte)
  BY <1>1, <1>2, ExpectedHere, WrittenIs DEF IsNumber
<1>4. /\ Ahead \in Nat /\ ends \in SUBSET Nat /\ in.pos \in Nat
      /\ \A i \in ends : i <= Ahead
  BY AheadIs
<1>5. ends # {} => Min(ends) \in ends /\ \A i \in ends : Min(ends) <= i
  <2> HIDE DEF ends
  <2>1. QED
    BY <1>4, MinIs
<1>6. n \in Nat /\ n <= Ahead
  <2>1. CASE ends # {}
    <3>1. n = Min(ends)
      BY <2>1
    <3>2. n \in ends
      BY <1>5, <2>1, <3>1
    <3> HIDE DEF ends, n
    <3>3. QED
      BY <1>4, <3>2
  <2>2. CASE ends = {}
    <3>1. n = IF Ahead < 2 THEN 0 ELSE Ahead - 1
      BY <2>2
    <3> HIDE DEF ends, n
    <3>2. QED
      BY <1>4, <3>1
  <2>3. QED
    BY <2>1, <2>2
<1>7. AsRead(Expected) = s
  BY <1>1 DEF AsRead
<1>8. \A i \in Nat : i \in ends <=>
         /\ i + 2 <= Ahead
         /\ in.buf[in.pos + i + 1] = CR /\ in.buf[in.pos + i + 2] = LF
  <2>1. ASSUME NEW i \in Nat
        PROVE  i \in ends <=>
                 /\ i + 2 <= Ahead
                 /\ in.buf[in.pos + i + 1] = CR /\ in.buf[in.pos + i + 2] = LF
    <3>1. i \in 0..Ahead - 2 <=> i + 2 <= Ahead
      BY <1>4
    <3>2. QED
      BY <3>1, EndAt
  <2>2. QED
    BY <2>1
<1> HIDE DEF ends
<1>9. ASSUME CarriedNext
      PROVE  Code(Expected) = s /\ n = Len(s) /\ Coming(n) = s
  <2>1. /\ Carries(Expected, Meant(in.endian, LocalIn))
        /\ Len(Code(Expected)) <= Ahead
        /\ At(in.buf, in.pos, Code(Expected))
        /\ Len(Code(Expected)) + 2 <= Ahead
        /\ At(in.buf, in.pos + Len(Code(Expected)), <<CR, LF>>)
    BY <1>1, <1>9, ExpectedHere
  <2>2. /\ ~Contains(s, 0)
        /\ \A i \in 1..Len(s) - 1 : SubSeq(s, i, i + 1) # <<CR, LF>>
    BY <1>1, <2>1 DEF Carries
  <2>3. Code(Expected) = s
    BY <1>1, <1>3, <2>2, CStringIs, CodeIs
  <2> HIDE DEF s, n
  <2>4. Len(s) \in Nat /\ Len(s) + 2 <= Ahead /\ At(in.buf, in.pos, s)
    BY <1>3, <2>1, <2>3
  <2>5. in.buf[in.pos + Len(s) + 1] = CR /\ in.buf[in.pos + Len(s) + 2] = LF
    <3>1. At(in.buf, in.pos + Len(s), <<CR, LF>>)
      BY <2>1, <2>3
    <3>2. 1 \in 1..Len(<<CR, LF>>) /\ 2 \in 1..Len(<<CR, LF>>)
      OBVIOUS
    <3>3. in.buf[(in.pos + Len(s)) + 1] = CR /\ in.buf[(in.pos + Len(s)) + 2] = LF
      BY <3>1, <3>2 DEF At
    <3>4. QED
      BY <3>3
  <2>6. Len(s) \in ends
    BY <1>8, <2>4, <2>5
  <2>7. ASSUME NEW i \in ends PROVE Len(s) <= i
    <3>1. i \in Nat
      BY <1>4
    <3>2. in.buf[in.pos + i + 1] = CR /\ in.buf[in.pos + i + 2] = LF
      BY <1>8, <3>1
    <3>3. ASSUME i < Len(s) PROVE FALSE
      <4>1. i + 1 \in 1..Len(s) /\ in.pos + (i + 1) = in.pos + i + 1
        BY <1>4, <2>4, <3>1, <3>3
      <4>2. s[i + 1] = CR
        BY <2>4, <3>2, <4>1 DEF At
      <4>3. CASE i + 1 = Len(s)
        <5>1. in.pos + Len(s) + 1 = in.pos + i + 2
          BY <1>4, <3>1, <4>3
        <5>2. CR = LF
          BY <2>5, <3>2, <5>1
        <5>3. QED
          BY <5>2, ByteFacts
      <4>4. CASE i + 1 # Len(s)
        <5>1. /\ i + 2 \in 1..Len(s) /\ in.pos + (i + 2) = in.pos + i + 2
              /\ i + 1 \in 1..Len(s) - 1 /\ (i + 1) + 1 = i + 2
          BY <1>4, <2>4, <3>1, <4>1, <4>4
        <5>2. s[i + 2] = LF
          BY <2>4, <3>2, <5>1 DEF At
        <5>3. SubSeq(s, i + 1, (i + 1) + 1) = <<CR, LF>>
          BY <1>3, <4>2, <5>1, <5>2, PairIn
        <5>4. QED
          BY <2>2, <5>1, <5>3
      <4>5. QED
        BY <4>3, <4>4
    <3>4. QED
      BY <2>4, <3>1, <3>3
  <2>8. n = Len(s)
    <3>1. ends # {} /\ n = Min(ends)
      BY <2>6 DEF n
    <3>2. n \in ends /\ n <= Len(s) /\ Len(s) <= n
      BY <1>5, <2>6, <2>7, <3>1
    <3>3. QED
      BY <1>6, <2>4, <3>2
  <2>9. Coming(n) = s
    <3>1. Coming(Len(s)) = s
      BY <1>3, <2>1, <2>3, ComingAt
    <3>2. QED
      BY <2>8, <3>1
  <2>10. QED
    BY <2>3, <2>8, <2>9
<1> HIDE DEF n, s
<1>10. Coming(n) \in Value
  BY <1>6, ComingIs, BytesAreValue
<1>11. CarriedNext => Coming(n) = AsRead(Expected) /\ n = Len(Code(Expected))
  BY <1>7, <1>9
<1>12. QED
  BY <1>1, <1>2, <1>6, <1>10, <1>11, ReturnSound

-----------------------------------------------------------------------------
(* The theorems.                                                            *)

\* Every step keeps the invariant.
LEMMA NextInv == Inv /\ [Next]_vars => Inv'
<1> SUFFICES ASSUME Inv, [Next]_vars PROVE Inv'
  OBVIOUS
<1>1. ASSUME NEW p \in Packets, Write(p) PROVE Inv'
  BY <1>1, StepSetEndian, StepWriteNumber, StepWriteString, StepWriteStringNT,
     StepWriteStringRaw, StepWriteLine, StepWritePacket DEF Write
<1>2. ASSUME NEW p \in Packets, Send(p) PROVE Inv'
  BY <1>2, StepSend
<1>3. ASSUME Read PROVE Inv'
  BY <1>3, StepSetEndianIn, StepReadNumber, StepReadString, StepReadBytes,
     StepReadStringAll, StepReadStringNT, StepReadLine DEF Read
<1>4. ASSUME UNCHANGED vars PROVE Inv'
  <2>1. UNCHANGED <<endian, bytes, wrote, in, sent, got, stage>>
    BY <1>4 DEF vars
  <2>2. WriterOK'
    BY <2>1, ReaderOnly
  <2>3. ArrivedOK'
    BY <2>1 DEF Inv, ArrivedOK
  <2>4. ReaderOK'
    BY <2>1 DEF Inv, ReaderOK, Carried
  <2>5. StageOK'
    BY <2>1 DEF Inv, StageOK, CarriedNext, Carried, Expected
  <2>6. QED
    BY <2>2, <2>3, <2>4, <2>5 DEF Inv
<1>5. QED
  BY <1>1, <1>2, <1>3, <1>4 DEF Next

\* So it always holds.
LEMMA Holding == Spec => []Inv
<1>1. QED
  BY InitInv, NextInv, PTL DEF Spec

\* The types: whatever bytes the Read functions find, the position stays inside the
\* buffer, and a number that one returns is a number that its format has.
THEOREM PacketCodecTypes == Spec => []TypeOK
<1>1. ASSUME Inv PROVE TypeOK
  <2>1. Seq(Written) \subseteq Seq(Item)
    <3>1. Written \subseteq Item
      BY DEF Written
    <3>2. QED
      BY <3>1, SeqMonotonic
  <2>2. bytes \in [Packets -> Seq(0..Base - 1)] /\ wrote \in [Packets -> Seq(Item)]
        /\ endian \in [Packets -> EndianTypes \union {0}]
    <3>1. /\ endian \in [Packets -> EndianTypes \union {0}]
          /\ bytes \in [Packets -> Seq(Byte)] /\ wrote \in [Packets -> Seq(Written)]
      BY <1>1 DEF Inv, WriterOK
    <3>2. QED
      BY <2>1, <3>1 DEF Byte
  <2>3. /\ in \in [buf : Seq(0..Base - 1), pos : Nat, endian : EndianTypes \union {0}]
        /\ sent \in Seq(Item)
    <3>1. /\ in \in [buf : Seq(Byte), pos : Nat, endian : EndianTypes \union {0}]
          /\ sent \in Seq(Written)
      BY <1>1 DEF Inv, ArrivedOK
    <3>2. QED
      BY <2>1, <3>1 DEF Byte
  <2>4. QED
    BY <1>1, <2>2, <2>3 DEF Inv, ReaderOK, StageOK, TypeOK
<1>2. QED
  BY <1>1, Holding, PTL

\* What is read is what was written, value by value, for numbers of any width, sign
\* and byte order and for strings of every kind, up to the first value that its
\* format does not carry; and what C++ leaves undefined happens only after one.
THEOREM PacketCodecRoundTrip == Spec => []RoundTrip
<1>1. ASSUME Inv PROVE RoundTrip
  <2> DEFINE n == Len(got)
             now == Meant(in.endian, LocalIn)
             given == [i \in 1..n |-> got[i].order]
             orders == Append(given, now)
             carried(k) == \A i \in 1..k : Carries(sent[i], orders[i])
  <2>1. /\ got \in Seq(Got) /\ n \in Nat
        /\ \A i \in 1..n : Carried(i) => got[i].value = AsRead(sent[i])
        /\ stage = "undefined" => ~CarriedNext
    BY <1>1 DEF Inv, ReaderOK, StageOK
  <2>2. given \in Seq({1, 2}) /\ Len(given) = n /\ now \in {1, 2}
    <3>1. ASSUME NEW i \in 1..n PROVE given[i] \in {1, 2}
      <4>1. got[i] \in Got
        BY <2>1, ElementOfSeq
      <4>2. QED
        BY <4>1 DEF Got
    <3>2. given \in [1..n -> {1, 2}]
      BY <3>1
    <3>3. now \in {1, 2}
      BY <1>1, InNowIs
    <3> HIDE DEF given, now
    <3>4. given \in Seq({1, 2})
      BY <2>1, <3>2, IsASeq
    <3>5. QED
      BY <2>1, <3>2, <3>3, <3>4, LenProperties
  <2>3. \A i \in 1..n : given[i] = got[i].order
    OBVIOUS
  <2> HIDE DEF given, now
  <2>4. /\ \A i \in 1..n : orders[i] = got[i].order
        /\ orders[n + 1] = now
    BY <2>1, <2>2, <2>3, AppendProperties
  <2> HIDE DEF orders
  <2>5. ASSUME NEW i \in 1..n, carried(i) PROVE got[i].value = AsRead(sent[i])
    <3>1. Carried(i)
      BY <2>1, <2>4, <2>5 DEF Carried
    <3>2. QED
      BY <2>1, <3>1
  <2>6. ASSUME stage = "undefined", carried(n + 1) PROVE FALSE
    <3>1. Carried(n)
      BY <2>1, <2>4, <2>6 DEF Carried
    <3>2. Carries(Expected, now)
      BY <2>1, <2>4, <2>6 DEF Expected
    <3>3. QED
      BY <2>1, <2>6, <3>1, <3>2 DEF CarriedNext, now
  <2>7. QED
    BY <2>5, <2>6 DEF RoundTrip, orders, given, now
<1>2. QED
  BY <1>1, Holding, PTL
=============================================================================
