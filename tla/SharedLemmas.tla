---------------------------- MODULE SharedLemmas ---------------------------
(***************************************************************************)
(* Facts that the proofs of several modules need.                          *)
(*                                                                         *)
(* Least numbers (PacketInProofs, PacketCodecProofs).  What RemoveFirst,    *)
(* the search and erase of a vector, leaves of a sequence: Engine::Sockets, *)
(* S_States and S_Engines are searched and erased that way.  That recursive *)
(* functions over the numbers are what they say (PacketCodecProofs).        *)
(***************************************************************************)
EXTENDS Integers, Sequences, SequencesExt, SequenceTheorems,
        WellFoundedInduction, TLAPS

\* x is at i in seq, and nowhere before.
FirstAt(seq, x, i) ==
    /\ i \in 1..Len(seq) /\ seq[i] = x
    /\ \A j \in 1..(i - 1) : seq[j] # x

\* No entry is there twice.
Distinct(seq) == \A i, j \in 1..Len(seq) : seq[i] = seq[j] => i = j

\* A set of numbers that is not empty has a least one.
LEMMA LeastNatural ==
  ASSUME NEW T \in SUBSET Nat, T # {}
  PROVE  \E x \in T : \A y \in T : x <= y
<1> DEFINE Less == {ss \in Nat \X Nat : ss[1] < ss[2]}
<1>1. IsWellFoundedOn(Less, Nat)
  BY NatLessThanWellFounded DEF OpToRel
<1>2. PICK x \in T : \A y \in T : <<y, x>> \notin Less
  BY <1>1, WFMin
<1>3. ASSUME NEW y \in T PROVE x <= y
  <2>1. ASSUME y < x PROVE FALSE
    <3>1. <<y, x>> \in Less
      BY <2>1
    <3>2. QED
      BY <1>2, <3>1
  <2>2. QED
    BY <2>1
<1>4. QED
  BY <1>3

\* Whatever occurs in a sequence has a first occurrence.
LEMMA FirstExists ==
  ASSUME NEW S, NEW seq \in Seq(S), NEW k \in 1..Len(seq)
  PROVE  \E i \in 1..Len(seq) : FirstAt(seq, seq[k], i)
<1> DEFINE T == {i \in 1..Len(seq) : seq[i] = seq[k]}
<1>1. Len(seq) \in Nat /\ T \in SUBSET Nat /\ k \in T
  OBVIOUS
<1>2. PICK i \in T : \A y \in T : i <= y
  BY <1>1, LeastNatural
<1>3. FirstAt(seq, seq[k], i)
  <2>1. ASSUME NEW j \in 1..(i - 1), seq[j] = seq[k] PROVE FALSE
    BY <1>1, <1>2, <2>1
  <2>2. QED
    BY <2>1, <1>2 DEF FirstAt
<1>4. QED
  BY <1>2, <1>3

\* The search stops at the first occurrence.
LEMMA SelectFirst ==
  ASSUME NEW S, NEW seq \in Seq(S), NEW x, NEW i, FirstAt(seq, x, i)
  PROVE  SelectInSeq(seq, LAMBDA v : v = x) = i
<1> DEFINE T == {j \in 1..Len(seq) : seq[j] = x}
<1>1. Len(seq) \in Nat /\ i \in T /\ T \subseteq Nat
  BY DEF FirstAt
<1>2. ASSUME NEW j \in T PROVE i <= j
  BY <1>1, <1>2 DEF FirstAt
<1>3. ASSUME NEW j \in T, \A y \in T : j <= y PROVE j = i
  BY <1>1, <1>2, <1>3
<1>4. Min(T) = i
  BY <1>1, <1>2, <1>3 DEF Min
<1>5. QED
  BY <1>1, <1>4 DEF SelectInSeq

\* What is erased is the first occurrence; what follows it moves up.
LEMMA RemoveFirstIs ==
  ASSUME NEW S, NEW seq \in Seq(S), NEW x, NEW i, FirstAt(seq, x, i)
  PROVE  /\ RemoveFirst(seq, x) \in Seq(S)
         /\ Len(RemoveFirst(seq, x)) = Len(seq) - 1
         /\ \A j \in 1..(Len(seq) - 1) :
               RemoveFirst(seq, x)[j] = IF j < i THEN seq[j] ELSE seq[j + 1]
<1> DEFINE front == SubSeq(seq, 1, i - 1)
           back == SubSeq(seq, i + 1, Len(seq))
<1>1. Len(seq) \in Nat /\ i \in 1..Len(seq) /\ \A j \in 1..Len(seq) : seq[j] \in S
  BY ElementOfSeq DEF FirstAt
<1>2. RemoveFirst(seq, x) = front \o back
  <2>1. SelectInSeq(seq, LAMBDA v : v = x) = i
    BY SelectFirst DEF SelectInSeq
  <2>2. QED
    BY <2>1 DEF RemoveFirst, RemoveAt, FirstAt
<1>3. /\ front \in Seq(S) /\ Len(front) = i - 1
      /\ \A j \in 1..(i - 1) : front[j] = seq[j]
  BY <1>1, SubSeqProperties
<1>4. /\ back \in Seq(S) /\ Len(back) = Len(seq) - i
      /\ \A j \in 1..(Len(seq) - i) : back[j] = seq[i + j]
  <2>1. \A j \in (i + 1)..Len(seq) : seq[j] \in S
    BY <1>1
  <2>2. QED
    BY <1>1, <2>1, SubSeqProperties
<1> HIDE DEF front, back
<1>5. /\ front \o back \in Seq(S) /\ Len(front \o back) = Len(seq) - 1
      /\ \A j \in 1..(Len(seq) - 1) :
            (front \o back)[j] = IF j <= i - 1 THEN front[j] ELSE back[j - (i - 1)]
  <2>1. /\ front \o back \in Seq(S)
        /\ Len(front \o back) = Len(front) + Len(back)
        /\ \A j \in 1..(Len(front) + Len(back)) :
              (front \o back)[j] =
                 IF j <= Len(front) THEN front[j] ELSE back[j - Len(front)]
    BY <1>3, <1>4, ConcatProperties
  <2>2. Len(front) + Len(back) = Len(seq) - 1
    BY <1>1, <1>3, <1>4
  <2>3. QED
    BY <1>3, <2>1, <2>2
<1>6. ASSUME NEW j \in 1..(Len(seq) - 1)
      PROVE  (front \o back)[j] = IF j < i THEN seq[j] ELSE seq[j + 1]
  <2>1. CASE j < i
    BY <1>1, <1>3, <1>5, <2>1
  <2>2. CASE ~(j < i)
    <3>1. j - (i - 1) \in 1..(Len(seq) - i) /\ i + (j - (i - 1)) = j + 1
      BY <1>1, <2>2
    <3>2. QED
      BY <1>1, <1>4, <1>5, <2>2, <3>1
  <2>3. QED
    BY <2>1, <2>2
<1>7. QED
  BY <1>2, <1>5, <1>6

\* The result is a sequence of the same kind even if there is nothing to erase.
LEMMA RemoveFirstType ==
  ASSUME NEW S, NEW seq \in Seq(S), NEW x
  PROVE  RemoveFirst(seq, x) \in Seq(S)
<1>1. CASE \E k \in 1..Len(seq) : seq[k] = x
  BY <1>1, FirstExists, RemoveFirstIs
<1>2. CASE \A k \in 1..Len(seq) : seq[k] # x
  BY <1>2 DEF RemoveFirst
<1>3. QED
  BY <1>1, <1>2

\* Of a sequence without repetitions, all but x is left, without repetitions.
LEMMA RemoveFirstDistinct ==
  ASSUME NEW S, NEW seq \in Seq(S), NEW x, Distinct(seq)
  PROVE  RemoveFirst(seq, x) \in Seq(S \ {x}) /\ Distinct(RemoveFirst(seq, x))
<1> DEFINE rest == RemoveFirst(seq, x)
<1>1. Len(seq) \in Nat /\ \A j \in 1..Len(seq) : seq[j] \in S
  BY ElementOfSeq
<1>2. CASE \A k \in 1..Len(seq) : seq[k] # x
  <2>1. rest = seq
    BY <1>2 DEF RemoveFirst
  <2>2. seq \in Seq(S \ {x})
    <3>1. seq \in [1..Len(seq) -> S \ {x}]
      BY <1>1, <1>2
    <3>2. QED
      BY <1>1, <3>1
  <2>3. QED
    BY <2>1, <2>2
<1>3. CASE \E k \in 1..Len(seq) : seq[k] = x
  <2>1. PICK i \in 1..Len(seq) : FirstAt(seq, x, i)
    BY <1>3, FirstExists
  <2>2. /\ rest \in Seq(S) /\ Len(rest) = Len(seq) - 1
        /\ \A j \in 1..(Len(seq) - 1) :
              rest[j] = IF j < i THEN seq[j] ELSE seq[j + 1]
    BY <2>1, RemoveFirstIs
  <2> HIDE DEF rest
  <2>3. seq[i] = x
    BY <2>1 DEF FirstAt
  <2>4. ASSUME NEW j \in 1..Len(rest) PROVE rest[j] \in S \ {x}
    <3>1. CASE j < i
      BY <1>1, <2>1, <2>2, <3>1 DEF FirstAt
    <3>2. CASE ~(j < i)
      <4>1. rest[j] = seq[j + 1] /\ j + 1 \in 1..Len(seq) /\ j + 1 # i
        BY <1>1, <2>2, <3>2
      <4>2. QED
        BY <1>1, <2>3, <4>1 DEF Distinct
    <3>3. QED
      BY <3>1, <3>2
  <2>5. rest \in Seq(S \ {x})
    <3>1. rest \in [1..Len(rest) -> S \ {x}] /\ Len(rest) \in Nat
      BY <2>2, <2>4
    <3>2. QED
      BY <3>1
  <2>6. ASSUME NEW j \in 1..Len(rest), NEW k \in 1..Len(rest), rest[j] = rest[k]
        PROVE  j = k
    <3> DEFINE up(m) == IF m < i THEN m ELSE m + 1
    <3>1. rest[j] = seq[up(j)] /\ rest[k] = seq[up(k)]
      BY <2>2
    <3>2. up(j) \in 1..Len(seq) /\ up(k) \in 1..Len(seq)
      BY <1>1, <2>2
    <3>3. up(j) = up(k)
      BY <2>6, <3>1, <3>2 DEF Distinct
    <3>4. QED
      BY <3>3
  <2>7. QED
    BY <2>5, <2>6 DEF Distinct, rest
<1>4. QED
  BY <1>2, <1>3

\* A last entry that occurs once is what is erased.
LEMMA RemoveLast ==
  ASSUME NEW S, NEW seq \in Seq(S), Len(seq) > 0, Distinct(seq)
  PROVE  /\ FirstAt(seq, seq[Len(seq)], Len(seq))
         /\ RemoveFirst(seq, seq[Len(seq)]) \in Seq(S)
         /\ Len(RemoveFirst(seq, seq[Len(seq)])) = Len(seq) - 1
         /\ \A j \in 1..(Len(seq) - 1) :
               RemoveFirst(seq, seq[Len(seq)])[j] = seq[j]
<1>1. FirstAt(seq, seq[Len(seq)], Len(seq))
  BY DEF FirstAt, Distinct
<1>2. QED
  BY <1>1, RemoveFirstIs


\* Nothing but x is lost.
LEMMA RemoveFirstRange ==
  ASSUME NEW S, NEW seq \in Seq(S), NEW x, Distinct(seq)
  PROVE  ToSet(RemoveFirst(seq, x)) = ToSet(seq) \ {x}
<1> DEFINE rest == RemoveFirst(seq, x)
<1>1. /\ rest \in Seq(S \ {x}) /\ DOMAIN rest = 1..Len(rest)
      /\ DOMAIN seq = 1..Len(seq) /\ Len(seq) \in Nat
  BY RemoveFirstDistinct, LenProperties
<1>2. CASE \A k \in 1..Len(seq) : seq[k] # x
  <2>1. rest = seq
    BY <1>2 DEF RemoveFirst
  <2>2. QED
    BY <1>1, <1>2, <2>1 DEF ToSet
<1>3. CASE \E k \in 1..Len(seq) : seq[k] = x
  <2>1. PICK i \in 1..Len(seq) : FirstAt(seq, x, i)
    BY <1>3, FirstExists
  <2>2. /\ Len(rest) = Len(seq) - 1
        /\ \A j \in 1..(Len(seq) - 1) :
              rest[j] = IF j < i THEN seq[j] ELSE seq[j + 1]
    BY <2>1, RemoveFirstIs
  <2>3. \A j \in 1..Len(rest) : rest[j] \in S \ {x}
    BY <1>1, ElementOfSeq
  <2> HIDE DEF rest
  <2>4. ASSUME NEW j \in 1..Len(rest) PROVE rest[j] \in ToSet(seq) \ {x}
    <3>1. j \in 1..Len(seq) /\ j + 1 \in 1..Len(seq)
      BY <1>1, <2>2
    <3>2. rest[j] = seq[j] \/ rest[j] = seq[j + 1]
      BY <2>2
    <3>3. QED
      BY <1>1, <2>3, <3>1, <3>2 DEF ToSet
  <2>5. ASSUME NEW j \in 1..Len(seq), seq[j] # x PROVE seq[j] \in ToSet(rest)
    <3>1. j # i /\ i \in 1..Len(seq)
      BY <2>1, <2>5 DEF FirstAt
    <3>2. CASE j < i
      <4>1. j \in 1..Len(rest) /\ rest[j] = seq[j]
        BY <1>1, <2>2, <3>1, <3>2
      <4>2. QED
        BY <1>1, <4>1 DEF ToSet
    <3>3. CASE j > i
      <4>1. j - 1 \in 1..Len(rest) /\ rest[j - 1] = seq[j]
        BY <1>1, <2>2, <3>1, <3>3
      <4>2. QED
        BY <1>1, <4>1 DEF ToSet
    <3>4. QED
      BY <1>1, <3>1, <3>2, <3>3
  <2>6. QED
    BY <1>1, <2>4, <2>5 DEF ToSet, rest
<1>4. QED
  BY <1>2, <1>3

-----------------------------------------------------------------------------
(* Recursion.                                                               *)

\* Induction: a set that has 0 and the successor of each of its numbers has all.
LEMMA AllNumbers ==
  ASSUME NEW T, 0 \in T, \A n \in Nat : n \in T => n + 1 \in T
  PROVE  \A n \in Nat : n \in T
<1> DEFINE U == {n \in Nat : n \notin T}
<1> SUFFICES ASSUME U # {} PROVE FALSE
  OBVIOUS
<1>1. PICK n \in U : \A m \in U : n <= m
  <2>1. U \in SUBSET Nat
    OBVIOUS
  <2> HIDE DEF U
  <2>2. QED
    BY <2>1, LeastNatural
<1>2. n - 1 \in Nat /\ n - 1 \notin U /\ (n - 1) + 1 = n
  BY <1>1
<1>3. QED
  BY <1>1, <1>2

\* What the first n steps of a recursion give.
Begun(g, n, a, step) ==
    /\ g[0] = a
    /\ \A k \in 0..(n - 1) : g[k + 1] = step[<<k, g[k]>>]

\* And all of them.
Solves(f, a, step) ==
    /\ f[0] = a
    /\ \A n \in Nat : f[n + 1] = step[<<n, f[n]>>]

\* A recursion over the numbers has a solution.
LEMMA Recursion ==
  ASSUME NEW S, NEW a \in S, NEW step \in [Nat \X S -> S]
  PROVE  \E f \in [Nat -> S] : Solves(f, a, step)
<1> DEFINE T == {n \in Nat : \E g \in [Nat -> S] : Begun(g, n, a, step)}
<1>1. 0 \in T
  <2>1. [m \in Nat |-> a] \in [Nat -> S] /\ Begun([m \in Nat |-> a], 0, a, step)
    BY DEF Begun
  <2>2. QED
    BY <2>1
<1>2. ASSUME NEW n \in Nat, n \in T PROVE n + 1 \in T
  <2>1. PICK g \in [Nat -> S] : Begun(g, n, a, step)
    BY <1>2
  <2> DEFINE x == step[<<n, g[n]>>]
             h == [m \in Nat |-> IF m = n + 1 THEN x ELSE g[m]]
  <2>2. x \in S
    OBVIOUS
  <2> HIDE DEF x
  <2>3. h \in [Nat -> S] /\ h[n + 1] = x /\ \A m \in 0..n : h[m] = g[m]
    BY <2>2
  <2> HIDE DEF h
  <2>4. ASSUME NEW k \in 0..n PROVE h[k + 1] = step[<<k, h[k]>>]
    <3>1. CASE k = n
      BY <2>3, <3>1 DEF x
    <3>2. CASE k # n
      <4>1. k \in 0..(n - 1) /\ k + 1 \in 0..n
        BY <3>2
      <4>2. g[k + 1] = step[<<k, g[k]>>]
        BY <2>1, <4>1 DEF Begun
      <4>3. QED
        BY <2>3, <4>1, <4>2
    <3>3. QED
      BY <3>1, <3>2
  <2>5. h[0] = a
    BY <2>1, <2>3 DEF Begun
  <2>6. Begun(h, n + 1, a, step)
    BY <2>4, <2>5 DEF Begun
  <2>7. QED
    BY <2>3, <2>6
<1>3. \A n \in Nat : \E g \in [Nat -> S] : Begun(g, n, a, step)
  <2>1. \A n \in Nat : n \in T
    <3> HIDE DEF T
    <3>1. QED
      BY <1>1, <1>2, AllNumbers
  <2>2. QED
    BY <2>1
<1> DEFINE G(n) == CHOOSE g \in [Nat -> S] : Begun(g, n, a, step)
           f == [n \in Nat |-> G(n)[n]]
<1>4. \A n \in Nat : G(n) \in [Nat -> S] /\ Begun(G(n), n, a, step)
  BY <1>3
<1> HIDE DEF G
<1>5. ASSUME NEW n \in Nat PROVE G(n)[n] = G(n + 1)[n]
  <2> DEFINE U == {k \in Nat : k <= n => G(n)[k] = G(n + 1)[k]}
  <2>1. Begun(G(n), n, a, step) /\ Begun(G(n + 1), n + 1, a, step)
    BY <1>4
  <2>2. 0 \in U
    BY <2>1 DEF Begun
  <2>3. ASSUME NEW k \in Nat, k \in U PROVE k + 1 \in U
    <3>1. CASE k + 1 <= n
      <4>1. k \in 0..(n - 1) /\ k \in 0..((n + 1) - 1)
        BY <3>1
      <4>2. G(n)[k] = G(n + 1)[k]
        BY <2>3, <3>1
      <4>3. G(n)[k + 1] = step[<<k, G(n)[k]>>]
        BY <2>1, <4>1 DEF Begun
      <4>4. G(n + 1)[k + 1] = step[<<k, G(n + 1)[k]>>]
        BY <2>1, <4>1 DEF Begun
      <4>5. QED
        BY <4>2, <4>3, <4>4
    <3>2. CASE ~(k + 1 <= n)
      BY <3>2
    <3>3. QED
      BY <3>1, <3>2
  <2>4. n \in U
    <3> HIDE DEF U
    <3>1. QED
      BY <2>2, <2>3, AllNumbers
  <2>5. QED
    BY <2>4
<1>6. f \in [Nat -> S] /\ f[0] = a
  <2>1. \A n \in Nat : G(n)[n] \in S
    BY <1>4
  <2>2. G(0)[0] = a
    BY <1>4 DEF Begun
  <2>3. QED
    BY <2>1, <2>2
<1>7. ASSUME NEW n \in Nat PROVE f[n + 1] = step[<<n, f[n]>>]
  <2>1. G(n + 1)[n + 1] = step[<<n, G(n + 1)[n]>>]
    BY <1>4 DEF Begun
  <2>2. G(n + 1)[n] = G(n)[n]
    BY <1>5
  <2>3. f[n + 1] = G(n + 1)[n + 1] /\ f[n] = G(n)[n]
    OBVIOUS
  <2>4. QED
    BY <2>1, <2>2, <2>3
<1>8. Solves(f, a, step)
  BY <1>6, <1>7 DEF Solves
<1>9. QED
  BY <1>6, <1>8
=============================================================================
