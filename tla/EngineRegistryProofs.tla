------------------------ MODULE EngineRegistryProofs ------------------------
(***************************************************************************)
(* Proofs about EngineRegistry, for any set of states and any number of     *)
(* openings: as long as states come and go in order each finds its own      *)
(* engine.                                                                  *)
(***************************************************************************)
EXTENDS EngineRegistry, SharedLemmas, SequenceTheorems, TLAPS

-----------------------------------------------------------------------------
(* What the loop over S_States finds.                                       *)

LEMMA FindFirst ==
  ASSUME NEW S, NEW seq \in Seq(S), NEW x, NEW i, FirstAt(seq, x, i)
  PROVE  Find(seq, x) = i
  BY SelectFirst DEF Find, SelectInSeq

\* What is in the vector is read from it, whatever its memory holds behind it.
LEMMA EngineIn ==
  ASSUME S_Engines \in Seq(Nat), behind \in Seq(Nat), NEW i \in 1..Len(S_Engines)
  PROVE  EngineAt(i) = S_Engines[i]
<1>1. Len(S_Engines) \in Nat /\ Len(behind) \in Nat
  BY LenProperties
<1>2. /\ Len(S_Engines \o behind) = Len(S_Engines) + Len(behind)
      /\ (S_Engines \o behind)[i] = S_Engines[i]
  BY <1>1, ConcatProperties
<1>3. QED
  BY <1>1, <1>2 DEF EngineAt

-----------------------------------------------------------------------------
(* The engines in the vector are those that have not been deleted.          *)

Sound ==
    /\ S_States \in Seq(States) /\ Len(S_States) = opens
    /\ S_Engines \in Seq(engines) /\ Distinct(S_Engines)
    /\ ToSet(S_Engines) = engines
    /\ behind \in Seq(Nat)
    /\ engineOf \in [States -> Nat]
    /\ opens \in Nat /\ engines \subseteq 1..opens
    /\ opened \in Seq(States) /\ orderly \in BOOLEAN

LEMMA EngineFound ==
  ASSUME Sound, NEW i \in 1..Len(S_Engines)
  PROVE  EngineAt(i) = S_Engines[i]
<1>1. engines \subseteq Nat
  BY DEF Sound
<1>2. S_Engines \in Seq(Nat) /\ behind \in Seq(Nat)
  BY <1>1, SeqMonotonic DEF Sound
<1>3. QED
  BY <1>2, EngineIn

LEMMA SoundInit == RegistryInit => Sound
<1> SUFFICES ASSUME RegistryInit PROVE Sound
  OBVIOUS
<1>1. \A T : <<>> \in Seq(T) /\ Len(<<>>) = 0
  BY EmptySeq
<1>2. ToSet(<<>>) = {}
  BY DEF ToSet
<1>3. QED
  BY <1>1, <1>2 DEF RegistryInit, Sound, Distinct, NullEngine

\* An engine of its own number is appended.
LEMMA SoundOpen ==
  ASSUME Sound, NEW s \in States, Open(s)
  PROVE  Sound'
<1>1. /\ opens' = opens + 1 /\ opens' \in Nat
      /\ engines' = engines \union {opens'} /\ engines' \subseteq 1..opens'
      /\ opens' \notin engines
  BY DEF Sound, Open
<1>2. S_States' \in Seq(States) /\ Len(S_States') = opens'
  BY <1>1, AppendProperties DEF Sound, Open
<1>3. /\ S_Engines' \in Seq(engines') /\ Distinct(S_Engines')
      /\ ToSet(S_Engines') = engines'
  <2>1. S_Engines \in Seq(engines')
    BY <1>1, SeqMonotonic DEF Sound
  <2>2. /\ S_Engines' \in Seq(engines') /\ Len(S_Engines') = Len(S_Engines) + 1
        /\ \A i \in 1..Len(S_Engines) : S_Engines'[i] = S_Engines[i]
        /\ S_Engines'[Len(S_Engines) + 1] = opens'
    BY <1>1, <2>1, AppendProperties DEF Open
  <2>3. Len(S_Engines) \in Nat
        /\ \A i \in 1..Len(S_Engines) : S_Engines[i] # opens'
    BY <1>1, ElementOfSeq DEF Sound
  <2>4. Distinct(S_Engines)
    BY DEF Sound
  <2>5. ToSet(S_Engines) = engines
    BY DEF Sound
  <2>6. ToSet(S_Engines') = engines'
    <3>1. /\ DOMAIN S_Engines = 1..Len(S_Engines)
          /\ DOMAIN S_Engines' = 1..Len(S_Engines')
      BY <2>2, LenProperties DEF Sound
    <3>2. QED
      BY <1>1, <2>2, <2>3, <2>5, <3>1 DEF ToSet
  <2>7. QED
    BY <2>2, <2>3, <2>4, <2>6 DEF Distinct
<1>4. engineOf' \in [States -> Nat] /\ behind' \in Seq(Nat)
  <2>1. behind # <<>> => Tail(behind) \in Seq(Nat)
    BY HeadTailProperties DEF Sound
  <2>2. <<>> \in Seq(Nat)
    BY EmptySeq
  <2>3. QED
    BY <1>1, <2>1, <2>2 DEF Sound, Open
<1>5. opened' \in Seq(States) /\ orderly' \in BOOLEAN
  BY AppendProperties DEF Sound, Open
<1>6. QED
  BY <1>1, <1>2, <1>3, <1>4, <1>5 DEF Sound

\* What is deleted is erased, and it was there once.
LEMMA SoundClose ==
  ASSUME Sound, NEW s \in States, Close(s)
  PROVE  Sound'
<1> DEFINE e == GetEngineByState(s)
<1>1. /\ engines' = engines \ {e}
      /\ S_Engines' = RemoveFirst(S_Engines, e)
      /\ UNCHANGED <<S_States, opens>>
      /\ engineOf' = [engineOf EXCEPT ![s] = NullEngine]
      /\ opened' = RemoveFirst(opened, s)
      /\ orderly' \in BOOLEAN
  BY DEF Close
<1> HIDE DEF e
<1>2. /\ S_Engines' \in Seq(engines') /\ Distinct(S_Engines')
      /\ ToSet(S_Engines') = engines'
  BY <1>1, RemoveFirstDistinct, RemoveFirstRange DEF Sound
<1>3. opened' \in Seq(States)
  BY <1>1, RemoveFirstType DEF Sound
<1>4. engineOf' \in [States -> Nat] /\ behind' \in Seq(Nat)
  <2>1. /\ behind' = <<Last(S_Engines)>> \o behind
        /\ e \in engines
    BY DEF Close, e
  <2>2. Last(S_Engines) \in Nat
    <3>1. CASE S_Engines = <<>>
      <4>1. DOMAIN S_Engines = {}
        BY <3>1, EmptySeq
      <4>2. QED
        BY <2>1, <4>1 DEF ToSet, Sound
    <3>2. CASE S_Engines # <<>>
      <4>1. Len(S_Engines) \in 1..Len(S_Engines) /\ Len(S_Engines) \in Nat
        BY <3>2, EmptySeq, LenProperties DEF Sound
      <4>2. S_Engines[Len(S_Engines)] \in engines
        BY <4>1, ElementOfSeq DEF Sound
      <4>3. engines \subseteq Nat
        BY DEF Sound
      <4>4. QED
        BY <4>2, <4>3 DEF Last
    <3>3. QED
      BY <3>1, <3>2
  <2>3. <<Last(S_Engines)>> \in Seq(Nat) /\ behind \in Seq(Nat)
    BY <2>2 DEF Sound
  <2>4. <<Last(S_Engines)>> \o behind \in Seq(Nat)
    BY <2>3, ConcatProperties
  <2>5. engineOf' \in [States -> Nat]
    BY <1>1 DEF Sound, NullEngine
  <2>6. QED
    BY <2>1, <2>4, <2>5
<1>5. QED
  BY <1>1, <1>2, <1>3, <1>4 DEF Sound

LEMMA SoundStep == Sound /\ [RegistryNext]_registry => Sound'
<1>1. ASSUME Sound, UNCHANGED registry PROVE Sound'
  BY <1>1 DEF Sound, registry, Distinct
<1>2. QED
  BY <1>1, SoundOpen, SoundClose DEF RegistryNext

-----------------------------------------------------------------------------
(* While states come and go in order, each finds its own engine.            *)

\* The states that are open are the first of S_States, in step with S_Engines.
InStep ==
    /\ Len(S_Engines) = Len(opened) /\ Len(opened) <= Len(S_States)
    /\ \A i \in 1..Len(opened) :
          S_States[i] = opened[i] /\ engineOf[opened[i]] = S_Engines[i]
    /\ Distinct(opened)
    /\ \A s \in States :
          engineOf[s] # NullEngine => \E i \in 1..Len(opened) : opened[i] = s

Ordered == orderly => InStep

\* The lookup of an open state comes to its own index.
LEMMA FindOpened ==
  ASSUME Sound, InStep, NEW i \in 1..Len(opened)
  PROVE  Find(S_States, opened[i]) = i
<1>1. Len(opened) \in Nat /\ Len(S_States) \in Nat
  BY DEF Sound
<1>2. i \in 1..Len(S_States) /\ S_States[i] = opened[i]
  BY <1>1 DEF InStep
<1>3. ASSUME NEW j \in 1..(i - 1) PROVE S_States[j] # opened[i]
  <2>1. j \in 1..Len(opened) /\ j # i
    BY <1>1
  <2>2. QED
    BY <2>1 DEF InStep, Distinct
<1>4. FirstAt(S_States, opened[i], i)
  BY <1>2, <1>3 DEF FirstAt
<1>5. QED
  BY <1>4, FindFirst DEF Sound

LEMMA OrderedGives == Sound /\ Ordered => OwnEngine
<1> SUFFICES ASSUME Sound, Ordered, orderly, NEW s \in States,
                    engineOf[s] # NullEngine
             PROVE  GetEngineByState(s) = engineOf[s]
  BY DEF OwnEngine
<1>1. InStep
  BY DEF Ordered
<1>2. PICK i \in 1..Len(opened) : opened[i] = s
  BY <1>1 DEF InStep
<1>3. Find(S_States, s) = i
  BY <1>1, <1>2, FindOpened
<1>4. EngineAt(i) = S_Engines[i]
  <2>1. i \in 1..Len(S_Engines)
    BY <1>1 DEF InStep
  <2>2. QED
    BY <2>1, EngineFound
<1>5. QED
  BY <1>1, <1>2, <1>3, <1>4 DEF GetEngineByState, InStep

LEMMA OrderedInit == RegistryInit => Ordered
<1> SUFFICES ASSUME RegistryInit PROVE InStep
  BY DEF Ordered
<1>1. Len(<<>>) = 0 /\ 1..0 = {}
  BY EmptySeq
<1>2. QED
  BY <1>1 DEF RegistryInit, InStep, Distinct

\* The state that opens takes the index after the last that is open.
LEMMA OrderedOpen ==
  ASSUME Sound, Ordered, NEW s \in States, Open(s)
  PROVE  Ordered'
<1> SUFFICES ASSUME orderly' PROVE InStep'
  BY DEF Ordered
<1> DEFINE n == Len(opened)
<1>1. InStep /\ OpensInOrder(s) /\ engineOf[s] = NullEngine
  BY DEF Open, Ordered
<1>2. /\ n \in Nat /\ Len(S_States) = opens /\ Len(S_Engines) = n /\ opens \in Nat
      /\ n <= opens /\ opens' = opens + 1
  BY <1>1 DEF Sound, InStep, Open
<1>3. /\ Len(S_States') = opens + 1
      /\ \A i \in 1..opens : S_States'[i] = S_States[i]
      /\ S_States'[opens + 1] = s
  BY <1>2, AppendProperties DEF Sound, Open
<1>4. /\ Len(opened') = n + 1
      /\ \A i \in 1..n : opened'[i] = opened[i]
      /\ opened'[n + 1] = s
  BY AppendProperties DEF Sound, Open
<1>5. /\ Len(S_Engines') = n + 1
      /\ \A i \in 1..n : S_Engines'[i] = S_Engines[i]
      /\ S_Engines'[n + 1] = opens'
  <2>1. S_Engines \in Seq(Nat)
    <3>1. engines \subseteq Nat
      BY DEF Sound
    <3>2. QED
      BY <3>1, SeqMonotonic DEF Sound
  <2>2. QED
    BY <1>2, <2>1, AppendProperties DEF Open
<1>6. engineOf' = [engineOf EXCEPT ![s] = opens'] /\ engineOf \in [States -> Nat]
  BY DEF Open, Sound
<1> HIDE DEF n
<1>7. S_States'[n + 1] = s
  <2>1. CASE opens = n
    BY <1>3, <2>1
  <2>2. CASE opens # n
    <3>1. n < opens /\ S_States[n + 1] = s
      BY <1>1, <1>2, <2>2 DEF OpensInOrder, n
    <3>2. QED
      BY <1>2, <1>3, <3>1
  <2>3. QED
    BY <2>1, <2>2
<1>8. ASSUME NEW i \in 1..n PROVE opened[i] \in States /\ opened[i] # s
  <2>1. opened[i] \in States
    BY <1>8, ElementOfSeq DEF Sound, n
  <2>2. engineOf[opened[i]] \in engines
    <3>1. S_Engines[i] \in engines
      BY <1>2, <1>8, ElementOfSeq DEF Sound
    <3>2. QED
      BY <1>1, <1>8, <3>1 DEF InStep, n
  <2>3. engineOf[opened[i]] # NullEngine
    BY <2>2 DEF Sound, NullEngine
  <2>4. QED
    BY <1>1, <2>1, <2>3
<1>9. ASSUME NEW i \in 1..(n + 1)
      PROVE  S_States'[i] = opened'[i] /\ engineOf'[opened'[i]] = S_Engines'[i]
  <2>1. CASE i = n + 1
    BY <1>4, <1>5, <1>6, <1>7, <2>1
  <2>2. CASE i # n + 1
    <3>1. i \in 1..n /\ i \in 1..opens
      BY <1>2, <2>2
    <3>2. S_States'[i] = opened'[i]
      BY <1>1, <1>3, <1>4, <3>1 DEF InStep, n
    <3>3. engineOf'[opened'[i]] = engineOf[opened[i]]
      BY <1>4, <1>6, <1>8, <3>1
    <3>4. QED
      BY <1>1, <1>5, <3>1, <3>2, <3>3 DEF InStep, n
  <2>3. QED
    BY <2>1, <2>2
<1>10. Distinct(opened')
  <2>1. \A i, j \in 1..n : opened[i] = opened[j] => i = j
    BY <1>1 DEF InStep, Distinct, n
  <2>2. QED
    BY <1>2, <1>4, <1>8, <2>1 DEF Distinct
<1>11. ASSUME NEW r \in States, engineOf'[r] # NullEngine
       PROVE  \E i \in 1..(n + 1) : opened'[i] = r
  <2>1. CASE r = s
    BY <1>2, <1>4, <2>1
  <2>2. CASE r # s
    <3>1. PICK i \in 1..n : opened[i] = r
      BY <1>1, <1>6, <1>11, <2>2 DEF InStep, n
    <3>2. QED
      BY <1>2, <1>4, <3>1
  <2>3. QED
    BY <2>1, <2>2
<1>12. QED
  BY <1>2, <1>3, <1>4, <1>5, <1>9, <1>10, <1>11 DEF InStep

\* The last state that opened closes, and takes its engine with it.
LEMMA OrderedClose ==
  ASSUME Sound, Ordered, NEW s \in States, Close(s)
  PROVE  Ordered'
<1> SUFFICES ASSUME orderly' PROVE InStep'
  BY DEF Ordered
<1> DEFINE n == Len(opened)
<1>1. InStep /\ Last(opened) = s /\ engineOf[s] # NullEngine
  BY DEF Close, Ordered
<1>2. PICK k \in 1..n : opened[k] = s
  BY <1>1 DEF InStep
<1>3. n \in Nat /\ n > 0 /\ opened[n] = s /\ Len(S_Engines) = n
  BY <1>1, <1>2 DEF Sound, InStep, Last
<1>4. GetEngineByState(s) = S_Engines[n]
  <2>1. Find(S_States, s) = n
    BY <1>1, <1>3, FindOpened
  <2>2. EngineAt(n) = S_Engines[n]
    <3>1. n \in 1..Len(S_Engines)
      BY <1>3
    <3>2. QED
      BY <3>1, EngineFound
  <2>3. QED
    BY <2>1, <2>2 DEF GetEngineByState
<1>5. /\ Len(opened') = n - 1 /\ \A i \in 1..(n - 1) : opened'[i] = opened[i]
  <2>1. opened' = RemoveFirst(opened, opened[n])
    BY <1>3 DEF Close
  <2>2. Distinct(opened) /\ opened \in Seq(States)
    BY <1>1 DEF InStep, Sound
  <2>3. QED
    BY <1>3, <2>1, <2>2, RemoveLast
<1>6. /\ Len(S_Engines') = n - 1
      /\ \A i \in 1..(n - 1) : S_Engines'[i] = S_Engines[i]
  <2>1. S_Engines' = RemoveFirst(S_Engines, S_Engines[n])
    BY <1>4 DEF Close
  <2>2. Distinct(S_Engines) /\ S_Engines \in Seq(engines)
    BY DEF Sound
  <2>3. QED
    BY <1>3, <2>1, <2>2, RemoveLast
<1>7. /\ engineOf' = [engineOf EXCEPT ![s] = NullEngine]
      /\ engineOf \in [States -> Nat] /\ S_States' = S_States
  BY DEF Close, Sound
<1> HIDE DEF n
<1>8. \A i, j \in 1..n : opened[i] = opened[j] => i = j
  BY <1>1 DEF InStep, Distinct, n
<1>9. ASSUME NEW i \in 1..(n - 1)
      PROVE  S_States'[i] = opened'[i] /\ engineOf'[opened'[i]] = S_Engines'[i]
  <2>1. i \in 1..n /\ n \in 1..n /\ i # n
    BY <1>3
  <2>2. opened[i] # s /\ opened[i] \in States
    <3>1. opened[i] # s
      BY <1>3, <1>8, <2>1
    <3>2. opened[i] \in States
      BY <2>1, ElementOfSeq DEF Sound, n
    <3>3. QED
      BY <3>1, <3>2
  <2>3. S_States[i] = opened[i] /\ engineOf[opened[i]] = S_Engines[i]
    BY <1>1, <2>1 DEF InStep, n
  <2>4. QED
    BY <1>5, <1>6, <1>7, <2>2, <2>3
<1>10. Distinct(opened')
  BY <1>3, <1>5, <1>8 DEF Distinct
<1>11. ASSUME NEW r \in States, engineOf'[r] # NullEngine
       PROVE  \E i \in 1..(n - 1) : opened'[i] = r
  <2>1. r # s /\ engineOf[r] # NullEngine
    BY <1>7, <1>11
  <2>2. PICK i \in 1..n : opened[i] = r
    BY <1>1, <2>1 DEF InStep, n
  <2>3. i \in 1..(n - 1)
    BY <1>3, <2>1, <2>2
  <2>4. QED
    BY <1>5, <2>2, <2>3
<1>12. n - 1 <= Len(S_States')
  <2>1. n <= Len(S_States) /\ Len(S_States) \in Nat
    BY <1>1 DEF InStep, Sound, n
  <2>2. QED
    BY <1>3, <1>7, <2>1
<1>13. QED
  BY <1>5, <1>6, <1>9, <1>10, <1>11, <1>12 DEF InStep

LEMMA OrderedStep == Sound /\ Ordered /\ [RegistryNext]_registry => Ordered'
<1>1. ASSUME Ordered, UNCHANGED registry PROVE Ordered'
  BY <1>1 DEF Ordered, InStep, registry, Distinct
<1>2. QED
  BY <1>1, OrderedOpen, OrderedClose DEF RegistryNext

\* OwnEngine: as long as states open and close in order, each finds the engine
\* that was made for it, however often they do.
THEOREM OwnEngineFound == RegistrySpec => []OwnEngine
<1>1. RegistryInit => Sound /\ Ordered
  BY SoundInit, OrderedInit
<1>2. Sound /\ Ordered /\ [RegistryNext]_registry => Sound' /\ Ordered'
  BY SoundStep, OrderedStep
<1>3. RegistrySpec => [](Sound /\ Ordered)
  BY <1>1, <1>2, PTL DEF RegistrySpec
<1>4. QED
  BY <1>3, OrderedGives, PTL
=============================================================================
