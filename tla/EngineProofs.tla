---------------------------- MODULE EngineProofs ----------------------------
(***************************************************************************)
(* Proofs about Engine, for any wrappers, any sizes of a crew and any bounds: *)
(* the stack of the Lua thread, what Engine::Sockets holds while the walks    *)
(* over it run callbacks that add sockets to it and collections that erase    *)
(* others, and the destructors those start are one invariant, from which      *)
(* TypeOK, HeldAlive, DestructorAlone and ListOK follow.  WalkComplete and    *)
(* NoLeak have an invariant of their own on top of it.                        *)
(***************************************************************************)
EXTENDS Engine, SharedLemmas, FiniteSetTheorems, TLAPS

-----------------------------------------------------------------------------
(* The stack of the Lua thread.                                             *)

\* A frame has the wrappers that its operation needs.
FrameTyped(f) ==
    /\ f.op \in {"push", "both", "client", "list", "reset", "close", "throw"}
                \union Destructor => f.w \in Wrappers
    /\ f.op \in {"both", "client"} => f.o \in Wrappers

LEMMA FrameIs ==
  ASSUME NEW op \in Ops, NEW w \in Wrappers \union {None}
  PROVE  /\ F(op, w) \in Frame /\ F(op, w).op = op /\ F(op, w).w = w
         /\ F(op, w).o = None /\ F(op, w).i = 0 /\ F(op, w).done = {}
  BY DEF F, Frame

LEMMA TopIs ==
  ASSUME stack \in Seq(Frame), Top.op # "game"
  PROVE  /\ stack # <<>> /\ Len(stack) \in Nat /\ Len(stack) >= 1
         /\ 1 \in DOMAIN stack /\ Top = stack[1] /\ Top \in Frame
<1>1. stack # <<>>
  BY DEF Top, F
<1>2. Len(stack) \in Nat /\ DOMAIN stack = 1..Len(stack) /\ Len(stack) >= 1
  BY <1>1, LenProperties, EmptySeq
<1>3. Head(stack) = stack[1] /\ Head(stack) \in Frame
  BY <1>1
<1>4. QED
  BY <1>1, <1>2, <1>3 DEF Top

\* Every frame of the stack after Become is one of fs or was below the top one.
LEMMA BecomeFrames ==
  ASSUME stack \in Seq(Frame), stack # <<>>, NEW fs \in Seq(Frame), Become(fs)
  PROVE  /\ stack' \in Seq(Frame) /\ Len(fs) \in Nat
         /\ Len(stack') = Len(fs) + Len(stack) - 1
         /\ \A k \in 1..Len(fs) : stack'[k] = fs[k]
         /\ \A k \in 2..Len(stack) : stack'[Len(fs) + k - 1] = stack[k]
         /\ \A k \in DOMAIN stack' :
               \/ k \in 1..Len(fs)
               \/ k > Len(fs) /\ k - Len(fs) + 1 \in 2..Len(stack)
                  /\ stack'[k] = stack[k - Len(fs) + 1]
<1>1. /\ Tail(stack) \in Seq(Frame) /\ Len(Tail(stack)) = Len(stack) - 1
      /\ \A k \in 1..(Len(stack) - 1) : Tail(stack)[k] = stack[k + 1]
      /\ Len(stack) \in Nat /\ Len(stack) >= 1 /\ Len(fs) \in Nat
  BY LenProperties, EmptySeq, HeadTailProperties
<1>2. /\ fs \o Tail(stack) \in Seq(Frame)
      /\ Len(fs \o Tail(stack)) = Len(fs) + Len(Tail(stack))
      /\ \A k \in 1..(Len(fs) + Len(Tail(stack))) :
            (fs \o Tail(stack))[k] =
               IF k <= Len(fs) THEN fs[k] ELSE Tail(stack)[k - Len(fs)]
  BY <1>1, ConcatProperties
<1>3. stack' = fs \o Tail(stack)
  BY DEF Become
<1>4. /\ stack' \in Seq(Frame) /\ Len(stack') = Len(fs) + Len(stack) - 1
      /\ DOMAIN stack' = 1..(Len(fs) + Len(stack) - 1)
  BY <1>1, <1>2, <1>3, LenProperties
<1>5. \A k \in 1..(Len(fs) + Len(stack) - 1) :
         stack'[k] = IF k <= Len(fs) THEN fs[k] ELSE Tail(stack)[k - Len(fs)]
  BY <1>1, <1>2, <1>3
<1>6. ASSUME NEW k \in 2..Len(stack) PROVE stack'[Len(fs) + k - 1] = stack[k]
  <2>1. /\ Len(fs) + k - 1 \in 1..(Len(fs) + Len(stack) - 1)
        /\ ~(Len(fs) + k - 1 <= Len(fs)) /\ (Len(fs) + k - 1) - Len(fs) = k - 1
        /\ k - 1 \in 1..(Len(stack) - 1) /\ (k - 1) + 1 = k
    BY <1>1
  <2>2. QED
    BY <1>1, <1>5, <2>1
<1>7. ASSUME NEW k \in 1..(Len(fs) + Len(stack) - 1), k > Len(fs)
      PROVE  k - Len(fs) + 1 \in 2..Len(stack) /\ stack'[k] = stack[k - Len(fs) + 1]
  <2>1. k - Len(fs) + 1 \in 2..Len(stack)
    BY <1>1, <1>7
  <2>2. Len(fs) + (k - Len(fs) + 1) - 1 = k
    BY <1>1
  <2>3. QED
    BY <1>6, <2>1, <2>2
<1>8. \A k \in 1..Len(fs) : stack'[k] = fs[k]
  <2>1. \A k \in 1..Len(fs) : k \in 1..(Len(fs) + Len(stack) - 1) /\ k <= Len(fs)
    BY <1>1
  <2>2. QED
    BY <1>5, <2>1
<1>9. \A k \in DOMAIN stack' :
         \/ k \in 1..Len(fs)
         \/ k > Len(fs) /\ k - Len(fs) + 1 \in 2..Len(stack)
            /\ stack'[k] = stack[k - Len(fs) + 1]
  <2>1. \A k \in 1..(Len(fs) + Len(stack) - 1) : k \in 1..Len(fs) \/ k > Len(fs)
    BY <1>1
  <2>2. QED
    BY <1>4, <1>7, <2>1
<1>10. QED
  BY <1>1, <1>4, <1>6, <1>8, <1>9

\* After Run, one of fs or a frame that was there.
LEMMA RunFrames ==
  ASSUME stack \in Seq(Frame), NEW fs \in Seq(Frame), Run(fs)
  PROVE  /\ stack' \in Seq(Frame) /\ Len(fs) \in Nat
         /\ Len(stack') = Len(fs) + Len(stack)
         /\ \A k \in 1..Len(fs) : stack'[k] = fs[k]
         /\ \A k \in 1..Len(stack) : stack'[Len(fs) + k] = stack[k]
         /\ \A k \in DOMAIN stack' :
               \/ k \in 1..Len(fs)
               \/ k > Len(fs) /\ k - Len(fs) \in 1..Len(stack)
                  /\ stack'[k] = stack[k - Len(fs)]
<1>1. Len(stack) \in Nat /\ Len(fs) \in Nat
  BY LenProperties
<1>2. /\ fs \o stack \in Seq(Frame)
      /\ Len(fs \o stack) = Len(fs) + Len(stack)
      /\ \A k \in 1..(Len(fs) + Len(stack)) :
            (fs \o stack)[k] = IF k <= Len(fs) THEN fs[k] ELSE stack[k - Len(fs)]
  BY ConcatProperties
<1>3. stack' = fs \o stack
  BY DEF Run
<1>4. DOMAIN stack' = 1..(Len(fs) + Len(stack))
  BY <1>2, <1>3, LenProperties
<1>5. ASSUME NEW k \in 1..Len(stack) PROVE stack'[Len(fs) + k] = stack[k]
  <2>1. /\ Len(fs) + k \in 1..(Len(fs) + Len(stack))
        /\ ~(Len(fs) + k <= Len(fs)) /\ (Len(fs) + k) - Len(fs) = k
    BY <1>1
  <2>2. QED
    BY <1>2, <1>3, <2>1
<1>6. ASSUME NEW k \in 1..(Len(fs) + Len(stack)), k > Len(fs)
      PROVE  k - Len(fs) \in 1..Len(stack) /\ stack'[k] = stack[k - Len(fs)]
  <2>1. k - Len(fs) \in 1..Len(stack) /\ ~(k <= Len(fs))
    BY <1>1, <1>6
  <2>2. QED
    BY <1>2, <1>3, <2>1
<1>7. QED
  BY <1>1, <1>2, <1>3, <1>4, <1>5, <1>6

Same(f, g) == f.op = g.op /\ f.w = g.w /\ f.o = g.o

\* After Delete, the destructor on top of what was there; walks are told.
LEMMA DeleteFrames ==
  ASSUME stack \in Seq(Frame), NEW w \in Wrappers, Delete(w)
  PROVE  /\ stack' \in Seq(Frame) /\ Len(stack') = Len(stack) + 1
         /\ stack'[1] = F("destroy", w)
         /\ \A k \in 1..Len(stack) :
               /\ Same(stack'[k + 1], stack[k])
               /\ stack[k].op \notin Walks => stack'[k + 1] = stack[k]
         /\ \A k \in DOMAIN stack' : k = 1 \/ k - 1 \in 1..Len(stack)
<1>1. /\ Len(stack) \in Nat /\ DOMAIN stack = 1..Len(stack)
      /\ \A k \in 1..Len(stack) : stack[k] \in Frame
  BY LenProperties, ElementOfSeq
<1>2. PICK n : stack' = <<F("destroy", w)>> \o Shift(w, n)
  BY DEF Delete
<1>3. \A k \in 1..Len(stack) :
         /\ Shift(w, n)[k] \in Frame /\ Same(Shift(w, n)[k], stack[k])
         /\ stack[k].op \notin Walks => Shift(w, n)[k] = stack[k]
  <2>1. ASSUME NEW f \in Frame, NEW b \in BOOLEAN
        PROVE  /\ [f EXCEPT !.shifted = b, !.done = @ \ {w}] \in Frame
               /\ Same([f EXCEPT !.shifted = b, !.done = @ \ {w}], f)
    BY DEF Frame, Same
  <2>2. ASSUME NEW k \in 1..Len(stack)
        PROVE  /\ Shift(w, n)[k] \in Frame /\ Same(Shift(w, n)[k], stack[k])
               /\ stack[k].op \notin Walks => Shift(w, n)[k] = stack[k]
    <3>1. stack[k].op \in Walks =>
             Shift(w, n)[k] = [stack[k] EXCEPT !.shifted = @ \/ n \in 1..stack[k].i,
                                               !.done = @ \ {w}]
      BY <1>1 DEF Shift
    <3>2. stack[k].op \notin Walks => Shift(w, n)[k] = stack[k]
      BY <1>1 DEF Shift
    <3>3. stack[k].op \in Walks =>
             Shift(w, n)[k] \in Frame /\ Same(Shift(w, n)[k], stack[k])
      BY <1>1, <2>1, <3>1
    <3>4. QED
      BY <1>1, <3>2, <3>3 DEF Same
  <2>3. QED
    BY <2>2
<1>4. Shift(w, n) \in Seq(Frame) /\ Len(Shift(w, n)) = Len(stack)
  <2>1. DOMAIN Shift(w, n) = 1..Len(stack)
    BY <1>1 DEF Shift
  <2>2. Shift(w, n) \in [1..Len(stack) -> Frame]
    BY <1>1, <1>3, <2>1 DEF Shift
  <2>3. QED
    BY <1>1, <2>2
<1>5. F("destroy", w) \in Frame
  BY FrameIs DEF Ops, Destructor
<1> DEFINE top == <<F("destroy", w)>>
<1>6. top \in Seq(Frame) /\ Len(top) = 1 /\ top[1] = F("destroy", w)
  BY <1>5
<1> HIDE DEF top
<1>7. /\ top \o Shift(w, n) \in Seq(Frame)
      /\ Len(top \o Shift(w, n)) = 1 + Len(stack)
      /\ \A k \in 1..(1 + Len(stack)) :
            (top \o Shift(w, n))[k] = IF k <= 1 THEN top[k] ELSE Shift(w, n)[k - 1]
  <2>1. /\ top \o Shift(w, n) \in Seq(Frame)
        /\ Len(top \o Shift(w, n)) = Len(top) + Len(Shift(w, n))
        /\ \A k \in 1..(Len(top) + Len(Shift(w, n))) :
              (top \o Shift(w, n))[k] =
                 IF k <= Len(top) THEN top[k] ELSE Shift(w, n)[k - Len(top)]
    BY <1>4, <1>6, ConcatProperties
  <2>2. QED
    BY <1>4, <1>6, <2>1
<1>8. stack' = top \o Shift(w, n)
  BY <1>2 DEF top
<1>9. DOMAIN stack' = 1..(1 + Len(stack)) /\ stack'[1] = F("destroy", w)
  BY <1>1, <1>6, <1>7, <1>8, LenProperties
<1>10. \A k \in 1..Len(stack) : stack'[k + 1] = Shift(w, n)[k]
  BY <1>1, <1>7, <1>8
<1>11. \A k \in 1..Len(stack) :
          /\ Same(stack'[k + 1], stack[k])
          /\ stack[k].op \notin Walks => stack'[k + 1] = stack[k]
  BY <1>3, <1>10
<1>12. \A k \in DOMAIN stack' : k = 1 \/ k - 1 \in 1..Len(stack)
  BY <1>1, <1>9
<1>13. stack' \in Seq(Frame) /\ Len(stack') = Len(stack) + 1
  BY <1>1, <1>7, <1>8
<1>14. QED
  BY <1>9, <1>11, <1>12, <1>13

\* After an error, the frames below one of them.
LEMMA UnwindFrames ==
  ASSUME stack \in Seq(Frame), Unwind
  PROVE  \E n \in 1..Len(stack) :
            /\ n < Len(stack) => stack[n + 1].op = "lua"
            /\ stack' \in Seq(Frame) /\ Len(stack') = Len(stack) - n
            /\ DOMAIN stack' = 1..(Len(stack) - n)
            /\ \A k \in 1..(Len(stack) - n) : stack'[k] = stack[k + n]
            /\ stranded' = stranded \union Cut(n)
            /\ leaked' = leaked \union Cut(n) \union (UNION {Waiting(w) : w \in Cut(n)})
                                \union UNION {Making(stack[j]) : j \in 1..n}
<1>1. Len(stack) \in Nat /\ \A k \in 1..Len(stack) : stack[k] \in Frame
  BY LenProperties, ElementOfSeq
<1>2. PICK n \in 1..Len(stack) :
          /\ n < Len(stack) => stack[n + 1].op = "lua"
          /\ stack' = SubSeq(stack, n + 1, Len(stack))
          /\ stranded' = stranded \union Cut(n)
          /\ leaked' = leaked \union Cut(n) \union (UNION {Waiting(w) : w \in Cut(n)})
                              \union UNION {Making(stack[j]) : j \in 1..n}
  BY DEF Unwind
<1>3. /\ SubSeq(stack, n + 1, Len(stack)) \in Seq(Frame)
      /\ Len(SubSeq(stack, n + 1, Len(stack))) = Len(stack) - n
      /\ \A k \in 1..(Len(stack) - n) :
            SubSeq(stack, n + 1, Len(stack))[k] = stack[k + n]
  <2>1. \A k \in (n + 1)..Len(stack) : stack[k] \in Frame
    BY <1>1
  <2>2. /\ n + 1 \in Nat /\ n + 1 \in 1..(Len(stack) + 1)
        /\ Len(stack) - (n + 1) + 1 = Len(stack) - n
        /\ \A k \in 1..(Len(stack) - n) : (n + 1) + k - 1 = k + n
    BY <1>1
  <2>3. /\ SubSeq(stack, n + 1, Len(stack)) \in Seq(Frame)
        /\ Len(SubSeq(stack, n + 1, Len(stack))) =
              IF n + 1 <= Len(stack) THEN Len(stack) - (n + 1) + 1 ELSE 0
        /\ \A k \in 1..(Len(stack) - (n + 1) + 1) :
              SubSeq(stack, n + 1, Len(stack))[k] = stack[(n + 1) + k - 1]
    BY <1>1, <2>1, <2>2, SubSeqProperties
  <2>4. Len(SubSeq(stack, n + 1, Len(stack))) = Len(stack) - n
    BY <1>1, <2>3
  <2>5. QED
    BY <1>1, <2>2, <2>3, <2>4
<1>4. DOMAIN stack' = 1..(Len(stack) - n)
  BY <1>2, <1>3, LenProperties
<1>5. QED
  BY <1>2, <1>3, <1>4

-----------------------------------------------------------------------------
(* The invariant of HeldAlive.                                              *)

\* The frame has the wrappers it needs, and those that it holds are alive; a
\* wrapper in its destructor is not.  Of the state it depends on the lives and on
\* the wrappers that errors have left in their destructors only.
FrameIn(f, lf, sd) ==
    /\ FrameTyped(f)
    /\ f.op = "list" => lf[f.w] = "live"
    /\ f.op = "close" => lf[f.w] = "live" \/ f.w \in sd
    /\ f.op = "client" => lf[f.o] = "live" \/ f.o \in sd
    /\ f.op \in Destructor => lf[f.w] \in {"dying", "deleted"}

FramesIn(s, lf, sd) ==
    s \in Seq(Frame) /\ \A k \in 1..Len(s) : FrameIn(s[k], lf, sd)

StackOK == FramesIn(stack, life, stranded)

DataOK ==
    /\ life \in [Wrappers -> {"none", "live", "dying", "deleted"}]
    /\ Sockets \in Seq(Wrappers)
    /\ RefCount \in [Wrappers -> Nat] /\ userdata \in [Wrappers -> Nat]
    /\ DidDisconnectCallback \subseteq Wrappers
    /\ Todo \in [Wrappers -> Seq(Requests)]
    /\ Callbacks \in [Wrappers -> Seq(SockEvent)]
    /\ CurrentWorkers \in [Wrappers -> Nat] /\ started \in [Wrappers -> Nat]
    /\ requests \in Nat
    /\ leaked \subseteq Wrappers /\ locked \subseteq Wrappers
    /\ stranded \subseteq Wrappers /\ late \subseteq Wrappers

FlagsOK == tick \in BOOLEAN /\ shut \in BOOLEAN /\ lost \in BOOLEAN

\* The result of an Accept that succeeded has the wrapper of the client.
ClientsOK ==
    \A w \in Wrappers : \A k \in 1..Len(Callbacks[w]) :
       Callbacks[w][k].type = "accepted" => Callbacks[w][k].sock \in Wrappers

\* A wrapper that lives, or one that an error has left in its destructor.
Kept(w) == Live(w) \/ w \in stranded

\* RefCount is the number of userdata, and those are of such wrappers.
CountOK ==
    \A w \in Wrappers :
       /\ RefCount[w] = userdata[w]
       /\ userdata[w] > 0 => Kept(w)
       /\ w \in stranded => life[w] \in {"dying", "deleted"}

Held == DataOK /\ FlagsOK /\ StackOK /\ ClientsOK /\ CountOK

\* What PushToStack needs beside it: that the wrapper it is to count is not one
\* whose destructor runs.
PushOK ==
    Top.op \in {"push", "both", "client"} /\ life[Top.w] # "deleted" => Kept(Top.w)

\* No wrapper dies.
Grows ==
    /\ \A w \in Wrappers :
          life'[w] = life[w] \/ (life[w] = "none" /\ life'[w] \in {"live", "dying"})
    /\ stranded \subseteq stranded'

\* Sequences of frames that are in order.
LEMMA FramesPut ==
  ASSUME NEW s, NEW t, NEW lf, NEW sd, FramesIn(s, lf, sd), FramesIn(t, lf, sd)
  PROVE  FramesIn(s \o t, lf, sd)
<1>1. s \in Seq(Frame) /\ t \in Seq(Frame) /\ Len(s) \in Nat /\ Len(t) \in Nat
  BY LenProperties DEF FramesIn
<1>2. /\ s \o t \in Seq(Frame) /\ Len(s \o t) = Len(s) + Len(t)
      /\ \A k \in 1..(Len(s) + Len(t)) :
            (s \o t)[k] = IF k <= Len(s) THEN s[k] ELSE t[k - Len(s)]
  BY <1>1, ConcatProperties
<1>3. ASSUME NEW k \in 1..Len(s \o t) PROVE FrameIn((s \o t)[k], lf, sd)
  <2>1. CASE k <= Len(s)
    <3>1. k \in 1..Len(s) /\ (s \o t)[k] = s[k]
      BY <1>1, <1>2, <2>1
    <3>2. QED
      BY <3>1 DEF FramesIn
  <2>2. CASE ~(k <= Len(s))
    <3>1. k - Len(s) \in 1..Len(t) /\ (s \o t)[k] = t[k - Len(s)]
      BY <1>1, <1>2, <2>2
    <3>2. QED
      BY <3>1 DEF FramesIn
  <2>3. QED
    BY <2>1, <2>2
<1>4. QED
  BY <1>2, <1>3 DEF FramesIn

LEMMA FramesTail ==
  ASSUME NEW s, NEW lf, NEW sd, FramesIn(s, lf, sd), s # <<>>
  PROVE  FramesIn(Tail(s), lf, sd)
<1>1. /\ s \in Seq(Frame) /\ Tail(s) \in Seq(Frame) /\ Len(s) \in Nat
      /\ Len(Tail(s)) = Len(s) - 1
      /\ \A k \in 1..(Len(s) - 1) : Tail(s)[k] = s[k + 1]
  BY LenProperties, EmptySeq, HeadTailProperties DEF FramesIn
<1>2. ASSUME NEW k \in 1..Len(Tail(s)) PROVE FrameIn(Tail(s)[k], lf, sd)
  <2>1. k + 1 \in 1..Len(s) /\ Tail(s)[k] = s[k + 1]
    BY <1>1
  <2>2. QED
    BY <2>1 DEF FramesIn
<1>3. QED
  BY <1>1, <1>2 DEF FramesIn

LEMMA FramesOne ==
  ASSUME NEW lf, NEW sd, NEW f \in Frame, FrameIn(f, lf, sd)
  PROVE  FramesIn(<<f>>, lf, sd)
<1>1. <<f>> \in Seq(Frame) /\ Len(<<f>>) = 1 /\ <<f>>[1] = f
  OBVIOUS
<1>2. \A k \in 1..1 : k = 1
  OBVIOUS
<1> DEFINE s == <<f>>
<1> HIDE DEF s
<1>3. FramesIn(s, lf, sd)
  BY <1>1, <1>2 DEF FramesIn, s
<1>4. QED
  BY <1>3 DEF s

LEMMA FramesNone ==
  ASSUME NEW lf, NEW sd
  PROVE  FramesIn(<<>>, lf, sd)
<1>1. <<>> \in Seq(Frame) /\ Len(<<>>) = 0
  OBVIOUS
<1>2. QED
  BY <1>1 DEF FramesIn

LEMMA FramesTwo ==
  ASSUME NEW lf, NEW sd, NEW f \in Frame, FrameIn(f, lf, sd),
         NEW g \in Frame, FrameIn(g, lf, sd)
  PROVE  FramesIn(<<f, g>>, lf, sd)
<1>1. /\ <<f, g>> \in Seq(Frame) /\ Len(<<f, g>>) = 2
      /\ <<f, g>>[1] = f /\ <<f, g>>[2] = g
  OBVIOUS
<1>2. \A k \in 1..2 : k = 1 \/ k = 2
  OBVIOUS
<1> DEFINE s == <<f, g>>
<1> HIDE DEF s
<1>3. FramesIn(s, lf, sd)
  BY <1>1, <1>2 DEF FramesIn, s
<1>4. QED
  BY <1>3 DEF s

LEMMA FramesKept ==
  ASSUME Grows, NEW s, FramesIn(s, life, stranded)
  PROVE  FramesIn(s, life', stranded')
<1>1. ASSUME NEW k \in 1..Len(s), FrameIn(s[k], life, stranded)
      PROVE  FrameIn(s[k], life', stranded')
  BY <1>1 DEF Grows, FrameIn, FrameTyped
<1>2. QED
  BY <1>1 DEF FramesIn

LEMMA BecomeOK ==
  ASSUME StackOK, Grows, stack # <<>>, NEW fs, Become(fs),
         FramesIn(fs, life', stranded')
  PROVE  StackOK'
<1>1. FramesIn(Tail(stack), life', stranded')
  BY FramesTail, FramesKept DEF StackOK
<1>2. FramesIn(fs \o Tail(stack), life', stranded')
  BY <1>1, FramesPut
<1>3. QED
  BY <1>2 DEF StackOK, Become

LEMMA RunOK ==
  ASSUME StackOK, Grows, NEW fs, Run(fs), FramesIn(fs, life', stranded')
  PROVE  StackOK'
<1>1. FramesIn(stack, life', stranded')
  BY FramesKept DEF StackOK
<1>2. FramesIn(fs \o stack, life', stranded')
  BY <1>1, FramesPut
<1>3. QED
  BY <1>2 DEF StackOK, Run

LEMMA SameOK ==
  ASSUME StackOK, Grows, stack' = stack
  PROVE  StackOK'
  BY FramesKept DEF StackOK

LEMMA LuaIn ==
  ASSUME NEW lf, NEW sd
  PROVE  Lua \in Frame /\ Lua.op = "lua" /\ FrameIn(Lua, lf, sd)
<1>1. Lua \in Frame /\ Lua.op = "lua"
  BY FrameIs DEF Lua, Ops
<1>2. QED
  BY <1>1 DEF FrameIn, FrameTyped, Destructor

\* A frame that holds nothing is in order, whatever lives.
LEMMA FreeFrameIn ==
  ASSUME NEW lf, NEW sd, NEW w \in Wrappers,
         NEW op \in {"push", "reset", "throw"}
  PROVE  F(op, w) \in Frame /\ FrameIn(F(op, w), lf, sd)
<1>1. F(op, w) \in Frame /\ F(op, w).op = op /\ F(op, w).w = w
  BY FrameIs DEF Ops
<1>2. QED
  BY <1>1 DEF FrameIn, FrameTyped, Destructor

\* CallDisconnect pushes the wrapper and calls a script.
LEMMA DisconnectIn ==
  ASSUME NEW lf, NEW sd, NEW w \in Wrappers
  PROVE  FramesIn(Disconnect(w), lf, sd)
<1>1. FramesIn(<<F("push", w), Lua>>, lf, sd)
  BY FreeFrameIn, LuaIn, FramesTwo
<1>2. QED
  BY <1>1, FramesNone DEF Disconnect

LEMMA GrowsSame ==
  ASSUME life' = life, stranded' = stranded
  PROVE  Grows
  BY DEF Grows

LEMMA GrowsAllocate ==
  ASSUME DataOK, NEW c \in Wrappers, Allocate(c), stranded' = stranded
  PROVE  Grows
  BY DEF Grows, DataOK, Allocate


\* The frame on top, where one is needed.
LEMMA TopIn ==
  ASSUME StackOK, Top.op # "game"
  PROVE  /\ stack # <<>> /\ Top \in Frame /\ FrameIn(Top, life, stranded)
<1>1. /\ stack # <<>> /\ Len(stack) \in Nat /\ Len(stack) >= 1 /\ Top = stack[1]
      /\ Top \in Frame
  BY TopIs DEF StackOK, FramesIn
<1>2. 1 \in 1..Len(stack)
  BY <1>1
<1>3. QED
  BY <1>1, <1>2 DEF StackOK, FramesIn

-----------------------------------------------------------------------------
(* Every action keeps it.                                                   *)

LEMMA PushToStackHeld ==
  ASSUME Held, PushOK, PushToStack
  PROVE  Held'
<1> USE DEF Held
<1>1. /\ stack # <<>> /\ Top \in Frame /\ FrameIn(Top, life, stranded)
      /\ Top.op \in {"push", "both", "client"}
  <2>1. Top.op \in {"push", "both", "client"}
    BY DEF PushToStack, At
  <2>2. QED
    BY <2>1, TopIn
<1>2. Top.w \in Wrappers /\ Kept(Top.w)
  BY <1>1 DEF FrameIn, FrameTyped, PushToStack, PushOK
<1>3. life' = life /\ stranded' = stranded /\ Grows
  BY GrowsSame DEF PushToStack, past
<1>4. StackOK'
  <2>1. CASE Become(<<>>)
    BY <1>1, <1>3, <2>1, FramesNone, BecomeOK
  <2>2. CASE At("both") /\ Become(<<[F("client", Top.o) EXCEPT !.o = Top.w]>>)
    <3> DEFINE f == [F("client", Top.o) EXCEPT !.o = Top.w]
    <3>1. Top.o \in Wrappers
      BY <1>1, <2>2 DEF FrameIn, FrameTyped, At
    <3>2. f \in Frame /\ f.op = "client" /\ f.w = Top.o /\ f.o = Top.w
      <4>1. F("client", Top.o) \in Frame
        BY <3>1, FrameIs DEF Ops
      <4>2. QED
        BY <1>2, <4>1 DEF Frame, F
    <3> HIDE DEF f
    <3>3. FrameIn(f, life', stranded')
      BY <1>1, <1>2, <1>3, <2>2, <3>1, <3>2
         DEF FrameIn, FrameTyped, Live, Kept, Destructor, At
    <3>4. FramesIn(<<f>>, life', stranded')
      BY <3>2, <3>3, FramesOne
    <3>5. QED
      BY <1>1, <1>3, <2>2, <3>4, BecomeOK DEF f
  <2>3. QED
    BY <2>1, <2>2 DEF PushToStack
<1>5. /\ userdata' = [userdata EXCEPT ![Top.w] = @ + 1]
      /\ RefCount' = [RefCount EXCEPT ![Top.w] = @ + 1]
  BY DEF PushToStack, Push
<1>6. /\ UNCHANGED <<life, locked, Sockets, CurrentWorkers, started, Todo>>
      /\ UNCHANGED <<Callbacks, requests, DidDisconnectCallback, tick, shut>>
      /\ UNCHANGED <<leaked, stranded, late, lost>>
  BY DEF PushToStack, pool, queue, flags, game, past
<1>7. /\ DataOK' /\ FlagsOK'
      /\ ClientsOK'
  <2>1. DataOK'
    <3>1. /\ userdata' \in [Wrappers -> Nat] /\ RefCount' \in [Wrappers -> Nat]
      <4>1. userdata \in [Wrappers -> Nat] /\ RefCount \in [Wrappers -> Nat]
        BY DEF DataOK
      <4>2. QED
        BY <1>2, <1>5, <4>1
    <3>2. QED
      BY <1>6, <3>1 DEF DataOK
  <2>2. FlagsOK'
    BY <1>6 DEF FlagsOK
  <2>3. ClientsOK'
    BY <1>6 DEF ClientsOK
  <2>4. QED
    BY <2>1, <2>2, <2>3
<1>8. CountOK'
  BY <1>2, <1>5, <1>6 DEF DataOK, CountOK, Live, Kept
<1>9. QED
  BY <1>4, <1>7, <1>8

\* The wrapper of the last userdata is held by no frame.
LEMMA PinnedNone ==
  ASSUME stack \in Seq(Frame), NEW w \in Wrappers, userdata \in [Wrappers -> Nat],
         userdata[w] > Pinned(w), userdata[w] - 1 = 0
  PROVE  \A k \in 1..Len(stack) :
            /\ stack[k].op \in {"close", "list"} => stack[k].w # w
            /\ stack[k].op = "client" => stack[k].o # w
<1> DEFINE P == {k \in DOMAIN stack :
                    \/ stack[k].op \in {"close", "list"} /\ stack[k].w = w
                    \/ stack[k].op = "client" /\ stack[k].o = w}
<1>1. DOMAIN stack = 1..Len(stack) /\ Len(stack) \in Nat
  BY LenProperties
<1>2. IsFiniteSet(P)
  <2>1. IsFiniteSet(1..Len(stack))
    BY <1>1, FS_Interval
  <2>2. P \subseteq 1..Len(stack)
    BY <1>1
  <2>3. QED
    BY <2>1, <2>2, FS_Subset
<1>3. Cardinality(P) = 0
  <2>1. Cardinality(P) \in Nat
    BY <1>2, FS_CardinalityType
  <2>2. Pinned(w) = Cardinality(P)
    BY DEF Pinned
  <2>3. QED
    BY <2>1, <2>2
<1>4. P = {}
  BY <1>2, <1>3, FS_EmptySet
<1>5. QED
  BY <1>1, <1>4

LEMMA CollectHeld ==
  ASSUME Held, NEW w \in Wrappers, Collect(w)
  PROVE  Held'
<1> USE DEF Held
<1>1. /\ userdata[w] > Pinned(w)
      /\ userdata' = [userdata EXCEPT ![w] = @ - 1]
      /\ RefCount' = [RefCount EXCEPT ![w] = @ - 1]
      /\ UNCHANGED <<locked, CurrentWorkers, started, Todo>>
      /\ UNCHANGED <<Callbacks, requests, DidDisconnectCallback, tick, shut>>
      /\ UNCHANGED <<stranded, late, lost>>
      /\ RefCount[w] = 1 => Live(w)
  BY DEF Collect, pool, queue, flags, game
<1>2. userdata[w] > 0
  <2>1. Pinned(w) \in Nat
    <3>1. IsFiniteSet(1..Len(stack))
      BY LenProperties, FS_Interval DEF StackOK, FramesIn
    <3>2. DOMAIN stack = 1..Len(stack)
      BY LenProperties DEF StackOK, FramesIn
    <3>3. QED
      BY <3>1, <3>2, FS_Subset, FS_CardinalityType DEF Pinned
  <2>2. QED
    BY <1>1, <2>1 DEF DataOK
<1>3. Kept(w) /\ RefCount[w] = userdata[w]
  BY <1>2 DEF CountOK
<1>4. CASE RefCount'[w] = 0 /\ CurrentWorkers[w] = 0
  <2>1. Delete(w) /\ leaked' = leaked
    BY <1>4 DEF Collect
  <2>2. life' = [life EXCEPT ![w] = "dying"] /\ Sockets' = RemoveFirst(Sockets, w)
    BY <2>1 DEF Delete
  <2>3. Sockets' \in Seq(Wrappers)
    BY <2>2, RemoveFirstType DEF DataOK
  <2>4. userdata[w] - 1 = 0 /\ userdata'[w] = 0 /\ Live(w)
    BY <1>1, <1>2, <1>3, <1>4 DEF DataOK
  <2>5. StackOK'
    <3>1. stack \in Seq(Frame) /\ Len(stack) \in Nat
      BY LenProperties DEF StackOK, FramesIn
    <3>2. /\ stack' \in Seq(Frame) /\ Len(stack') = Len(stack) + 1
          /\ stack'[1] = F("destroy", w)
          /\ \A k \in 1..Len(stack) : Same(stack'[k + 1], stack[k])
      BY <2>1, <3>1, DeleteFrames
    <3>3. FrameIn(F("destroy", w), life', stranded')
      <4>1. F("destroy", w).op = "destroy" /\ F("destroy", w).w = w
        BY DEF F
      <4>2. QED
        BY <2>2, <4>1 DEF FrameIn, FrameTyped, DataOK
    <3>4. ASSUME NEW k \in 1..Len(stack)
          PROVE  FrameIn(stack'[k + 1], life', stranded')
      <4>1. FrameIn(stack[k], life, stranded)
        BY DEF StackOK, FramesIn
      <4>2. /\ stack[k].op \in {"close", "list"} => stack[k].w # w
            /\ stack[k].op = "client" => stack[k].o # w
        BY <1>1, <2>4, <3>1, PinnedNone DEF DataOK
      <4>3. stranded' = stranded
        BY <1>1
      <4>4. FrameIn(stack[k], life', stranded')
        BY <2>2, <2>4, <4>1, <4>2, <4>3 DEF FrameIn, FrameTyped, DataOK, Live
      <4>5. QED
        BY <3>2, <4>4 DEF FrameIn, FrameTyped, Same
    <3>5. ASSUME NEW k \in 1..Len(stack') PROVE FrameIn(stack'[k], life', stranded')
      <4>1. CASE k = 1
        BY <3>2, <3>3, <4>1
      <4>2. CASE k # 1
        <5>1. k - 1 \in 1..Len(stack) /\ (k - 1) + 1 = k
          BY <3>1, <3>2, <4>2
        <5>2. QED
          BY <3>4, <5>1
      <4>3. QED
        BY <4>1, <4>2
    <3>6. QED
      BY <3>2, <3>5 DEF StackOK, FramesIn
  <2>6. DataOK' /\ FlagsOK' /\ ClientsOK'
    <3>1. DataOK'
      <4>1. life' \in [Wrappers -> {"none", "live", "dying", "deleted"}]
        BY <2>2 DEF DataOK
      <4>2. RefCount' \in [Wrappers -> Nat] /\ userdata' \in [Wrappers -> Nat]
        BY <1>1, <1>2, <1>3 DEF DataOK
      <4>3. leaked' \subseteq Wrappers
        BY <2>1 DEF DataOK
      <4>4. QED
        BY <1>1, <2>3, <4>1, <4>2, <4>3 DEF DataOK
    <3>2. FlagsOK' /\ ClientsOK'
      BY <1>1 DEF FlagsOK, ClientsOK
    <3>3. QED
      BY <3>1, <3>2
  <2>7. CountOK'
    BY <1>1, <1>3, <2>2, <2>4 DEF CountOK, DataOK, Live, Kept
  <2>8. QED
    BY <2>5, <2>6, <2>7
<1>5. CASE ~(RefCount'[w] = 0 /\ CurrentWorkers[w] = 0)
  <2>1. /\ UNCHANGED <<Sockets, stack, life>>
        /\ leaked' = IF RefCount'[w] = 0 THEN leaked \union {w} ELSE leaked
    BY <1>5 DEF Collect
  <2>2. StackOK'
    BY <1>1, <2>1, GrowsSame, SameOK
  <2>3. DataOK' /\ FlagsOK' /\ ClientsOK'
    <3>1. DataOK'
      BY <1>1, <1>2, <1>3, <2>1 DEF DataOK
    <3>2. FlagsOK'
      BY <1>1 DEF FlagsOK
    <3>3. ClientsOK'
      BY <1>1, <2>1 DEF ClientsOK
    <3>4. QED
      BY <3>1, <3>2, <3>3
  <2>4. CountOK'
    BY <1>1, <1>3, <2>1 DEF CountOK, DataOK, Live, Kept
  <2>5. QED
    BY <2>2, <2>3, <2>4
<1>6. QED
  BY <1>4, <1>5


\* An action that touches no userdata, worker, request or result.
LEMMA QuietHeld ==
  ASSUME Held, StackOK', UNCHANGED <<life, RefCount, userdata, locked>>,
         UNCHANGED <<CurrentWorkers, started, Todo, Callbacks, requests, lost>>,
         Sockets' \in Seq(Wrappers), DidDisconnectCallback' \subseteq Wrappers,
         leaked' \subseteq Wrappers, tick' \in BOOLEAN, shut' \in BOOLEAN,
         stranded \subseteq stranded', stranded' \subseteq Wrappers,
         \A w \in stranded' : life[w] \in {"dying", "deleted"},
         late' \subseteq Wrappers
  PROVE  Held'
<1>1. DataOK' /\ ClientsOK' /\ CountOK'
  BY DEF Held, DataOK, ClientsOK, CountOK, Live, Kept
<1>2. FlagsOK'
  BY DEF Held, FlagsOK
<1>3. QED
  BY <1>1, <1>2 DEF Held

LEMMA TickHeld ==
  ASSUME Held, Tick
  PROVE  Held'
<1>1. /\ UNCHANGED <<life, RefCount, userdata, locked>>
      /\ UNCHANGED <<CurrentWorkers, started, Todo, Callbacks, requests, lost>>
      /\ UNCHANGED <<Sockets, DidDisconnectCallback, leaked, stranded, late, shut>>
      /\ tick' = TRUE /\ Run(<<F("think", None)>>)
  BY DEF Tick, wrapper, pool, queue, flags, past
<1>2. StackOK'
  <2>1. /\ F("think", None) \in Frame /\ F("think", None).op = "think"
    BY FrameIs DEF Ops
  <2>2. FrameIn(F("think", None), life', stranded')
    BY <2>1 DEF FrameIn, FrameTyped, Destructor
  <2>3. QED
    BY <1>1, <2>1, <2>2, FramesOne, GrowsSame, RunOK DEF Held
<1>3. shut' \in BOOLEAN
  BY <1>1 DEF Held, FlagsOK
<1>4. QED
  BY <1>1, <1>2, <1>3, QuietHeld DEF Held, DataOK, CountOK

LEMMA ShutdownHookHeld ==
  ASSUME Held, ShutdownHook
  PROVE  Held'
<1>1. /\ UNCHANGED <<life, RefCount, userdata, locked>>
      /\ UNCHANGED <<CurrentWorkers, started, Todo, Callbacks, requests, lost>>
      /\ UNCHANGED <<Sockets, DidDisconnectCallback, leaked, stranded, late, tick>>
      /\ shut' = TRUE /\ Run(<<F("hook", None)>>)
  BY DEF ShutdownHook, wrapper, pool, queue, flags, past
<1>2. StackOK'
  <2>1. /\ F("hook", None) \in Frame /\ F("hook", None).op = "hook"
    BY FrameIs DEF Ops
  <2>2. FrameIn(F("hook", None), life', stranded')
    BY <2>1 DEF FrameIn, FrameTyped, Destructor
  <2>3. QED
    BY <1>1, <2>1, <2>2, FramesOne, GrowsSame, RunOK DEF Held
<1>3. tick' \in BOOLEAN
  BY <1>1 DEF Held, FlagsOK
<1>4. QED
  BY <1>1, <1>2, <1>3, QuietHeld DEF Held, DataOK, CountOK

\* The walk that has moved on.
LEMMA StepIn ==
  ASSUME StackOK, Sockets \in Seq(Wrappers), Top.op \in Walks,
         Top.i < Len(Sockets), Grows,
         NEW fs, FramesIn(fs, life', stranded'), Step(fs)
  PROVE  StackOK'
<1>1. stack # <<>> /\ Top \in Frame
  BY TopIn DEF Walks
<1> DEFINE n == Top.i + 1
           f == [Top EXCEPT !.i = n, !.w = Sockets[n],
                            !.done = @ \union {Sockets[n]}]
<1>2. n \in Nat /\ Sockets[n] \in Wrappers
  <2>1. Top.i \in Nat /\ Len(Sockets) \in Nat
    BY <1>1, LenProperties DEF Frame
  <2>2. n \in 1..Len(Sockets)
    BY <2>1
  <2>3. QED
    BY <2>1, <2>2, ElementOfSeq
<1>3. Become(fs \o <<f>>)
  BY DEF Step
<1> HIDE DEF n
<1>4. f \in Frame /\ f.op = Top.op
  BY <1>1, <1>2 DEF Frame
<1> HIDE DEF f
<1>5. FrameIn(f, life', stranded')
  BY <1>4 DEF FrameIn, FrameTyped, Walks, Destructor
<1>6. FramesIn(fs \o <<f>>, life', stranded')
  BY <1>4, <1>5, FramesOne, FramesPut
<1>7. QED
  BY <1>1, <1>3, <1>6, BecomeOK

LEMMA ThinkNextHeld ==
  ASSUME Held, ThinkNext
  PROVE  Held'
<1>1. /\ UNCHANGED <<life, RefCount, userdata, locked>>
      /\ UNCHANGED <<CurrentWorkers, started, Todo, Callbacks, requests, lost>>
      /\ UNCHANGED <<Sockets, DidDisconnectCallback, leaked, stranded, late, tick, shut>>
      /\ Top.op = "think"
      /\ IF Top.i < Len(Sockets) THEN Step(<<>>) ELSE Become(<<>>)
  BY DEF ThinkNext, At, wrapper, pool, queue, flags, game, past
<1>2. Grows /\ StackOK /\ FramesIn(<<>>, life', stranded') /\ stack # <<>>
  BY <1>1, GrowsSame, FramesNone, TopIn DEF Held
<1>3. StackOK'
  <2>1. CASE Top.i < Len(Sockets)
    <3>1. Step(<<>>) /\ Top.op \in Walks /\ Sockets \in Seq(Wrappers)
      BY <1>1, <2>1 DEF Walks, Held, DataOK
    <3>2. QED
      BY <1>2, <2>1, <3>1, StepIn
  <2>2. CASE ~(Top.i < Len(Sockets))
    BY <1>1, <1>2, <2>2, BecomeOK
  <2>3. QED
    BY <2>1, <2>2
<1>4. tick' \in BOOLEAN /\ shut' \in BOOLEAN
  BY <1>1 DEF Held, FlagsOK
<1>5. QED
  BY <1>1, <1>3, <1>4, QuietHeld DEF Held, DataOK, CountOK

LEMMA HookNextHeld ==
  ASSUME Held, HookNext
  PROVE  Held'
<1>1. /\ UNCHANGED <<life, RefCount, userdata, locked>>
      /\ UNCHANGED <<CurrentWorkers, started, Todo, Callbacks, requests, lost>>
      /\ UNCHANGED <<Sockets, leaked, stranded, late, shut>>
      /\ Top.op = "hook"
  BY DEF HookNext, At, wrapper, pool, queue, past
<1>2. Grows /\ StackOK /\ stack # <<>> /\ Top \in Frame
  BY <1>1, GrowsSame, TopIn DEF Held
<1>3. StackOK' /\ DidDisconnectCallback' \subseteq Wrappers
  <2>1. CASE Top.i < Len(Sockets)
    <3> DEFINE w == Sockets[Top.i + 1]
    <3>1. /\ Disconnected(w) /\ Step(Disconnect(w) \o <<F("reset", w)>>)
          /\ Top.op \in Walks /\ Sockets \in Seq(Wrappers)
      BY <1>1, <2>1 DEF HookNext, Walks, Held, DataOK
    <3>2. w \in Wrappers
      <4>1. Top.i \in Nat /\ Len(Sockets) \in Nat
        BY <1>2, <3>1, LenProperties DEF Frame
      <4>2. Top.i + 1 \in 1..Len(Sockets)
        BY <2>1, <4>1
      <4>3. QED
        BY <3>1, <4>2, ElementOfSeq
    <3> HIDE DEF w
    <3>3. FramesIn(Disconnect(w) \o <<F("reset", w)>>, life', stranded')
      BY <3>2, DisconnectIn, FreeFrameIn, FramesOne, FramesPut
    <3>4. StackOK'
      BY <1>2, <2>1, <3>1, <3>3, StepIn
    <3>5. DidDisconnectCallback' \subseteq Wrappers
      BY <3>1, <3>2 DEF Disconnected, Held, DataOK
    <3>6. QED
      BY <3>4, <3>5
  <2>2. CASE ~(Top.i < Len(Sockets))
    <3>1. /\ Become(<<F("think", None)>>)
          /\ DidDisconnectCallback' = DidDisconnectCallback
      BY <2>2 DEF HookNext
    <3>2. /\ F("think", None) \in Frame /\ F("think", None).op = "think"
      BY FrameIs DEF Ops
    <3>3. FrameIn(F("think", None), life', stranded')
      BY <3>2 DEF FrameIn, FrameTyped, Destructor
    <3>4. FramesIn(<<F("think", None)>>, life', stranded')
      BY <3>2, <3>3, FramesOne
    <3>5. QED
      BY <1>2, <3>1, <3>4, BecomeOK DEF Held, DataOK
  <2>3. QED
    BY <2>1, <2>2
<1>4. tick' \in BOOLEAN /\ shut' \in BOOLEAN
  <2>1. tick' = (tick \/ Top.i >= Len(Sockets)) /\ shut' = shut
    BY DEF HookNext
  <2>2. tick' \in BOOLEAN
    BY <2>1, Zenon
  <2>3. QED
    BY <2>1, <2>2 DEF Held, FlagsOK
<1>5. QED
  BY <1>1, <1>3, <1>4, QuietHeld DEF Held, DataOK, CountOK

LEMMA ResetHeld ==
  ASSUME Held, Reset
  PROVE  Held'
<1>1. /\ UNCHANGED <<life, RefCount, userdata, locked>>
      /\ UNCHANGED <<CurrentWorkers, started, Todo, Callbacks, requests, lost>>
      /\ UNCHANGED <<Sockets, leaked, stranded, late, tick, shut>>
      /\ DidDisconnectCallback' = DidDisconnectCallback \ {Top.w}
      /\ Top.op # "game" /\ Become(<<>>)
  BY DEF Reset, wrapper, pool, queue, game, past
<1>2. StackOK'
  BY <1>1, GrowsSame, FramesNone, TopIn, BecomeOK DEF Held
<1>3. tick' \in BOOLEAN /\ shut' \in BOOLEAN
  BY <1>1 DEF Held, FlagsOK
<1>4. QED
  BY <1>1, <1>2, <1>3, QuietHeld DEF Held, DataOK, CountOK

LEMMA AcceptListHeld ==
  ASSUME Held, AcceptList
  PROVE  Held'
<1>1. /\ UNCHANGED <<life, RefCount, userdata, locked>>
      /\ UNCHANGED <<CurrentWorkers, started, Todo, Callbacks, requests, lost>>
      /\ UNCHANGED <<DidDisconnectCallback, leaked, stranded, late, tick, shut>>
      /\ Sockets' = Append(Sockets, Top.w)
      /\ Top.op = "list" /\ Become(<<>>)
  BY DEF AcceptList, At, wrapper, pool, queue, flags, game, past
<1>2. StackOK' /\ Top.w \in Wrappers
  <2>1. stack # <<>> /\ FrameIn(Top, life, stranded)
    BY <1>1, TopIn DEF Held
  <2>2. Top.w \in Wrappers
    BY <1>1, <2>1 DEF FrameIn, FrameTyped
  <2>3. QED
    BY <1>1, <2>1, <2>2, GrowsSame, FramesNone, BecomeOK DEF Held
<1>3. Sockets' \in Seq(Wrappers)
  BY <1>1, <1>2, AppendProperties DEF Held, DataOK
<1>4. tick' \in BOOLEAN /\ shut' \in BOOLEAN
  BY <1>1 DEF Held, FlagsOK
<1>5. QED
  BY <1>1, <1>2, <1>3, <1>4, QuietHeld DEF Held, DataOK, CountOK

LEMMA LuaReturnHeld ==
  ASSUME Held, LuaReturn
  PROVE  Held'
<1>1. /\ UNCHANGED <<life, RefCount, userdata, locked>>
      /\ UNCHANGED <<CurrentWorkers, started, Todo, Callbacks, requests, lost>>
      /\ UNCHANGED <<Sockets, DidDisconnectCallback, leaked, stranded, late, tick, shut>>
      /\ Top.op # "game" /\ Become(<<>>)
  BY DEF LuaReturn, At, wrapper, pool, queue, flags, game, past
<1>2. StackOK'
  BY <1>1, GrowsSame, FramesNone, TopIn, BecomeOK DEF Held
<1>3. tick' \in BOOLEAN /\ shut' \in BOOLEAN
  BY <1>1 DEF Held, FlagsOK
<1>4. QED
  BY <1>1, <1>2, <1>3, QuietHeld DEF Held, DataOK, CountOK

LEMMA LuaCloseHeld ==
  ASSUME Held, NEW w \in Wrappers, LuaClose(w)
  PROVE  Held'
<1>1. /\ UNCHANGED <<life, RefCount, userdata, locked>>
      /\ UNCHANGED <<CurrentWorkers, started, Todo, Callbacks, requests, lost>>
      /\ UNCHANGED <<Sockets, leaked, stranded, late, tick, shut>>
      /\ DidDisconnectCallback' = DidDisconnectCallback \union {w}
      /\ userdata[w] > 0 /\ Run(Disconnect(w) \o <<F("close", w)>>)
  BY DEF LuaClose, Uses, Disconnected, wrapper, pool, queue, game, past
<1>2. StackOK'
  <2>1. /\ F("close", w) \in Frame /\ F("close", w).op = "close"
        /\ F("close", w).w = w
    BY FrameIs DEF Ops
  <2>2. FrameIn(F("close", w), life', stranded')
    BY <1>1, <2>1 DEF FrameIn, FrameTyped, Held, CountOK, Kept, Live, Destructor
  <2>3. FramesIn(Disconnect(w) \o <<F("close", w)>>, life', stranded')
    BY <2>1, <2>2, DisconnectIn, FramesOne, FramesPut
  <2>4. QED
    BY <1>1, <2>3, GrowsSame, RunOK DEF Held
<1>3. tick' \in BOOLEAN /\ shut' \in BOOLEAN
  BY <1>1 DEF Held, FlagsOK
<1>4. QED
  BY <1>1, <1>2, <1>3, QuietHeld DEF Held, DataOK, CountOK

LEMMA WaitingWrappers ==
  ASSUME DataOK, NEW w \in Wrappers
  PROVE  Waiting(w) \subseteq Wrappers
<1>1. Callbacks[w] \in Seq(SockEvent)
  BY DEF DataOK
<1>2. ASSUME NEW k \in DOMAIN Callbacks[w] PROVE Callbacks[w][k] \in SockEvent
  BY <1>1
<1>3. QED
  BY <1>2 DEF Waiting, SockEvent

LEMMA UnwindHeld ==
  ASSUME Held, Unwind
  PROVE  Held'
<1>1. /\ UNCHANGED <<life, RefCount, userdata, locked>>
      /\ UNCHANGED <<CurrentWorkers, started, Todo, Callbacks, requests, lost>>
      /\ UNCHANGED <<Sockets, DidDisconnectCallback, tick, shut, late>>
  BY DEF Unwind, wrapper, pool, queue, flags, game
<1>2. stack \in Seq(Frame) /\ Len(stack) \in Nat
  BY LenProperties DEF Held, StackOK, FramesIn
<1>3. PICK n \in 1..Len(stack) :
         /\ stack' \in Seq(Frame) /\ Len(stack') = Len(stack) - n
         /\ \A k \in 1..(Len(stack) - n) : stack'[k] = stack[k + n]
         /\ stranded' = stranded \union Cut(n)
         /\ leaked' = leaked \union Cut(n) \union (UNION {Waiting(w) : w \in Cut(n)})
                             \union UNION {Making(stack[j]) : j \in 1..n}
  BY <1>2, UnwindFrames
<1>4. StackOK'
  <2>1. ASSUME NEW k \in 1..Len(stack') PROVE FrameIn(stack'[k], life', stranded')
    <3>1. k + n \in 1..Len(stack) /\ stack'[k] = stack[k + n]
      BY <1>2, <1>3
    <3>2. FrameIn(stack[k + n], life, stranded)
      BY <3>1 DEF Held, StackOK, FramesIn
    <3>3. QED
      BY <1>1, <1>3, <3>1, <3>2 DEF FrameIn, FrameTyped
  <2>2. QED
    BY <1>3, <2>1 DEF StackOK, FramesIn
<1>5. Cut(n) \subseteq Wrappers /\ \A v \in Cut(n) : life[v] \in {"dying", "deleted"}
  <2>1. ASSUME NEW j \in 1..n, stack[j].op \in Destructor
        PROVE  stack[j].w \in Wrappers /\ life[stack[j].w] \in {"dying", "deleted"}
    BY <1>2, <2>1 DEF Held, StackOK, FramesIn, FrameIn, FrameTyped
  <2>2. QED
    BY <2>1 DEF Cut
<1>6. leaked' \subseteq Wrappers
  <2>1. ASSUME NEW j \in 1..n PROVE Making(stack[j]) \subseteq Wrappers
    <3>1. FrameTyped(stack[j])
      BY <1>2 DEF Held, StackOK, FramesIn, FrameIn
    <3>2. QED
      BY <3>1 DEF Making, FrameTyped
  <2>2. ASSUME NEW v \in Cut(n) PROVE Waiting(v) \subseteq Wrappers
    BY <1>5, <2>2, WaitingWrappers DEF Held
  <2>3. ASSUME NEW x \in leaked' PROVE x \in Wrappers
    <3>1. \/ x \in leaked \/ x \in Cut(n)
          \/ \E v \in Cut(n) : x \in Waiting(v)
          \/ \E j \in 1..n : x \in Making(stack[j])
      BY <1>3
    <3>2. leaked \subseteq Wrappers
      BY DEF Held, DataOK
    <3>3. QED
      BY <1>5, <2>1, <2>2, <3>1, <3>2
  <2>4. QED
    BY <2>3
<1>7. tick' \in BOOLEAN /\ shut' \in BOOLEAN
  BY <1>1 DEF Held, FlagsOK
<1>8. /\ stranded \subseteq stranded' /\ stranded' \subseteq Wrappers
      /\ \A w \in stranded' : life[w] \in {"dying", "deleted"}
  BY <1>3, <1>5 DEF Held, DataOK, CountOK
<1>9. QED
  BY <1>1, <1>4, <1>6, <1>7, <1>8, QuietHeld DEF Held, DataOK, CountOK


\* An action that makes one wrapper, which nobody knows, or none.
LEMMA MakesHeld ==
  ASSUME Held, StackOK', NEW c \in Wrappers, life[c] = "none",
         NEW l \in {"live", "dying"}, life' = [life EXCEPT ![c] = l],
         UNCHANGED <<RefCount, userdata, locked, CurrentWorkers, started>>,
         UNCHANGED <<requests, DidDisconnectCallback, tick, shut, leaked, stranded, late, lost>>,
         Sockets' \in Seq(Wrappers), Todo' \in [Wrappers -> Seq(Requests)],
         Callbacks' \in [Wrappers -> Seq(SockEvent)], ClientsOK'
  PROVE  Held'
<1>1. life' \in [Wrappers -> {"none", "live", "dying", "deleted"}]
  BY DEF Held, DataOK
<1>2. DataOK'
  BY <1>1 DEF Held, DataOK
<1>3. FlagsOK'
  BY DEF Held, FlagsOK
<1>4. CountOK'
  BY DEF Held, DataOK, CountOK, Live, Kept
<1>5. QED
  BY <1>2, <1>3, <1>4 DEF Held

LEMMA LuaBromSockHeld ==
  ASSUME Held, NEW w \in Wrappers, LuaBromSock(w)
  PROVE  Held'
<1>1. /\ UNCHANGED <<RefCount, userdata, locked, CurrentWorkers, started>>
      /\ UNCHANGED <<requests, DidDisconnectCallback, tick, shut, leaked, stranded, late, lost>>
      /\ UNCHANGED <<Todo, Callbacks>>
      /\ life[w] = "none" /\ life' = [life EXCEPT ![w] = "live"]
      /\ Sockets' = Append(Sockets, w) /\ Run(<<F("push", w)>>)
  BY DEF LuaBromSock, Allocate, pool, queue, flags, game, past
<1>2. StackOK'
  <2>1. FramesIn(<<F("push", w)>>, life', stranded')
    BY FreeFrameIn, FramesOne
  <2>2. Grows
    BY <1>1, GrowsAllocate DEF Held, Allocate
  <2>3. QED
    BY <1>1, <2>1, <2>2, RunOK DEF Held
<1>3. /\ Sockets' \in Seq(Wrappers) /\ Todo' \in [Wrappers -> Seq(Requests)]
      /\ Callbacks' \in [Wrappers -> Seq(SockEvent)] /\ ClientsOK'
  BY <1>1, AppendProperties DEF Held, DataOK, ClientsOK
<1>4. QED
  BY <1>1, <1>2, <1>3, MakesHeld

LEMMA LuaAcceptHeld ==
  ASSUME Held, NEW w \in Wrappers, NEW c \in Wrappers, LuaAccept(w, c)
  PROVE  Held'
<1>1. /\ UNCHANGED <<RefCount, userdata, locked, CurrentWorkers, started>>
      /\ UNCHANGED <<requests, DidDisconnectCallback, tick, shut, leaked, stranded, late, lost>>
      /\ UNCHANGED <<Sockets, Todo, Callbacks>>
      /\ life[c] = "none" /\ life' = [life EXCEPT ![c] = "live"]
      /\ Run(<<F("push", c), F("list", c)>>)
  BY DEF LuaAccept, Allocate, pool, queue, flags, game, past
<1>2. StackOK'
  <2>1. F("list", c) \in Frame /\ F("list", c).op = "list" /\ F("list", c).w = c
    BY FrameIs DEF Ops
  <2>2. FrameIn(F("list", c), life', stranded')
    BY <1>1, <2>1 DEF FrameIn, FrameTyped, Destructor, Held, DataOK
  <2>3. FramesIn(<<F("push", c), F("list", c)>>, life', stranded')
    BY <2>1, <2>2, FreeFrameIn, FramesTwo
  <2>4. Grows
    BY <1>1, GrowsAllocate DEF Held, Allocate
  <2>5. QED
    BY <1>1, <2>3, <2>4, RunOK DEF Held
<1>3. /\ Sockets' \in Seq(Wrappers) /\ Todo' \in [Wrappers -> Seq(Requests)]
      /\ Callbacks' \in [Wrappers -> Seq(SockEvent)] /\ ClientsOK'
  BY <1>1 DEF Held, DataOK, ClientsOK
<1>4. QED
  BY <1>1, <1>2, <1>3, MakesHeld

LEMMA LuaAcceptFailsHeld ==
  ASSUME Held, NEW w \in Wrappers, NEW c \in Wrappers, LuaAcceptFails(w, c)
  PROVE  Held'
<1>1. /\ UNCHANGED <<RefCount, userdata, locked, CurrentWorkers, started>>
      /\ UNCHANGED <<requests, DidDisconnectCallback, tick, shut, leaked, stranded, late, lost>>
      /\ UNCHANGED <<Sockets, Todo, Callbacks>>
      /\ life[c] = "none" /\ life' = [life EXCEPT ![c] = "dying"]
      /\ Run(<<F("destroy", c)>>)
  BY DEF LuaAcceptFails, pool, queue, flags, game, past
<1>2. StackOK'
  <2>1. /\ F("destroy", c) \in Frame /\ F("destroy", c).op = "destroy"
        /\ F("destroy", c).w = c
    BY FrameIs DEF Ops, Destructor
  <2>2. FrameIn(F("destroy", c), life', stranded')
    BY <1>1, <2>1 DEF FrameIn, FrameTyped, Held, DataOK
  <2>3. Grows
    BY <1>1 DEF Grows, Held, DataOK
  <2>4. QED
    BY <1>1, <2>1, <2>2, <2>3, FramesOne, RunOK DEF Held
<1>3. /\ Sockets' \in Seq(Wrappers) /\ Todo' \in [Wrappers -> Seq(Requests)]
      /\ Callbacks' \in [Wrappers -> Seq(SockEvent)] /\ ClientsOK'
  BY <1>1 DEF Held, DataOK, ClientsOK
<1>4. QED
  BY <1>1, <1>2, <1>3, MakesHeld

\* A frame of a destructor gives way to the next one.
LEMMA DestructorIn ==
  ASSUME NEW sd, NEW w \in Wrappers, NEW lf, lf[w] \in {"dying", "deleted"},
         NEW op \in Destructor
  PROVE  F(op, w) \in Frame /\ FrameIn(F(op, w), lf, sd)
<1>1. F(op, w) \in Frame /\ F(op, w).op = op /\ F(op, w).w = w
  BY FrameIs DEF Ops
<1>2. QED
  BY <1>1 DEF FrameIn, FrameTyped, Destructor

LEMMA DestroyHeld ==
  ASSUME Held, Destroy
  PROVE  Held'
<1>1. /\ UNCHANGED <<life, RefCount, userdata, locked>>
      /\ UNCHANGED <<CurrentWorkers, started, Todo, Callbacks, requests, lost>>
      /\ UNCHANGED <<Sockets, DidDisconnectCallback, leaked, stranded, tick, shut>>
      /\ Top.op = "destroy" /\ Become(<<F("lower", Top.w)>>)
      /\ late' = IF started[Top.w] > 0 THEN late \union {Top.w} ELSE late
  BY DEF Destroy, At, wrapper, pool, queue, flags, game
<1>2. stack # <<>> /\ FrameIn(Top, life, stranded)
  BY <1>1, TopIn DEF Held
<1>3. Top.w \in Wrappers /\ life[Top.w] \in {"dying", "deleted"}
  BY <1>1, <1>2 DEF FrameIn, FrameTyped, Destructor
<1>4. StackOK'
  <2>1. FramesIn(<<F("lower", Top.w)>>, life', stranded')
    BY <1>1, <1>3, DestructorIn, FramesOne DEF Destructor
  <2>2. QED
    BY <1>1, <1>2, <2>1, GrowsSame, BecomeOK DEF Held
<1>5. late' \subseteq Wrappers
  BY <1>1, <1>3 DEF Held, DataOK
<1>6. tick' \in BOOLEAN /\ shut' \in BOOLEAN
  BY <1>1 DEF Held, FlagsOK
<1>7. QED
  BY <1>1, <1>4, <1>5, <1>6, QuietHeld DEF Held, DataOK, CountOK

LEMMA DestroyLowerHeld ==
  ASSUME Held, DestroyLower
  PROVE  Held'
<1>1. /\ UNCHANGED <<life, RefCount, userdata, locked>>
      /\ UNCHANGED <<CurrentWorkers, started, Todo, Callbacks, requests, lost>>
      /\ UNCHANGED <<Sockets, DidDisconnectCallback, leaked, stranded, late>>
      /\ UNCHANGED <<tick, shut>>
      /\ Top.op = "lower" /\ Become(<<F("lock", Top.w)>>)
  BY DEF DestroyLower, At, wrapper, pool, queue, flags, game, past
<1>2. stack # <<>> /\ FrameIn(Top, life, stranded)
  BY <1>1, TopIn DEF Held
<1>3. Top.w \in Wrappers /\ life[Top.w] \in {"dying", "deleted"}
  BY <1>1, <1>2 DEF FrameIn, FrameTyped, Destructor
<1>4. StackOK'
  <2>1. FramesIn(<<F("lock", Top.w)>>, life', stranded')
    BY <1>1, <1>3, DestructorIn, FramesOne DEF Destructor
  <2>2. QED
    BY <1>1, <1>2, <2>1, GrowsSame, BecomeOK DEF Held
<1>5. tick' \in BOOLEAN /\ shut' \in BOOLEAN
  BY <1>1 DEF Held, FlagsOK
<1>6. QED
  BY <1>1, <1>4, <1>5, QuietHeld DEF Held, DataOK, CountOK

LEMMA DestroyLockHeld ==
  ASSUME Held, DestroyLock
  PROVE  Held'
<1>1. /\ UNCHANGED <<life, RefCount, userdata, Sockets, CurrentWorkers, started>>
      /\ UNCHANGED <<Callbacks, requests, DidDisconnectCallback>>
      /\ UNCHANGED <<shut, leaked, stranded, late, lost>>
      /\ Top.op = "lock"
      /\ locked' = locked \union {Top.w} /\ tick' = TRUE
      /\ Todo' = [Todo EXCEPT ![Top.w] = <<>>]
      /\ Become(<<F("think", None), F("free", Top.w)>>)
  BY DEF DestroyLock, At, pool, flags, past
<1>2. stack # <<>> /\ FrameIn(Top, life, stranded)
  BY <1>1, TopIn DEF Held
<1>3. Top.w \in Wrappers /\ life[Top.w] \in {"dying", "deleted"}
  BY <1>1, <1>2 DEF FrameIn, FrameTyped, Destructor
<1>4. StackOK'
  <2>1. /\ F("think", None) \in Frame /\ F("think", None).op = "think"
        /\ FrameIn(F("think", None), life', stranded')
    BY FrameIs DEF Ops, FrameIn, FrameTyped, Destructor
  <2>2. /\ F("free", Top.w) \in Frame
        /\ FrameIn(F("free", Top.w), life', stranded')
    BY <1>1, <1>3, DestructorIn DEF Destructor
  <2>3. FramesIn(<<F("think", None), F("free", Top.w)>>, life', stranded')
    BY <2>1, <2>2, FramesTwo
  <2>4. QED
    BY <1>1, <1>2, <2>3, GrowsSame, BecomeOK DEF Held
<1>5. DataOK'
  <2>1. <<>> \in Seq(Requests)
    OBVIOUS
  <2>2. Todo' \in [Wrappers -> Seq(Requests)]
    BY <1>1, <2>1 DEF Held, DataOK
  <2>3. QED
    BY <1>1, <1>3, <2>2 DEF Held, DataOK
<1>6. FlagsOK'
  BY <1>1 DEF Held, FlagsOK
<1>7. ClientsOK' /\ CountOK'
  BY <1>1 DEF Held, ClientsOK, CountOK, Live, Kept
<1>8. QED
  BY <1>4, <1>5, <1>6, <1>7 DEF Held

LEMMA FreeHeld ==
  ASSUME Held, Free
  PROVE  Held'
<1> DEFINE w == Top.w
<1>1. /\ UNCHANGED <<RefCount, userdata, Sockets, CurrentWorkers, started>>
      /\ UNCHANGED <<Todo, requests, DidDisconnectCallback, tick, shut>>
      /\ UNCHANGED <<stranded, late, lost>>
      /\ Top.op = "free" /\ locked' = locked \ {w}
      /\ life' = [life EXCEPT ![w] = "deleted"]
      /\ Callbacks' = [Callbacks EXCEPT ![w] = <<>>]
      /\ leaked' = leaked \union Waiting(w)
      /\ stack' = Tail(stack)
  <2>1. stack' = <<>> \o Tail(stack) /\ Top.op = "free"
    BY DEF Free, Become, At
  <2>2. stack \in Seq(Frame) /\ stack # <<>>
    BY <2>1, TopIn DEF Held, StackOK, FramesIn
  <2>3. Tail(stack) \in Seq(Frame)
    BY <2>2, HeadTailProperties
  <2>4. <<>> \o Tail(stack) = Tail(stack)
    BY <2>3
  <2>5. QED
    BY <2>1, <2>4 DEF Free, pool, flags, game
<1>2. stack # <<>> /\ FrameIn(Top, life, stranded)
  BY <1>1, TopIn DEF Held
<1>3. /\ w \in Wrappers /\ life[w] \in {"dying", "deleted"}
  BY <1>1, <1>2 DEF FrameIn, FrameTyped, Destructor
<1> HIDE DEF w
<1>4. userdata[w] > 0 => w \in stranded
  BY <1>3 DEF Held, CountOK, Live, Kept
<1>5. FramesIn(Tail(stack), life, stranded)
  BY <1>2, FramesTail DEF Held, StackOK
<1>6. StackOK'
  <2>1. ASSUME NEW k \in 1..Len(Tail(stack))
        PROVE  FrameIn(Tail(stack)[k], life', stranded')
    <3>1. FrameIn(Tail(stack)[k], life, stranded)
      BY <1>5 DEF FramesIn
    <3>2. QED
      BY <1>1, <1>3, <3>1 DEF FrameIn, FrameTyped, Held, DataOK
  <2>2. QED
    BY <1>1, <1>5, <2>1 DEF StackOK, FramesIn
<1>7. Waiting(w) \subseteq Wrappers
  BY <1>3, WaitingWrappers DEF Held
<1>8. <<>> \in Seq(SockEvent) /\ Len(<<>>) = 0
  OBVIOUS
<1>9. DataOK'
  <2>1. /\ life' \in [Wrappers -> {"none", "live", "dying", "deleted"}]
        /\ Callbacks' \in [Wrappers -> Seq(SockEvent)]
    BY <1>1, <1>3, <1>8 DEF Held, DataOK
  <2>2. QED
    <3>1. /\ RefCount' = RefCount /\ userdata' = userdata /\ Sockets' = Sockets
          /\ CurrentWorkers' = CurrentWorkers /\ started' = started
          /\ Todo' = Todo /\ requests' = requests
          /\ DidDisconnectCallback' = DidDisconnectCallback
          /\ locked' \subseteq locked /\ leaked' \subseteq leaked \union Waiting(w)
          /\ stranded' = stranded /\ late' = late
      BY <1>1
    <3>2. leaked' \subseteq Wrappers /\ locked' \subseteq Wrappers
      BY <1>7, <3>1 DEF Held, DataOK
    <3>3. QED
      BY <2>1, <3>1, <3>2 DEF Held, DataOK
<1>10. FlagsOK'
  BY <1>1 DEF Held, FlagsOK
<1>11. ClientsOK'
  <2>1. ASSUME NEW v \in Wrappers, NEW k \in 1..Len(Callbacks'[v])
        PROVE  Callbacks'[v][k].type = "accepted" => Callbacks'[v][k].sock \in Wrappers
    <3>1. v # w
      BY <1>1, <1>3, <1>8, <2>1 DEF Held, DataOK
    <3>2. Callbacks'[v] = Callbacks[v]
      BY <1>1, <3>1 DEF Held, DataOK
    <3>3. QED
      BY <3>2 DEF Held, ClientsOK
  <2>2. QED
    BY <2>1 DEF ClientsOK
<1>12. CountOK'
  BY <1>1, <1>3, <1>4 DEF Held, DataOK, CountOK, Live, Kept
<1>13. QED
  BY <1>6, <1>9, <1>10, <1>11, <1>12 DEF Held


\* What a script or a worker does to a wrapper without a frame of its own.
LEMMA LuaStartHeld ==
  ASSUME Held, NEW w \in Wrappers, LuaStart(w), Crew \in Nat
  PROVE  Held'
<1>1. /\ UNCHANGED <<life, RefCount, userdata, locked, Sockets, CurrentWorkers>>
      /\ UNCHANGED <<Todo, Callbacks, requests, DidDisconnectCallback>>
      /\ UNCHANGED <<stack, tick, shut, leaked, stranded, late, lost>>
      /\ started' = [started EXCEPT ![w] = @ + Crew]
  BY DEF LuaStart, wrapper, queue, flags, game, past
<1>2. StackOK'
  BY <1>1, GrowsSame, SameOK DEF Held
<1>3. DataOK'
  BY <1>1 DEF Held, DataOK
<1>4. FlagsOK' /\ ClientsOK' /\ CountOK'
  BY <1>1 DEF Held, FlagsOK, ClientsOK, CountOK, Live, Kept
<1>5. QED
  BY <1>2, <1>3, <1>4 DEF Held

LEMMA LuaRequestHeld ==
  ASSUME Held, NEW w \in Wrappers, NEW type \in Requests, LuaRequest(w, type)
  PROVE  Held'
<1>1. /\ UNCHANGED <<life, RefCount, userdata, locked, Sockets, CurrentWorkers>>
      /\ UNCHANGED <<started, Callbacks, DidDisconnectCallback>>
      /\ UNCHANGED <<stack, tick, shut, leaked, stranded, late, lost>>
      /\ Todo' = [Todo EXCEPT ![w] = Append(@, type)]
      /\ requests' = requests + 1
  BY DEF LuaRequest, wrapper, pool, flags, game, past
<1>2. StackOK'
  BY <1>1, GrowsSame, SameOK DEF Held
<1>3. DataOK'
  <2>1. Append(Todo[w], type) \in Seq(Requests)
    BY AppendProperties DEF Held, DataOK
  <2>2. Todo' \in [Wrappers -> Seq(Requests)]
    BY <1>1, <2>1 DEF Held, DataOK
  <2>3. requests' \in Nat
    BY <1>1 DEF Held, DataOK
  <2>4. QED
    BY <1>1, <2>2, <2>3 DEF Held, DataOK
<1>4. FlagsOK' /\ ClientsOK' /\ CountOK'
  BY <1>1 DEF Held, FlagsOK, ClientsOK, CountOK, Live, Kept
<1>5. QED
  BY <1>2, <1>3, <1>4 DEF Held

LEMMA WorkerStartHeld ==
  ASSUME Held, NEW w \in Wrappers, WorkerStart(w)
  PROVE  Held'
<1>1. /\ UNCHANGED <<life, RefCount, userdata, locked, Sockets>>
      /\ UNCHANGED <<Todo, Callbacks, requests, DidDisconnectCallback>>
      /\ UNCHANGED <<stack, tick, shut, leaked, stranded, late, lost>>
      /\ started[w] > 0 
      /\ started' = [started EXCEPT ![w] = @ - 1]
      /\ CurrentWorkers' = [CurrentWorkers EXCEPT ![w] = @ + 1]
  BY DEF WorkerStart, wrapper, queue, flags, game, past
<1>2. StackOK'
  BY <1>1, GrowsSame, SameOK DEF Held
<1>3. DataOK'
  <2>1. /\ started' \in [Wrappers -> Nat] /\ CurrentWorkers' \in [Wrappers -> Nat]
    BY <1>1 DEF Held, DataOK
  <2>2. QED
    BY <1>1, <2>1 DEF Held, DataOK
<1>4. FlagsOK' /\ ClientsOK' /\ CountOK'
  BY <1>1 DEF Held, FlagsOK, ClientsOK, CountOK, DataOK, Live, Kept
<1>5. QED
  BY <1>2, <1>3, <1>4 DEF Held

LEMMA WorkerStopHeld ==
  ASSUME Held, NEW w \in Wrappers, WorkerStop(w)
  PROVE  Held'
<1>1. /\ UNCHANGED <<life, RefCount, userdata, locked, Sockets, started>>
      /\ UNCHANGED <<Todo, Callbacks, requests, DidDisconnectCallback>>
      /\ UNCHANGED <<stack, tick, shut, leaked, stranded, late, lost>>
      /\ CurrentWorkers[w] > 0
      /\ CurrentWorkers' = [CurrentWorkers EXCEPT ![w] = @ - 1]
  BY DEF WorkerStop, wrapper, queue, flags, game, past
<1>2. StackOK'
  BY <1>1, GrowsSame, SameOK DEF Held
<1>3. DataOK'
  <2>1. CurrentWorkers' \in [Wrappers -> Nat]
    BY <1>1 DEF Held, DataOK
  <2>2. QED
    BY <1>1, <2>1 DEF Held, DataOK
<1>4. FlagsOK' /\ ClientsOK' /\ CountOK'
  BY <1>1 DEF Held, FlagsOK, ClientsOK, CountOK, DataOK, Live, Kept
<1>5. QED
  BY <1>2, <1>3, <1>4 DEF Held

\* A result takes the place of the oldest request.
LEMMA PostIs ==
  ASSUME DataOK, ClientsOK, NEW w \in Wrappers, Todo[w] # <<>>,
         NEW e \in SockEvent, e.type = "accepted" => e.sock \in Wrappers,
         Post(w, e)
  PROVE  /\ Todo' \in [Wrappers -> Seq(Requests)]
         /\ Callbacks' \in [Wrappers -> Seq(SockEvent)] /\ ClientsOK'
<1>1. /\ Todo' = [Todo EXCEPT ![w] = Tail(@)]
      /\ Callbacks' = [Callbacks EXCEPT ![w] = Append(@, e)]
  BY DEF Post
<1>2. Tail(Todo[w]) \in Seq(Requests)
  BY HeadTailProperties DEF DataOK
<1>3. /\ Callbacks[w] \in Seq(SockEvent) /\ Len(Callbacks[w]) \in Nat
      /\ Append(Callbacks[w], e) \in Seq(SockEvent)
      /\ Len(Append(Callbacks[w], e)) = Len(Callbacks[w]) + 1
      /\ \A k \in 1..Len(Callbacks[w]) : Append(Callbacks[w], e)[k] = Callbacks[w][k]
      /\ Append(Callbacks[w], e)[Len(Callbacks[w]) + 1] = e
  BY LenProperties, AppendProperties DEF DataOK
<1>4. /\ Todo' \in [Wrappers -> Seq(Requests)]
      /\ Callbacks' \in [Wrappers -> Seq(SockEvent)]
  BY <1>1, <1>2, <1>3 DEF DataOK
<1>5. ASSUME NEW v \in Wrappers, NEW k \in 1..Len(Callbacks'[v])
      PROVE  Callbacks'[v][k].type = "accepted" => Callbacks'[v][k].sock \in Wrappers
  <2>1. CASE v # w
    <3>1. Callbacks'[v] = Callbacks[v]
      BY <1>1, <2>1 DEF DataOK
    <3>2. QED
      BY <3>1 DEF ClientsOK
  <2>2. CASE v = w
    <3>1. Callbacks'[v] = Append(Callbacks[w], e)
      BY <1>1, <2>2 DEF DataOK
    <3>2. k \in 1..Len(Callbacks[w]) \/ k = Len(Callbacks[w]) + 1
      BY <1>3, <3>1
    <3>3. QED
      BY <1>3, <3>1, <3>2 DEF ClientsOK
  <2>3. QED
    BY <2>1, <2>2
<1>6. QED
  BY <1>4, <1>5 DEF ClientsOK

LEMMA WorkerRunHeld ==
  ASSUME Held, NEW w \in Wrappers, WorkerRun(w)
  PROVE  Held'
<1>1. /\ UNCHANGED <<RefCount, userdata, locked, Sockets>>
      /\ UNCHANGED <<CurrentWorkers, started, requests, DidDisconnectCallback>>
      /\ UNCHANGED <<stack, tick, shut, leaked, stranded, late, lost>>
      /\ Todo[w] # <<>>
  BY DEF WorkerRun, pool, flags, game, past
<1>2. CASE \E c \in Wrappers :
              Allocate(c) /\ Post(w, [type |-> "accepted", sock |-> c])
  <2>1. PICK c \in Wrappers :
           Allocate(c) /\ Post(w, [type |-> "accepted", sock |-> c])
    BY <1>2
  <2> DEFINE e == [type |-> "accepted", sock |-> c]
  <2>2. e \in SockEvent /\ e.sock \in Wrappers
    BY DEF SockEvent, Results
  <2>3. Post(w, e)
    BY <2>1
  <2> HIDE DEF e
  <2>4. /\ Todo' \in [Wrappers -> Seq(Requests)]
        /\ Callbacks' \in [Wrappers -> Seq(SockEvent)] /\ ClientsOK'
    BY <1>1, <2>2, <2>3, PostIs DEF Held
  <2>5. StackOK'
    BY <1>1, <2>1, GrowsAllocate, SameOK DEF Held
  <2>6. life[c] = "none" /\ life' = [life EXCEPT ![c] = "live"]
    BY <2>1 DEF Allocate
  <2>7. Sockets' \in Seq(Wrappers)
    BY <1>1 DEF Held, DataOK
  <2>8. QED
    BY <1>1, <2>4, <2>5, <2>6, <2>7, MakesHeld
<1>3. CASE /\ \E t \in {"result", "fail", "big"} :
                 Post(w, [type |-> t, sock |-> None])
           /\ UNCHANGED life
  <2>1. PICK t \in {"result", "fail", "big"} :
           Post(w, [type |-> t, sock |-> None])
    BY <1>3
  <2> DEFINE e == [type |-> t, sock |-> None]
  <2>2. e \in SockEvent /\ e.type # "accepted"
    BY DEF SockEvent, Results
  <2>3. Post(w, e)
    BY <2>1
  <2> HIDE DEF e
  <2>4. /\ Todo' \in [Wrappers -> Seq(Requests)]
        /\ Callbacks' \in [Wrappers -> Seq(SockEvent)] /\ ClientsOK'
    BY <1>1, <2>2, <2>3, PostIs DEF Held
  <2>5. StackOK'
    BY <1>1, <1>3, GrowsSame, SameOK DEF Held
  <2>6. DataOK'
    BY <1>1, <1>3, <2>4 DEF Held, DataOK
  <2>7. FlagsOK' /\ CountOK'
    BY <1>1, <1>3 DEF Held, FlagsOK, CountOK, Live, Kept
  <2>8. QED
    BY <2>4, <2>5, <2>6, <2>7 DEF Held
<1>4. QED
  BY <1>2, <1>3 DEF WorkerRun


\* Think takes the oldest result: what Handle puts on the stack is in order.
LEMMA HandleIs ==
  ASSUME DataOK, StackOK, Grows, NEW w \in Wrappers, NEW e \in SockEvent,
         e.type = "accepted" => e.sock \in Wrappers, Crew \in Nat, Handle(w, e)
  PROVE  /\ StackOK' /\ Sockets' \in Seq(Wrappers)
         /\ DidDisconnectCallback' \subseteq Wrappers
         /\ started' \in [Wrappers -> Nat]
<1>1. CASE e.type = "result"
  <2>1. /\ Run(<<F("push", w), Lua>>) /\ Sockets' = Sockets /\ started' = started
        /\ DidDisconnectCallback' \in
             {DidDisconnectCallback, DidDisconnectCallback \ {w}}
    BY <1>1 DEF Handle
  <2>2. StackOK'
    BY <2>1, FreeFrameIn, LuaIn, FramesTwo, RunOK
  <2>3. QED
    BY <2>1, <2>2 DEF DataOK
<1>2. CASE e.type = "accepted"
  <2> DEFINE f == [F("both", w) EXCEPT !.o = e.sock]
  <2>1. /\ Run(<<f, Lua>>) /\ Sockets' = Append(Sockets, e.sock)
        /\ DidDisconnectCallback' = DidDisconnectCallback
        /\ started' = [started EXCEPT ![e.sock] = @ + Crew]
    BY <1>2 DEF Handle
  <2>2. f \in Frame /\ f.op = "both" /\ f.w = w /\ f.o = e.sock
    <3>1. F("both", w) \in Frame
      BY FrameIs DEF Ops
    <3>2. QED
      BY <1>2, <3>1 DEF Frame, F
  <2> HIDE DEF f
  <2>3. FrameIn(f, life', stranded')
    BY <1>2, <2>2 DEF FrameIn, FrameTyped, Destructor
  <2>4. StackOK'
    BY <2>1, <2>2, <2>3, LuaIn, FramesTwo, RunOK
  <2>5. Sockets' \in Seq(Wrappers)
    BY <1>2, <2>1, AppendProperties DEF DataOK
  <2>6. started' \in [Wrappers -> Nat]
    <3>1. ASSUME NEW c \in Wrappers, started' = [started EXCEPT ![c] = @ + Crew]
          PROVE  started' \in [Wrappers -> Nat]
      BY <3>1 DEF DataOK
    <3>2. QED
      BY <1>2, <2>1, <3>1
  <2>7. DidDisconnectCallback' \subseteq Wrappers
    BY <2>1 DEF DataOK
  <2>8. QED
    BY <2>4, <2>5, <2>6, <2>7
<1>3. CASE e.type = "fail"
  <2>1. /\ Run(Disconnect(w)) /\ Sockets' = Sockets /\ started' = started
        /\ DidDisconnectCallback' = DidDisconnectCallback \union {w}
    BY <1>3 DEF Handle, Disconnected
  <2>2. StackOK'
    BY <2>1, DisconnectIn, RunOK
  <2>3. QED
    BY <2>1, <2>2 DEF DataOK
<1>4. CASE e.type = "big"
  <2>1. /\ Run(Disconnect(w) \o <<F("throw", w)>>)
        /\ Sockets' = Sockets /\ started' = started
        /\ DidDisconnectCallback' = DidDisconnectCallback \union {w}
    BY <1>4 DEF Handle, Disconnected
  <2>2. FramesIn(Disconnect(w) \o <<F("throw", w)>>, life', stranded')
    BY DisconnectIn, FreeFrameIn, FramesOne, FramesPut
  <2>3. StackOK'
    BY <2>1, <2>2, RunOK
  <2>4. QED
    BY <2>1, <2>3 DEF DataOK
<1>5. QED
  BY <1>1, <1>2, <1>3, <1>4 DEF Handle

LEMMA ThinkHandleHeld ==
  ASSUME Held, ThinkHandle, Crew \in Nat
  PROVE  Held'
<1> DEFINE w == Top.w
           e == Head(Callbacks[w])
<1>1. /\ UNCHANGED <<life, RefCount, userdata, locked, CurrentWorkers, Todo>>
      /\ UNCHANGED <<requests, tick, shut, leaked, stranded, late, lost>>
      /\ Top.op = "think" /\ w # None /\ Callbacks[w] # <<>>
      /\ Callbacks' = [Callbacks EXCEPT ![w] = Tail(@)]
      /\ Handle(w, e)
  BY DEF ThinkHandle, At, wrapper, game, past
<1>2. w \in Wrappers
  BY <1>1, TopIn DEF Held, Frame
<1> HIDE DEF w
<1>3. /\ Callbacks[w] \in Seq(SockEvent) /\ Len(Callbacks[w]) \in Nat
      /\ Len(Callbacks[w]) >= 1 /\ e = Callbacks[w][1] /\ e \in SockEvent
      /\ Tail(Callbacks[w]) \in Seq(SockEvent)
      /\ Len(Tail(Callbacks[w])) = Len(Callbacks[w]) - 1
      /\ \A k \in 1..(Len(Callbacks[w]) - 1) :
            Tail(Callbacks[w])[k] = Callbacks[w][k + 1]
  BY <1>1, <1>2, LenProperties, EmptySeq, HeadTailProperties, ElementOfSeq
     DEF Held, DataOK
<1> HIDE DEF e
<1>4. e.type = "accepted" => e.sock \in Wrappers
  <2>1. 1 \in 1..Len(Callbacks[w])
    BY <1>3
  <2>2. QED
    BY <1>2, <1>3, <2>1 DEF Held, ClientsOK
<1>5. /\ StackOK' /\ Sockets' \in Seq(Wrappers)
      /\ DidDisconnectCallback' \subseteq Wrappers
      /\ started' \in [Wrappers -> Nat]
  BY <1>1, <1>2, <1>3, <1>4, GrowsSame, HandleIs DEF Held
<1>6. DataOK'
  <2>1. Callbacks' \in [Wrappers -> Seq(SockEvent)]
    BY <1>1, <1>2, <1>3 DEF Held, DataOK
  <2>2. QED
    BY <1>1, <1>5, <2>1 DEF Held, DataOK
<1>7. ClientsOK'
  <2>1. ASSUME NEW v \in Wrappers, NEW k \in 1..Len(Callbacks'[v])
        PROVE  Callbacks'[v][k].type = "accepted" => Callbacks'[v][k].sock \in Wrappers
    <3>1. CASE v # w
      <4>1. Callbacks'[v] = Callbacks[v]
        BY <1>1, <3>1 DEF Held, DataOK
      <4>2. QED
        BY <4>1 DEF Held, ClientsOK
    <3>2. CASE v = w
      <4>1. Callbacks'[v] = Tail(Callbacks[w])
        BY <1>1, <3>2 DEF Held, DataOK
      <4>2. k \in 1..(Len(Callbacks[w]) - 1) /\ k + 1 \in 1..Len(Callbacks[w])
        BY <1>3, <4>1
      <4>3. QED
        BY <1>2, <1>3, <4>1, <4>2 DEF Held, ClientsOK
    <3>3. QED
      BY <3>1, <3>2
  <2>2. QED
    BY <2>1 DEF ClientsOK
<1>8. FlagsOK' /\ CountOK'
  BY <1>1 DEF Held, FlagsOK, CountOK, Live, Kept
<1>9. QED
  BY <1>5, <1>6, <1>7, <1>8 DEF Held

LEMMA LoseHeld ==
  ASSUME Held, Lose
  PROVE  Held'
<1>1. /\ UNCHANGED <<life, RefCount, userdata, locked, Sockets, stack>>
      /\ UNCHANGED <<CurrentWorkers, started, Todo, Callbacks, requests>>
      /\ UNCHANGED <<DidDisconnectCallback, tick, shut, leaked, stranded, late>>
      /\ lost' = TRUE
  BY DEF Lose, wrapper, pool, queue, flags, game
<1>2. StackOK'
  BY <1>1, GrowsSame, SameOK DEF Held
<1>3. DataOK'
  BY <1>1 DEF Held, DataOK
<1>4. FlagsOK' /\ ClientsOK' /\ CountOK'
  BY <1>1 DEF Held, FlagsOK, ClientsOK, CountOK, Live, Kept
<1>5. QED
  BY <1>2, <1>3, <1>4 DEF Held

LEMMA InitHeld ==
  ASSUME Init
  PROVE  Held
<1>1. <<>> \in Seq(Frame) /\ <<>> \in Seq(Wrappers) /\ <<>> \in Seq(Requests)
      /\ <<>> \in Seq(SockEvent) /\ Len(<<>>) = 0
  OBVIOUS
<1>2. StackOK
  BY FramesNone DEF Init, StackOK
<1>3. DataOK
  BY <1>1 DEF Init, DataOK
<1>4. FlagsOK
  BY DEF Init, FlagsOK
<1>5. ClientsOK
  BY <1>1 DEF Init, ClientsOK
<1>6. CountOK
  BY DEF Init, CountOK
<1>7. QED
  BY <1>2, <1>3, <1>4, <1>5, <1>6 DEF Held

LEMMA StutterHeld ==
  ASSUME Held, UNCHANGED vars
  PROVE  Held'
<1>1. /\ UNCHANGED <<life, RefCount, userdata, locked, Sockets, stack>>
      /\ UNCHANGED <<CurrentWorkers, started, Todo, Callbacks, requests>>
      /\ UNCHANGED <<DidDisconnectCallback, tick, shut, leaked, stranded, late, lost>>
  BY DEF vars, wrapper, pool, queue, flags, game, past
<1>2. StackOK'
  BY <1>1, GrowsSame, SameOK DEF Held
<1>3. DataOK'
  BY <1>1 DEF Held, DataOK
<1>4. FlagsOK' /\ ClientsOK' /\ CountOK'
  BY <1>1 DEF Held, FlagsOK, ClientsOK, CountOK, Live, Kept
<1>5. QED
  BY <1>2, <1>3, <1>4 DEF Held

LEMMA NextHeld ==
  ASSUME Held, PushOK, Next
  PROVE  Held'
<1>1. Crew \in Nat
  BY EngineBoundAssumption
<1>2. CASE LuaThread
  <2>1. CASE Tick \/ ThinkNext \/ ThinkHandle
    BY <1>1, <2>1, TickHeld, ThinkNextHeld, ThinkHandleHeld
  <2>2. CASE ShutdownHook \/ HookNext \/ Reset
    BY <2>2, ShutdownHookHeld, HookNextHeld, ResetHeld
  <2>3. CASE PushToStack \/ AcceptList
    BY <2>3, PushToStackHeld, AcceptListHeld
  <2>4. CASE \E w \in Wrappers : Collect(w)
    BY <2>4, CollectHeld
  <2>5. CASE Destroy \/ DestroyLower \/ DestroyLock \/ Free
    BY <2>5, DestroyHeld, DestroyLowerHeld, DestroyLockHeld, FreeHeld
  <2>6. CASE Script
    <3>1. CASE LuaReturn \/ Unwind
      BY <3>1, LuaReturnHeld, UnwindHeld
    <3>2. ASSUME NEW w \in Wrappers, LuaBromSock(w) \/ LuaStart(w) \/ LuaClose(w)
          PROVE  Held'
      BY <1>1, <3>2, LuaBromSockHeld, LuaStartHeld, LuaCloseHeld
    <3>3. ASSUME NEW w \in Wrappers, NEW type \in Requests, LuaRequest(w, type)
          PROVE  Held'
      BY <3>3, LuaRequestHeld
    <3>4. ASSUME NEW w \in Wrappers, NEW c \in Wrappers,
                 LuaAccept(w, c) \/ LuaAcceptFails(w, c)
          PROVE  Held'
      BY <3>4, LuaAcceptHeld, LuaAcceptFailsHeld
    <3>5. QED
      BY <2>6, <3>1, <3>2, <3>3, <3>4 DEF Script
  <2>7. QED
    BY <1>2, <2>1, <2>2, <2>3, <2>4, <2>5, <2>6 DEF LuaThread
<1>3. ASSUME NEW w \in Wrappers, Worker(w)
      PROVE  Held'
  BY <1>3, WorkerStartHeld, WorkerRunHeld, WorkerStopHeld DEF Worker
<1>4. CASE Lose
  BY <1>4, LoseHeld
<1>5. QED
  BY <1>2, <1>3, <1>4 DEF Next

-----------------------------------------------------------------------------
(* The list Engine::Sockets, and the walks over it.                         *)

\* The frame works on the wrapper.
Knows(f, c) == f.w = c \/ f.o = c

\* SOCK_Accept is about to list the wrapper.
Listing(c) == \E k \in 1..Len(stack) : stack[k].op = "list" /\ stack[k].w = c

\* The result i of v brings the wrapper of a client.
Waits(v, i, c) ==
    /\ i \in 1..Len(Callbacks[v])
    /\ Callbacks[v][i].type = "accepted" /\ Callbacks[v][i].sock = c

SocketsOK == Distinct(Sockets) /\ \A w \in Wrappers : w \in Listed => Live(w)

\* A wrapper that lives and that a script can reach is listed, or will be.
ReachOK ==
    \A w \in Wrappers :
       Live(w) /\ userdata[w] > 0 => w \in Listed \/ Listing(w)

\* So is one that a frame works on, as long as it lives.
KnownOK ==
    \A k \in 1..Len(stack) : \A c \in Wrappers :
       Knows(stack[k], c) =>
          life[c] # "none" /\ (Live(c) => c \in Listed \/ Listing(c))

\* A wrapper that SOCK_Accept is about to list is not listed yet, and nobody else
\* knows it; the frame above pushes it first, and then it stays pushed.
ListingOK ==
    \A k \in 1..Len(stack) :
       stack[k].op = "list" =>
          /\ stack[k] = F("list", stack[k].w)
          /\ stack[k].w \notin Listed
          /\ \A j \in 1..Len(stack) :
                Knows(stack[j], stack[k].w) => j = k \/ j = k - 1
          /\ k >= 2 => /\ stack[k - 1].op = "push"
                       /\ stack[k - 1].w = stack[k].w
                       /\ userdata[stack[k].w] = 0
          /\ k = 1 => userdata[stack[k].w] > 0

\* The wrapper of a client that a result brings is known to that result only.
WaitingOK ==
    \A v \in Wrappers : \A c \in Wrappers : \A i \in Nat :
       Waits(v, i, c) =>
          /\ Live(c) /\ c \notin Listed /\ userdata[c] = 0
          /\ \A k \in 1..Len(stack) : ~Knows(stack[k], c)
          /\ \A u \in Wrappers : \A j \in Nat : Waits(u, j, c) => u = v /\ j = i

Lists == SocketsOK /\ ReachOK /\ KnownOK /\ ListingOK /\ WaitingOK

-----------------------------------------------------------------------------
(* What a step does to the stack.                                           *)

\* n frames are taken off, and m others put on; walks are told what is erased.
Shape(m, n) ==
    /\ m \in Nat /\ n \in 0..Len(stack)
    /\ Len(stack') = m + (Len(stack) - n)
    /\ \A k \in (n + 1)..Len(stack) :
          /\ Same(stack'[m + k - n], stack[k])
          /\ stack[k].op \notin Walks => stack'[m + k - n] = stack[k]

\* The others are as they were.
Moved(m, n) == \A k \in (n + 1)..Len(stack) : stack'[m + k - n] = stack[k]

\* A frame of the new stack is a new one or was there.
LEMMA Place ==
  ASSUME stack \in Seq(Frame), NEW m, NEW n, Shape(m, n),
         NEW k \in 1..Len(stack')
  PROVE  \/ k \in 1..m
         \/ \E j \in (n + 1)..Len(stack) :
               /\ k = m + j - n /\ j \in 1..Len(stack)
               /\ Same(stack'[k], stack[j])
               /\ stack[j].op \notin Walks => stack'[k] = stack[j]
<1>1. Len(stack) \in Nat /\ m \in Nat /\ n \in Nat /\ n <= Len(stack)
  BY LenProperties DEF Shape
<1>2. CASE ~(k \in 1..m)
  <2> DEFINE j == k - m + n
  <2>1. /\ j \in (n + 1)..Len(stack) /\ k = m + j - n /\ j \in 1..Len(stack)
    BY <1>1, <1>2 DEF Shape
  <2> HIDE DEF j
  <2>2. QED
    BY <2>1 DEF Shape
<1>3. QED
  BY <1>2

\* A frame that was there and is not taken off is there.
LEMMA Stays ==
  ASSUME stack \in Seq(Frame), NEW m, NEW n, Shape(m, n),
         NEW k \in 1..Len(stack), k > n
  PROVE  /\ m + k - n \in 1..Len(stack') /\ Same(stack'[m + k - n], stack[k])
         /\ stack[k].op \notin Walks => stack'[m + k - n] = stack[k]
<1>1. Len(stack) \in Nat /\ m \in Nat /\ n \in Nat /\ n <= Len(stack)
  BY LenProperties DEF Shape
<1>2. k \in (n + 1)..Len(stack) /\ m + k - n \in 1..Len(stack')
  BY <1>1 DEF Shape
<1>3. QED
  BY <1>2 DEF Shape

LEMMA SameShape ==
  ASSUME stack \in Seq(Frame), stack' = stack
  PROVE  Shape(0, 0) /\ Moved(0, 0)
<1>1. Len(stack) \in Nat
  BY LenProperties
<1>2. \A k \in 1..Len(stack) : 0 + k - 0 = k
  BY <1>1
<1>3. QED
  BY <1>1, <1>2 DEF Shape, Same, Moved

LEMMA RunShape ==
  ASSUME stack \in Seq(Frame), NEW fs \in Seq(Frame), Run(fs)
  PROVE  /\ Shape(Len(fs), 0) /\ Moved(Len(fs), 0)
         /\ \A k \in 1..Len(fs) : stack'[k] = fs[k]
<1>1. Len(stack) \in Nat /\ Len(fs) \in Nat
  BY LenProperties
<1>2. /\ Len(stack') = Len(fs) + Len(stack)
      /\ \A k \in 1..Len(fs) : stack'[k] = fs[k]
      /\ \A k \in 1..Len(stack) : stack'[Len(fs) + k] = stack[k]
  BY RunFrames
<1>3. \A k \in 1..Len(stack) : Len(fs) + k - 0 = Len(fs) + k
  BY <1>1
<1>4. QED
  BY <1>1, <1>2, <1>3 DEF Shape, Same, Moved

LEMMA BecomeShape ==
  ASSUME stack \in Seq(Frame), stack # <<>>, NEW fs \in Seq(Frame), Become(fs)
  PROVE  /\ Shape(Len(fs), 1) /\ Moved(Len(fs), 1)
         /\ \A k \in 1..Len(fs) : stack'[k] = fs[k]
<1>1. Len(stack) \in Nat /\ Len(fs) \in Nat /\ Len(stack) >= 1
  BY LenProperties, EmptySeq
<1>2. /\ Len(stack') = Len(fs) + Len(stack) - 1
      /\ \A k \in 1..Len(fs) : stack'[k] = fs[k]
      /\ \A k \in 2..Len(stack) : stack'[Len(fs) + k - 1] = stack[k]
  BY BecomeFrames
<1>3. QED
  BY <1>1, <1>2 DEF Shape, Same, Moved

LEMMA DeleteShape ==
  ASSUME stack \in Seq(Frame), NEW w \in Wrappers, Delete(w)
  PROVE  Shape(1, 0) /\ stack'[1] = F("destroy", w)
<1>1. Len(stack) \in Nat
  BY LenProperties
<1>2. /\ Len(stack') = Len(stack) + 1 /\ stack'[1] = F("destroy", w)
      /\ \A k \in 1..Len(stack) :
            /\ Same(stack'[k + 1], stack[k])
            /\ stack[k].op \notin Walks => stack'[k + 1] = stack[k]
  BY DeleteFrames
<1>3. \A k \in 1..Len(stack) : 1 + k - 0 = k + 1
  BY <1>1
<1>4. QED
  BY <1>1, <1>2, <1>3 DEF Shape

LEMMA UnwindShape ==
  ASSUME stack \in Seq(Frame), Unwind
  PROVE  \E n \in 1..Len(stack) :
            /\ Shape(0, n) /\ Moved(0, n)
            /\ n < Len(stack) => stack[n + 1].op = "lua"
            /\ stranded' = stranded \union Cut(n)
            /\ leaked' = leaked \union Cut(n) \union (UNION {Waiting(w) : w \in Cut(n)})
                                \union UNION {Making(stack[j]) : j \in 1..n}
<1>1. Len(stack) \in Nat
  BY LenProperties
<1>2. PICK n \in 1..Len(stack) :
         /\ n < Len(stack) => stack[n + 1].op = "lua"
         /\ Len(stack') = Len(stack) - n
         /\ \A k \in 1..(Len(stack) - n) : stack'[k] = stack[k + n]
         /\ stranded' = stranded \union Cut(n)
         /\ leaked' = leaked \union Cut(n) \union (UNION {Waiting(w) : w \in Cut(n)})
                             \union UNION {Making(stack[j]) : j \in 1..n}
  BY UnwindFrames
<1>3. ASSUME NEW k \in (n + 1)..Len(stack) PROVE stack'[0 + k - n] = stack[k]
  <2>1. 0 + k - n \in 1..(Len(stack) - n) /\ (0 + k - n) + n = k
    BY <1>1
  <2>2. QED
    BY <1>2, <2>1
<1>4. Moved(0, n)
  BY <1>3 DEF Moved
<1>5. Shape(0, n)
  <2>1. Len(stack') = 0 + (Len(stack) - n) /\ 0 \in Nat /\ n \in 0..Len(stack)
    BY <1>1, <1>2
  <2>2. QED
    BY <1>3, <2>1 DEF Shape, Same
<1>6. QED
  BY <1>2, <1>4, <1>5

-----------------------------------------------------------------------------
(* The frames that a step puts on the stack.                                *)

\* They work on wrappers that have been deleted or are listed, and list none.
Calm(fs, lf, listed) ==
    \A k \in 1..Len(fs) :
       /\ fs[k].op # "list"
       /\ \A c \in Wrappers :
             Knows(fs[k], c) => lf[c] # "none" /\ (lf[c] = "live" => c \in listed)

LEMMA CalmNone ==
  ASSUME NEW lf, NEW S
  PROVE  <<>> \in Seq(Frame) /\ Calm(<<>>, lf, S)
<1>1. <<>> \in Seq(Frame) /\ Len(<<>>) = 0
  OBVIOUS
<1>2. QED
  BY <1>1 DEF Calm

LEMMA CalmOne ==
  ASSUME NEW lf, NEW S, NEW f \in Frame, f.op # "list",
         \A c \in Wrappers :
            Knows(f, c) => lf[c] # "none" /\ (lf[c] = "live" => c \in S)
  PROVE  <<f>> \in Seq(Frame) /\ Calm(<<f>>, lf, S)
<1>1. <<f>> \in Seq(Frame) /\ Len(<<f>>) = 1 /\ <<f>>[1] = f
  OBVIOUS
<1>2. \A k \in 1..1 : k = 1
  OBVIOUS
<1> DEFINE s == <<f>>
<1> HIDE DEF s
<1>3. Calm(s, lf, S)
  BY <1>1, <1>2 DEF Calm, s
<1>4. QED
  BY <1>1, <1>3 DEF s

LEMMA CalmPut ==
  ASSUME NEW lf, NEW S, NEW s \in Seq(Frame), NEW t \in Seq(Frame),
         Calm(s, lf, S), Calm(t, lf, S)
  PROVE  s \o t \in Seq(Frame) /\ Calm(s \o t, lf, S)
<1>1. Len(s) \in Nat /\ Len(t) \in Nat
  BY LenProperties
<1>2. /\ s \o t \in Seq(Frame) /\ Len(s \o t) = Len(s) + Len(t)
      /\ \A k \in 1..(Len(s) + Len(t)) :
            (s \o t)[k] = IF k <= Len(s) THEN s[k] ELSE t[k - Len(s)]
  BY <1>1, ConcatProperties
<1>3. ASSUME NEW k \in 1..Len(s \o t)
      PROVE  \/ \E i \in 1..Len(s) : (s \o t)[k] = s[i]
             \/ \E i \in 1..Len(t) : (s \o t)[k] = t[i]
  <2>1. CASE k <= Len(s)
    <3>1. k \in 1..Len(s) /\ (s \o t)[k] = s[k]
      BY <1>1, <1>2, <2>1
    <3>2. QED
      BY <3>1
  <2>2. CASE ~(k <= Len(s))
    <3>1. k - Len(s) \in 1..Len(t) /\ (s \o t)[k] = t[k - Len(s)]
      BY <1>1, <1>2, <2>2
    <3>2. QED
      BY <3>1
  <2>3. QED
    BY <2>1, <2>2
<1>4. QED
  BY <1>2, <1>3 DEF Calm

LEMMA CalmTwo ==
  ASSUME NEW lf, NEW S, NEW f \in Frame, NEW g \in Frame,
         f.op # "list", g.op # "list",
         \A c \in Wrappers : Knows(f, c) \/ Knows(g, c) =>
            lf[c] # "none" /\ (lf[c] = "live" => c \in S)
  PROVE  <<f, g>> \in Seq(Frame) /\ Calm(<<f, g>>, lf, S)
<1>1. /\ <<f, g>> \in Seq(Frame) /\ Len(<<f, g>>) = 2
      /\ <<f, g>>[1] = f /\ <<f, g>>[2] = g
  OBVIOUS
<1>2. \A k \in 1..2 : k = 1 \/ k = 2
  OBVIOUS
<1> DEFINE s == <<f, g>>
<1> HIDE DEF s
<1>3. Calm(s, lf, S)
  BY <1>1, <1>2 DEF Calm, s
<1>4. QED
  BY <1>1, <1>3 DEF s

LEMMA KnowsOne ==
  ASSUME NEW op \in Ops, NEW w \in Wrappers \union {None}, NEW c \in Wrappers,
         Knows(F(op, w), c)
  PROVE  c = w
<1>1. F(op, w).w = w /\ F(op, w).o = None
  BY FrameIs
<1>2. QED
  BY <1>1, WrapperAssumption DEF Knows

LEMMA KnowsLua ==
  ASSUME NEW c \in Wrappers, Knows(Lua, c)
  PROVE  FALSE
  BY KnowsOne, WrapperAssumption DEF Lua, Ops

LEMMA CalmDisconnect ==
  ASSUME NEW lf, NEW S, NEW w \in Wrappers,
         lf[w] # "none" /\ (lf[w] = "live" => w \in S)
  PROVE  Disconnect(w) \in Seq(Frame) /\ Calm(Disconnect(w), lf, S)
<1>1. /\ F("push", w) \in Frame /\ F("push", w).op # "list"
      /\ Lua \in Frame /\ Lua.op # "list"
  BY FrameIs DEF Ops, Lua
<1>2. \A c \in Wrappers : Knows(F("push", w), c) \/ Knows(Lua, c) => c = w
  BY KnowsOne, KnowsLua DEF Ops
<1>3. /\ <<F("push", w), Lua>> \in Seq(Frame)
      /\ Calm(<<F("push", w), Lua>>, lf, S)
  BY <1>1, <1>2, CalmTwo
<1>4. QED
  BY <1>3, CalmNone DEF Disconnect

-----------------------------------------------------------------------------
(* What is enough for a step to keep the invariant.                         *)

\* Nothing dies that is listed without being erased, and nothing comes to life
\* again.
LivesOn ==
    \A c \in Wrappers :
       /\ life[c] # "none" => life'[c] # "none"
       /\ life[c] # "none" /\ life'[c] = "live" => life[c] = "live"
       /\ c \in Listed /\ life'[c] = "live" => c \in Listed'

\* The wrapper that a list frame which the step takes off was to list is listed
\* now, or nobody has been given it.
TakenOff(n) ==
    \A k \in 1..n :
       stack[k].op = "list" =>
          stack[k].w \in Listed' \/ userdata'[stack[k].w] = 0

\* The other list frames are as they were, but the first may come to the top, if
\* its wrapper has been pushed.
LeftOn(m, n) ==
    \A k \in (n + 1)..Len(stack) :
       stack[k].op = "list" =>
          /\ stack[k].w \notin Listed'
          /\ k = n + 1 => m = 0 /\ userdata'[stack[k].w] > 0
          /\ k >= n + 2 => userdata'[stack[k].w] = 0

LEMMA ListIs ==
  ASSUME Held, NEW k \in 1..Len(stack), stack[k].op = "list"
  PROVE  stack[k].w \in Wrappers /\ life[stack[k].w] = "live"
  BY DEF Held, StackOK, FramesIn, FrameIn, FrameTyped

LEMMA Sizes ==
  ASSUME Held
  PROVE  stack \in Seq(Frame) /\ Len(stack) \in Nat
  BY LenProperties DEF Held, StackOK, FramesIn

\* A wrapper that was on its way to the list is on its way or there.
LEMMA ListingStays ==
  ASSUME Held, Held', NEW m, NEW n, Shape(m, n), TakenOff(n),
         NEW c \in Wrappers, Listing(c), userdata'[c] > 0
  PROVE  c \in Listed' \/ Listing(c)'
<1>1. PICK k \in 1..Len(stack) : stack[k].op = "list" /\ stack[k].w = c
  BY DEF Listing
<1>2. /\ stack \in Seq(Frame) /\ Len(stack) \in Nat
      /\ n \in Nat /\ m \in Nat /\ n <= Len(stack)
  BY Sizes DEF Shape
<1>3. CASE k <= n
  <2>1. k \in 1..n
    BY <1>2, <1>3
  <2>2. userdata'[c] # 0
    BY DEF Held, DataOK
  <2>3. QED
    BY <1>1, <2>1, <2>2 DEF TakenOff
<1>4. CASE k > n
  <2>1. m + k - n \in 1..Len(stack') /\ stack'[m + k - n] = stack[k]
    BY <1>1, <1>2, <1>4, Stays DEF Walks
  <2>2. QED
    BY <1>1, <2>1 DEF Listing
<1>5. QED
  BY <1>2, <1>3, <1>4

LEMMA ReachKept ==
  ASSUME Held, Held', ReachOK, KnownOK, NEW m, NEW n, Shape(m, n), LivesOn,
         TakenOff(n),
         \A c \in Wrappers :
            userdata'[c] > 0 =>
               \/ userdata[c] > 0 \/ c \in Listed'
               \/ \E k \in 1..Len(stack) : Knows(stack[k], c)
  PROVE  ReachOK'
<1>1. ASSUME NEW c \in Wrappers, Live(c)', userdata'[c] > 0
      PROVE  c \in Listed' \/ Listing(c)'
  <2>1. life'[c] = "live"
    BY <1>1 DEF Live
  <2>2. CASE userdata[c] > 0
    <3>1. life[c] = "live"
      BY <2>1, <2>2 DEF LivesOn, Held, CountOK, Kept, Live
    <3>2. c \in Listed \/ Listing(c)
      BY <2>2, <3>1 DEF ReachOK, Live
    <3>3. QED
      BY <1>1, <2>1, <3>2, ListingStays DEF LivesOn
  <2>3. CASE \E k \in 1..Len(stack) : Knows(stack[k], c)
    <3>1. life[c] # "none" /\ (life[c] = "live" => c \in Listed \/ Listing(c))
      BY <2>3 DEF KnownOK, Live
    <3>2. c \in Listed \/ Listing(c)
      BY <2>1, <3>1 DEF LivesOn
    <3>3. QED
      BY <1>1, <2>1, <3>2, ListingStays DEF LivesOn
  <2>4. QED
    BY <1>1, <2>2, <2>3
<1>2. QED
  BY <1>1 DEF ReachOK

LEMMA KnownKept ==
  ASSUME Held, Held', KnownOK, ListingOK, NEW m, NEW n, Shape(m, n), LivesOn,
         TakenOff(n),
         \A k \in 1..m : \A c \in Wrappers :
            Knows(stack'[k], c) =>
               life'[c] # "none" /\ (life'[c] = "live" => c \in Listed' \/ Listing(c)')
  PROVE  KnownOK'
<1>1. ASSUME NEW k \in 1..Len(stack'), NEW c \in Wrappers, Knows(stack'[k], c)
      PROVE  life'[c] # "none" /\ (life'[c] = "live" => c \in Listed' \/ Listing(c)')
  <2>1. CASE k \in 1..m
    BY <1>1, <2>1
  <2>2. CASE ~(k \in 1..m)
    <3>1. /\ stack \in Seq(Frame) /\ Len(stack) \in Nat
          /\ n \in Nat /\ m \in Nat /\ n <= Len(stack)
      BY Sizes DEF Shape
    <3>2. PICK j \in (n + 1)..Len(stack) :
             /\ k = m + j - n /\ j \in 1..Len(stack)
             /\ Same(stack'[k], stack[j])
      BY <2>2, Sizes, Place
    <3>3. Knows(stack[j], c)
      BY <1>1, <3>2 DEF Knows, Same
    <3>4. life[c] # "none" /\ (life[c] = "live" => c \in Listed \/ Listing(c))
      BY <3>2, <3>3 DEF KnownOK, Live
    <3>5. ASSUME life'[c] = "live", Listing(c)
          PROVE  c \in Listed' \/ Listing(c)'
      <4>1. PICK i \in 1..Len(stack) : stack[i].op = "list" /\ stack[i].w = c
        BY <3>5 DEF Listing
      <4>2. j = i \/ j = i - 1
        BY <3>2, <3>3, <4>1 DEF ListingOK
      <4>3. i > n
        BY <3>1, <3>2, <4>2
      <4>4. m + i - n \in 1..Len(stack') /\ stack'[m + i - n] = stack[i]
        BY <3>1, <4>1, <4>3, Stays DEF Walks
      <4>5. QED
        BY <4>1, <4>4 DEF Listing
    <3>6. QED
      BY <3>4, <3>5 DEF LivesOn
  <2>3. QED
    BY <2>1, <2>2
<1>2. QED
  BY <1>1 DEF KnownOK, Live

LEMMA ListingKept ==
  ASSUME Held, Held', ListingOK, NEW m, NEW n, Shape(m, n), LeftOn(m, n),
         \A k \in 1..m :
            /\ stack'[k].op # "list"
            /\ \A c \in Wrappers :
                  Knows(stack'[k], c) => (life'[c] = "live" => c \in Listed')
  PROVE  ListingOK'
<1>1. /\ stack \in Seq(Frame) /\ Len(stack) \in Nat
      /\ n \in Nat /\ m \in Nat /\ n <= Len(stack)
  BY Sizes DEF Shape
<1>2. ASSUME NEW k \in 1..Len(stack'), stack'[k].op = "list"
      PROVE  /\ stack'[k] = F("list", stack'[k].w)
             /\ stack'[k].w \notin Listed'
             /\ \A j \in 1..Len(stack') :
                   Knows(stack'[j], stack'[k].w) => j = k \/ j = k - 1
             /\ k >= 2 => /\ stack'[k - 1].op = "push"
                          /\ stack'[k - 1].w = stack'[k].w
                          /\ userdata'[stack'[k].w] = 0
             /\ k = 1 => userdata'[stack'[k].w] > 0
  <2>1. PICK j \in (n + 1)..Len(stack) :
           /\ k = m + j - n /\ j \in 1..Len(stack)
           /\ Same(stack'[k], stack[j])
           /\ stack[j].op \notin Walks => stack'[k] = stack[j]
    BY <1>2, Sizes, Place
  <2>2. stack[j].op = "list" /\ stack'[k] = stack[j]
    BY <1>2, <2>1 DEF Same, Walks
  <2> DEFINE c == stack[j].w
  <2>3. c \in Wrappers /\ life'[c] = "live"
    <3>1. (stack[k].op = "list" => stack[k].w \in Wrappers /\ life[stack[k].w] = "live")'
      BY <1>2 DEF Held, StackOK, FramesIn, FrameIn, FrameTyped
    <3>2. QED
      BY <1>2, <2>2, <3>1
  <2>4. /\ stack[j] = F("list", c) /\ c \notin Listed'
        /\ j = n + 1 => m = 0 /\ userdata'[c] > 0
        /\ j >= n + 2 => userdata'[c] = 0
        /\ \A i \in 1..Len(stack) : Knows(stack[i], c) => i = j \/ i = j - 1
        /\ j >= 2 => stack[j - 1].op = "push" /\ stack[j - 1].w = c
    BY <2>1, <2>2 DEF ListingOK, LeftOn
  <2> HIDE DEF c
  <2>5. ASSUME NEW l \in 1..Len(stack'), Knows(stack'[l], c)
        PROVE  l = k \/ l = k - 1
    <3>1. ~(l \in 1..m)
      BY <2>3, <2>4, <2>5
    <3>2. PICK i \in (n + 1)..Len(stack) :
             /\ l = m + i - n /\ i \in 1..Len(stack)
             /\ Same(stack'[l], stack[i])
      BY <3>1, Sizes, Place
    <3>3. i = j \/ i = j - 1
      BY <2>4, <2>5, <3>2 DEF Knows, Same
    <3>4. QED
      BY <1>1, <2>1, <3>2, <3>3
  <2>6. ASSUME k >= 2
        PROVE  /\ stack'[k - 1].op = "push" /\ stack'[k - 1].w = c
               /\ userdata'[c] = 0
    <3>1. j # n + 1
      BY <1>1, <2>1, <2>4, <2>6
    <3>2. j >= n + 2 /\ j >= 2 /\ j - 1 \in 1..Len(stack) /\ j - 1 > n
      BY <1>1, <2>1, <3>1
    <3>3. Same(stack'[m + (j - 1) - n], stack[j - 1])
      BY <1>1, <3>2, Stays
    <3>4. m + (j - 1) - n = k - 1
      BY <1>1, <2>1
    <3>5. QED
      BY <2>4, <3>2, <3>3, <3>4 DEF Same
  <2>7. ASSUME k = 1 PROVE userdata'[c] > 0
    <3>1. ~(j >= n + 2)
      BY <1>1, <2>1, <2>7
    <3>2. j = n + 1
      BY <1>1, <2>1, <3>1
    <3>3. QED
      BY <2>4, <3>2
  <2>8. QED
    BY <2>2, <2>4, <2>5, <2>6, <2>7 DEF c
<1>3. QED
  BY <1>2 DEF ListingOK

\* Results that were there, of wrappers that are as they were.
LEMMA WaitingKept ==
  ASSUME Held, Held', WaitingOK, NEW m, NEW n, Shape(m, n),
         NEW d \in [Wrappers -> Nat],
         \A v, c \in Wrappers : \A i \in Nat :
            Waits(v, i, c)' =>
               /\ Waits(v, i + d[v], c)
               /\ life'[c] = "live" /\ c \notin Listed' /\ userdata'[c] = 0,
         \A v, c \in Wrappers : \A i \in Nat :
            Waits(v, i, c)' => \A k \in 1..m : ~Knows(stack'[k], c)
  PROVE  WaitingOK'
<1>1. ASSUME NEW v \in Wrappers, NEW c \in Wrappers, NEW i \in Nat, Waits(v, i, c)'
      PROVE  /\ life'[c] = "live" /\ c \notin Listed' /\ userdata'[c] = 0
             /\ \A k \in 1..Len(stack') : ~Knows(stack'[k], c)
             /\ \A u \in Wrappers : \A j \in Nat :
                   Waits(u, j, c)' => u = v /\ j = i
  <2>1. /\ Waits(v, i + d[v], c) /\ i + d[v] \in Nat
        /\ life'[c] = "live" /\ c \notin Listed' /\ userdata'[c] = 0
    BY <1>1
  <2>2. /\ \A k \in 1..Len(stack) : ~Knows(stack[k], c)
        /\ \A u \in Wrappers : \A j \in Nat :
              Waits(u, j, c) => u = v /\ j = i + d[v]
    BY <2>1 DEF WaitingOK
  <2>3. ASSUME NEW k \in 1..Len(stack'), Knows(stack'[k], c) PROVE FALSE
    <3>1. ~(k \in 1..m)
      BY <1>1, <2>3
    <3>2. PICK j \in (n + 1)..Len(stack) :
             j \in 1..Len(stack) /\ Same(stack'[k], stack[j])
      BY <3>1, Sizes, Place
    <3>3. QED
      BY <2>2, <2>3, <3>2 DEF Knows, Same
  <2>4. ASSUME NEW u \in Wrappers, NEW j \in Nat, Waits(u, j, c)'
        PROVE  u = v /\ j = i
    <3>1. Waits(u, j + d[u], c) /\ j + d[u] \in Nat
      BY <2>4
    <3>2. u = v /\ j + d[u] = i + d[v]
      BY <2>2, <3>1
    <3>3. QED
      BY <3>2
  <2>5. QED
    BY <2>1, <2>3, <2>4
<1>2. QED
  BY <1>1 DEF WaitingOK, Live

\* A step that touches no list, life, userdata or result.
LEMMA QuietLists ==
  ASSUME Held, Held', Lists, UNCHANGED <<life, userdata, Sockets, Callbacks>>,
         NEW m, NEW n, Shape(m, n),
         \A k \in 1..n : stack[k].op = "list" => k >= 2,
         n < Len(stack) /\ stack[n + 1].op = "list" => m = 0 /\ n = 0,
         NEW fs, Calm(fs, life, Listed), Len(fs) = m,
         \A k \in 1..m : stack'[k] = fs[k]
  PROVE  Lists'
<1>1. /\ stack \in Seq(Frame) /\ Len(stack) \in Nat
      /\ n \in Nat /\ m \in Nat /\ n <= Len(stack)
  BY Sizes DEF Shape
<1>2. Listed' = Listed
  BY DEF Listed
<1>3. \A k \in 1..m :
         /\ stack'[k].op # "list"
         /\ \A c \in Wrappers :
               Knows(stack'[k], c) =>
                  life'[c] # "none" /\ (life'[c] = "live" => c \in Listed')
  BY <1>2 DEF Calm
<1>4. SocketsOK'
  BY <1>2 DEF Lists, SocketsOK, Live
<1>5. LivesOn
  BY <1>2 DEF LivesOn
<1>6. TakenOff(n)
  <2>1. ASSUME NEW k \in 1..n, stack[k].op = "list" PROVE userdata'[stack[k].w] = 0
    <3>1. k \in 1..Len(stack) /\ k >= 2
      BY <1>1, <2>1
    <3>2. QED
      BY <2>1, <3>1 DEF Lists, ListingOK
  <2>2. QED
    BY <2>1 DEF TakenOff
<1>7. LeftOn(m, n)
  <2>1. ASSUME NEW k \in (n + 1)..Len(stack), stack[k].op = "list"
        PROVE  /\ stack[k].w \notin Listed'
               /\ k = n + 1 => m = 0 /\ userdata'[stack[k].w] > 0
               /\ k >= n + 2 => userdata'[stack[k].w] = 0
    <3>1. /\ k \in 1..Len(stack) /\ n < Len(stack) /\ (k >= n + 2 => k >= 2)
          /\ k = n + 1 /\ n = 0 => k = 1
      BY <1>1
    <3>2. QED
      BY <1>2, <2>1, <3>1 DEF Lists, ListingOK
  <2>2. QED
    BY <2>1 DEF LeftOn
<1>8. ReachOK'
  BY <1>5, <1>6, ReachKept DEF Lists
<1>9. KnownOK'
  BY <1>3, <1>5, <1>6, KnownKept DEF Lists
<1>10. ListingOK'
  BY <1>3, <1>7, ListingKept DEF Lists
<1>11. WaitingOK'
  <2> DEFINE d == [v \in Wrappers |-> 0]
  <2>1. ASSUME NEW v \in Wrappers, NEW c \in Wrappers, NEW i \in Nat,
               Waits(v, i, c)'
        PROVE  /\ Waits(v, i + d[v], c)
               /\ life'[c] = "live" /\ c \notin Listed' /\ userdata'[c] = 0
    <3>1. Waits(v, i, c) /\ i + d[v] = i
      BY <2>1 DEF Waits
    <3>2. QED
      BY <1>2, <3>1 DEF Lists, WaitingOK, Live
  <2>2. d \in [Wrappers -> Nat]
    OBVIOUS
  <2> HIDE DEF d
  <2>3. \A v, c \in Wrappers : \A i \in Nat :
           Waits(v, i, c)' => \A k \in 1..m : ~Knows(stack'[k], c)
    BY <1>3, <2>1
  <2>4. QED
    BY <2>1, <2>2, <2>3, WaitingKept DEF Lists
<1>12. QED
  BY <1>4, <1>8, <1>9, <1>10, <1>11 DEF Lists

\* One that leaves the stack alone as well.
LEMMA IdleLists ==
  ASSUME Held, Held', Lists, UNCHANGED <<life, userdata, Sockets, Callbacks>>,
         stack' = stack
  PROVE  Lists'
<1>1. Shape(0, 0)
  BY Sizes, SameShape
<1>2. Calm(<<>>, life, Listed) /\ Len(<<>>) = 0
  BY CalmNone
<1>3. QED
  BY <1>1, <1>2, QuietLists

\* One that calls frames, when no PushToStack is to be followed by a list frame.
LEMMA RunLists ==
  ASSUME Held, Held', Lists, UNCHANGED <<life, userdata, Sockets, Callbacks>>,
         Top.op # "list", NEW fs \in Seq(Frame), Calm(fs, life, Listed), Run(fs)
  PROVE  Lists'
<1>1. Shape(Len(fs), 0) /\ \A k \in 1..Len(fs) : stack'[k] = fs[k]
  BY Sizes, RunShape
<1>2. ~(0 < Len(stack) /\ stack[0 + 1].op = "list")
  BY Sizes DEF Top
<1>3. QED
  BY <1>1, <1>2, QuietLists

LEMMA BecomeLists ==
  ASSUME Held, Held', Lists, UNCHANGED <<life, userdata, Sockets, Callbacks>>,
         Top.op \notin {"list", "push", "game"},
         NEW fs \in Seq(Frame), Calm(fs, life, Listed), Become(fs)
  PROVE  Lists'
<1>1. stack # <<>> /\ Top = stack[1]
  BY Sizes, TopIs
<1>2. Shape(Len(fs), 1) /\ \A k \in 1..Len(fs) : stack'[k] = fs[k]
  BY <1>1, Sizes, BecomeShape
<1>3. \A k \in 1..1 : stack[k].op = "list" => k >= 2
  BY <1>1
<1>4. ~(1 < Len(stack) /\ stack[1 + 1].op = "list")
  <2>1. ASSUME 1 < Len(stack), stack[2].op = "list" PROVE FALSE
    <3>1. 2 \in 1..Len(stack) /\ 2 - 1 = 1
      BY <2>1, Sizes
    <3>2. stack[1].op = "push"
      BY <2>1, <3>1 DEF Lists, ListingOK
    <3>3. QED
      BY <1>1, <3>2
  <2>2. QED
    BY <2>1
<1>5. QED
  BY <1>2, <1>3, <1>4, QuietLists

\* Whom a frame on top knows, if it is no PushToStack and lists nothing.
LEMMA TopKnows ==
  ASSUME Held, Lists, Top.op \notin {"list", "push", "game"},
         NEW c \in Wrappers, Knows(Top, c)
  PROVE  life[c] # "none" /\ (Live(c) => c \in Listed)
<1>1. /\ stack \in Seq(Frame) /\ Len(stack) \in Nat
      /\ 1 \in 1..Len(stack) /\ Top = stack[1]
  BY Sizes, TopIs
<1>2. life[c] # "none" /\ (Live(c) => c \in Listed \/ Listing(c))
  BY <1>1 DEF Lists, KnownOK
<1>3. ASSUME Listing(c) PROVE FALSE
  <2>1. PICK k \in 1..Len(stack) : stack[k].op = "list" /\ stack[k].w = c
    BY <1>3 DEF Listing
  <2>2. /\ 1 = k \/ 1 = k - 1
        /\ k >= 2 => stack[k - 1].op = "push"
    BY <1>1, <2>1 DEF Lists, ListingOK
  <2>3. QED
    BY <1>1, <2>1, <2>2
<1>4. QED
  BY <1>2, <1>3

\* A wrapper that a script has a userdata of is listed, if it lives.
LEMMA UsesListed ==
  ASSUME Held, Lists, Top.op # "list", NEW c \in Wrappers, userdata[c] > 0
  PROVE  life[c] # "none" /\ (Live(c) => c \in Listed)
<1>1. life[c] # "none" /\ (Live(c) => c \in Listed \/ Listing(c))
  BY DEF Held, CountOK, Kept, Live, Lists, ReachOK
<1>2. ASSUME Listing(c) PROVE FALSE
  <2>1. PICK k \in 1..Len(stack) : stack[k].op = "list" /\ stack[k].w = c
    BY <1>2 DEF Listing
  <2>2. k = 1
    <3>1. userdata[c] # 0
      BY DEF Held, DataOK
    <3>2. ~(k >= 2)
      BY <2>1, <3>1 DEF Lists, ListingOK
    <3>3. QED
      BY <3>2
  <2>3. Top = stack[1]
    BY <2>1, Sizes DEF Top
  <2>4. QED
    BY <2>1, <2>2, <2>3
<1>3. QED
  BY <1>1, <1>2

-----------------------------------------------------------------------------
(* The actions that leave lists, lives, userdata and results alone.          *)

LEMMA ThinkIs ==
  ASSUME NEW op \in {"think", "hook"}, NEW lf, NEW S
  PROVE  <<F(op, None)>> \in Seq(Frame) /\ Calm(<<F(op, None)>>, lf, S)
<1>1. F(op, None) \in Frame /\ F(op, None).op = op
  BY FrameIs DEF Ops
<1>2. \A c \in Wrappers : ~Knows(F(op, None), c)
  BY KnowsOne, WrapperAssumption DEF Ops
<1>3. QED
  BY <1>1, <1>2, CalmOne

LEMMA TickLists ==
  ASSUME Held, Held', Lists, Tick \/ ShutdownHook
  PROVE  Lists'
<1>1. /\ UNCHANGED <<life, userdata, Sockets, Callbacks>> /\ Top.op = "game"
      /\ Run(<<F("think", None)>>) \/ Run(<<F("hook", None)>>)
  BY DEF Tick, ShutdownHook, At, wrapper, queue
<1>2. QED
  BY <1>1, ThinkIs, RunLists

LEMMA StepLists ==
  ASSUME Held, Held', Lists, UNCHANGED <<life, userdata, Sockets, Callbacks>>,
         Top.op \in Walks, Top.i < Len(Sockets),
         NEW fs \in Seq(Frame), Calm(fs, life, Listed), Step(fs)
  PROVE  Lists'
<1>1. stack # <<>> /\ Top \in Frame
  BY Sizes, TopIs DEF Walks
<1> DEFINE n == Top.i + 1
           f == [Top EXCEPT !.i = n, !.w = Sockets[n],
                            !.done = @ \union {Sockets[n]}]
<1>2. n \in Nat /\ Sockets[n] \in Wrappers /\ Sockets[n] \in Listed
  <2>1. Sockets \in Seq(Wrappers)
    BY DEF Held, DataOK
  <2>2. Top.i \in Nat /\ Len(Sockets) \in Nat
    BY <1>1, <2>1, LenProperties DEF Frame
  <2>3. n \in 1..Len(Sockets) /\ DOMAIN Sockets = 1..Len(Sockets)
    BY <2>1, <2>2, LenProperties
  <2>4. QED
    BY <2>1, <2>2, <2>3, ElementOfSeq DEF Listed, ToSet
<1>3. Become(fs \o <<f>>)
  BY DEF Step
<1> HIDE DEF n
<1>4. f \in Frame /\ f.op = Top.op /\ f.w = Sockets[n] /\ f.o = Top.o
  BY <1>1, <1>2 DEF Frame
<1> HIDE DEF f
<1>5. ASSUME NEW c \in Wrappers, Knows(f, c)
      PROVE  life[c] # "none" /\ (life[c] = "live" => c \in Listed)
  <2>1. CASE c = Sockets[n]
    BY <1>2, <2>1 DEF Lists, SocketsOK, Live
  <2>2. CASE c = Top.o
    BY <2>2, TopKnows DEF Knows, Walks, Live
  <2>3. QED
    BY <1>4, <1>5, <2>1, <2>2 DEF Knows
<1>6. <<f>> \in Seq(Frame) /\ Calm(<<f>>, life, Listed)
  BY <1>4, <1>5, CalmOne DEF Walks
<1>7. fs \o <<f>> \in Seq(Frame) /\ Calm(fs \o <<f>>, life, Listed)
  BY <1>6, CalmPut
<1>8. QED
  BY <1>3, <1>7, BecomeLists DEF Walks

LEMMA ThinkNextLists ==
  ASSUME Held, Held', Lists, ThinkNext
  PROVE  Lists'
<1>1. /\ UNCHANGED <<life, userdata, Sockets, Callbacks>> /\ Top.op = "think"
      /\ IF Top.i < Len(Sockets) THEN Step(<<>>) ELSE Become(<<>>)
  BY DEF ThinkNext, At, wrapper, queue
<1>2. <<>> \in Seq(Frame) /\ Calm(<<>>, life, Listed)
  BY CalmNone
<1>3. CASE Top.i < Len(Sockets)
  BY <1>1, <1>2, <1>3, StepLists DEF Walks
<1>4. CASE ~(Top.i < Len(Sockets))
  BY <1>1, <1>2, <1>4, BecomeLists
<1>5. QED
  BY <1>3, <1>4

LEMMA HookNextLists ==
  ASSUME Held, Held', Lists, HookNext
  PROVE  Lists'
<1>1. UNCHANGED <<life, userdata, Sockets, Callbacks>> /\ Top.op = "hook"
  BY DEF HookNext, At, wrapper, queue
<1>2. CASE Top.i < Len(Sockets)
  <2> DEFINE w == Sockets[Top.i + 1]
  <2>1. Step(Disconnect(w) \o <<F("reset", w)>>)
    BY <1>2 DEF HookNext
  <2>2. w \in Wrappers /\ w \in Listed
    <3>1. Sockets \in Seq(Wrappers) /\ Top \in Frame
      BY <1>1, Sizes, TopIs DEF Held, DataOK
    <3>2. Top.i \in Nat /\ Len(Sockets) \in Nat
      BY <3>1, LenProperties DEF Frame
    <3>3. Top.i + 1 \in 1..Len(Sockets) /\ DOMAIN Sockets = 1..Len(Sockets)
      BY <1>2, <3>1, <3>2, LenProperties
    <3>4. QED
      BY <3>1, <3>2, <3>3, ElementOfSeq DEF Listed, ToSet
  <2> HIDE DEF w
  <2>3. life[w] # "none" /\ (life[w] = "live" => w \in Listed)
    BY <2>2 DEF Lists, SocketsOK, Live
  <2>4. <<F("reset", w)>> \in Seq(Frame) /\ Calm(<<F("reset", w)>>, life, Listed)
    <3>1. F("reset", w) \in Frame /\ F("reset", w).op = "reset"
      BY <2>2, FrameIs DEF Ops
    <3>2. \A c \in Wrappers : Knows(F("reset", w), c) => c = w
      BY <2>2, KnowsOne DEF Ops
    <3>3. QED
      BY <2>3, <3>1, <3>2, CalmOne
  <2>5. /\ Disconnect(w) \o <<F("reset", w)>> \in Seq(Frame)
        /\ Calm(Disconnect(w) \o <<F("reset", w)>>, life, Listed)
    BY <2>2, <2>3, <2>4, CalmDisconnect, CalmPut
  <2>6. QED
    BY <1>1, <1>2, <2>1, <2>5, StepLists DEF Walks
<1>3. CASE ~(Top.i < Len(Sockets))
  <2>1. Become(<<F("think", None)>>)
    BY <1>3 DEF HookNext
  <2>2. QED
    BY <1>1, <2>1, ThinkIs, BecomeLists
<1>4. QED
  BY <1>2, <1>3

LEMMA ReturnLists ==
  ASSUME Held, Held', Lists, Reset \/ LuaReturn
  PROVE  Lists'
<1>1. /\ UNCHANGED <<life, userdata, Sockets, Callbacks>> /\ Become(<<>>)
      /\ Top.op \in {"reset", "close", "lua"}
  BY DEF Reset, LuaReturn, At, wrapper, queue
<1>2. QED
  BY <1>1, CalmNone, BecomeLists

LEMMA LuaCloseLists ==
  ASSUME Held, Held', Lists, NEW w \in Wrappers, LuaClose(w)
  PROVE  Lists'
<1>1. /\ UNCHANGED <<life, userdata, Sockets, Callbacks>>
      /\ Run(Disconnect(w) \o <<F("close", w)>>)
      /\ Top.op \in {"lua", "game"} /\ userdata[w] > 0
  BY DEF LuaClose, Uses, InScript, At, wrapper, queue
<1>2. life[w] # "none" /\ (life[w] = "live" => w \in Listed)
  BY <1>1, UsesListed DEF Live
<1>3. <<F("close", w)>> \in Seq(Frame) /\ Calm(<<F("close", w)>>, life, Listed)
  <2>1. F("close", w) \in Frame /\ F("close", w).op = "close"
    BY FrameIs DEF Ops
  <2>2. \A c \in Wrappers : Knows(F("close", w), c) => c = w
    BY KnowsOne DEF Ops
  <2>3. QED
    BY <1>2, <2>1, <2>2, CalmOne
<1>4. /\ Disconnect(w) \o <<F("close", w)>> \in Seq(Frame)
      /\ Calm(Disconnect(w) \o <<F("close", w)>>, life, Listed)
  BY <1>2, <1>3, CalmDisconnect, CalmPut
<1>5. QED
  BY <1>1, <1>4, RunLists

LEMMA DestroyLists ==
  ASSUME Held, Held', Lists, Destroy \/ DestroyLower \/ DestroyLock
  PROVE  Lists'
<1>1. /\ UNCHANGED <<life, userdata, Sockets, Callbacks>>
      /\ Top.op \in {"destroy", "lower", "lock"}
      /\ \/ Become(<<F("think", None), F("free", Top.w)>>)
         \/ \E op \in {"lower", "lock"} : Become(<<F(op, Top.w)>>)
  BY DEF Destroy, DestroyLower, DestroyLock, At, wrapper, queue
<1>2. Top.w \in Wrappers /\ life[Top.w] \in {"dying", "deleted"}
  BY <1>1, TopIn DEF Held, FrameIn, FrameTyped, Destructor
<1>3. CASE Become(<<F("think", None), F("free", Top.w)>>)
  <2>1. /\ F("think", None) \in Frame /\ F("think", None).op = "think"
        /\ F("free", Top.w) \in Frame /\ F("free", Top.w).op = "free"
    BY <1>2, FrameIs DEF Ops, Destructor
  <2>2. \A c \in Wrappers :
           Knows(F("think", None), c) \/ Knows(F("free", Top.w), c) => c = Top.w
    BY <1>2, KnowsOne, WrapperAssumption DEF Ops, Destructor
  <2>3. /\ <<F("think", None), F("free", Top.w)>> \in Seq(Frame)
        /\ Calm(<<F("think", None), F("free", Top.w)>>, life, Listed)
    BY <1>2, <2>1, <2>2, CalmTwo
  <2>4. QED
    BY <1>1, <1>3, <2>3, BecomeLists
<1>4. ASSUME NEW op \in {"lower", "lock"}, Become(<<F(op, Top.w)>>)
      PROVE  Lists'
  <2>1. F(op, Top.w) \in Frame /\ F(op, Top.w).op = op
    BY <1>2, FrameIs DEF Ops, Destructor
  <2>2. \A c \in Wrappers : Knows(F(op, Top.w), c) => c = Top.w
    BY <1>2, KnowsOne DEF Ops, Destructor
  <2>3. <<F(op, Top.w)>> \in Seq(Frame) /\ Calm(<<F(op, Top.w)>>, life, Listed)
    BY <1>2, <2>1, <2>2, CalmOne
  <2>4. QED
    BY <1>1, <1>4, <2>3, BecomeLists
<1>5. QED
  BY <1>1, <1>3, <1>4

LEMMA UnwindLists ==
  ASSUME Held, Held', Lists, Unwind
  PROVE  Lists'
<1>1. /\ UNCHANGED <<life, userdata, Sockets, Callbacks>>
      /\ Top.op \in {"lua", "throw"}
  BY DEF Unwind, At, wrapper, queue
<1>2. Len(stack) \in Nat /\ Top = stack[1]
  BY <1>1, Sizes, TopIs
<1>3. PICK n \in 1..Len(stack) :
         Shape(0, n) /\ (n < Len(stack) => stack[n + 1].op = "lua")
  BY Sizes, UnwindShape
<1>4. \A k \in 1..n : stack[k].op = "list" => k >= 2
  BY <1>1, <1>2
<1>5. Calm(<<>>, life, Listed) /\ Len(<<>>) = 0
  BY CalmNone
<1>6. QED
  BY <1>1, <1>3, <1>4, <1>5, QuietLists

LEMMA WorksLists ==
  ASSUME Held, Held', Lists, NEW w \in Wrappers, NEW type \in Requests,
         \/ LuaStart(w) \/ LuaRequest(w, type) \/ WorkerStart(w)
         \/ WorkerStop(w) \/ Lose
  PROVE  Lists'
<1>1. UNCHANGED <<life, userdata, Sockets, Callbacks, stack>>
  BY DEF LuaStart, LuaRequest, WorkerStart, WorkerStop, Lose, wrapper, queue
<1>2. QED
  BY <1>1, IdleLists

-----------------------------------------------------------------------------
(* The actions that list or erase, make or delete, push or hand on results.  *)

LEMMA AppendListed ==
  ASSUME Sockets \in Seq(Wrappers), Distinct(Sockets), NEW c \in Wrappers,
         c \notin Listed, Sockets' = Append(Sockets, c)
  PROVE  Distinct(Sockets') /\ Listed' = Listed \union {c}
<1>1. /\ Len(Sockets) \in Nat /\ DOMAIN Sockets = 1..Len(Sockets)
      /\ Len(Sockets') = Len(Sockets) + 1
      /\ \A i \in 1..Len(Sockets) : Sockets'[i] = Sockets[i]
      /\ Sockets'[Len(Sockets) + 1] = c
      /\ DOMAIN Sockets' = 1..(Len(Sockets) + 1)
  BY LenProperties, AppendProperties
<1>2. \A i \in 1..Len(Sockets) : Sockets[i] # c
  BY <1>1 DEF Listed, ToSet
<1>3. \A i \in 1..(Len(Sockets) + 1) : i \in 1..Len(Sockets) \/ i = Len(Sockets) + 1
  BY <1>1
<1>4. Distinct(Sockets')
  <2>1. ASSUME NEW i \in 1..Len(Sockets'), NEW j \in 1..Len(Sockets'),
               Sockets'[i] = Sockets'[j]
        PROVE  i = j
    <3>1. /\ i \in 1..Len(Sockets) \/ i = Len(Sockets) + 1
          /\ j \in 1..Len(Sockets) \/ j = Len(Sockets) + 1
      BY <1>1, <1>3
    <3>2. CASE i \in 1..Len(Sockets) /\ j \in 1..Len(Sockets)
      BY <1>1, <2>1, <3>2 DEF Distinct
    <3>3. QED
      BY <1>1, <1>2, <2>1, <3>1, <3>2
  <2>2. QED
    BY <2>1 DEF Distinct
<1>5. Listed' = Listed \union {c}
  <2>1. ASSUME NEW x \in Listed' PROVE x \in Listed \union {c}
    <3>1. PICK i \in 1..(Len(Sockets) + 1) : x = Sockets'[i]
      BY <1>1, <2>1 DEF Listed, ToSet
    <3>2. QED
      BY <1>1, <1>3, <3>1 DEF Listed, ToSet
  <2>2. ASSUME NEW x \in Listed PROVE x \in Listed'
    <3>1. PICK i \in 1..Len(Sockets) : x = Sockets[i]
      BY <1>1, <2>2 DEF Listed, ToSet
    <3>2. i \in DOMAIN Sockets' /\ Sockets'[i] = x
      BY <1>1, <3>1
    <3>3. QED
      BY <3>2 DEF Listed, ToSet
  <2>3. c \in Listed'
    <3>1. Len(Sockets) + 1 \in DOMAIN Sockets' /\ Sockets'[Len(Sockets) + 1] = c
      BY <1>1
    <3>2. QED
      BY <3>1 DEF Listed, ToSet
  <2>4. QED
    BY <2>1, <2>2, <2>3
<1>6. QED
  BY <1>4, <1>5

LEMMA EraseListed ==
  ASSUME Sockets \in Seq(Wrappers), Distinct(Sockets), NEW c \in Wrappers,
         Sockets' = RemoveFirst(Sockets, c)
  PROVE  Distinct(Sockets') /\ Listed' = Listed \ {c}
<1>1. ToSet(RemoveFirst(Sockets, c)) = ToSet(Sockets) \ {c}
  BY RemoveFirstRange
<1>2. Distinct(RemoveFirst(Sockets, c))
  BY RemoveFirstDistinct
<1>3. QED
  BY <1>1, <1>2 DEF Listed

\* A step whose new frames work on nothing that lives and is not listed.
LEMMA CalmLists ==
  ASSUME Held, Held', Lists, SocketsOK', LivesOn,
         NEW m, NEW n, Shape(m, n), TakenOff(n), LeftOn(m, n),
         NEW fs, Calm(fs, life', Listed'), Len(fs) = m,
         \A k \in 1..m : stack'[k] = fs[k],
         \A c \in Wrappers :
            userdata'[c] > 0 =>
               \/ userdata[c] > 0 \/ c \in Listed'
               \/ \E k \in 1..Len(stack) : Knows(stack[k], c),
         NEW d \in [Wrappers -> Nat],
         \A v, c \in Wrappers : \A i \in Nat :
            Waits(v, i, c)' =>
               /\ Waits(v, i + d[v], c)
               /\ life'[c] = "live" /\ c \notin Listed' /\ userdata'[c] = 0
  PROVE  Lists'
<1>1. \A k \in 1..m :
         /\ stack'[k].op # "list"
         /\ \A c \in Wrappers :
               Knows(stack'[k], c) =>
                  life'[c] # "none" /\ (life'[c] = "live" => c \in Listed')
  BY DEF Calm
<1>2. ReachOK'
  BY ReachKept DEF Lists
<1>3. KnownOK'
  BY <1>1, KnownKept DEF Lists
<1>4. ListingOK'
  BY <1>1, ListingKept DEF Lists
<1>5. WaitingOK'
  <2>1. \A v, c \in Wrappers : \A i \in Nat :
           Waits(v, i, c)' => \A k \in 1..m : ~Knows(stack'[k], c)
    BY <1>1
  <2>2. QED
    BY <2>1, WaitingKept DEF Lists
<1>6. QED
  BY <1>2, <1>3, <1>4, <1>5 DEF Lists

\* The results that were there stay, each where it is.
LEMMA NoneMoved ==
  ASSUME Callbacks' = Callbacks,
         \A v, c \in Wrappers : \A i \in Nat :
            Waits(v, i, c) =>
               life'[c] = "live" /\ c \notin Listed' /\ userdata'[c] = 0
  PROVE  \E d \in [Wrappers -> Nat] :
            \A v, c \in Wrappers : \A i \in Nat :
               Waits(v, i, c)' =>
                  /\ Waits(v, i + d[v], c)
                  /\ life'[c] = "live" /\ c \notin Listed' /\ userdata'[c] = 0
<1> DEFINE d == [v \in Wrappers |-> 0]
<1>1. ASSUME NEW v \in Wrappers, NEW c \in Wrappers, NEW i \in Nat,
             Waits(v, i, c)'
      PROVE  /\ Waits(v, i + d[v], c)
             /\ life'[c] = "live" /\ c \notin Listed' /\ userdata'[c] = 0
  <2>1. Waits(v, i, c) /\ i + d[v] = i
    BY <1>1 DEF Waits
  <2>2. QED
    BY <2>1
<1>2. d \in [Wrappers -> Nat]
  OBVIOUS
<1> HIDE DEF d
<1>3. QED
  BY <1>1, <1>2

\* The frames of one operation on one wrapper.
LEMMA CalmFrame ==
  ASSUME NEW lf, NEW S, NEW op \in Ops, op # "list", NEW w \in Wrappers,
         lf[w] # "none" /\ (lf[w] = "live" => w \in S)
  PROVE  /\ <<F(op, w)>> \in Seq(Frame) /\ Calm(<<F(op, w)>>, lf, S)
         /\ Len(<<F(op, w)>>) = 1 /\ <<F(op, w)>>[1] = F(op, w)
<1>1. F(op, w) \in Frame /\ F(op, w).op = op
  BY FrameIs
<1>2. \A c \in Wrappers : Knows(F(op, w), c) => c = w
  BY KnowsOne
<1>3. <<F(op, w)>> \in Seq(Frame) /\ Calm(<<F(op, w)>>, lf, S)
  BY <1>1, <1>2, CalmOne
<1>4. QED
  BY <1>3

\* CreateSocket
LEMMA LuaBromSockLists ==
  ASSUME Held, Held', Lists, NEW w \in Wrappers, LuaBromSock(w)
  PROVE  Lists'
<1>1. /\ UNCHANGED <<userdata, Callbacks>> /\ Top.op \in {"lua", "game"}
      /\ life[w] = "none" /\ life' = [life EXCEPT ![w] = "live"]
      /\ Sockets' = Append(Sockets, w) /\ Run(<<F("push", w)>>)
  BY DEF LuaBromSock, InScript, At, Allocate, queue
<1>2. w \notin Listed
  BY <1>1 DEF Lists, SocketsOK, Live
<1>3. Distinct(Sockets') /\ Listed' = Listed \union {w}
  BY <1>1, <1>2, AppendListed DEF Held, DataOK, Lists, SocketsOK
<1>4. life'[w] = "live" /\ \A c \in Wrappers : c # w => life'[c] = life[c]
  BY <1>1 DEF Held, DataOK
<1>5. SocketsOK'
  BY <1>3, <1>4 DEF Lists, SocketsOK, Live
<1> DEFINE fs == <<F("push", w)>>
<1>6. fs \in Seq(Frame) /\ Calm(fs, life', Listed') /\ Run(fs)
  BY <1>1, <1>3, <1>4, CalmFrame DEF Ops, Destructor
<1> HIDE DEF fs
<1>7. Shape(Len(fs), 0) /\ \A k \in 1..Len(fs) : stack'[k] = fs[k]
  BY <1>6, Sizes, RunShape
<1>8. LivesOn
  BY <1>1, <1>3, <1>4 DEF LivesOn
<1>9. TakenOff(0)
  BY DEF TakenOff
<1>10. LeftOn(Len(fs), 0)
  <2>1. ASSUME NEW k \in 1..Len(stack), stack[k].op = "list"
        PROVE  /\ stack[k].w \notin Listed' /\ k # 1
               /\ k >= 2 => userdata'[stack[k].w] = 0
    <3>1. stack[k].w # w
      BY <1>1, <2>1, ListIs
    <3>2. k # 1
      BY <1>1, <2>1, Sizes DEF Top
    <3>3. QED
      BY <1>1, <1>3, <2>1, <3>1, <3>2 DEF Lists, ListingOK
  <2>2. QED
    BY <2>1, Sizes DEF LeftOn
<1>11. ASSUME NEW v \in Wrappers, NEW c \in Wrappers, NEW i \in Nat,
              Waits(v, i, c)
       PROVE  life'[c] = "live" /\ c \notin Listed' /\ userdata'[c] = 0
  <2>1. Live(c) /\ c \notin Listed /\ userdata[c] = 0
    BY <1>11 DEF Lists, WaitingOK
  <2>2. QED
    BY <1>1, <1>3, <1>4, <2>1 DEF Live
<1>12. \A c \in Wrappers : userdata'[c] = userdata[c]
  BY <1>1
<1>13. PICK d \in [Wrappers -> Nat] :
          \A v, c \in Wrappers : \A i \in Nat :
             Waits(v, i, c)' =>
                /\ Waits(v, i + d[v], c)
                /\ life'[c] = "live" /\ c \notin Listed' /\ userdata'[c] = 0
  BY <1>1, <1>11, NoneMoved
<1>14. QED
  BY <1>5, <1>6, <1>7, <1>8, <1>9, <1>10, <1>12, <1>13, CalmLists

\* A wrapper that the result of an Accept waits to bring is not this one.
LEMMA WaitingIs ==
  ASSUME Lists, NEW v \in Wrappers, NEW c \in Wrappers, NEW i \in Nat,
         Waits(v, i, c)
  PROVE  /\ life[c] = "live" /\ c \notin Listed /\ userdata[c] = 0
         /\ \A k \in 1..Len(stack) : ~Knows(stack[k], c)
         /\ \A u \in Wrappers : \A j \in Nat : Waits(u, j, c) => u = v /\ j = i
  BY DEF Lists, WaitingOK, Live

LEMMA LuaAcceptFailsLists ==
  ASSUME Held, Held', Lists, NEW w \in Wrappers, NEW c \in Wrappers,
         LuaAcceptFails(w, c)
  PROVE  Lists'
<1>1. /\ UNCHANGED <<userdata, Callbacks, Sockets>> /\ Top.op \in {"lua", "game"}
      /\ life[c] = "none" /\ life' = [life EXCEPT ![c] = "dying"]
      /\ Run(<<F("destroy", c)>>)
  BY DEF LuaAcceptFails, Uses, InScript, At, queue
<1>2. Listed' = Listed /\ c \notin Listed
  BY <1>1 DEF Lists, SocketsOK, Live, Listed
<1>3. life'[c] = "dying" /\ \A x \in Wrappers : x # c => life'[x] = life[x]
  BY <1>1 DEF Held, DataOK
<1>4. SocketsOK'
  BY <1>1, <1>2, <1>3 DEF Lists, SocketsOK, Live
<1> DEFINE fs == <<F("destroy", c)>>
<1>5. fs \in Seq(Frame) /\ Calm(fs, life', Listed') /\ Run(fs)
  BY <1>1, <1>3, CalmFrame DEF Ops, Destructor
<1> HIDE DEF fs
<1>6. Shape(Len(fs), 0) /\ \A k \in 1..Len(fs) : stack'[k] = fs[k]
  BY <1>5, Sizes, RunShape
<1>7. LivesOn
  BY <1>1, <1>2, <1>3 DEF LivesOn
<1>8. TakenOff(0)
  BY DEF TakenOff
<1>9. LeftOn(Len(fs), 0)
  <2>1. ASSUME NEW k \in 1..Len(stack), stack[k].op = "list"
        PROVE  /\ stack[k].w \notin Listed' /\ k # 1
               /\ k >= 2 => userdata'[stack[k].w] = 0
    <3>1. k # 1
      BY <1>1, <2>1, Sizes DEF Top
    <3>2. QED
      BY <1>1, <1>2, <2>1, <3>1 DEF Lists, ListingOK
  <2>2. QED
    BY <2>1, Sizes DEF LeftOn
<1>10. \A v, x \in Wrappers : \A i \in Nat :
          Waits(v, i, x) =>
             life'[x] = "live" /\ x \notin Listed' /\ userdata'[x] = 0
  BY <1>1, <1>2, <1>3, WaitingIs
<1>11. PICK d \in [Wrappers -> Nat] :
          \A v, x \in Wrappers : \A i \in Nat :
             Waits(v, i, x)' =>
                /\ Waits(v, i + d[v], x)
                /\ life'[x] = "live" /\ x \notin Listed' /\ userdata'[x] = 0
  BY <1>1, <1>10, NoneMoved
<1>12. \A x \in Wrappers : userdata'[x] = userdata[x]
  BY <1>1
<1>13. QED
  BY <1>4, <1>5, <1>6, <1>7, <1>8, <1>9, <1>11, <1>12, CalmLists

\* __gc
LEMMA CollectLists ==
  ASSUME Held, Held', Lists, NEW w \in Wrappers, Collect(w)
  PROVE  Lists'
<1>1. /\ Callbacks' = Callbacks /\ Top.op # "list"
      /\ userdata' = [userdata EXCEPT ![w] = @ - 1]
  BY DEF Collect, Collecting, queue
<1>2. userdata[w] > 0 /\ userdata[w] \in Nat
  <2>1. userdata[w] \in Nat /\ userdata'[w] \in Nat /\ userdata'[w] = userdata[w] - 1
    BY <1>1 DEF Held, DataOK
  <2>2. QED
    BY <2>1
<1>3. \A c \in Wrappers : c # w => userdata'[c] = userdata[c]
  BY <1>1 DEF Held, DataOK
<1>4. \A c \in Wrappers : userdata'[c] > 0 => userdata[c] > 0
  BY <1>2, <1>3
<1>5. ASSUME NEW v \in Wrappers, NEW c \in Wrappers, NEW i \in Nat, Waits(v, i, c)
      PROVE  /\ c # w /\ life[c] = "live" /\ c \notin Listed /\ userdata'[c] = 0
  BY <1>2, <1>3, <1>5, WaitingIs
<1>6. ASSUME NEW k \in 1..Len(stack), stack[k].op = "list"
      PROVE  /\ stack[k].w \notin Listed /\ k # 1
             /\ k >= 2 => userdata'[stack[k].w] = 0
  <2>1. k # 1
    BY <1>1, <1>6, Sizes DEF Top
  <2>2. stack[k].w \in Wrappers
    BY <1>6, ListIs
  <2>3. QED
    BY <1>2, <1>3, <1>6, <2>1, <2>2 DEF Lists, ListingOK
<1>7. CASE RefCount'[w] = 0 /\ CurrentWorkers[w] = 0
  <2>1. /\ Delete(w) /\ life' = [life EXCEPT ![w] = "dying"]
        /\ Sockets' = RemoveFirst(Sockets, w)
    BY <1>7 DEF Collect, Delete
  <2>2. Distinct(Sockets') /\ Listed' = Listed \ {w}
    BY <2>1, EraseListed DEF Held, DataOK, Lists, SocketsOK
  <2>3. life'[w] = "dying" /\ \A x \in Wrappers : x # w => life'[x] = life[x]
    BY <2>1 DEF Held, DataOK
  <2>4. SocketsOK'
    BY <2>2, <2>3 DEF Lists, SocketsOK, Live
  <2> DEFINE fs == <<F("destroy", w)>>
  <2>5. /\ Calm(fs, life', Listed') /\ Len(fs) = 1 /\ fs[1] = F("destroy", w)
    BY <2>3, CalmFrame DEF Ops, Destructor
  <2> HIDE DEF fs
  <2>6. Shape(1, 0) /\ \A k \in 1..1 : stack'[k] = fs[k]
    <3>1. Shape(1, 0) /\ stack'[1] = F("destroy", w)
      BY <2>1, Sizes, DeleteShape
    <3>2. \A k \in 1..1 : k = 1
      OBVIOUS
    <3>3. QED
      BY <2>5, <3>1, <3>2
  <2>7. LivesOn
    <3>1. life[w] # "none"
      BY <1>2 DEF Held, CountOK, Kept, Live
    <3>2. QED
      BY <2>2, <2>3, <3>1 DEF LivesOn
  <2>8. TakenOff(0)
    BY DEF TakenOff
  <2>9. LeftOn(1, 0)
    BY <1>6, <2>2, Sizes DEF LeftOn
  <2>10. \A v, c \in Wrappers : \A i \in Nat :
            Waits(v, i, c) =>
               life'[c] = "live" /\ c \notin Listed' /\ userdata'[c] = 0
    BY <1>5, <2>2, <2>3
  <2>11. PICK d \in [Wrappers -> Nat] :
            \A v, c \in Wrappers : \A i \in Nat :
               Waits(v, i, c)' =>
                  /\ Waits(v, i + d[v], c)
                  /\ life'[c] = "live" /\ c \notin Listed' /\ userdata'[c] = 0
    BY <1>1, <2>10, NoneMoved
  <2>12. QED
    BY <1>4, <2>4, <2>5, <2>6, <2>7, <2>8, <2>9, <2>11, CalmLists
<1>8. CASE ~(RefCount'[w] = 0 /\ CurrentWorkers[w] = 0)
  <2>1. UNCHANGED <<Sockets, stack, life>>
    BY <1>8 DEF Collect
  <2>2. Listed' = Listed
    BY <2>1 DEF Listed
  <2>3. SocketsOK'
    BY <2>1, <2>2 DEF Lists, SocketsOK, Live
  <2>4. Calm(<<>>, life', Listed') /\ Len(<<>>) = 0
    BY CalmNone
  <2>5. Shape(0, 0) /\ \A k \in 1..0 : stack'[k] = <<>>[k]
    BY <2>1, Sizes, SameShape
  <2>6. LivesOn /\ TakenOff(0)
    BY <2>1, <2>2 DEF LivesOn, TakenOff
  <2>7. LeftOn(0, 0)
    BY <1>6, <2>2, Sizes DEF LeftOn
  <2>8. \A v, c \in Wrappers : \A i \in Nat :
           Waits(v, i, c) =>
              life'[c] = "live" /\ c \notin Listed' /\ userdata'[c] = 0
    BY <1>5, <2>1, <2>2
  <2>9. PICK d \in [Wrappers -> Nat] :
           \A v, c \in Wrappers : \A i \in Nat :
              Waits(v, i, c)' =>
                 /\ Waits(v, i + d[v], c)
                 /\ life'[c] = "live" /\ c \notin Listed' /\ userdata'[c] = 0
    BY <1>1, <2>8, NoneMoved
  <2>10. QED
    BY <1>4, <2>3, <2>4, <2>5, <2>6, <2>7, <2>9, CalmLists
<1>9. QED
  BY <1>7, <1>8

LEMMA PushToStackLists ==
  ASSUME Held, Held', Lists, PushToStack
  PROVE  Lists'
<1> DEFINE w == Top.w
<1>1. /\ UNCHANGED <<life, Sockets, Callbacks>>
      /\ Top.op \in {"push", "both", "client"}
      /\ userdata' = [userdata EXCEPT ![w] = @ + 1]
  BY DEF PushToStack, Push, At, queue
<1>2. stack # <<>> /\ 1 \in 1..Len(stack) /\ Top = stack[1] /\ w \in Wrappers
  <2>1. stack # <<>> /\ 1 \in DOMAIN stack /\ Top = stack[1]
    BY <1>1, Sizes, TopIs
  <2>2. w \in Wrappers
    BY <1>1, TopIn DEF Held, FrameIn, FrameTyped, Destructor
  <2>3. QED
    BY <2>1, <2>2, Sizes, LenProperties
<1>3. Knows(stack[1], w)
  BY <1>2 DEF Knows
<1> HIDE DEF w
<1>4. userdata'[w] > 0 /\ \A c \in Wrappers : c # w => userdata'[c] = userdata[c]
  <2>1. userdata[w] \in Nat /\ userdata'[w] = userdata[w] + 1
    BY <1>1, <1>2 DEF Held, DataOK
  <2>2. QED
    BY <1>1, <2>1 DEF Held, DataOK
<1>5. Listed' = Listed
  BY <1>1 DEF Listed
<1>6. SocketsOK' /\ LivesOn
  BY <1>1, <1>5 DEF Lists, SocketsOK, Live, LivesOn
<1>7. \E fs \in Seq(Frame) :
         /\ Become(fs) /\ Calm(fs, life', Listed')
         /\ Top.op = "push" => Len(fs) = 0
  <2>1. CASE Top.op \in {"push", "client"} /\ Become(<<>>)
    <3>1. <<>> \in Seq(Frame) /\ Len(<<>>) = 0 /\ Calm(<<>>, life', Listed')
      BY CalmNone
    <3>2. QED
      BY <2>1, <3>1
  <2>2. CASE Top.op = "both" /\ Become(<<[F("client", Top.o) EXCEPT !.o = w]>>)
    <3> DEFINE f == [F("client", Top.o) EXCEPT !.o = w]
    <3>1. Top.o \in Wrappers
      BY <2>2, TopIn DEF Held, FrameIn, FrameTyped, Destructor
    <3>2. f \in Frame /\ f.op = "client" /\ f.w = Top.o /\ f.o = w
      <4>1. F("client", Top.o) \in Frame
        BY <3>1, FrameIs DEF Ops
      <4>2. QED
        BY <1>2, <4>1 DEF Frame, F
    <3> HIDE DEF f
    <3>3. \A c \in Wrappers : Knows(f, c) => Knows(Top, c)
      BY <3>2 DEF Knows, w
    <3>4. \A c \in Wrappers :
             Knows(Top, c) =>
                life'[c] # "none" /\ (life'[c] = "live" => c \in Listed')
      BY <1>1, <1>5, <2>2, TopKnows DEF Live
    <3>5. <<f>> \in Seq(Frame) /\ Calm(<<f>>, life', Listed')
      BY <3>2, <3>3, <3>4, CalmOne
    <3>6. QED
      BY <2>2, <3>5 DEF f
  <2>3. QED
    BY <2>1, <2>2 DEF PushToStack, At, w
<1>8. PICK fs \in Seq(Frame) :
         /\ Become(fs) /\ Calm(fs, life', Listed')
         /\ Top.op = "push" => Len(fs) = 0
  BY <1>7
<1>9. Shape(Len(fs), 1) /\ \A k \in 1..Len(fs) : stack'[k] = fs[k]
  BY <1>2, <1>8, Sizes, BecomeShape
<1>10. TakenOff(1)
  BY <1>1, <1>2 DEF TakenOff
<1>11. LeftOn(Len(fs), 1)
  <2>1. ASSUME NEW k \in 2..Len(stack), stack[k].op = "list"
        PROVE  /\ stack[k].w \notin Listed'
               /\ k = 2 => Len(fs) = 0 /\ userdata'[stack[k].w] > 0
               /\ k >= 3 => userdata'[stack[k].w] = 0
    <3>1. k \in 1..Len(stack) /\ k >= 2
      BY Sizes
    <3>2. /\ stack[k].w \notin Listed /\ stack[k].w \in Wrappers
          /\ \A j \in 1..Len(stack) :
                Knows(stack[j], stack[k].w) => j = k \/ j = k - 1
          /\ stack[k - 1].op = "push" /\ stack[k - 1].w = stack[k].w
          /\ userdata[stack[k].w] = 0
      BY <2>1, <3>1, ListIs DEF Lists, ListingOK
    <3>3. k = 2 => Len(fs) = 0 /\ userdata'[stack[k].w] > 0
      <4>1. k = 2 => k - 1 = 1
        OBVIOUS
      <4>2. Top.w = w
        BY DEF w
      <4>3. QED
        BY <1>2, <1>4, <1>8, <3>2, <4>1, <4>2
    <3>4. ASSUME k >= 3 PROVE userdata'[stack[k].w] = 0
      <4>1. stack[k].w # w
        BY <1>2, <1>3, <3>2, <3>4
      <4>2. QED
        BY <1>4, <3>2, <4>1
    <3>5. QED
      BY <1>5, <3>2, <3>3, <3>4
  <2>2. QED
    BY <2>1 DEF LeftOn
<1>12. \A c \in Wrappers :
          userdata'[c] > 0 =>
             userdata[c] > 0 \/ \E k \in 1..Len(stack) : Knows(stack[k], c)
  BY <1>2, <1>3, <1>4
<1>13. \A v, c \in Wrappers : \A i \in Nat :
          Waits(v, i, c) =>
             life'[c] = "live" /\ c \notin Listed' /\ userdata'[c] = 0
  BY <1>1, <1>2, <1>3, <1>4, <1>5, WaitingIs
<1>14. PICK d \in [Wrappers -> Nat] :
          \A v, c \in Wrappers : \A i \in Nat :
             Waits(v, i, c)' =>
                /\ Waits(v, i + d[v], c)
                /\ life'[c] = "live" /\ c \notin Listed' /\ userdata'[c] = 0
  BY <1>1, <1>13, NoneMoved
<1>15. QED
  BY <1>6, <1>8, <1>9, <1>10, <1>11, <1>12, <1>14, CalmLists

\* SOCK_Accept lists the client that it has pushed.
LEMMA AcceptListLists ==
  ASSUME Held, Held', Lists, AcceptList
  PROVE  Lists'
<1> DEFINE w == Top.w
<1>1. /\ UNCHANGED <<life, userdata, Callbacks>> /\ Top.op = "list"
      /\ Sockets' = Append(Sockets, w) /\ Become(<<>>)
  BY DEF AcceptList, At, wrapper, queue
<1>2. stack # <<>> /\ 1 \in 1..Len(stack) /\ Top = stack[1]
  <2>1. stack # <<>> /\ 1 \in DOMAIN stack /\ Top = stack[1]
    BY <1>1, Sizes, TopIs
  <2>2. QED
    BY <2>1, Sizes, LenProperties
<1>3. /\ w \in Wrappers /\ life[w] = "live" /\ w \notin Listed
      /\ Knows(stack[1], w)
  BY <1>1, <1>2, ListIs DEF Lists, ListingOK, Knows
<1>4. Distinct(Sockets') /\ Listed' = Listed \union {w}
  BY <1>1, <1>3, AppendListed DEF Held, DataOK, Lists, SocketsOK
<1>5. stack[1].w = w
  BY <1>2
<1> HIDE DEF w
<1>6. SocketsOK' /\ LivesOn
  BY <1>1, <1>3, <1>4 DEF Lists, SocketsOK, Live, LivesOn
<1>7. /\ <<>> \in Seq(Frame) /\ Len(<<>>) = 0 /\ Calm(<<>>, life', Listed')
  BY CalmNone
<1>8. Shape(0, 1) /\ \A k \in 1..0 : stack'[k] = <<>>[k]
  BY <1>1, <1>2, <1>7, Sizes, BecomeShape
<1>9. TakenOff(1)
  <2>1. \A k \in 1..1 : k = 1
    OBVIOUS
  <2>2. QED
    BY <1>4, <1>5, <2>1 DEF TakenOff
<1>10. LeftOn(0, 1)
  <2>1. ASSUME NEW k \in 2..Len(stack), stack[k].op = "list"
        PROVE  /\ stack[k].w \notin Listed' /\ userdata'[stack[k].w] = 0
               /\ k # 2
    <3>1. k \in 1..Len(stack) /\ k >= 2
      BY Sizes
    <3>2. /\ stack[k].w \notin Listed
          /\ \A j \in 1..Len(stack) :
                Knows(stack[j], stack[k].w) => j = k \/ j = k - 1
          /\ stack[k - 1].op = "push" /\ userdata[stack[k].w] = 0
      BY <2>1, <3>1 DEF Lists, ListingOK
    <3>3. stack[k].w # w
      BY <1>1, <1>2, <1>3, <3>1, <3>2
    <3>4. k # 2
      <4>1. k = 2 => k - 1 = 1
        OBVIOUS
      <4>2. QED
        BY <1>1, <1>2, <3>2, <4>1
    <3>5. QED
      BY <1>1, <1>4, <3>2, <3>3, <3>4
  <2>2. QED
    BY <2>1 DEF LeftOn
<1>11. \A v, c \in Wrappers : \A i \in Nat :
          Waits(v, i, c) =>
             life'[c] = "live" /\ c \notin Listed' /\ userdata'[c] = 0
  BY <1>1, <1>2, <1>3, <1>4, WaitingIs
<1>12. PICK d \in [Wrappers -> Nat] :
          \A v, c \in Wrappers : \A i \in Nat :
             Waits(v, i, c)' =>
                /\ Waits(v, i + d[v], c)
                /\ life'[c] = "live" /\ c \notin Listed' /\ userdata'[c] = 0
  BY <1>1, <1>11, NoneMoved
<1>13. \A c \in Wrappers : userdata'[c] = userdata[c]
  BY <1>1
<1>14. QED
  BY <1>6, <1>7, <1>8, <1>9, <1>10, <1>12, <1>13, CalmLists

\* The end of ~SockWrapper
LEMMA FreeLists ==
  ASSUME Held, Held', Lists, Free
  PROVE  Lists'
<1> DEFINE w == Top.w
<1>1. /\ UNCHANGED <<userdata, Sockets>> /\ Top.op = "free" /\ Become(<<>>)
      /\ life' = [life EXCEPT ![w] = "deleted"]
      /\ Callbacks' = [Callbacks EXCEPT ![w] = <<>>]
  BY DEF Free, At
<1>2. stack # <<>> /\ 1 \in 1..Len(stack) /\ Top = stack[1]
  <2>1. stack # <<>> /\ 1 \in DOMAIN stack /\ Top = stack[1]
    BY <1>1, Sizes, TopIs
  <2>2. QED
    BY <2>1, Sizes, LenProperties
<1>3. w \in Wrappers /\ life[w] \in {"dying", "deleted"}
  BY <1>1, TopIn DEF Held, FrameIn, FrameTyped, Destructor
<1> HIDE DEF w
<1>4. life'[w] = "deleted" /\ \A c \in Wrappers : c # w => life'[c] = life[c]
  BY <1>1, <1>3 DEF Held, DataOK
<1>5. Listed' = Listed
  BY <1>1 DEF Listed
<1>6. SocketsOK' /\ LivesOn
  <2>1. w \notin Listed
    BY <1>3 DEF Lists, SocketsOK, Live
  <2>2. QED
    BY <1>1, <1>3, <1>4, <1>5, <2>1 DEF Lists, SocketsOK, Live, LivesOn
<1>7. /\ <<>> \in Seq(Frame) /\ Len(<<>>) = 0 /\ Calm(<<>>, life', Listed')
  BY CalmNone
<1>8. Shape(0, 1) /\ \A k \in 1..0 : stack'[k] = <<>>[k]
  BY <1>1, <1>2, <1>7, Sizes, BecomeShape
<1>9. TakenOff(1)
  BY <1>1, <1>2 DEF TakenOff
<1>10. LeftOn(0, 1)
  <2>1. ASSUME NEW k \in 2..Len(stack), stack[k].op = "list"
        PROVE  /\ stack[k].w \notin Listed' /\ userdata'[stack[k].w] = 0
               /\ k # 2
    <3>1. k \in 1..Len(stack) /\ k >= 2 /\ (k = 2 => k - 1 = 1)
      BY Sizes
    <3>2. /\ stack[k].w \notin Listed /\ userdata[stack[k].w] = 0
          /\ stack[k - 1].op = "push"
      BY <2>1, <3>1 DEF Lists, ListingOK
    <3>3. QED
      BY <1>1, <1>2, <1>5, <3>1, <3>2
  <2>2. QED
    BY <2>1 DEF LeftOn
<1> DEFINE d == [v \in Wrappers |-> 0]
<1>11. ASSUME NEW v \in Wrappers, NEW c \in Wrappers, NEW i \in Nat,
              Waits(v, i, c)'
       PROVE  /\ Waits(v, i + d[v], c)
              /\ life'[c] = "live" /\ c \notin Listed' /\ userdata'[c] = 0
  <2>1. v # w
    <3>1. ASSUME v = w PROVE FALSE
      <4>1. Callbacks'[v] = <<>>
        BY <1>1, <1>3, <3>1 DEF Held, DataOK
      <4>2. i \in 1..0
        BY <1>7, <1>11, <4>1 DEF Waits
      <4>3. QED
        BY <4>2
    <3>2. QED
      BY <3>1
  <2>2. Callbacks'[v] = Callbacks[v]
    BY <1>1, <2>1 DEF Held, DataOK
  <2>3. Waits(v, i, c) /\ i + d[v] = i
    BY <1>11, <2>2 DEF Waits
  <2>4. life[c] = "live" /\ c \notin Listed /\ userdata[c] = 0
    BY <2>3, WaitingIs
  <2>5. QED
    BY <1>1, <1>3, <1>4, <1>5, <2>3, <2>4
<1>12. d \in [Wrappers -> Nat]
  OBVIOUS
<1> HIDE DEF d
<1>13. \A c \in Wrappers : userdata'[c] = userdata[c]
  BY <1>1
<1>14. QED
  BY <1>6, <1>7, <1>8, <1>9, <1>10, <1>11, <1>12, <1>13, CalmLists

\* Think takes the first result of w: the others move up.
LEMMA HandleMoves ==
  ASSUME Callbacks \in [Wrappers -> Seq(SockEvent)], NEW w \in Wrappers,
         Callbacks[w] # <<>>, Callbacks' = [Callbacks EXCEPT ![w] = Tail(@)]
  PROVE  \E d \in [Wrappers -> Nat] :
            /\ d[w] = 1
            /\ \A v, c \in Wrappers : \A i \in Nat :
                  Waits(v, i, c)' => Waits(v, i + d[v], c) /\ i >= 1
<1> DEFINE d == [v \in Wrappers |-> IF v = w THEN 1 ELSE 0]
<1>1. ASSUME NEW v \in Wrappers, NEW c \in Wrappers, NEW i \in Nat,
             Waits(v, i, c)'
      PROVE  Waits(v, i + d[v], c) /\ i >= 1
  <2>1. /\ Callbacks[v] \in Seq(SockEvent) /\ Len(Callbacks[v]) \in Nat
        /\ i \in 1..Len(Callbacks'[v])
    BY <1>1, LenProperties DEF Waits
  <2>2. CASE v # w
    <3>1. Callbacks'[v] = Callbacks[v] /\ i + d[v] = i
      BY <2>2
    <3>2. QED
      BY <1>1, <2>1, <3>1 DEF Waits
  <2>3. CASE v = w
    <3>1. Callbacks'[v] = Tail(Callbacks[v]) /\ d[v] = 1
      BY <2>3
    <3>2. /\ Len(Tail(Callbacks[v])) = Len(Callbacks[v]) - 1
          /\ \A k \in 1..(Len(Callbacks[v]) - 1) :
                Tail(Callbacks[v])[k] = Callbacks[v][k + 1]
      BY <2>1, <2>3, EmptySeq, HeadTailProperties
    <3>3. i \in 1..(Len(Callbacks[v]) - 1) /\ i + 1 \in 1..Len(Callbacks[v])
      BY <2>1, <3>1, <3>2
    <3>4. Callbacks'[v][i] = Callbacks[v][i + 1]
      BY <3>1, <3>2, <3>3
    <3>5. QED
      BY <1>1, <3>1, <3>3, <3>4 DEF Waits
  <2>4. QED
    BY <2>2, <2>3
<1>2. d \in [Wrappers -> Nat] /\ d[w] = 1
  OBVIOUS
<1> HIDE DEF d
<1>3. QED
  BY <1>1, <1>2

\* What Handle puts on the stack, and on the list.
LEMMA HandleLists ==
  ASSUME Held, Lists, life' = life, NEW w \in Wrappers,
         life[w] # "none" /\ (life[w] = "live" => w \in Listed),
         NEW e \in SockEvent,
         e.type = "accepted" =>
            e.sock \in Wrappers /\ life[e.sock] = "live" /\ e.sock \notin Listed,
         Handle(w, e)
  PROVE  /\ \/ Sockets' = Sockets /\ Listed' = Listed
            \/ /\ e.type = "accepted" /\ Distinct(Sockets')
               /\ Listed' = Listed \union {e.sock}
         /\ \E fs \in Seq(Frame) : Run(fs) /\ Calm(fs, life', Listed')
<1>1. CASE e.type = "accepted"
  <2> DEFINE f == [F("both", w) EXCEPT !.o = e.sock]
             c == e.sock
  <2>1. Run(<<f, Lua>>) /\ Sockets' = Append(Sockets, c)
    BY <1>1 DEF Handle
  <2>2. c \in Wrappers /\ life[c] = "live" /\ c \notin Listed
    BY <1>1
  <2>3. f \in Frame /\ f.op = "both" /\ f.w = w /\ f.o = c
    <3>1. F("both", w) \in Frame
      BY FrameIs DEF Ops
    <3>2. QED
      BY <2>2, <3>1 DEF Frame, F
  <2> HIDE DEF f, c
  <2>4. Distinct(Sockets') /\ Listed' = Listed \union {c}
    BY <2>1, <2>2, AppendListed DEF Held, DataOK, Lists, SocketsOK
  <2>5. \A x \in Wrappers : Knows(f, x) \/ Knows(Lua, x) => x = w \/ x = c
    BY <2>3, KnowsLua DEF Knows
  <2>6. Lua \in Frame /\ Lua.op = "lua"
    BY LuaIn
  <2>7. <<f, Lua>> \in Seq(Frame) /\ Calm(<<f, Lua>>, life', Listed')
    BY <2>2, <2>3, <2>4, <2>5, <2>6, CalmTwo
  <2>8. QED
    BY <1>1, <2>1, <2>4, <2>7 DEF c
<1>2. CASE e.type # "accepted"
  <2>1. /\ Sockets' = Sockets
        /\ \/ Run(<<F("push", w), Lua>>) \/ Run(Disconnect(w))
           \/ Run(Disconnect(w) \o <<F("throw", w)>>)
    BY <1>2 DEF Handle
  <2>2. Listed' = Listed
    BY <2>1 DEF Listed
  <2>3. /\ <<F("push", w), Lua>> \in Seq(Frame)
        /\ Calm(<<F("push", w), Lua>>, life', Listed')
    <3>1. /\ F("push", w) \in Frame /\ F("push", w).op = "push"
          /\ Lua \in Frame /\ Lua.op = "lua"
      BY FrameIs, LuaIn DEF Ops
    <3>2. \A c \in Wrappers : Knows(F("push", w), c) \/ Knows(Lua, c) => c = w
      BY KnowsOne, KnowsLua DEF Ops
    <3>3. QED
      BY <2>2, <3>1, <3>2, CalmTwo
  <2>4. Disconnect(w) \in Seq(Frame) /\ Calm(Disconnect(w), life', Listed')
    BY <2>2, CalmDisconnect
  <2>5. /\ <<F("throw", w)>> \in Seq(Frame)
        /\ Calm(<<F("throw", w)>>, life', Listed')
    BY <2>2, CalmFrame DEF Ops, Destructor
  <2>6. /\ Disconnect(w) \o <<F("throw", w)>> \in Seq(Frame)
        /\ Calm(Disconnect(w) \o <<F("throw", w)>>, life', Listed')
    BY <2>4, <2>5, CalmPut
  <2>7. QED
    BY <2>1, <2>2, <2>3, <2>4, <2>6
<1>3. QED
  BY <1>1, <1>2

LEMMA ThinkHandleLists ==
  ASSUME Held, Held', Lists, ThinkHandle
  PROVE  Lists'
<1> DEFINE w == Top.w
           e == Head(Callbacks[w])
<1>1. /\ UNCHANGED <<life, userdata>> /\ Top.op = "think" /\ w # None
      /\ Callbacks[w] # <<>> /\ Callbacks' = [Callbacks EXCEPT ![w] = Tail(@)]
      /\ Handle(w, e)
  BY DEF ThinkHandle, At, wrapper
<1>2. w \in Wrappers /\ Knows(Top, w)
  BY <1>1, Sizes, TopIs DEF Frame, Knows
<1> HIDE DEF w
<1>3. life[w] # "none" /\ (life[w] = "live" => w \in Listed)
  BY <1>1, <1>2, TopKnows DEF Live
<1>4. /\ Callbacks[w] \in Seq(SockEvent) /\ 1 \in 1..Len(Callbacks[w])
      /\ e = Callbacks[w][1] /\ e \in SockEvent
  <2>1. Callbacks[w] \in Seq(SockEvent)
    BY <1>2 DEF Held, DataOK
  <2>2. Len(Callbacks[w]) \in Nat /\ Len(Callbacks[w]) # 0
    BY <1>1, <2>1, LenProperties, EmptySeq
  <2>3. e = Callbacks[w][1] /\ 1 \in 1..Len(Callbacks[w])
    BY <2>1, <2>2
  <2>4. QED
    BY <2>1, <2>3, ElementOfSeq
<1> HIDE DEF e
<1>5. e.type = "accepted" =>
         /\ e.sock \in Wrappers /\ life[e.sock] = "live" /\ e.sock \notin Listed
         /\ Waits(w, 1, e.sock)
  <2>1. ASSUME e.type = "accepted" PROVE e.sock \in Wrappers /\ Waits(w, 1, e.sock)
    BY <1>2, <1>4, <2>1 DEF Held, ClientsOK, Waits
  <2>2. QED
    BY <1>2, <2>1, WaitingIs
<1>6. /\ \/ Sockets' = Sockets /\ Listed' = Listed
         \/ /\ e.type = "accepted" /\ Distinct(Sockets')
            /\ Listed' = Listed \union {e.sock}
      /\ \E fs \in Seq(Frame) : Run(fs) /\ Calm(fs, life', Listed')
  BY <1>1, <1>2, <1>3, <1>4, <1>5, HandleLists
<1>7. PICK fs \in Seq(Frame) : Run(fs) /\ Calm(fs, life', Listed')
  BY <1>6
<1>8. Shape(Len(fs), 0) /\ \A k \in 1..Len(fs) : stack'[k] = fs[k]
  BY <1>7, Sizes, RunShape
<1>9. SocketsOK' /\ LivesOn /\ TakenOff(0)
  BY <1>1, <1>5, <1>6 DEF Lists, SocketsOK, Live, LivesOn, TakenOff
<1>10. LeftOn(Len(fs), 0)
  <2>1. ASSUME NEW k \in 1..Len(stack), stack[k].op = "list"
        PROVE  /\ stack[k].w \notin Listed' /\ k # 1
               /\ k >= 2 => userdata'[stack[k].w] = 0
    <3>1. k # 1
      BY <1>1, <2>1, Sizes DEF Top
    <3>2. stack[k].w \notin Listed /\ (k >= 2 => userdata[stack[k].w] = 0)
      BY <2>1 DEF Lists, ListingOK
    <3>3. e.type = "accepted" => stack[k].w # e.sock
      BY <1>2, <1>5, WaitingIs DEF Knows
    <3>4. QED
      BY <1>1, <1>6, <3>1, <3>2, <3>3
  <2>2. QED
    BY <2>1, Sizes DEF LeftOn
<1>11. PICK d \in [Wrappers -> Nat] :
          /\ d[w] = 1
          /\ \A v, c \in Wrappers : \A i \in Nat :
                Waits(v, i, c)' => Waits(v, i + d[v], c) /\ i >= 1
  <2>1. Callbacks \in [Wrappers -> Seq(SockEvent)]
    BY DEF Held, DataOK
  <2>2. QED
    BY <1>1, <1>2, <2>1, HandleMoves
<1>12. ASSUME NEW v \in Wrappers, NEW c \in Wrappers, NEW i \in Nat,
              Waits(v, i, c)'
       PROVE  /\ Waits(v, i + d[v], c)
              /\ life'[c] = "live" /\ c \notin Listed' /\ userdata'[c] = 0
  <2>1. Waits(v, i + d[v], c) /\ i >= 1 /\ i + d[v] \in Nat
    BY <1>11, <1>12
  <2>2. /\ life[c] = "live" /\ c \notin Listed /\ userdata[c] = 0
        /\ \A u \in Wrappers : \A j \in Nat :
              Waits(u, j, c) => u = v /\ j = i + d[v]
    BY <2>1, WaitingIs
  <2>3. e.type = "accepted" => c # e.sock
    <3>1. ASSUME e.type = "accepted", c = e.sock PROVE FALSE
      <4>1. w = v /\ 1 = i + d[v]
        BY <1>2, <1>5, <2>2, <3>1
      <4>2. QED
        BY <1>11, <2>1, <4>1
    <3>2. QED
      BY <3>1
  <2>4. QED
    BY <1>1, <1>6, <2>1, <2>2, <2>3
<1>13. \A c \in Wrappers : userdata'[c] = userdata[c]
  BY <1>1
<1>14. QED
  BY <1>7, <1>8, <1>9, <1>10, <1>12, <1>13, CalmLists

\* A worker posts a result, which comes last.
LEMMA PostWaits ==
  ASSUME Callbacks \in [Wrappers -> Seq(SockEvent)], NEW w \in Wrappers,
         NEW e \in SockEvent, Callbacks' = [Callbacks EXCEPT ![w] = Append(@, e)],
         NEW v \in Wrappers, NEW c \in Wrappers, NEW i \in Nat, Waits(v, i, c)'
  PROVE  \/ Waits(v, i, c)
         \/ /\ v = w /\ i = Len(Callbacks[w]) + 1
            /\ e.type = "accepted" /\ c = e.sock
<1>1. i \in 1..Len(Callbacks'[v])
  BY DEF Waits
<1>2. CASE v # w
  <2>1. Callbacks'[v] = Callbacks[v]
    BY <1>2
  <2>2. QED
    BY <2>1 DEF Waits
<1>3. CASE v = w
  <2>1. Callbacks[v] \in Seq(SockEvent) /\ Callbacks'[v] = Append(Callbacks[v], e)
    BY <1>3
  <2>2. /\ Len(Callbacks[v]) \in Nat
        /\ Len(Callbacks'[v]) = Len(Callbacks[v]) + 1
        /\ \A k \in 1..Len(Callbacks[v]) : Callbacks'[v][k] = Callbacks[v][k]
        /\ Callbacks'[v][Len(Callbacks[v]) + 1] = e
    BY <2>1, LenProperties, AppendProperties
  <2>3. i \in 1..Len(Callbacks[v]) \/ i = Len(Callbacks[v]) + 1
    BY <1>1, <2>2
  <2>4. QED
    BY <1>3, <2>2, <2>3 DEF Waits
<1>4. QED
  BY <1>2, <1>3

LEMMA WorkerRunLists ==
  ASSUME Held, Held', Lists, NEW w \in Wrappers, WorkerRun(w)
  PROVE  Lists'
<1>1. /\ UNCHANGED <<userdata, Sockets, stack>>
  BY DEF WorkerRun
<1>2. /\ Listed' = Listed /\ Shape(0, 0) /\ TakenOff(0)
      /\ \A k \in 1..0 : FALSE
  BY <1>1, Sizes, SameShape DEF Listed, TakenOff
<1>3. Callbacks \in [Wrappers -> Seq(SockEvent)]
  BY DEF Held, DataOK
<1>4. LeftOn(0, 0)
  <2>1. ASSUME NEW k \in 1..Len(stack), stack[k].op = "list"
        PROVE  /\ stack[k].w \notin Listed' /\ (k >= 2 => userdata'[stack[k].w] = 0)
               /\ k = 1 => userdata'[stack[k].w] > 0
    BY <1>1, <1>2, <2>1 DEF Lists, ListingOK
  <2>2. QED
    BY <2>1, Sizes DEF LeftOn
<1>5. ASSUME LivesOn, SocketsOK'
      PROVE  ReachOK' /\ KnownOK' /\ ListingOK'
  <2>1. ReachOK'
    BY <1>1, <1>2, <1>5, ReachKept DEF Lists
  <2>2. KnownOK'
    BY <1>2, <1>5, KnownKept DEF Lists
  <2>3. ListingOK'
    BY <1>2, <1>4, ListingKept DEF Lists
  <2>4. QED
    BY <2>1, <2>2, <2>3
<1>6. CASE \E c \in Wrappers :
              Allocate(c) /\ Post(w, [type |-> "accepted", sock |-> c])
  <2>1. PICK x \in Wrappers :
           Allocate(x) /\ Post(w, [type |-> "accepted", sock |-> x])
    BY <1>6
  <2> DEFINE e == [type |-> "accepted", sock |-> x]
  <2>2. /\ e \in SockEvent /\ e.type = "accepted" /\ e.sock = x
        /\ Callbacks' = [Callbacks EXCEPT ![w] = Append(@, e)]
    BY <2>1 DEF SockEvent, Results, Post
  <2> HIDE DEF e
  <2>3. /\ life[x] = "none" /\ life'[x] = "live"
        /\ \A c \in Wrappers : c # x => life'[c] = life[c]
    BY <2>1 DEF Allocate, Held, DataOK
  <2>4. x \notin Listed
    BY <2>3 DEF Lists, SocketsOK, Live
  <2>5. LivesOn /\ SocketsOK'
    BY <1>1, <1>2, <2>3, <2>4 DEF LivesOn, Lists, SocketsOK, Live
  <2>6. userdata[x] = 0 /\ \A k \in 1..Len(stack) : ~Knows(stack[k], x)
    <3>1. userdata[x] \in Nat /\ ~(userdata[x] > 0)
      BY <2>3 DEF Held, DataOK, CountOK, Kept, Live
    <3>2. QED
      BY <2>3, <3>1 DEF Lists, KnownOK
  <2>7. WaitingOK'
    <3> DEFINE last == Len(Callbacks[w]) + 1
    <3>1. ASSUME NEW v \in Wrappers, NEW c \in Wrappers, NEW i \in Nat,
                 Waits(v, i, c)'
          PROVE  \/ Waits(v, i, c) /\ c # x
                 \/ v = w /\ i = last /\ c = x
      <4>1. Waits(v, i, c) => c # x
        BY <2>3, WaitingIs
      <4>2. Waits(v, i, c) \/ (v = w /\ i = last /\ c = e.sock)
        BY <1>3, <2>2, <3>1, PostWaits
      <4>3. QED
        BY <2>2, <4>1, <4>2
    <3> HIDE DEF last
    <3>2. ASSUME NEW v \in Wrappers, NEW c \in Wrappers, NEW i \in Nat,
                 Waits(v, i, c)'
          PROVE  /\ life'[c] = "live" /\ c \notin Listed' /\ userdata'[c] = 0
                 /\ \A k \in 1..Len(stack') : ~Knows(stack'[k], c)
                 /\ \A u \in Wrappers : \A j \in Nat :
                       Waits(u, j, c)' => u = v /\ j = i
      <4>1. CASE Waits(v, i, c) /\ c # x
        BY <1>1, <1>2, <2>3, <3>1, <4>1, WaitingIs
      <4>2. CASE v = w /\ i = last /\ c = x
        BY <1>1, <1>2, <2>3, <2>4, <2>6, <3>1, <4>2
      <4>3. QED
        BY <3>1, <3>2, <4>1, <4>2
    <3>3. QED
      BY <3>2 DEF WaitingOK, Live
  <2>8. QED
    BY <1>5, <2>5, <2>7 DEF Lists
<1>7. CASE /\ \E t \in {"result", "fail", "big"} :
                 Post(w, [type |-> t, sock |-> None])
           /\ UNCHANGED life
  <2>1. PICK t \in {"result", "fail", "big"} :
           Post(w, [type |-> t, sock |-> None])
    BY <1>7
  <2> DEFINE e == [type |-> t, sock |-> None]
  <2>2. /\ e \in SockEvent /\ e.type # "accepted"
        /\ Callbacks' = [Callbacks EXCEPT ![w] = Append(@, e)]
    BY <2>1 DEF SockEvent, Results, Post
  <2> HIDE DEF e
  <2>3. LivesOn /\ SocketsOK'
    BY <1>1, <1>2, <1>7 DEF LivesOn, Lists, SocketsOK, Live
  <2>4. WaitingOK'
    <3>1. ASSUME NEW v \in Wrappers, NEW c \in Wrappers, NEW i \in Nat,
                 Waits(v, i, c)'
          PROVE  Waits(v, i, c)
      BY <1>3, <2>2, <3>1, PostWaits
    <3>2. ASSUME NEW v \in Wrappers, NEW c \in Wrappers, NEW i \in Nat,
                 Waits(v, i, c)'
          PROVE  /\ life'[c] = "live" /\ c \notin Listed' /\ userdata'[c] = 0
                 /\ \A k \in 1..Len(stack') : ~Knows(stack'[k], c)
                 /\ \A u \in Wrappers : \A j \in Nat :
                       Waits(u, j, c)' => u = v /\ j = i
      BY <1>1, <1>2, <1>7, <3>1, <3>2, WaitingIs
    <3>3. QED
      BY <3>2 DEF WaitingOK, Live
  <2>5. QED
    BY <1>5, <2>3, <2>4 DEF Lists
<1>8. QED
  BY <1>6, <1>7 DEF WorkerRun

\* SOCK_Accept without a callback: the client is pushed and then listed.
LEMMA LuaAcceptLists ==
  ASSUME Held, Held', Lists, NEW w \in Wrappers, NEW c \in Wrappers,
         LuaAccept(w, c)
  PROVE  Lists'
<1>1. /\ UNCHANGED <<userdata, Callbacks, Sockets>> /\ Top.op \in {"lua", "game"}
      /\ life[c] = "none" /\ life' = [life EXCEPT ![c] = "live"]
      /\ Run(<<F("push", c), F("list", c)>>)
  BY DEF LuaAccept, Uses, InScript, At, Allocate, queue
<1>2. Listed' = Listed /\ c \notin Listed
  BY <1>1 DEF Lists, SocketsOK, Live, Listed
<1>3. life'[c] = "live" /\ \A x \in Wrappers : x # c => life'[x] = life[x]
  BY <1>1 DEF Held, DataOK
<1>4. SocketsOK' /\ LivesOn /\ TakenOff(0)
  BY <1>1, <1>2, <1>3 DEF Lists, SocketsOK, Live, LivesOn, TakenOff
<1> DEFINE fs == <<F("push", c), F("list", c)>>
<1>5. /\ fs \in Seq(Frame) /\ Len(fs) = 2
      /\ fs[1] = F("push", c) /\ fs[2] = F("list", c)
  <2>1. F("push", c) \in Frame /\ F("list", c) \in Frame
    BY FrameIs DEF Ops
  <2>2. QED
    BY <2>1
<1> HIDE DEF fs
<1>6. /\ Shape(2, 0) /\ stack'[1] = F("push", c) /\ stack'[2] = F("list", c)
      /\ \A k \in 1..2 : k = 1 \/ k = 2
  <2>1. Shape(Len(fs), 0) /\ \A k \in 1..Len(fs) : stack'[k] = fs[k]
    BY <1>1, <1>5, Sizes, RunShape DEF fs
  <2>2. \A k \in 1..2 : k = 1 \/ k = 2
    OBVIOUS
  <2>3. 1 \in 1..2 /\ 2 \in 1..2
    OBVIOUS
  <2>4. QED
    BY <1>5, <2>1, <2>2, <2>3
<1>7. /\ F("push", c).op = "push" /\ F("push", c).w = c
      /\ F("list", c).op = "list" /\ F("list", c).w = c
      /\ \A x \in Wrappers : Knows(F("push", c), x) \/ Knows(F("list", c), x) => x = c
  BY FrameIs, KnowsOne DEF Ops
<1>8. /\ 1 \in 1..Len(stack') /\ 2 \in 1..Len(stack') /\ Len(stack') = Len(stack) + 2
  BY <1>6, Sizes DEF Shape
<1>9. Listing(c)'
  BY <1>6, <1>7, <1>8 DEF Listing
<1>10. userdata[c] = 0 /\ \A k \in 1..Len(stack) : ~Knows(stack[k], c)
  <2>1. userdata[c] \in Nat /\ ~(userdata[c] > 0)
    BY <1>1 DEF Held, DataOK, CountOK, Kept, Live
  <2>2. QED
    BY <1>1, <2>1 DEF Lists, KnownOK
<1>11. ReachOK'
  BY <1>1, <1>4, <1>6, ReachKept DEF Lists
<1>12. KnownOK'
  <2>1. \A k \in 1..2 : \A x \in Wrappers :
           Knows(stack'[k], x) =>
              life'[x] # "none" /\ (life'[x] = "live" => x \in Listed' \/ Listing(x)')
    BY <1>3, <1>6, <1>7, <1>9
  <2>2. QED
    BY <1>4, <1>6, <2>1, KnownKept DEF Lists
<1>13. ASSUME NEW k \in 1..Len(stack')
       PROVE  \/ k = 1 /\ stack'[k] = F("push", c)
              \/ k = 2 /\ stack'[k] = F("list", c)
              \/ \E j \in 1..Len(stack) :
                    /\ k = 2 + j /\ Same(stack'[k], stack[j])
                    /\ stack[j].op \notin Walks => stack'[k] = stack[j]
  <2>1. CASE k \in 1..2
    BY <1>6, <2>1
  <2>2. CASE ~(k \in 1..2)
    <3>1. PICK j \in (0 + 1)..Len(stack) :
             /\ k = 2 + j - 0 /\ j \in 1..Len(stack)
             /\ Same(stack'[k], stack[j])
             /\ stack[j].op \notin Walks => stack'[k] = stack[j]
      BY <1>6, <2>2, Sizes, Place
    <3>2. k = 2 + j
      BY <3>1
    <3>3. QED
      BY <3>1, <3>2
  <2>3. QED
    BY <2>1, <2>2
<1>14. ListingOK'
  <2>1. ASSUME NEW k \in 1..Len(stack'), stack'[k].op = "list"
        PROVE  /\ stack'[k] = F("list", stack'[k].w)
               /\ stack'[k].w \notin Listed'
               /\ \A l \in 1..Len(stack') :
                     Knows(stack'[l], stack'[k].w) => l = k \/ l = k - 1
               /\ k >= 2 => /\ stack'[k - 1].op = "push"
                            /\ stack'[k - 1].w = stack'[k].w
                            /\ userdata'[stack'[k].w] = 0
               /\ k # 1
    <3>1. k # 1
      BY <1>6, <1>7, <2>1
    <3>2. CASE k = 2
      <4>1. ASSUME NEW l \in 1..Len(stack'), Knows(stack'[l], c)
            PROVE  l = 1 \/ l = 2
        BY <1>10, <1>13, <4>1 DEF Knows, Same
      <4>2. stack'[k].w = c /\ stack'[k] = F("list", c) /\ k - 1 = 1
        BY <1>6, <1>7, <3>2
      <4>3. QED
        BY <1>1, <1>2, <1>6, <1>7, <1>10, <3>2, <4>1, <4>2
    <3>3. CASE k # 2
      <4>1. PICK j \in 1..Len(stack) :
               /\ k = 2 + j /\ Same(stack'[k], stack[j])
               /\ stack[j].op \notin Walks => stack'[k] = stack[j]
        BY <1>13, <3>1, <3>3
      <4>2. stack[j].op = "list" /\ stack'[k] = stack[j]
        BY <2>1, <4>1 DEF Same, Walks
      <4> DEFINE x == stack[j].w
      <4>3. /\ stack[j] = F("list", x) /\ x \notin Listed
            /\ \A i \in 1..Len(stack) : Knows(stack[i], x) => i = j \/ i = j - 1
            /\ j >= 2 => /\ stack[j - 1].op = "push" /\ stack[j - 1].w = x
                         /\ userdata[x] = 0
        BY <4>2 DEF Lists, ListingOK
      <4>4. x \in Wrappers /\ x # c
        BY <1>1, <4>2, ListIs
      <4> HIDE DEF x
      <4>5. j >= 2 /\ j - 1 \in 1..Len(stack) /\ k - 1 = 2 + (j - 1)
        <5>1. j # 1
          BY <1>1, <4>2, Sizes DEF Top
        <5>2. QED
          BY <4>1, <5>1, Sizes
      <4>6. ASSUME NEW l \in 1..Len(stack'), Knows(stack'[l], x)
            PROVE  l = k \/ l = k - 1
        <5>1. PICK i \in 1..Len(stack) : l = 2 + i /\ Same(stack'[l], stack[i])
          BY <1>7, <1>13, <4>4, <4>6
        <5>2. i = j \/ i = j - 1
          BY <4>3, <4>6, <5>1 DEF Knows, Same
        <5>3. QED
          BY <4>1, <4>5, <5>1, <5>2
      <4>7. stack'[k - 1].op = "push" /\ stack'[k - 1].w = x
        <5>1. j - 1 \in (0 + 1)..Len(stack)
          BY <4>5, Sizes
        <5>2. Same(stack'[2 + (j - 1) - 0], stack[j - 1])
          BY <1>6, <5>1 DEF Shape
        <5>3. 2 + (j - 1) - 0 = k - 1
          BY <4>5
        <5>4. QED
          BY <4>3, <4>5, <5>2, <5>3 DEF Same
      <4>8. QED
        BY <1>1, <1>2, <3>1, <4>2, <4>3, <4>5, <4>6, <4>7 DEF x
    <3>4. QED
      BY <3>2, <3>3
  <2>2. QED
    BY <2>1 DEF ListingOK
<1>15. WaitingOK'
  <2>1. \A v, x \in Wrappers : \A i \in Nat :
           Waits(v, i, x) =>
              /\ x # c
              /\ life'[x] = "live" /\ x \notin Listed' /\ userdata'[x] = 0
    BY <1>1, <1>2, <1>3, WaitingIs
  <2>2. PICK d \in [Wrappers -> Nat] :
           \A v, x \in Wrappers : \A i \in Nat :
              Waits(v, i, x)' =>
                 /\ Waits(v, i + d[v], x)
                 /\ life'[x] = "live" /\ x \notin Listed' /\ userdata'[x] = 0
    BY <1>1, <2>1, NoneMoved
  <2>3. ASSUME NEW v \in Wrappers, NEW x \in Wrappers, NEW i \in Nat,
               Waits(v, i, x)', NEW k \in 1..2
        PROVE  ~Knows(stack'[k], x)
    <3>1. Waits(v, i + d[v], x) /\ i + d[v] \in Nat
      BY <2>2, <2>3
    <3>2. x # c
      BY <2>1, <3>1
    <3>3. QED
      BY <1>6, <1>7, <3>2
  <2>4. QED
    BY <1>6, <2>2, <2>3, WaitingKept DEF Lists
<1>16. QED
  BY <1>4, <1>11, <1>12, <1>14, <1>15 DEF Lists

-----------------------------------------------------------------------------

LEMMA InitLists ==
  ASSUME Init
  PROVE  Lists
<1>1. stack = <<>> /\ Sockets = <<>> /\ Len(<<>>) = 0 /\ 1..0 = {}
  BY DEF Init
<1>2. SocketsOK
  BY <1>1 DEF SocketsOK, Distinct, Listed, ToSet
<1>3. ReachOK
  BY DEF Init, ReachOK
<1>4. KnownOK /\ ListingOK
  BY <1>1 DEF KnownOK, ListingOK
<1>5. WaitingOK
  BY <1>1 DEF Init, WaitingOK, Waits
<1>6. QED
  BY <1>2, <1>3, <1>4, <1>5 DEF Lists

LEMMA StutterLists ==
  ASSUME Held, Held', Lists, UNCHANGED vars
  PROVE  Lists'
<1>1. UNCHANGED <<life, userdata, Sockets, Callbacks, stack>>
  BY DEF vars, wrapper, queue
<1>2. QED
  BY <1>1, IdleLists

LEMMA NextLists ==
  ASSUME Held, Held', Lists, Next
  PROVE  Lists'
<1>1. ASSUME NEW w \in Wrappers, NEW type \in Requests,
             LuaStart(w) \/ LuaRequest(w, type) \/ WorkerStart(w) \/ WorkerStop(w)
      PROVE  Lists'
  BY <1>1, WorksLists
<1>2. "Accept" \in Requests
  BY DEF Requests
<1>3. CASE LuaThread
  <2>1. CASE Tick \/ ThinkNext \/ ThinkHandle
    BY <2>1, TickLists, ThinkNextLists, ThinkHandleLists
  <2>2. CASE ShutdownHook \/ HookNext \/ Reset
    BY <2>2, TickLists, HookNextLists, ReturnLists
  <2>3. CASE PushToStack \/ AcceptList
    BY <2>3, PushToStackLists, AcceptListLists
  <2>4. CASE \E w \in Wrappers : Collect(w)
    BY <2>4, CollectLists
  <2>5. CASE Destroy \/ DestroyLower \/ DestroyLock \/ Free
    BY <2>5, DestroyLists, FreeLists
  <2>6. CASE Script
    <3>1. CASE LuaReturn \/ Unwind
      BY <3>1, ReturnLists, UnwindLists
    <3>2. ASSUME NEW w \in Wrappers, LuaBromSock(w) \/ LuaStart(w) \/ LuaClose(w)
          PROVE  Lists'
      BY <1>1, <1>2, <3>2, LuaBromSockLists, LuaCloseLists
    <3>3. ASSUME NEW w \in Wrappers, NEW type \in Requests, LuaRequest(w, type)
          PROVE  Lists'
      BY <1>1, <3>3
    <3>4. ASSUME NEW w \in Wrappers, NEW c \in Wrappers,
                 LuaAccept(w, c) \/ LuaAcceptFails(w, c)
          PROVE  Lists'
      BY <3>4, LuaAcceptLists, LuaAcceptFailsLists
    <3>5. QED
      BY <2>6, <3>1, <3>2, <3>3, <3>4 DEF Script
  <2>7. QED
    BY <1>3, <2>1, <2>2, <2>3, <2>4, <2>5, <2>6 DEF LuaThread
<1>4. ASSUME NEW w \in Wrappers, Worker(w)
      PROVE  Lists'
  BY <1>1, <1>2, <1>4, WorkerRunLists DEF Worker
<1>5. CASE Lose
  <2>1. UNCHANGED <<life, userdata, Sockets, Callbacks, stack>>
    BY <1>5 DEF Lose, wrapper, queue
  <2>2. QED
    BY <2>1, IdleLists
<1>6. QED
  BY <1>3, <1>4, <1>5 DEF Next

-----------------------------------------------------------------------------
(* The destructors, and what runs within them.                              *)

Early == {"destroy", "lower", "lock"}

\* The threads of w that its destructor has not waited for are known.
SeenIn(w, st, cw, lt) == st[w] + cw[w] > 0 => w \in lt
Seen(w) == SeenIn(w, started, CurrentWorkers, late)
SeenNext(w) == SeenIn(w, started', CurrentWorkers', late')

\* The frame k is of the destructor of w.
Dies(k, w) == stack[k].op \in Destructor /\ stack[k].w = w

\* Nothing above the frame of a destructor works on its wrapper; nothing at all
\* runs above it before it holds the Mutex.
FramesAlone ==
    \A k \in 1..Len(stack) :
       stack[k].op \in Destructor =>
          /\ life[stack[k].w] = "dying" /\ stack[k].w \notin stranded
          /\ \A j \in 1..(k - 1) : ~Knows(stack[j], stack[k].w)
          /\ stack[k].op \in Early => k = 1
          /\ stack[k].op = "free" => stack[k].w \in locked
          /\ stack[k].op # "destroy" => Seen(stack[k].w)

\* A wrapper that dies is in its destructor, or an error has left it there with
\* its Mutex locked.
LivesAlone ==
    \A w \in Wrappers :
       /\ life[w] = "dying" => w \in stranded \/ \E k \in 1..Len(stack) : Dies(k, w)
       /\ w \in stranded => life[w] = "dying" /\ w \in locked
       /\ life[w] = "deleted" => Seen(w)

Alone == FramesAlone /\ LivesAlone

LEMMA DiesStays ==
  ASSUME stack \in Seq(Frame), NEW m, NEW n, Shape(m, n),
         NEW k \in 1..Len(stack), k > n, NEW w \in Wrappers, Dies(k, w)
  PROVE  \E l \in 1..Len(stack') : Dies(l, w)'
<1>1. m + k - n \in 1..Len(stack') /\ Same(stack'[m + k - n], stack[k])
  BY Stays
<1>2. stack'[m + k - n].op \in Destructor /\ stack'[m + k - n].w = w
  BY <1>1 DEF Same, Dies
<1>3. QED
  BY <1>1, <1>2 DEF Dies

LEMMA SeenLater == \A w : Seen(w)' <=> SeenNext(w)
  BY DEF Seen, SeenNext

\* The frames that stay, and those that come.
LEMMA FramesAloneKept ==
  ASSUME Held, FramesAlone, NEW m, NEW n, Shape(m, n),
         n = 0 /\ m > 0 => Top.op \notin Destructor,
         \A k \in (n + 1)..Len(stack) :
            stack[k].op \in Destructor =>
               /\ life'[stack[k].w] = "dying" /\ stack[k].w \notin stranded'
               /\ stack[k].w \in locked => stack[k].w \in locked'
               /\ Seen(stack[k].w) => SeenNext(stack[k].w)
               /\ \A j \in 1..m : ~Knows(stack'[j], stack[k].w),
         \A k \in 1..m :
            stack'[k].op \in Destructor =>
               /\ life'[stack'[k].w] = "dying" /\ stack'[k].w \notin stranded'
               /\ \A j \in 1..(k - 1) : ~Knows(stack'[j], stack'[k].w)
               /\ stack'[k].op \in Early => k = 1
               /\ stack'[k].op = "free" => stack'[k].w \in locked'
               /\ stack'[k].op # "destroy" => SeenNext(stack'[k].w)
  PROVE  FramesAlone'
<1>1. /\ stack \in Seq(Frame) /\ Len(stack) \in Nat
      /\ n \in Nat /\ m \in Nat /\ n <= Len(stack)
  BY Sizes DEF Shape
<1>2. ASSUME NEW k \in 1..Len(stack'), stack'[k].op \in Destructor, ~(k \in 1..m)
      PROVE  /\ life'[stack'[k].w] = "dying" /\ stack'[k].w \notin stranded'
             /\ \A j \in 1..(k - 1) : ~Knows(stack'[j], stack'[k].w)
             /\ stack'[k].op \in Early => k = 1
             /\ stack'[k].op = "free" => stack'[k].w \in locked'
             /\ stack'[k].op # "destroy" => SeenNext(stack'[k].w)
  <2>1. PICK i \in (n + 1)..Len(stack) :
           /\ k = m + i - n /\ i \in 1..Len(stack) /\ Same(stack'[k], stack[i])
    BY <1>1, <1>2, Place
  <2> DEFINE w == stack[i].w
  <2>2. /\ stack[i].op \in Destructor /\ stack'[k].op = stack[i].op
        /\ stack'[k].w = w
    BY <1>2, <2>1 DEF Same
  <2>3. /\ \A j \in 1..(i - 1) : ~Knows(stack[j], w)
        /\ stack[i].op \in Early => i = 1
        /\ stack[i].op = "free" => w \in locked
        /\ stack[i].op # "destroy" => Seen(w)
    BY <2>1, <2>2 DEF FramesAlone
  <2>4. /\ life'[w] = "dying" /\ w \notin stranded'
        /\ w \in locked => w \in locked'
        /\ Seen(w) => SeenNext(w)
        /\ \A j \in 1..m : ~Knows(stack'[j], w)
    BY <2>1, <2>2
  <2> HIDE DEF w
  <2>5. ASSUME NEW j \in 1..(k - 1), Knows(stack'[j], w) PROVE FALSE
    <3>1. ~(j \in 1..m) /\ j \in 1..Len(stack')
      BY <1>1, <2>1, <2>4, <2>5
    <3>2. PICK l \in (n + 1)..Len(stack) :
             /\ j = m + l - n /\ l \in 1..Len(stack)
             /\ Same(stack'[j], stack[l])
      <4>1. stack \in Seq(Frame) /\ Shape(m, n) /\ j \in 1..Len(stack')
        BY <1>1, <3>1
      <4>2. \/ j \in 1..m
            \/ \E l \in (n + 1)..Len(stack) :
                  /\ j = m + l - n /\ l \in 1..Len(stack)
                  /\ Same(stack'[j], stack[l])
                  /\ stack[l].op \notin Walks => stack'[j] = stack[l]
        BY ONLY <4>1, Place
      <4>3. QED
        BY <3>1, <4>2
    <3>3. l \in 1..(i - 1) /\ Knows(stack[l], w)
      BY <1>1, <2>1, <2>5, <3>2 DEF Knows, Same
    <3>4. QED
      BY <2>3, <3>3
  <2>6. ASSUME stack[i].op \in Early PROVE k = 1
    <3>1. i = 1 /\ n = 0
      BY <1>1, <2>1, <2>3, <2>6
    <3>2. Top = stack[1]
      BY <1>1, <2>1, <3>1 DEF Top
    <3>3. m = 0
      BY <1>1, <2>2, <3>1, <3>2
    <3>4. QED
      BY <2>1, <3>1, <3>3
  <2>7. QED
    BY <2>2, <2>3, <2>4, <2>5, <2>6
<1>3. QED
  BY <1>2, SeenLater DEF FramesAlone

-----------------------------------------------------------------------------
(* The steps that start no destructor and end none.                         *)

\* The frames work on no wrapper that is in its destructor, unless the top frame
\* did.
Tame(fs) ==
    \A k \in 1..Len(fs) :
       /\ fs[k].op \notin Destructor
       /\ \A c \in Wrappers :
             Knows(fs[k], c) => life[c] # "dying" \/ c \in stranded \/ Knows(Top, c)

LEMMA TameNone == Tame(<<>>)
<1>1. Len(<<>>) = 0
  OBVIOUS
<1>2. QED
  BY <1>1 DEF Tame

LEMMA TameOne ==
  ASSUME NEW f, f.op \notin Destructor,
         \A c \in Wrappers :
            Knows(f, c) => life[c] # "dying" \/ c \in stranded \/ Knows(Top, c)
  PROVE  Tame(<<f>>)
<1>1. Len(<<f>>) = 1 /\ <<f>>[1] = f
  OBVIOUS
<1>2. \A k \in 1..1 : k = 1
  OBVIOUS
<1> DEFINE s == <<f>>
<1> HIDE DEF s
<1>3. Tame(s)
  BY <1>1, <1>2 DEF Tame, s
<1>4. QED
  BY <1>3 DEF s

LEMMA TamePut ==
  ASSUME NEW s \in Seq(Frame), NEW t \in Seq(Frame), Tame(s), Tame(t)
  PROVE  s \o t \in Seq(Frame) /\ Tame(s \o t)
<1>1. Len(s) \in Nat /\ Len(t) \in Nat
  BY LenProperties
<1>2. /\ s \o t \in Seq(Frame) /\ Len(s \o t) = Len(s) + Len(t)
      /\ \A k \in 1..(Len(s) + Len(t)) :
            (s \o t)[k] = IF k <= Len(s) THEN s[k] ELSE t[k - Len(s)]
  BY <1>1, ConcatProperties
<1>3. ASSUME NEW k \in 1..Len(s \o t)
      PROVE  \/ \E i \in 1..Len(s) : (s \o t)[k] = s[i]
             \/ \E i \in 1..Len(t) : (s \o t)[k] = t[i]
  <2>1. CASE k <= Len(s)
    <3>1. k \in 1..Len(s) /\ (s \o t)[k] = s[k]
      BY <1>1, <1>2, <2>1
    <3>2. QED
      BY <3>1
  <2>2. CASE ~(k <= Len(s))
    <3>1. k - Len(s) \in 1..Len(t) /\ (s \o t)[k] = t[k - Len(s)]
      BY <1>1, <1>2, <2>2
    <3>2. QED
      BY <3>1
  <2>3. QED
    BY <2>1, <2>2
<1>4. QED
  BY <1>2, <1>3 DEF Tame

\* The frame of one operation on one wrapper.
LEMMA TameFrame ==
  ASSUME NEW op \in Ops, op \notin Destructor, NEW w \in Wrappers \union {None},
         w # None => life[w] # "dying" \/ w \in stranded \/ Knows(Top, w)
  PROVE  <<F(op, w)>> \in Seq(Frame) /\ Tame(<<F(op, w)>>)
<1>1. F(op, w) \in Frame /\ F(op, w).op = op
  BY FrameIs
<1>2. \A c \in Wrappers : Knows(F(op, w), c) => c = w /\ w # None
  BY KnowsOne, WrapperAssumption
<1>3. Tame(<<F(op, w)>>)
  BY <1>1, <1>2, TameOne
<1>4. QED
  BY <1>1, <1>3

LEMMA TameTwo ==
  ASSUME NEW f \in Frame, NEW g \in Frame,
         f.op \notin Destructor, g.op \notin Destructor,
         \A c \in Wrappers :
            Knows(f, c) \/ Knows(g, c) =>
               life[c] # "dying" \/ c \in stranded \/ Knows(Top, c)
  PROVE  <<f, g>> \in Seq(Frame) /\ Tame(<<f, g>>)
<1>1. /\ <<f, g>> \in Seq(Frame) /\ Len(<<f, g>>) = 2
      /\ <<f, g>>[1] = f /\ <<f, g>>[2] = g
  OBVIOUS
<1>2. \A k \in 1..2 : k = 1 \/ k = 2
  OBVIOUS
<1> DEFINE s == <<f, g>>
<1> HIDE DEF s
<1>3. Tame(s)
  BY <1>1, <1>2 DEF Tame, s
<1>4. QED
  BY <1>1, <1>3 DEF s

\* An operation and the callback that comes after it.
LEMMA TameCall ==
  ASSUME NEW f \in Frame, f.op \notin Destructor,
         \A c \in Wrappers :
            Knows(f, c) => life[c] # "dying" \/ c \in stranded \/ Knows(Top, c)
  PROVE  <<f, Lua>> \in Seq(Frame) /\ Tame(<<f, Lua>>)
<1>1. Lua \in Frame /\ Lua.op \notin Destructor /\ \A c \in Wrappers : ~Knows(Lua, c)
  BY LuaIn, KnowsLua DEF Destructor
<1>2. QED
  BY <1>1, TameTwo

LEMMA TameDisconnect ==
  ASSUME NEW w \in Wrappers,
         life[w] # "dying" \/ w \in stranded \/ Knows(Top, w)
  PROVE  Disconnect(w) \in Seq(Frame) /\ Tame(Disconnect(w))
<1>1. F("push", w) \in Frame /\ F("push", w).op = "push"
  BY FrameIs DEF Ops
<1>2. \A c \in Wrappers : Knows(F("push", w), c) => c = w
  BY KnowsOne DEF Ops
<1>3. /\ <<F("push", w), Lua>> \in Seq(Frame)
      /\ Tame(<<F("push", w), Lua>>)
  BY <1>1, <1>2, TameCall DEF Destructor
<1>4. <<>> \in Seq(Frame)
  OBVIOUS
<1>5. QED
  BY <1>3, <1>4, TameNone DEF Disconnect

\* What such a step may do to lives, Mutexes and threads.
Mild ==
    /\ stranded' = stranded /\ locked' = locked
    /\ \A c \in Wrappers :
          /\ life'[c] = life[c] \/ (life[c] = "none" /\ life'[c] = "live")
          /\ life[c] \in {"dying", "deleted"} /\ Seen(c) => SeenNext(c)

LEMMA AloneQuiet ==
  ASSUME Held, Alone, Mild, NEW m, NEW n \in {0, 1}, Shape(m, n),
         n = 1 => Top.op \notin Destructor,
         n = 0 /\ m > 0 => Top.op \notin Destructor,
         NEW fs, Tame(fs), Len(fs) = m, \A k \in 1..m : stack'[k] = fs[k]
  PROVE  Alone'
<1>1. stack \in Seq(Frame) /\ Len(stack) \in Nat /\ m \in Nat /\ n <= Len(stack)
  BY Sizes DEF Shape
<1>2. ASSUME NEW k \in (n + 1)..Len(stack), stack[k].op \in Destructor
      PROVE  /\ life'[stack[k].w] = "dying" /\ stack[k].w \notin stranded'
             /\ stack[k].w \in locked => stack[k].w \in locked'
             /\ Seen(stack[k].w) => SeenNext(stack[k].w)
             /\ \A j \in 1..m : ~Knows(stack'[j], stack[k].w)
  <2> DEFINE w == stack[k].w
  <2>1. /\ k \in 1..Len(stack) /\ life[w] = "dying" /\ w \notin stranded
        /\ \A j \in 1..(k - 1) : ~Knows(stack[j], w)
    BY <1>1, <1>2 DEF Alone, FramesAlone
  <2>2. w \in Wrappers
    BY <1>2, <2>1 DEF Held, StackOK, FramesIn, FrameIn, FrameTyped
  <2>3. /\ life'[w] = "dying" /\ w \notin stranded' /\ locked' = locked
        /\ Seen(w) => SeenNext(w)
    BY <2>1, <2>2 DEF Mild
  <2>4. ASSUME NEW j \in 1..m, Knows(stack'[j], w) PROVE FALSE
    <3>1. Knows(fs[j], w) /\ m > 0 /\ j \in 1..Len(fs)
      BY <1>1, <2>4
    <3>2. Knows(Top, w)
      BY <2>1, <2>2, <3>1 DEF Tame
    <3>3. Top = stack[1]
      BY <1>1, <2>1 DEF Top
    <3>4. CASE k = 1
      BY <1>1, <1>2, <3>1, <3>3, <3>4
    <3>5. CASE k # 1
      <4>1. 1 \in 1..(k - 1)
        BY <1>1, <2>1, <3>5
      <4>2. QED
        BY <2>1, <3>2, <3>3, <4>1
    <3>6. QED
      BY <3>4, <3>5
  <2> HIDE DEF w
  <2>5. /\ life'[w] = "dying" /\ w \notin stranded'
        /\ w \in locked => w \in locked'
        /\ Seen(w) => SeenNext(w)
        /\ \A j \in 1..m : ~Knows(stack'[j], w)
    <3>1. \A j \in 1..m : ~Knows(stack'[j], w)
      BY <2>4
    <3>2. w \in locked => w \in locked'
      BY <2>3
    <3>3. Seen(w) => SeenNext(w)
      BY <2>3
    <3>4. QED
      BY <2>3, <3>1, <3>2, <3>3
  <2>6. QED
    BY <2>5 DEF w
<1>3. \A k \in 1..m : stack'[k].op \notin Destructor
  BY DEF Tame
<1>4. FramesAlone'
  BY <1>1, <1>2, <1>3, FramesAloneKept DEF Alone
<1>5. ASSUME NEW w \in Wrappers
      PROVE  /\ life'[w] = "dying" =>
                    w \in stranded' \/ \E k \in 1..Len(stack') : Dies(k, w)'
             /\ w \in stranded' => life'[w] = "dying" /\ w \in locked'
             /\ life'[w] = "deleted" => SeenNext(w)
  <2>1. ASSUME NEW k \in 1..Len(stack), Dies(k, w)
        PROVE  \E l \in 1..Len(stack') : Dies(l, w)'
    <3>1. k > n
      <4>1. ASSUME n = 1, k = 1 PROVE FALSE
        <5>1. Top = stack[1]
          BY <1>1, <2>1, <4>1 DEF Top
        <5>2. QED
          BY <2>1, <4>1, <5>1 DEF Dies
      <4>2. QED
        BY <1>1, <4>1
    <3>2. QED
      BY <1>1, <2>1, <3>1, DiesStays
  <2>2. QED
    BY <2>1 DEF Mild, Alone, LivesAlone
<1>6. LivesAlone'
  BY <1>5, SeenLater DEF LivesAlone
<1>7. QED
  BY <1>4, <1>6 DEF Alone

LEMMA AloneSame ==
  ASSUME Held, Alone, Mild, stack' = stack
  PROVE  Alone'
<1>1. Shape(0, 0) /\ Len(<<>>) = 0
  BY Sizes, SameShape
<1>2. QED
  BY <1>1, TameNone, AloneQuiet

LEMMA AloneRun ==
  ASSUME Held, Alone, Mild, Top.op \notin Destructor,
         NEW fs \in Seq(Frame), Tame(fs), Run(fs)
  PROVE  Alone'
<1>1. Shape(Len(fs), 0) /\ \A k \in 1..Len(fs) : stack'[k] = fs[k]
  BY Sizes, RunShape
<1>2. QED
  BY <1>1, AloneQuiet

LEMMA AloneBecome ==
  ASSUME Held, Alone, Mild, Top.op \notin Destructor, Top.op # "game",
         NEW fs \in Seq(Frame), Tame(fs), Become(fs)
  PROVE  Alone'
<1>1. stack # <<>>
  BY Sizes, TopIs
<1>2. Shape(Len(fs), 1) /\ \A k \in 1..Len(fs) : stack'[k] = fs[k]
  BY <1>1, Sizes, BecomeShape
<1>3. QED
  BY <1>2, AloneQuiet

-----------------------------------------------------------------------------

LEMMA MildSame ==
  ASSUME UNCHANGED <<stranded, locked, life, started, CurrentWorkers>>, late' = late
  PROVE  Mild
<1>1. ASSUME NEW c, Seen(c) PROVE SeenNext(c)
  BY <1>1 DEF Seen, SeenNext, SeenIn
<1>2. QED
  BY <1>1 DEF Mild

LEMMA MildAllocate ==
  ASSUME Held, UNCHANGED <<stranded, locked, started, CurrentWorkers>>, late' = late,
         NEW w \in Wrappers, Allocate(w)
  PROVE  Mild
<1>1. ASSUME NEW c, Seen(c) PROVE SeenNext(c)
  BY <1>1 DEF Seen, SeenNext, SeenIn
<1>2. life[w] = "none" /\ life' = [life EXCEPT ![w] = "live"]
  BY DEF Allocate
<1>3. \A c \in Wrappers :
         life'[c] = life[c] \/ (life[c] = "none" /\ life'[c] = "live")
  BY <1>2 DEF Held, DataOK
<1>4. QED
  BY <1>1, <1>3 DEF Mild

\* Threads are made for wrappers that live only.
LEMMA MildStart ==
  ASSUME Held, UNCHANGED <<stranded, locked, life, CurrentWorkers>>, late' = late,
         NEW w \in Wrappers, life[w] = "live",
         started' = [started EXCEPT ![w] = @ + Crew]
  PROVE  Mild
<1>1. ASSUME NEW c \in Wrappers, life[c] \in {"dying", "deleted"}, Seen(c)
      PROVE  SeenNext(c)
  <2>1. c # w
    BY <1>1
  <2>2. started'[c] = started[c]
    BY <1>1, <2>1 DEF Held, DataOK
  <2>3. QED
    BY <1>1, <2>2 DEF Seen, SeenNext, SeenIn
<1>2. QED
  BY <1>1 DEF Mild

LEMMA QuietAlone ==
  ASSUME Held, Alone,
         Tick \/ ShutdownHook \/ LuaReturn \/ Reset \/ AcceptList
  PROVE  Alone'
<1>1. Mild
  BY MildSame DEF Tick, ShutdownHook, LuaReturn, Reset, AcceptList, wrapper, pool, past
<1>2. \/ /\ Top.op = "game"
         /\ Run(<<F("think", None)>>) \/ Run(<<F("hook", None)>>)
      \/ Top.op \in {"lua", "reset", "close", "list"} /\ Become(<<>>)
  BY DEF Tick, ShutdownHook, LuaReturn, Reset, AcceptList, At
<1>3. ASSUME NEW op \in Walks
      PROVE  <<F(op, None)>> \in Seq(Frame) /\ Tame(<<F(op, None)>>)
  BY TameFrame DEF Ops, Walks, Destructor
<1>4. <<>> \in Seq(Frame)
  OBVIOUS
<1>5. CASE Top.op = "game" /\ Run(<<F("think", None)>>)
  BY <1>1, <1>3, <1>5, AloneRun DEF Walks, Destructor
<1>6. CASE Top.op = "game" /\ Run(<<F("hook", None)>>)
  BY <1>1, <1>3, <1>6, AloneRun DEF Walks, Destructor
<1>7. CASE Top.op \in {"lua", "reset", "close", "list"} /\ Become(<<>>)
  BY <1>1, <1>4, <1>7, TameNone, AloneBecome DEF Destructor
<1>8. QED
  BY <1>2, <1>5, <1>6, <1>7

\* A walk moves on to a socket that is listed, and so lives.
LEMMA StepAlone ==
  ASSUME Held, Alone, Mild, SocketsOK, Top.op \in Walks, Top.i < Len(Sockets),
         NEW fs \in Seq(Frame), Tame(fs), Step(fs)
  PROVE  Alone'
<1>1. stack # <<>> /\ Top \in Frame
  BY Sizes, TopIs DEF Walks
<1> DEFINE n == Top.i + 1
           f == [Top EXCEPT !.i = n, !.w = Sockets[n],
                            !.done = @ \union {Sockets[n]}]
<1>2. n \in Nat /\ Sockets[n] \in Wrappers /\ life[Sockets[n]] = "live"
  <2>1. Sockets \in Seq(Wrappers)
    BY DEF Held, DataOK
  <2>2. Top.i \in Nat /\ Len(Sockets) \in Nat
    BY <1>1, <2>1, LenProperties DEF Frame
  <2>3. n \in 1..Len(Sockets) /\ DOMAIN Sockets = 1..Len(Sockets)
    BY <2>1, <2>2, LenProperties
  <2>4. Sockets[n] \in Wrappers /\ Sockets[n] \in Listed
    BY <2>1, <2>3, ElementOfSeq DEF Listed, ToSet
  <2>5. QED
    BY <2>2, <2>4 DEF SocketsOK, Live
<1>3. Become(fs \o <<f>>)
  BY DEF Step
<1> HIDE DEF n
<1>4. f \in Frame /\ f.op = Top.op /\ f.w = Sockets[n] /\ f.o = Top.o
  BY <1>1, <1>2 DEF Frame
<1> HIDE DEF f
<1>5. \A c \in Wrappers :
         Knows(f, c) => life[c] # "dying" \/ c \in stranded \/ Knows(Top, c)
  BY <1>2, <1>4 DEF Knows
<1>6. <<f>> \in Seq(Frame) /\ Tame(<<f>>)
  BY <1>4, <1>5, TameOne DEF Walks, Destructor
<1>7. fs \o <<f>> \in Seq(Frame) /\ Tame(fs \o <<f>>)
  BY <1>6, TamePut
<1>8. QED
  BY <1>3, <1>7, AloneBecome DEF Walks, Destructor

LEMMA ThinkNextAlone ==
  ASSUME Held, Alone, SocketsOK, ThinkNext
  PROVE  Alone'
<1>1. /\ Top.op = "think"
      /\ IF Top.i < Len(Sockets) THEN Step(<<>>) ELSE Become(<<>>)
  BY DEF ThinkNext, At
<1>2. Mild
  BY MildSame DEF ThinkNext, wrapper, pool, past
<1>3. <<>> \in Seq(Frame) /\ Tame(<<>>)
  BY TameNone
<1>4. CASE Top.i < Len(Sockets)
  BY <1>1, <1>2, <1>3, <1>4, StepAlone DEF Walks
<1>5. CASE ~(Top.i < Len(Sockets))
  BY <1>1, <1>2, <1>3, <1>5, AloneBecome DEF Destructor
<1>6. QED
  BY <1>4, <1>5

LEMMA HookNextAlone ==
  ASSUME Held, Alone, SocketsOK, HookNext
  PROVE  Alone'
<1>1. Top.op = "hook"
  BY DEF HookNext, At
<1>2. Mild
  BY MildSame DEF HookNext, wrapper, pool, past
<1>3. CASE Top.i < Len(Sockets)
  <2> DEFINE w == Sockets[Top.i + 1]
  <2>1. Step(Disconnect(w) \o <<F("reset", w)>>)
    BY <1>3 DEF HookNext
  <2>2. w \in Wrappers /\ life[w] = "live"
    <3>1. Sockets \in Seq(Wrappers) /\ Top \in Frame
      BY <1>1, Sizes, TopIs DEF Held, DataOK
    <3>2. Top.i \in Nat /\ Len(Sockets) \in Nat
      BY <3>1, LenProperties DEF Frame
    <3>3. Top.i + 1 \in 1..Len(Sockets) /\ DOMAIN Sockets = 1..Len(Sockets)
      BY <1>3, <3>1, <3>2, LenProperties
    <3>4. w \in Wrappers /\ w \in Listed
      BY <3>1, <3>2, <3>3, ElementOfSeq DEF Listed, ToSet
    <3>5. QED
      BY <3>4 DEF SocketsOK, Live
  <2> HIDE DEF w
  <2>3. <<F("reset", w)>> \in Seq(Frame) /\ Tame(<<F("reset", w)>>)
    BY <2>2, TameFrame DEF Ops, Destructor
  <2>4. /\ Disconnect(w) \o <<F("reset", w)>> \in Seq(Frame)
        /\ Tame(Disconnect(w) \o <<F("reset", w)>>)
    BY <2>2, <2>3, TameDisconnect, TamePut
  <2>5. QED
    BY <1>1, <1>2, <1>3, <2>1, <2>4, StepAlone DEF Walks
<1>4. CASE ~(Top.i < Len(Sockets))
  <2>1. Become(<<F("think", None)>>)
    BY <1>4 DEF HookNext
  <2>2. <<F("think", None)>> \in Seq(Frame) /\ Tame(<<F("think", None)>>)
    BY TameFrame DEF Ops, Destructor
  <2>3. QED
    BY <1>1, <1>2, <2>1, <2>2, AloneBecome DEF Destructor
<1>5. QED
  BY <1>3, <1>4

LEMMA PushToStackAlone ==
  ASSUME Held, Alone, PushToStack
  PROVE  Alone'
<1>1. Mild
  BY MildSame DEF PushToStack, Push, pool, past
<1>2. CASE Top.op \in {"push", "client"} /\ Become(<<>>)
  <2>1. <<>> \in Seq(Frame)
    OBVIOUS
  <2>2. QED
    BY <1>1, <1>2, <2>1, TameNone, AloneBecome DEF Destructor
<1>3. CASE Top.op = "both" /\ Become(<<[F("client", Top.o) EXCEPT !.o = Top.w]>>)
  <2> DEFINE f == [F("client", Top.o) EXCEPT !.o = Top.w]
  <2>1. Top.w \in Wrappers /\ Top.o \in Wrappers
    BY <1>3, TopIn DEF Held, FrameIn, FrameTyped
  <2>2. f \in Frame /\ f.op = "client" /\ f.w = Top.o /\ f.o = Top.w
    <3>1. F("client", Top.o) \in Frame
      BY <2>1, FrameIs DEF Ops
    <3>2. QED
      BY <2>1, <3>1 DEF Frame, F
  <2>3. Become(<<f>>)
    BY <1>3
  <2> HIDE DEF f
  <2>4. <<f>> \in Seq(Frame) /\ Tame(<<f>>)
    BY <2>2, TameOne DEF Knows, Destructor
  <2>5. QED
    BY <1>1, <1>3, <2>3, <2>4, AloneBecome DEF Destructor
<1>4. QED
  BY <1>2, <1>3 DEF PushToStack, At

\* What Handle puts on the stack is about the socket at hand and, of an Accept,
\* the client that only its result knew.
LEMMA HandleTame ==
  ASSUME NEW w \in Wrappers, Knows(Top, w), NEW e \in SockEvent,
         e.type = "accepted" => e.sock \in Wrappers /\ life[e.sock] = "live",
         Handle(w, e)
  PROVE  \E fs \in Seq(Frame) : Run(fs) /\ Tame(fs)
<1>1. CASE e.type = "accepted"
  <2> DEFINE f == [F("both", w) EXCEPT !.o = e.sock]
  <2>1. Run(<<f, Lua>>)
    BY <1>1 DEF Handle
  <2>2. f \in Frame /\ f.op = "both" /\ f.w = w /\ f.o = e.sock
    <3>1. F("both", w) \in Frame
      BY FrameIs DEF Ops
    <3>2. QED
      BY <1>1, <3>1 DEF Frame, F
  <2> HIDE DEF f
  <2>3. \A c \in Wrappers :
           Knows(f, c) => life[c] # "dying" \/ c \in stranded \/ Knows(Top, c)
    <3>1. ASSUME NEW c \in Wrappers, Knows(f, c)
          PROVE  life[c] # "dying" \/ Knows(Top, c)
      <4>1. c = w \/ c = e.sock
        BY <2>2, <3>1 DEF Knows
      <4>2. CASE c = w
        BY <4>2
      <4>3. CASE c = e.sock
        BY <1>1, <4>3
      <4>4. QED
        BY <4>1, <4>2, <4>3
    <3>2. QED
      BY <3>1
  <2>4. <<f, Lua>> \in Seq(Frame) /\ Tame(<<f, Lua>>)
    BY <2>2, <2>3, TameCall DEF Destructor
  <2>5. QED
    BY <2>1, <2>4
<1>2. CASE e.type # "accepted"
  <2>1. \/ Run(<<F("push", w), Lua>>) \/ Run(Disconnect(w))
        \/ Run(Disconnect(w) \o <<F("throw", w)>>)
    BY <1>2 DEF Handle
  <2>2. <<F("push", w), Lua>> \in Seq(Frame) /\ Tame(<<F("push", w), Lua>>)
    <3>1. F("push", w) \in Frame /\ F("push", w).op = "push"
      BY FrameIs DEF Ops
    <3>2. \A c \in Wrappers : Knows(F("push", w), c) => c = w
      BY KnowsOne DEF Ops
    <3>3. \A c \in Wrappers : Knows(F("push", w), c) => Knows(Top, c)
      BY <3>2
    <3>4. QED
      BY <3>1, <3>3, TameCall DEF Destructor
  <2>3. Disconnect(w) \in Seq(Frame) /\ Tame(Disconnect(w))
    BY TameDisconnect
  <2>4. <<F("throw", w)>> \in Seq(Frame) /\ Tame(<<F("throw", w)>>)
    BY TameFrame DEF Ops, Destructor
  <2>5. /\ Disconnect(w) \o <<F("throw", w)>> \in Seq(Frame)
        /\ Tame(Disconnect(w) \o <<F("throw", w)>>)
    BY <2>3, <2>4, TamePut
  <2>6. QED
    BY <2>1, <2>2, <2>3, <2>5
<1>3. QED
  BY <1>1, <1>2

LEMMA ThinkHandleAlone ==
  ASSUME Held, Lists, Alone, ThinkHandle
  PROVE  Alone'
<1> DEFINE w == Top.w
           e == Head(Callbacks[w])
<1>1. /\ UNCHANGED <<life, locked, CurrentWorkers, stranded, late>>
      /\ Top.op = "think" /\ w # None /\ Callbacks[w] # <<>> /\ Handle(w, e)
  BY DEF ThinkHandle, At, wrapper, past
<1>2. w \in Wrappers /\ Knows(Top, w)
  BY <1>1, Sizes, TopIs DEF Frame, Knows
<1> HIDE DEF w
<1>3. /\ 1 \in 1..Len(Callbacks[w]) /\ e = Callbacks[w][1] /\ e \in SockEvent
  <2>1. Callbacks[w] \in Seq(SockEvent)
    BY <1>2 DEF Held, DataOK
  <2>2. Len(Callbacks[w]) \in Nat /\ Len(Callbacks[w]) # 0
    BY <1>1, <2>1, LenProperties, EmptySeq
  <2>3. e = Callbacks[w][1] /\ 1 \in 1..Len(Callbacks[w])
    BY <2>1, <2>2
  <2>4. QED
    BY <2>1, <2>3, ElementOfSeq
<1> HIDE DEF e
<1>4. e.type = "accepted" => e.sock \in Wrappers /\ life[e.sock] = "live"
  <2>1. ASSUME e.type = "accepted" PROVE e.sock \in Wrappers /\ Waits(w, 1, e.sock)
    BY <1>2, <1>3, <2>1 DEF Held, ClientsOK, Waits
  <2>2. QED
    BY <1>2, <2>1, WaitingIs
<1>5. Mild
  <2>1. \/ started' = started
        \/ e.type = "accepted" /\ started' = [started EXCEPT ![e.sock] = @ + Crew]
    BY <1>1 DEF Handle
  <2>2. CASE started' = started
    BY <1>1, <2>2, MildSame
  <2>3. CASE e.type = "accepted" /\ started' = [started EXCEPT ![e.sock] = @ + Crew]
    BY <1>1, <1>4, <2>3, MildStart
  <2>4. QED
    BY <2>1, <2>2, <2>3
<1>6. PICK fs \in Seq(Frame) : Run(fs) /\ Tame(fs)
  BY <1>1, <1>2, <1>3, <1>4, HandleTame
<1>7. QED
  BY <1>1, <1>5, <1>6, AloneRun DEF Destructor

LEMMA MakesAlone ==
  ASSUME Held, Alone, NEW w \in Wrappers, NEW c \in Wrappers,
         LuaBromSock(w) \/ LuaAccept(c, w)
  PROVE  Alone'
<1>1. /\ UNCHANGED <<stranded, locked, started, CurrentWorkers, late>>
      /\ Allocate(w) /\ Top.op \in {"lua", "game"}
      /\ Run(<<F("push", w)>>) \/ Run(<<F("push", w), F("list", w)>>)
  BY DEF LuaBromSock, LuaAccept, Uses, InScript, At, pool, past
<1>2. Mild /\ life[w] = "none"
  BY <1>1, MildAllocate DEF Allocate
<1>3. <<F("push", w)>> \in Seq(Frame) /\ Tame(<<F("push", w)>>)
  BY <1>2, TameFrame DEF Ops, Destructor
<1>4. /\ <<F("push", w), F("list", w)>> \in Seq(Frame)
      /\ Tame(<<F("push", w), F("list", w)>>)
  <2>1. /\ F("push", w) \in Frame /\ F("push", w).op = "push"
        /\ F("list", w) \in Frame /\ F("list", w).op = "list"
    BY FrameIs DEF Ops
  <2>2. \A v \in Wrappers : Knows(F("push", w), v) \/ Knows(F("list", w), v) => v = w
    BY KnowsOne DEF Ops
  <2>3. QED
    BY <1>2, <2>1, <2>2, TameTwo DEF Destructor
<1>5. CASE Run(<<F("push", w)>>)
  BY <1>1, <1>2, <1>3, <1>5, AloneRun DEF Destructor
<1>6. CASE Run(<<F("push", w), F("list", w)>>)
  BY <1>1, <1>2, <1>4, <1>6, AloneRun DEF Destructor
<1>7. QED
  BY <1>1, <1>5, <1>6

LEMMA LuaCloseAlone ==
  ASSUME Held, Alone, NEW w \in Wrappers, LuaClose(w)
  PROVE  Alone'
<1>1. /\ Run(Disconnect(w) \o <<F("close", w)>>)
      /\ Top.op \in {"lua", "game"} /\ userdata[w] > 0
  BY DEF LuaClose, Uses, InScript, At
<1>2. Mild
  BY MildSame DEF LuaClose, wrapper, pool, past
<1>3. life[w] # "dying" \/ w \in stranded
  BY <1>1 DEF Held, CountOK, Kept, Live
<1>4. <<F("close", w)>> \in Seq(Frame) /\ Tame(<<F("close", w)>>)
  BY <1>3, TameFrame DEF Ops, Destructor
<1>5. /\ Disconnect(w) \o <<F("close", w)>> \in Seq(Frame)
      /\ Tame(Disconnect(w) \o <<F("close", w)>>)
  BY <1>3, <1>4, TameDisconnect, TamePut
<1>6. QED
  BY <1>1, <1>2, <1>5, AloneRun DEF Destructor

LEMMA WorksAlone ==
  ASSUME Held, Alone, NEW w \in Wrappers, NEW type \in Requests,
         \/ LuaStart(w) \/ LuaRequest(w, type) \/ Worker(w) \/ Lose
  PROVE  Alone'
<1>1. stack' = stack
  BY DEF LuaStart, LuaRequest, Worker, WorkerStart, WorkerRun, WorkerStop, Lose
<1>2. Mild
  <2>1. CASE LuaStart(w)
    BY <2>1, MildStart DEF LuaStart, Live, wrapper, past
  <2>2. CASE LuaRequest(w, type) \/ Lose
    BY <2>2, MildSame DEF LuaRequest, Lose, wrapper, pool, past
  <2>3. CASE WorkerRun(w)
    <3>1. UNCHANGED <<stranded, locked, started, CurrentWorkers>> /\ late' = late
      BY <2>3 DEF WorkerRun, pool, past
    <3>2. life' = life \/ \E c \in Wrappers : Allocate(c)
      BY <2>3 DEF WorkerRun
    <3>3. QED
      BY <3>1, <3>2, MildSame, MildAllocate
  <2>4. CASE WorkerStart(w) \/ WorkerStop(w)
    <3>1. UNCHANGED <<stranded, locked, life>> /\ late' = late
      BY <2>4 DEF WorkerStart, WorkerStop, wrapper, past
    <3>2. ASSUME NEW c \in Wrappers, Seen(c) PROVE SeenNext(c)
      <4>1. /\ started[c] \in Nat /\ CurrentWorkers[c] \in Nat
            /\ started[w] \in Nat /\ CurrentWorkers[w] \in Nat
        BY DEF Held, DataOK
      <4>2. CASE c # w
        <5>1. started'[c] = started[c] /\ CurrentWorkers'[c] = CurrentWorkers[c]
          BY <2>4, <4>2 DEF WorkerStart, WorkerStop, Held, DataOK
        <5>2. QED
          BY <3>1, <3>2, <5>1 DEF Seen, SeenNext, SeenIn
      <4>3. CASE c = w
        <5>1. \/ /\ started'[w] = started[w] - 1
                 /\ CurrentWorkers'[w] = CurrentWorkers[w] + 1
              \/ /\ started'[w] = started[w] /\ CurrentWorkers[w] > 0
                 /\ CurrentWorkers'[w] = CurrentWorkers[w] - 1
          BY <2>4 DEF WorkerStart, WorkerStop, Held, DataOK
        <5>2. started'[w] + CurrentWorkers'[w] > 0 =>
                 started[w] + CurrentWorkers[w] > 0
          BY <4>1, <5>1
        <5>3. QED
          BY <3>1, <3>2, <4>3, <5>2 DEF Seen, SeenNext, SeenIn
      <4>4. QED
        BY <4>2, <4>3
    <3>3. QED
      BY <3>1, <3>2 DEF Mild
  <2>5. QED
    BY <2>1, <2>2, <2>3, <2>4 DEF Worker
<1>3. QED
  BY <1>1, <1>2, AloneSame

-----------------------------------------------------------------------------
(* The steps of the destructors.                                            *)

\* One frame for the other; the wrapper is still in its destructor.
LEMMA StageAlone ==
  ASSUME Held, Alone, Top.op \in Early,
         UNCHANGED <<life, stranded>>, locked \subseteq locked',
         \A c \in Wrappers : Seen(c) => SeenNext(c), SeenNext(Top.w),
         NEW op \in {"lower", "lock", "free"}, op = "free" => Top.w \in locked',
         NEW m \in {1, 2}, Shape(m, 1), stack'[m] = F(op, Top.w),
         m = 1 => op \in Early,
         m = 2 => op = "free" /\ stack'[1] = F("think", None)
  PROVE  Alone'
<1>1. /\ stack \in Seq(Frame) /\ Len(stack) \in Nat /\ Top = stack[1]
      /\ 1 \in 1..Len(stack)
  BY Sizes, TopIs DEF Early
<1> DEFINE w == Top.w
<1>2. /\ w \in Wrappers /\ life[w] = "dying" /\ w \notin stranded
      /\ Top.op \in Destructor
  BY <1>1 DEF Alone, FramesAlone, Held, StackOK, FramesIn, FrameIn, FrameTyped,
              Early, Destructor
<1>3. /\ F(op, w).op = op /\ F(op, w).w = w /\ SeenNext(w)
      /\ F("think", None).op = "think"
      /\ \A c \in Wrappers : ~Knows(F("think", None), c)
      /\ \A c \in Wrappers : Knows(F(op, w), c) => c = w
      /\ stack'[m] = F(op, w) /\ (op = "free" => w \in locked')
  BY <1>2, FrameIs, KnowsOne, WrapperAssumption DEF Ops, Destructor
<1>4. Top.w = w
  OBVIOUS
<1> HIDE DEF w
<1>5. \A j \in 1..m : j = m \/ (j = 1 /\ m = 2)
  OBVIOUS
<1>6. ASSUME NEW k \in 2..Len(stack), stack[k].op \in Destructor
      PROVE  /\ life'[stack[k].w] = "dying" /\ stack[k].w \notin stranded'
             /\ stack[k].w \in locked => stack[k].w \in locked'
             /\ Seen(stack[k].w) => SeenNext(stack[k].w)
             /\ \A j \in 1..m : ~Knows(stack'[j], stack[k].w)
  <2> DEFINE v == stack[k].w
  <2>1. /\ k \in 1..Len(stack) /\ 1 \in 1..(k - 1)
        /\ stack[k].op \in Destructor
    BY <1>1, <1>6
  <2>2. /\ v \in Wrappers /\ life[v] = "dying" /\ v \notin stranded
        /\ ~Knows(stack[1], v)
    BY <2>1 DEF Alone, FramesAlone, Held, StackOK, FramesIn, FrameIn, FrameTyped
  <2> HIDE DEF v
  <2>3. v # w
    BY <1>1, <1>4, <2>2 DEF Knows
  <2>4. \A j \in 1..m : ~Knows(stack'[j], v)
    BY <1>3, <1>5, <2>2, <2>3
  <2>5. v \in locked => v \in locked'
    OBVIOUS
  <2>6. Seen(v) => SeenNext(v)
    BY <2>2
  <2>7. life'[v] = "dying" /\ v \notin stranded'
    BY <2>2
  <2>8. QED
    BY <2>4, <2>5, <2>6, <2>7 DEF v
<1>7. ASSUME NEW k \in 1..m, stack'[k].op \in Destructor
      PROVE  /\ life'[stack'[k].w] = "dying" /\ stack'[k].w \notin stranded'
             /\ \A j \in 1..(k - 1) : ~Knows(stack'[j], stack'[k].w)
             /\ stack'[k].op \in Early => k = 1
             /\ stack'[k].op = "free" => stack'[k].w \in locked'
             /\ stack'[k].op # "destroy" => SeenNext(stack'[k].w)
  <2>1. k = m
    BY <1>3, <1>5, <1>7 DEF Destructor
  <2>2. stack'[k].w = w /\ stack'[k].op = op
    BY <1>3, <2>1
  <2>3. \A j \in 1..(k - 1) : ~Knows(stack'[j], w)
    <3>1. \A j \in 1..(m - 1) : j = 1 /\ m = 2
      OBVIOUS
    <3>2. QED
      BY <1>2, <1>3, <2>1, <3>1
  <2>4. op \in Early => k = 1
    BY <2>1 DEF Early
  <2>5. SeenNext(stack'[k].w)
    BY <1>3, <2>2
  <2>6. QED
    BY <1>2, <1>3, <2>2, <2>3, <2>4, <2>5
<1>8. FramesAlone'
  <2>1. (1 = 0 /\ m > 0 => Top.op \notin Destructor) /\ 1 + 1 = 2
    OBVIOUS
  <2>2. QED
    BY <1>6, <1>7, <2>1, FramesAloneKept DEF Alone
<1>9. ASSUME NEW c \in Wrappers
      PROVE  /\ life'[c] = "dying" =>
                    c \in stranded' \/ \E k \in 1..Len(stack') : Dies(k, c)'
             /\ c \in stranded' => life'[c] = "dying" /\ c \in locked'
             /\ life'[c] = "deleted" => SeenNext(c)
  <2>1. ASSUME NEW k \in 1..Len(stack), Dies(k, c)
        PROVE  \E l \in 1..Len(stack') : Dies(l, c)'
    <3>1. CASE k > 1
      BY <1>1, <2>1, <3>1, DiesStays
    <3>2. CASE k = 1
      <4>1. c = w
        BY <1>1, <1>4, <2>1, <3>2 DEF Dies
      <4>2. m \in 1..Len(stack')
        BY <1>1 DEF Shape
      <4>3. stack'[m].op \in Destructor /\ stack'[m].w = c
        BY <1>3, <4>1 DEF Destructor
      <4>4. QED
        BY <4>2, <4>3 DEF Dies
    <3>3. QED
      BY <1>1, <3>1, <3>2
  <2>2. QED
    BY <2>1 DEF Alone, LivesAlone
<1>10. LivesAlone'
  BY <1>9, SeenLater DEF LivesAlone
<1>11. QED
  BY <1>8, <1>10 DEF Alone

LEMMA DestroyAlone ==
  ASSUME Held, Alone, Destroy \/ DestroyLower \/ DestroyLock
  PROVE  Alone'
<1> DEFINE w == Top.w
<1>1. Top.op \in Early /\ UNCHANGED <<life, stranded, started, CurrentWorkers>>
  BY DEF Destroy, DestroyLower, DestroyLock, At, Early, wrapper, pool, past
<1>2. /\ stack # <<>> /\ stack \in Seq(Frame) /\ Top = stack[1]
      /\ 1 \in 1..Len(stack) /\ w \in Wrappers
  BY <1>1, Sizes, TopIs, TopIn DEF Held, FrameIn, FrameTyped, Early, Destructor
<1> HIDE DEF w
<1>3. locked \subseteq locked' /\ (DestroyLock => w \in locked')
  BY DEF Destroy, DestroyLower, DestroyLock, wrapper, w
<1>4. \A c \in Wrappers : Seen(c) => SeenNext(c)
  <2>1. late \subseteq late'
    BY DEF Destroy, DestroyLower, DestroyLock, past
  <2>2. QED
    BY <1>1, <2>1 DEF Seen, SeenNext, SeenIn
<1>5. SeenNext(w)
  <2>1. CASE Destroy
    <3>1. CurrentWorkers[w] = 0 /\ (started[w] > 0 => w \in late')
      BY <2>1 DEF Destroy, Killed, w
    <3>2. started[w] \in Nat
      BY <1>2 DEF Held, DataOK
    <3>3. QED
      BY <1>1, <3>1, <3>2 DEF SeenNext, SeenIn
  <2>2. CASE DestroyLower \/ DestroyLock
    <3>1. Top.op \in {"lower", "lock"}
      BY <2>2 DEF DestroyLower, DestroyLock, At
    <3>2. Seen(w)
      BY <1>2, <3>1 DEF Alone, FramesAlone, Destructor, w
    <3>3. QED
      BY <1>2, <1>4, <3>2
  <2>3. QED
    BY <2>1, <2>2
<1>6. ASSUME NEW op \in {"lower", "lock"}, Become(<<F(op, w)>>)
      PROVE  Alone'
  <2>1. /\ <<F(op, w)>> \in Seq(Frame) /\ Len(<<F(op, w)>>) = 1
        /\ <<F(op, w)>>[1] = F(op, w) /\ 1 \in 1..1
    BY <1>2, FrameIs DEF Ops, Destructor
  <2>2. Shape(1, 1) /\ stack'[1] = F(op, w)
    BY <1>2, <1>6, <2>1, BecomeShape
  <2>3. QED
    BY <1>1, <1>3, <1>4, <1>5, <2>2, StageAlone DEF Early, w
<1>7. ASSUME DestroyLock PROVE Alone'
  <2> DEFINE fs == <<F("think", None), F("free", w)>>
  <2>1. Become(fs)
    BY <1>7 DEF DestroyLock, w
  <2>2. F("think", None) \in Frame /\ F("free", w) \in Frame
    BY <1>2, FrameIs DEF Ops, Destructor
  <2>3. /\ fs \in Seq(Frame) /\ Len(fs) = 2
        /\ fs[1] = F("think", None) /\ fs[2] = F("free", w)
        /\ 1 \in 1..2 /\ 2 \in 1..2
    BY <2>2
  <2> HIDE DEF fs
  <2>4. Shape(2, 1) /\ stack'[1] = F("think", None) /\ stack'[2] = F("free", w)
    BY <1>2, <2>1, <2>3, BecomeShape
  <2>5. w \in locked'
    BY <1>3, <1>7
  <2>6. QED
    BY <1>1, <1>3, <1>4, <1>5, <2>4, <2>5, StageAlone DEF Early, w
<1>8. \/ DestroyLock \/ \E op \in {"lower", "lock"} : Become(<<F(op, w)>>)
  BY DEF Destroy, DestroyLower, w
<1>9. QED
  BY <1>6, <1>7, <1>8

\* The end of a destructor.
LEMMA FreeAlone ==
  ASSUME Held, Alone, Free
  PROVE  Alone'
<1> DEFINE w == Top.w
<1>1. /\ Top.op = "free" /\ Become(<<>>) /\ locked' = locked \ {w}
      /\ life' = [life EXCEPT ![w] = "deleted"]
      /\ UNCHANGED <<stranded, started, CurrentWorkers, late>>
  BY DEF Free, At, pool
<1>2. /\ stack # <<>> /\ stack \in Seq(Frame) /\ Top = stack[1]
      /\ 1 \in 1..Len(stack) /\ Len(stack) \in Nat /\ w \in Wrappers
  BY <1>1, Sizes, TopIs, TopIn DEF Held, FrameIn, FrameTyped, Destructor
<1>3. w \notin stranded /\ Seen(w)
  BY <1>1, <1>2 DEF Alone, FramesAlone, Destructor
<1>4. stack[1].w = w /\ stack[1].op \in Destructor
  BY <1>1, <1>2 DEF Destructor
<1> HIDE DEF w
<1>5. /\ life'[w] = "deleted"
      /\ \A c \in Wrappers : c # w => life'[c] = life[c] /\ (c \in locked => c \in locked')
  BY <1>1, <1>2 DEF Held, DataOK
<1>6. <<>> \in Seq(Frame) /\ Len(<<>>) = 0
  OBVIOUS
<1>7. Shape(0, 1)
  BY <1>1, <1>2, <1>6, BecomeShape
<1>8. ASSUME NEW c, Seen(c) PROVE SeenNext(c)
  BY <1>1, <1>8 DEF Seen, SeenNext, SeenIn
<1>9. ASSUME NEW k \in 2..Len(stack), stack[k].op \in Destructor
      PROVE  /\ life'[stack[k].w] = "dying" /\ stack[k].w \notin stranded'
             /\ stack[k].w \in locked => stack[k].w \in locked'
             /\ Seen(stack[k].w) => SeenNext(stack[k].w)
             /\ \A j \in 1..0 : ~Knows(stack'[j], stack[k].w)
  <2> DEFINE v == stack[k].w
  <2>1. k \in 1..Len(stack) /\ 1 \in 1..(k - 1)
    BY <1>2, <1>9
  <2>2. /\ v \in Wrappers /\ life[v] = "dying" /\ v \notin stranded
        /\ ~Knows(stack[1], v)
    BY <1>9, <2>1 DEF Alone, FramesAlone, Held, StackOK, FramesIn, FrameIn, FrameTyped
  <2> HIDE DEF v
  <2>3. v # w
    BY <1>4, <2>2 DEF Knows
  <2>4. life'[v] = "dying" /\ v \notin stranded' /\ (v \in locked => v \in locked')
    BY <1>1, <1>5, <2>2, <2>3
  <2>5. \A j \in 1..0 : ~Knows(stack'[j], v)
    OBVIOUS
  <2>6. Seen(v) => SeenNext(v)
    BY <1>8
  <2>7. QED
    BY <2>4, <2>5, <2>6 DEF v
<1>10. FramesAlone'
  <2>1. (1 = 0 /\ 0 > 0 => Top.op \notin Destructor) /\ 1 + 1 = 2
    OBVIOUS
  <2>2. \A k \in 1..0 : FALSE
    OBVIOUS
  <2>3. QED
    BY <1>7, <1>9, <2>1, <2>2, FramesAloneKept DEF Alone
<1>11. ASSUME NEW c \in Wrappers
       PROVE  /\ life'[c] = "dying" =>
                     c \in stranded' \/ \E k \in 1..Len(stack') : Dies(k, c)'
              /\ c \in stranded' => life'[c] = "dying" /\ c \in locked'
              /\ life'[c] = "deleted" => SeenNext(c)
  <2>1. CASE c = w
    BY <1>1, <1>3, <1>5, <1>8, <2>1
  <2>2. CASE c # w
    <3>1. ASSUME NEW k \in 1..Len(stack), Dies(k, c)
          PROVE  \E l \in 1..Len(stack') : Dies(l, c)'
      <4>1. k # 1
        BY <1>4, <2>2, <3>1 DEF Dies
      <4>2. k > 1
        BY <1>2, <4>1
      <4>3. QED
        BY <1>2, <1>7, <3>1, <4>2, DiesStays
    <3>2. life'[c] = life[c] /\ (c \in locked => c \in locked')
      BY <1>5, <2>2
    <3>3. Seen(c) => SeenNext(c)
      BY <1>8
    <3>4. c \in stranded' <=> c \in stranded
      BY <1>1
    <3>5. QED
      BY <3>1, <3>2, <3>3, <3>4 DEF Alone, LivesAlone
  <2>3. QED
    BY <2>1, <2>2
<1>12. LivesAlone'
  BY <1>11, SeenLater DEF LivesAlone
<1>13. QED
  BY <1>10, <1>12 DEF Alone

\* An error leaves the destructors it cuts short behind.
LEMMA UnwindAlone ==
  ASSUME Held, Alone, Unwind
  PROVE  Alone'
<1>1. /\ UNCHANGED <<life, locked, started, CurrentWorkers, late>>
      /\ Top.op \in {"lua", "throw"}
  BY DEF Unwind, At, wrapper, pool
<1>2. /\ stack \in Seq(Frame) /\ Len(stack) \in Nat /\ Top = stack[1]
  BY <1>1, Sizes, TopIs
<1>3. PICK n \in 1..Len(stack) :
         Shape(0, n) /\ stranded' = stranded \union Cut(n)
  BY <1>2, UnwindShape
<1>4. ASSUME NEW c, Seen(c) PROVE SeenNext(c)
  BY <1>1, <1>4 DEF Seen, SeenNext, SeenIn
<1>5. ASSUME NEW k \in (n + 1)..Len(stack), stack[k].op \in Destructor
      PROVE  /\ life'[stack[k].w] = "dying" /\ stack[k].w \notin stranded'
             /\ stack[k].w \in locked => stack[k].w \in locked'
             /\ Seen(stack[k].w) => SeenNext(stack[k].w)
             /\ \A j \in 1..0 : ~Knows(stack'[j], stack[k].w)
  <2> DEFINE v == stack[k].w
  <2>1. k \in 1..Len(stack) /\ 1..n \subseteq 1..(k - 1)
    BY <1>2, <1>5
  <2>2. /\ life[v] = "dying" /\ v \notin stranded
        /\ \A j \in 1..n : ~Knows(stack[j], v)
    BY <1>5, <2>1 DEF Alone, FramesAlone
  <2> HIDE DEF v
  <2>3. v \notin Cut(n)
    BY <2>2 DEF Cut, Knows
  <2>4. life'[v] = "dying" /\ v \notin stranded' /\ (v \in locked => v \in locked')
    BY <1>1, <1>3, <2>2, <2>3
  <2>5. \A j \in 1..0 : ~Knows(stack'[j], v)
    OBVIOUS
  <2>6. Seen(v) => SeenNext(v)
    BY <1>4
  <2>7. QED
    BY <2>4, <2>5, <2>6 DEF v
<1>6. FramesAlone'
  <2>1. n = 0 /\ 0 > 0 => Top.op \notin Destructor
    OBVIOUS
  <2>2. \A k \in 1..0 : FALSE
    OBVIOUS
  <2>3. QED
    BY <1>3, <1>5, <2>1, <2>2, FramesAloneKept DEF Alone
<1>7. ASSUME NEW c \in Wrappers, NEW j \in 1..n, Dies(j, c)
      PROVE  c \in Cut(n) /\ life[c] = "dying" /\ c \in locked
  <2>1. j \in 1..Len(stack) /\ stack[j].op \in Destructor /\ stack[j].w = c
    BY <1>2, <1>7 DEF Dies
  <2>2. stack[j].op \notin Early
    <3>1. stack[j].op \in Early => j = 1
      BY <2>1 DEF Alone, FramesAlone
    <3>2. stack[1].op \notin Early
      BY <1>1, <1>2 DEF Early
    <3>3. QED
      BY <3>1, <3>2
  <2>3. stack[j].op = "free"
    BY <2>1, <2>2 DEF Destructor, Early
  <2>4. life[c] = "dying" /\ c \in locked
    BY <2>1, <2>3 DEF Alone, FramesAlone
  <2>5. c \in Cut(n)
    BY <1>7, <2>1 DEF Cut
  <2>6. QED
    BY <2>4, <2>5
<1>8. ASSUME NEW c \in Cut(n)
      PROVE  \E j \in 1..n : Dies(j, c)
  BY DEF Cut, Dies
<1>9. ASSUME NEW c \in Wrappers
      PROVE  /\ life'[c] = "dying" =>
                    c \in stranded' \/ \E k \in 1..Len(stack') : Dies(k, c)'
             /\ c \in stranded' => life'[c] = "dying" /\ c \in locked'
             /\ life'[c] = "deleted" => SeenNext(c)
  <2>1. ASSUME NEW k \in 1..Len(stack), Dies(k, c)
        PROVE  c \in stranded' \/ \E l \in 1..Len(stack') : Dies(l, c)'
    <3>1. CASE k > n
      BY <1>2, <1>3, <2>1, <3>1, DiesStays
    <3>2. CASE ~(k > n)
      <4>1. k \in 1..n
        BY <1>2, <3>2
      <4>2. QED
        BY <1>3, <1>7, <2>1, <4>1
    <3>3. QED
      BY <3>1, <3>2
  <2>2. c \in Cut(n) => life'[c] = "dying" /\ c \in locked'
    BY <1>1, <1>7, <1>8
  <2>3. c \in stranded' => life'[c] = "dying" /\ c \in locked'
    BY <1>1, <1>3, <2>2 DEF Alone, LivesAlone
  <2>4. life'[c] = "deleted" => SeenNext(c)
    BY <1>1, <1>4 DEF Alone, LivesAlone
  <2>5. life'[c] = "dying" =>
           c \in stranded' \/ \E k \in 1..Len(stack') : Dies(k, c)'
    BY <1>1, <1>3, <2>1 DEF Alone, LivesAlone
  <2>6. QED
    BY <2>3, <2>4, <2>5
<1>10. LivesAlone'
  BY <1>9, SeenLater DEF LivesAlone
<1>11. QED
  BY <1>6, <1>10 DEF Alone

\* A destructor starts.
LEMMA BeginsAlone ==
  ASSUME Held, Alone, Top.op \notin Destructor, NEW w \in Wrappers,
         life[w] \in {"none", "live"}, life' = [life EXCEPT ![w] = "dying"],
         UNCHANGED <<stranded, locked, started, CurrentWorkers, late>>,
         Shape(1, 0), stack'[1] = F("destroy", w)
  PROVE  Alone'
<1>1. /\ stack \in Seq(Frame) /\ Len(stack) \in Nat
      /\ (stack # <<>> => Top = stack[1])
  BY Sizes DEF Top
<1>2. /\ life'[w] = "dying" /\ w \notin stranded
      /\ \A c \in Wrappers : c # w => life'[c] = life[c]
  BY DEF Held, DataOK, Alone, LivesAlone
<1>3. /\ F("destroy", w).op = "destroy" /\ F("destroy", w).w = w
      /\ \A c \in Wrappers : Knows(F("destroy", w), c) => c = w
  BY FrameIs, KnowsOne DEF Ops, Destructor
<1>4. \A j \in 1..1 : j = 1
  OBVIOUS
<1>5. ASSUME NEW c, Seen(c) PROVE SeenNext(c)
  BY <1>5 DEF Seen, SeenNext, SeenIn
<1>6. ASSUME NEW k \in 1..Len(stack), stack[k].op \in Destructor
      PROVE  /\ life'[stack[k].w] = "dying" /\ stack[k].w \notin stranded'
             /\ stack[k].w \in locked => stack[k].w \in locked'
             /\ Seen(stack[k].w) => SeenNext(stack[k].w)
             /\ \A j \in 1..1 : ~Knows(stack'[j], stack[k].w)
  <2> DEFINE v == stack[k].w
  <2>1. v \in Wrappers /\ life[v] = "dying" /\ v \notin stranded
    BY <1>6 DEF Alone, FramesAlone, Held, StackOK, FramesIn, FrameIn, FrameTyped
  <2> HIDE DEF v
  <2>2. v # w
    BY <2>1
  <2>3. life'[v] = "dying" /\ v \notin stranded' /\ (v \in locked => v \in locked')
    BY <1>2, <2>1, <2>2
  <2>4. \A j \in 1..1 : ~Knows(stack'[j], v)
    BY <1>3, <1>4, <2>1, <2>2
  <2>5. Seen(v) => SeenNext(v)
    BY <1>5
  <2>6. QED
    BY <2>3, <2>4, <2>5 DEF v
<1>7. ASSUME NEW k \in 1..1, stack'[k].op \in Destructor
      PROVE  /\ life'[stack'[k].w] = "dying" /\ stack'[k].w \notin stranded'
             /\ \A j \in 1..(k - 1) : ~Knows(stack'[j], stack'[k].w)
             /\ stack'[k].op \in Early => k = 1
             /\ stack'[k].op = "free" => stack'[k].w \in locked'
             /\ stack'[k].op # "destroy" => SeenNext(stack'[k].w)
  <2>1. k = 1 /\ 1..(k - 1) = {}
    BY <1>4
  <2>2. QED
    BY <1>2, <1>3, <2>1
<1>8. FramesAlone'
  <2>1. (0 = 0 /\ 1 > 0 => Top.op \notin Destructor) /\ 0 + 1 = 1
    OBVIOUS
  <2>2. QED
    BY <1>6, <1>7, <2>1, FramesAloneKept DEF Alone
<1>9. ASSUME NEW c \in Wrappers
      PROVE  /\ life'[c] = "dying" =>
                    c \in stranded' \/ \E k \in 1..Len(stack') : Dies(k, c)'
             /\ c \in stranded' => life'[c] = "dying" /\ c \in locked'
             /\ life'[c] = "deleted" => SeenNext(c)
  <2>1. CASE c = w
    <3>1. 1 \in 1..Len(stack') /\ Dies(1, w)'
      BY <1>1, <1>3 DEF Shape, Dies, Destructor
    <3>2. QED
      BY <1>2, <2>1, <3>1
  <2>2. CASE c # w
    <3>1. ASSUME NEW k \in 1..Len(stack), Dies(k, c)
          PROVE  \E l \in 1..Len(stack') : Dies(l, c)'
      <4>1. k > 0
        BY <1>1
      <4>2. QED
        BY <1>1, <3>1, <4>1, DiesStays
    <3>2. life'[c] = life[c] /\ stranded' = stranded /\ locked' = locked
      BY <1>2, <2>2
    <3>3. Seen(c) => SeenNext(c)
      BY <1>5
    <3>4. QED
      BY <3>1, <3>2, <3>3 DEF Alone, LivesAlone
  <2>3. QED
    BY <2>1, <2>2
<1>10. LivesAlone'
  BY <1>9, SeenLater DEF LivesAlone
<1>11. QED
  BY <1>8, <1>10 DEF Alone

LEMMA CollectAlone ==
  ASSUME Held, Alone, NEW w \in Wrappers, Collect(w)
  PROVE  Alone'
<1>1. /\ Top.op \notin Destructor
      /\ UNCHANGED <<stranded, locked, started, CurrentWorkers, late>>
  BY DEF Collect, Collecting, pool, Destructor
<1>2. CASE RefCount'[w] = 0 /\ CurrentWorkers[w] = 0
  <2>1. Delete(w) /\ life' = [life EXCEPT ![w] = "dying"]
    BY <1>2 DEF Collect, Delete
  <2>2. life[w] = "live"
    <3>1. RefCount[w] = 1
      <4>1. RefCount' = [RefCount EXCEPT ![w] = @ - 1]
        BY DEF Collect
      <4>2. RefCount[w] \in Nat /\ RefCount'[w] = RefCount[w] - 1
        BY <4>1 DEF Held, DataOK
      <4>3. QED
        BY <1>2, <4>2
    <3>2. QED
      BY <3>1 DEF Collect, Live
  <2>3. Shape(1, 0) /\ stack'[1] = F("destroy", w)
    BY <2>1, Sizes, DeleteShape
  <2>4. QED
    BY <1>1, <2>1, <2>2, <2>3, BeginsAlone
<1>3. CASE ~(RefCount'[w] = 0 /\ CurrentWorkers[w] = 0)
  <2>1. stack' = stack /\ life' = life
    BY <1>3 DEF Collect
  <2>2. QED
    BY <1>1, <2>1, MildSame, AloneSame
<1>4. QED
  BY <1>2, <1>3

LEMMA LuaAcceptFailsAlone ==
  ASSUME Held, Alone, NEW w \in Wrappers, NEW c \in Wrappers,
         LuaAcceptFails(w, c)
  PROVE  Alone'
<1>1. /\ Top.op \in {"lua", "game"} /\ Run(<<F("destroy", c)>>)
      /\ life[c] = "none" /\ life' = [life EXCEPT ![c] = "dying"]
      /\ UNCHANGED <<stranded, locked, started, CurrentWorkers, late>>
  BY DEF LuaAcceptFails, Uses, InScript, At, pool, past
<1>2. /\ <<F("destroy", c)>> \in Seq(Frame) /\ Len(<<F("destroy", c)>>) = 1
      /\ <<F("destroy", c)>>[1] = F("destroy", c) /\ 1 \in 1..1
  BY FrameIs DEF Ops, Destructor
<1>3. Shape(1, 0) /\ stack'[1] = F("destroy", c)
  BY <1>1, <1>2, Sizes, RunShape
<1>4. QED
  BY <1>1, <1>3, BeginsAlone DEF Destructor

-----------------------------------------------------------------------------

LEMMA InitAlone ==
  ASSUME Init
  PROVE  Alone
<1>1. Len(stack) = 0 /\ \A k \in 1..0 : FALSE
  BY DEF Init
<1>2. FramesAlone
  BY <1>1 DEF FramesAlone
<1>3. LivesAlone
  BY DEF Init, LivesAlone
<1>4. QED
  BY <1>2, <1>3 DEF Alone

LEMMA NextAlone ==
  ASSUME Held, Lists, Alone, Next
  PROVE  Alone'
<1>1. "Accept" \in Requests /\ SocketsOK
  BY DEF Requests, Lists
<1>2. ASSUME NEW w \in Wrappers, NEW type \in Requests,
             LuaStart(w) \/ LuaRequest(w, type) \/ Worker(w)
      PROVE  Alone'
  BY <1>2, WorksAlone
<1>3. CASE LuaThread
  <2>1. CASE Tick \/ ThinkNext \/ ThinkHandle
    BY <1>1, <2>1, QuietAlone, ThinkNextAlone, ThinkHandleAlone
  <2>2. CASE ShutdownHook \/ HookNext \/ Reset
    BY <1>1, <2>2, QuietAlone, HookNextAlone
  <2>3. CASE PushToStack \/ AcceptList
    BY <2>3, PushToStackAlone, QuietAlone
  <2>4. CASE \E w \in Wrappers : Collect(w)
    BY <2>4, CollectAlone
  <2>5. CASE Destroy \/ DestroyLower \/ DestroyLock \/ Free
    BY <2>5, DestroyAlone, FreeAlone
  <2>6. CASE Script
    <3>1. CASE LuaReturn \/ Unwind
      BY <3>1, QuietAlone, UnwindAlone
    <3>2. ASSUME NEW w \in Wrappers, LuaBromSock(w) \/ LuaStart(w) \/ LuaClose(w)
          PROVE  Alone'
      BY <1>1, <1>2, <3>2, MakesAlone, LuaCloseAlone
    <3>3. ASSUME NEW w \in Wrappers, NEW type \in Requests, LuaRequest(w, type)
          PROVE  Alone'
      BY <1>2, <3>3
    <3>4. ASSUME NEW w \in Wrappers, NEW c \in Wrappers,
                 LuaAccept(w, c) \/ LuaAcceptFails(w, c)
          PROVE  Alone'
      BY <3>4, MakesAlone, LuaAcceptFailsAlone
    <3>5. QED
      BY <2>6, <3>1, <3>2, <3>3, <3>4 DEF Script
  <2>7. QED
    BY <1>3, <2>1, <2>2, <2>3, <2>4, <2>5, <2>6 DEF LuaThread
<1>4. ASSUME NEW w \in Wrappers, Worker(w)
      PROVE  Alone'
  BY <1>1, <1>2, <1>4
<1>5. CASE Lose
  <2>1. stack' = stack /\ Mild
    BY <1>5, MildSame DEF Lose, wrapper, pool
  <2>2. QED
    BY <2>1, AloneSame
<1>6. QED
  BY <1>3, <1>4, <1>5 DEF Next

\* What PushToStack counts is in no destructor that runs.
LEMMA PushIs ==
  ASSUME Held, Lists, Alone
  PROVE  PushOK
<1>1. ASSUME Top.op \in {"push", "both", "client"}, life[Top.w] # "deleted"
      PROVE  Kept(Top.w)
  <2> DEFINE w == Top.w
  <2>1. /\ Len(stack) \in Nat /\ Top = stack[1] /\ 1 \in 1..Len(stack)
        /\ w \in Wrappers
    BY <1>1, Sizes, TopIs, TopIn DEF Held, FrameIn, FrameTyped
  <2>2. life[w] # "none"
    BY <2>1 DEF Lists, KnownOK, Knows
  <2>3. ASSUME NEW k \in 1..Len(stack), Dies(k, w) PROVE FALSE
    <3>1. k # 1
      BY <1>1, <2>1, <2>3 DEF Dies, Destructor
    <3>2. 1 \in 1..(k - 1)
      BY <2>1, <3>1
    <3>3. ~Knows(stack[1], w)
      BY <2>3, <3>2 DEF Alone, FramesAlone, Dies
    <3>4. QED
      BY <2>1, <3>3 DEF Knows
  <2>4. life[w] \in {"none", "live", "dying", "deleted"}
    BY <2>1 DEF Held, DataOK
  <2>5. life[w] = "dying" => w \in stranded
    BY <2>1, <2>3 DEF Alone, LivesAlone
  <2>6. QED
    BY <1>1, <2>2, <2>4, <2>5 DEF Kept, Live
<1>2. QED
  BY <1>1 DEF PushOK

\* The three together are inductive.
Inv == Held /\ Lists /\ Alone

LEMMA NextInv ==
  ASSUME Inv, [Next]_vars
  PROVE  Inv'
<1>1. Held /\ Lists /\ Alone /\ PushOK
  BY PushIs DEF Inv
<1>2. CASE Next
  <2>1. Held'
    BY <1>1, <1>2, NextHeld
  <2>2. QED
    BY <1>1, <1>2, <2>1, NextLists, NextAlone DEF Inv
<1>3. CASE UNCHANGED vars
  <2>1. Held'
    BY <1>1, <1>3, StutterHeld
  <2>2. Lists'
    BY <1>1, <1>3, <2>1, StutterLists
  <2>3. stack' = stack /\ Mild
    BY <1>3, MildSame DEF vars, wrapper, pool, past
  <2>4. QED
    BY <1>1, <2>1, <2>2, <2>3, AloneSame DEF Inv
<1>4. QED
  BY <1>2, <1>3

LEMMA Holding == Spec => []Inv
<1>1. Init => Inv
  BY InitHeld, InitLists, InitAlone DEF Inv
<1>2. QED
  BY <1>1, NextInv, PTL DEF Spec

-----------------------------------------------------------------------------

\* The state has the types that Engine.h and SockWrapper.h give it, and every
\* frame works on wrappers.
THEOREM TypeInvariant == Spec => []TypeOK
<1>1. Inv => TypeOK
  <2>1. DataOK /\ StackOK =>
           /\ {leaked, stranded, late, locked} \subseteq SUBSET Wrappers
           /\ stack \in Seq(Frame)
    BY DEF DataOK, StackOK, FramesIn
  <2>2. FlagsOK => {tick, shut, lost} \subseteq BOOLEAN
    BY Zenon DEF FlagsOK
  <2>3. QED
    BY <2>1, <2>2 DEF Inv, Held, DataOK, TypeOK
<1>2. QED
  BY Holding, <1>1, PTL

\* Whoever uses a wrapper by right finds it alive, however callbacks, collections
\* of userdata, destructors and errors nest in the walk of Engine::Think: what a
\* script holds lives or was left in its destructor by an error, and a thread of
\* a deleted wrapper is one that KillWorkers had not been able to see.
THEOREM HeldWrappersLive == Spec => []HeldAlive
<1>1. Inv => HeldAlive
  <2>1. ASSUME Inv, NEW k \in DOMAIN stack
        PROVE  /\ stack[k].op = "list" => Live(stack[k].w)
               /\ stack[k].op = "close" => Live(stack[k].w) \/ stack[k].w \in stranded
               /\ stack[k].op = "client" => Live(stack[k].o) \/ stack[k].o \in stranded
    <3>1. k \in 1..Len(stack)
      BY <2>1, LenProperties DEF Inv, Held, StackOK, FramesIn
    <3>2. QED
      BY <2>1, <3>1 DEF Inv, Held, StackOK, FramesIn, FrameIn, Live
  <2>2. ASSUME Inv, NEW w \in stranded PROVE life[w] = "dying"
    BY <2>2 DEF Inv, Held, DataOK, Alone, LivesAlone
  <2>3. Inv => \A w \in Wrappers :
           life[w] = "deleted" /\ started[w] + CurrentWorkers[w] > 0 => w \in late
    BY DEF Inv, Alone, LivesAlone, Seen, SeenIn
  <2>4. Inv => \A w \in Wrappers : userdata[w] > 0 => Live(w) \/ w \in stranded
    BY DEF Inv, Held, CountOK, Kept
  <2>5. QED
    BY <2>1, <2>2, <2>3, <2>4 DEF HeldAlive
<1>2. QED
  BY Holding, <1>1, PTL

\* The Think in a destructor, and the callbacks it makes, never come to the
\* wrapper that is being destroyed and whose Mutex the destructor holds.
THEOREM DestructorsAlone == Spec => []DestructorAlone
<1>1. Inv => DestructorAlone
  <2>1. ASSUME Inv, NEW k \in DOMAIN stack, stack[k].op \in Destructor
        PROVE  /\ life[stack[k].w] = "dying"
               /\ \A j \in 1..(k - 1) : stack[k].w \notin {stack[j].w, stack[j].o}
    <3>1. k \in 1..Len(stack)
      BY <2>1, LenProperties DEF Inv, Held, StackOK, FramesIn
    <3>2. QED
      BY <2>1, <3>1 DEF Inv, Alone, FramesAlone, Knows
  <2>2. QED
    BY <2>1 DEF DestructorAlone
<1>2. QED
  BY Holding, <1>1, PTL

\* Engine::Sockets has every wrapper once and only wrappers that live, and every
\* wrapper that a script can reach is in it, unless SOCK_Accept is about to add
\* it: Think delivers its results, and the ShutDown hook finds it.
THEOREM ListInvariant == Spec => []ListOK
<1>1. Inv => ListOK
  <2>1. ASSUME Held, Lists PROVE IsInjective(Sockets)
    <3>1. DOMAIN Sockets = 1..Len(Sockets)
      BY <2>1, LenProperties DEF Held, DataOK
    <3>2. QED
      BY <2>1, <3>1 DEF Lists, SocketsOK, Distinct, IsInjective
  <2>2. ASSUME Held, Lists, NEW w \in Listed PROVE Live(w)
    <3>1. Sockets \in Seq(Wrappers) /\ DOMAIN Sockets = 1..Len(Sockets)
      BY <2>2, LenProperties DEF Held, DataOK
    <3>2. w \in Wrappers
      BY <2>2, <3>1, ElementOfSeq DEF Listed, ToSet
    <3>3. QED
      BY <2>2, <3>2 DEF Lists, SocketsOK
  <2>3. ASSUME Held, Lists, NEW w \in Wrappers, userdata[w] > 0
        PROVE  \/ w \in Listed \/ Contains(stack, F("list", w))
               \/ w \in stranded
    <3>1. CASE Listing(w)
      <4>1. PICK k \in 1..Len(stack) : stack[k].op = "list" /\ stack[k].w = w
        BY <3>1 DEF Listing
      <4>2. stack[k] = F("list", w)
        BY <2>3, <4>1 DEF Lists, ListingOK
      <4>3. QED
        BY <4>2 DEF Contains
    <3>2. QED
      BY <2>3, <3>1 DEF Held, CountOK, Kept, Lists, ReachOK
  <2>4. QED
    BY <2>1, <2>2, <2>3 DEF Inv, ListOK
<1>2. QED
  BY <1>1, Holding, PTL

-----------------------------------------------------------------------------
(* The walks over the list, for WalkComplete.                               *)

\* The walk f over the list seq has come to the entries up to its index, unless
\* one of them was erased, and to no other.
WalkIn(f, seq) ==
    /\ f.done \subseteq ToSet(seq)
    /\ ~f.shifted => f.i <= Len(seq)
    /\ \A j \in 1..Len(seq) : j <= f.i /\ ~f.shifted => seq[j] \in f.done
    /\ \A j \in 1..Len(seq) : j > f.i => seq[j] \notin f.done

WalksOK ==
    \A k \in 1..Len(stack) : stack[k].op \in Walks => WalkIn(stack[k], Sockets)

\* Frames of which no walk has begun.
Fresh(fs) ==
    /\ fs \in Seq(Frame)
    /\ \A k \in 1..Len(fs) :
          fs[k].op \in Walks => fs[k].i = 0 /\ fs[k].done = {} /\ ~fs[k].shifted

LEMMA FreshNone == Fresh(<<>>)
<1>1. <<>> \in Seq(Frame) /\ Len(<<>>) = 0
  OBVIOUS
<1>2. QED
  BY <1>1 DEF Fresh

LEMMA FreshOne ==
  ASSUME NEW f \in Frame, f.i = 0, f.done = {}, ~f.shifted
  PROVE  Fresh(<<f>>)
<1>1. <<f>> \in Seq(Frame) /\ Len(<<f>>) = 1 /\ <<f>>[1] = f
  OBVIOUS
<1>2. \A k \in 1..1 : k = 1
  OBVIOUS
<1> DEFINE s == <<f>>
<1> HIDE DEF s
<1>3. Fresh(s)
  BY <1>1, <1>2 DEF Fresh, s
<1>4. QED
  BY <1>3 DEF s

LEMMA FreshTwo ==
  ASSUME NEW f \in Frame, f.i = 0, f.done = {}, ~f.shifted,
         NEW g \in Frame, g.i = 0, g.done = {}, ~g.shifted
  PROVE  Fresh(<<f, g>>)
<1>1. /\ <<f, g>> \in Seq(Frame) /\ Len(<<f, g>>) = 2
      /\ <<f, g>>[1] = f /\ <<f, g>>[2] = g
  OBVIOUS
<1>2. \A k \in 1..2 : k = 1 \/ k = 2
  OBVIOUS
<1> DEFINE s == <<f, g>>
<1> HIDE DEF s
<1>3. Fresh(s)
  BY <1>1, <1>2 DEF Fresh, s
<1>4. QED
  BY <1>3 DEF s

LEMMA FreshPut ==
  ASSUME NEW s, NEW t, Fresh(s), Fresh(t)
  PROVE  Fresh(s \o t)
<1>1. s \in Seq(Frame) /\ t \in Seq(Frame) /\ Len(s) \in Nat /\ Len(t) \in Nat
  BY LenProperties DEF Fresh
<1>2. /\ s \o t \in Seq(Frame) /\ Len(s \o t) = Len(s) + Len(t)
      /\ \A k \in 1..(Len(s) + Len(t)) :
            (s \o t)[k] = IF k <= Len(s) THEN s[k] ELSE t[k - Len(s)]
  BY <1>1, ConcatProperties
<1>3. ASSUME NEW k \in 1..Len(s \o t)
      PROVE  \/ \E i \in 1..Len(s) : (s \o t)[k] = s[i]
             \/ \E i \in 1..Len(t) : (s \o t)[k] = t[i]
  <2>1. CASE k <= Len(s)
    <3>1. k \in 1..Len(s) /\ (s \o t)[k] = s[k]
      BY <1>1, <1>2, <2>1
    <3>2. QED
      BY <3>1
  <2>2. CASE ~(k <= Len(s))
    <3>1. k - Len(s) \in 1..Len(t) /\ (s \o t)[k] = t[k - Len(s)]
      BY <1>1, <1>2, <2>2
    <3>2. QED
      BY <3>1
  <2>3. QED
    BY <2>1, <2>2
<1>4. QED
  BY <1>2, <1>3 DEF Fresh

LEMMA FreshF ==
  ASSUME NEW op \in Ops, NEW w \in Wrappers \union {None}
  PROVE  /\ F(op, w) \in Frame /\ F(op, w).i = 0 /\ F(op, w).done = {}
         /\ ~F(op, w).shifted /\ Fresh(<<F(op, w)>>)
<1>1. /\ F(op, w) \in Frame /\ F(op, w).i = 0 /\ F(op, w).done = {}
      /\ ~F(op, w).shifted
  BY FrameIs DEF F
<1>2. QED
  BY <1>1, FreshOne

LEMMA FreshPair ==
  ASSUME NEW op \in Ops, NEW w \in Wrappers \union {None},
         NEW or \in Ops, NEW c \in Wrappers \union {None}
  PROVE  Fresh(<<F(op, w), F(or, c)>>)
<1>1. /\ F(op, w) \in Frame /\ F(op, w).i = 0 /\ F(op, w).done = {}
      /\ ~F(op, w).shifted
      /\ F(or, c) \in Frame /\ F(or, c).i = 0 /\ F(or, c).done = {}
      /\ ~F(or, c).shifted
  BY FreshF
<1>2. QED
  BY <1>1, FreshTwo

LEMMA FreshDisconnect ==
  ASSUME NEW w \in Wrappers
  PROVE  Fresh(Disconnect(w))
<1>1. Fresh(<<F("push", w), Lua>>)
  BY FreshPair DEF Ops, Lua
<1>2. QED
  BY <1>1, FreshNone DEF Disconnect

\* What every action but a step of a walk, an error and a collection puts on.
Calls(fs) == Fresh(fs) /\ (Run(fs) \/ (stack # <<>> /\ Become(fs)))

Calling ==
    \/ Tick \/ ShutdownHook \/ ThinkHandle \/ Reset \/ PushToStack \/ AcceptList
    \/ Destroy \/ DestroyLower \/ DestroyLock \/ Free \/ LuaReturn
    \/ (ThinkNext \/ HookNext) /\ ~(Top.i < Len(Sockets))
    \/ \E w, c \in Wrappers :
          \/ LuaBromSock(w) \/ LuaClose(w) \/ LuaAccept(w, c)
          \/ LuaAcceptFails(w, c)

LEMMA CallingGame ==
  ASSUME Held, Tick \/ ShutdownHook
  PROVE  \E fs : Calls(fs)
<1>1. Run(<<F("think", None)>>) \/ Run(<<F("hook", None)>>)
  BY DEF Tick, ShutdownHook
<1>2. Fresh(<<F("think", None)>>) /\ Fresh(<<F("hook", None)>>)
  BY FreshF DEF Ops
<1>3. QED
  BY <1>1, <1>2 DEF Calls

LEMMA CallingPop ==
  ASSUME Held, Reset \/ AcceptList \/ Free \/ LuaReturn
  PROVE  \E fs : Calls(fs)
<1>1. Become(<<>>) /\ Top.op # "game"
  BY DEF Reset, AcceptList, Free, LuaReturn, At
<1>2. stack # <<>>
  BY <1>1, Sizes, TopIs
<1>3. QED
  BY <1>1, <1>2, FreshNone DEF Calls

LEMMA CallingEnd ==
  ASSUME Held, ThinkNext \/ HookNext, ~(Top.i < Len(Sockets))
  PROVE  \E fs : Calls(fs)
<1>1. Become(<<>>) \/ Become(<<F("think", None)>>)
  BY DEF ThinkNext, HookNext
<1>2. Top.op # "game"
  BY DEF ThinkNext, HookNext, At
<1>3. stack # <<>>
  BY <1>2, Sizes, TopIs
<1>4. Fresh(<<F("think", None)>>)
  BY FreshF DEF Ops
<1>5. QED
  BY <1>1, <1>3, <1>4, FreshNone DEF Calls

LEMMA CallingPush ==
  ASSUME Held, PushToStack
  PROVE  \E fs : Calls(fs)
<1>1. Top.op \in {"push", "both", "client"}
  BY DEF PushToStack, At
<1>2. stack # <<>> /\ Top \in Frame /\ FrameIn(Top, life, stranded)
  BY <1>1, TopIn DEF Held
<1>3. CASE Become(<<>>)
  BY <1>2, <1>3, FreshNone DEF Calls
<1>4. CASE /\ Top.op = "both"
           /\ Become(<<[F("client", Top.o) EXCEPT !.o = Top.w]>>)
  <2> DEFINE f == [F("client", Top.o) EXCEPT !.o = Top.w]
  <2>1. Top.o \in Wrappers /\ Top.w \in Wrappers
    BY <1>2, <1>4 DEF FrameIn, FrameTyped
  <2>2. F("client", Top.o) \in Frame
    BY <2>1, FreshF DEF Ops
  <2>3. f \in Frame /\ f.i = 0 /\ f.done = {} /\ ~f.shifted
    BY <2>1, <2>2 DEF Frame, F
  <2> HIDE DEF f
  <2>4. Fresh(<<f>>)
    BY <2>3, FreshOne
  <2>5. QED
    BY <1>2, <1>4, <2>4 DEF Calls, f
<1>5. QED
  BY <1>3, <1>4 DEF PushToStack, At

LEMMA CallingDestroy ==
  ASSUME Held, Destroy \/ DestroyLower \/ DestroyLock
  PROVE  \E fs : Calls(fs)
<1>1. /\ Top.op \in {"destroy", "lower", "lock"}
      /\ \/ Become(<<F("think", None), F("free", Top.w)>>)
         \/ Become(<<F("lower", Top.w)>>) \/ Become(<<F("lock", Top.w)>>)
  BY DEF Destroy, DestroyLower, DestroyLock, At
<1>2. stack # <<>> /\ Top.w \in Wrappers
  BY <1>1, TopIn DEF Held, FrameIn, FrameTyped, Destructor
<1>3. Fresh(<<F("think", None), F("free", Top.w)>>)
  BY <1>2, FreshPair DEF Ops, Destructor
<1>4. Fresh(<<F("lower", Top.w)>>) /\ Fresh(<<F("lock", Top.w)>>)
  BY <1>2, FreshF DEF Ops, Destructor
<1>5. QED
  BY <1>1, <1>2, <1>3, <1>4 DEF Calls

LEMMA CallingHandle ==
  ASSUME Held, ThinkHandle
  PROVE  \E fs : Calls(fs)
<1> DEFINE w == Top.w
           e == Head(Callbacks[w])
<1>1. /\ Top.op = "think" /\ w # None /\ Callbacks[w] # <<>> /\ Handle(w, e)
  BY DEF ThinkHandle, At
<1>2. w \in Wrappers
  BY <1>1, Sizes, TopIs DEF Frame
<1> HIDE DEF w
<1>3. e \in SockEvent
  <2>1. Callbacks[w] \in Seq(SockEvent)
    BY <1>2 DEF Held, DataOK
  <2>2. QED
    BY <1>1, <2>1, HeadTailProperties
<1> HIDE DEF e
<1> DEFINE f == [F("both", w) EXCEPT !.o = e.sock]
<1>4. \/ Run(<<F("push", w), Lua>>) \/ Run(<<f, Lua>>) \/ Run(Disconnect(w))
      \/ Run(Disconnect(w) \o <<F("throw", w)>>)
  BY <1>1 DEF Handle
<1>5. f \in Frame /\ f.i = 0 /\ f.done = {} /\ ~f.shifted
  <2>1. F("both", w) \in Frame
    BY <1>2, FreshF DEF Ops
  <2>2. e.sock \in Wrappers \union {None}
    BY <1>3 DEF SockEvent
  <2>3. QED
    BY <2>1, <2>2 DEF Frame, F
<1> HIDE DEF f
<1>6. Lua \in Frame /\ Lua.i = 0 /\ Lua.done = {} /\ ~Lua.shifted
  BY FreshF DEF Ops, Lua
<1>7. Fresh(<<f, Lua>>)
  BY <1>5, <1>6, FreshTwo
<1>8. Fresh(<<F("push", w), Lua>>)
  BY <1>2, FreshPair DEF Ops, Lua
<1>9. Fresh(Disconnect(w)) /\ Fresh(Disconnect(w) \o <<F("throw", w)>>)
  BY <1>2, FreshDisconnect, FreshF, FreshPut DEF Ops
<1>10. QED
  BY <1>4, <1>7, <1>8, <1>9 DEF Calls

LEMMA CallingScript ==
  ASSUME Held, NEW w \in Wrappers, NEW c \in Wrappers,
         \/ LuaBromSock(w) \/ LuaClose(w) \/ LuaAccept(w, c)
         \/ LuaAcceptFails(w, c)
  PROVE  \E fs : Calls(fs)
<1>1. \/ Run(<<F("push", w)>>) \/ Run(Disconnect(w) \o <<F("close", w)>>)
      \/ Run(<<F("push", c), F("list", c)>>) \/ Run(<<F("destroy", c)>>)
  BY DEF LuaBromSock, LuaClose, LuaAccept, LuaAcceptFails
<1>2. Fresh(<<F("push", w)>>) /\ Fresh(<<F("destroy", c)>>)
  BY FreshF DEF Ops, Destructor
<1>3. Fresh(<<F("push", c), F("list", c)>>)
  BY FreshPair DEF Ops
<1>4. Fresh(Disconnect(w) \o <<F("close", w)>>)
  BY FreshDisconnect, FreshF, FreshPut DEF Ops
<1>5. QED
  BY <1>1, <1>2, <1>3, <1>4 DEF Calls

LEMMA CallingCalls ==
  ASSUME Held, Calling
  PROVE  \E fs : Calls(fs)
  BY CallingGame, CallingPop, CallingEnd, CallingPush, CallingDestroy,
     CallingHandle, CallingScript DEF Calling
\* The list stays as it is, or gets a wrapper that is not on it.
Longer ==
    \/ Sockets' = Sockets
    \/ \E c \in Wrappers : c \notin Listed /\ Sockets' = Append(Sockets, c)

LEMMA CallingLonger ==
  ASSUME Held, Lists, Calling
  PROVE  Longer
<1>1. CASE \/ Tick \/ ShutdownHook \/ Reset \/ PushToStack \/ Free
           \/ Destroy \/ DestroyLower \/ DestroyLock
           \/ LuaReturn \/ ThinkNext \/ HookNext
  <2>1. Sockets' = Sockets
    BY <1>1 DEF Tick, ShutdownHook, Reset, PushToStack, Destroy, DestroyLower,
                DestroyLock, Free, LuaReturn, ThinkNext, HookNext
  <2>2. QED
    BY <2>1 DEF Longer
<1>2. CASE ThinkHandle
  <2> DEFINE w == Top.w
             e == Head(Callbacks[w])
  <2>1. /\ Top.op = "think" /\ w # None /\ Callbacks[w] # <<>> /\ Handle(w, e)
    BY <1>2 DEF ThinkHandle, At
  <2>2. w \in Wrappers
    BY <2>1, Sizes, TopIs DEF Frame
  <2> HIDE DEF w
  <2>3. Callbacks[w] \in Seq(SockEvent)
    BY <2>2 DEF Held, DataOK
  <2>4. Len(Callbacks[w]) \in Nat /\ Len(Callbacks[w]) # 0
    BY <2>1, <2>3, LenProperties, EmptySeq
  <2>5. e = Callbacks[w][1] /\ 1 \in 1..Len(Callbacks[w])
    BY <2>3, <2>4
  <2> HIDE DEF e
  <2>6. CASE e.type = "accepted"
    <3>1. e.sock \in Wrappers /\ Waits(w, 1, e.sock)
      BY <2>2, <2>5, <2>6 DEF Held, ClientsOK, Waits
    <3>2. e.sock \notin Listed
      BY <2>2, <3>1, WaitingIs
    <3>3. Sockets' = Append(Sockets, e.sock)
      BY <2>1, <2>6 DEF Handle
    <3>4. QED
      BY <3>1, <3>2, <3>3 DEF Longer
  <2>7. CASE e.type # "accepted"
    <3>1. Sockets' = Sockets
      BY <2>1, <2>7 DEF Handle
    <3>2. QED
      BY <3>1 DEF Longer
  <2>8. QED
    BY <2>6, <2>7
<1>3. CASE AcceptList
  <2>1. Top.op = "list" /\ Sockets' = Append(Sockets, Top.w)
    BY <1>3 DEF AcceptList, At
  <2>2. Top = stack[1] /\ 1 \in 1..Len(stack)
    BY <2>1, Sizes, TopIs
  <2>3. Top.w \in Wrappers /\ Top.w \notin Listed
    BY <2>1, <2>2, ListIs DEF Lists, ListingOK
  <2>4. QED
    BY <2>1, <2>3 DEF Longer
<1>4. ASSUME NEW w \in Wrappers, NEW c \in Wrappers,
             LuaClose(w) \/ LuaAccept(w, c) \/ LuaAcceptFails(w, c)
      PROVE  Longer
  <2>1. Sockets' = Sockets
    BY <1>4 DEF LuaClose, LuaAccept, LuaAcceptFails
  <2>2. QED
    BY <2>1 DEF Longer
<1>5. ASSUME NEW w \in Wrappers, LuaBromSock(w)
      PROVE  Longer
  <2>1. life[w] = "none" /\ Sockets' = Append(Sockets, w)
    BY <1>5 DEF LuaBromSock, Allocate
  <2>2. w \notin Listed
    BY <2>1 DEF Lists, SocketsOK, Live
  <2>3. QED
    BY <2>1, <2>2 DEF Longer
<1>6. QED
  BY <1>1, <1>2, <1>3, <1>4, <1>5 DEF Calling

\* A walk that has not begun is in order.
LEMMA WalkBegins ==
  ASSUME NEW f, f.i = 0, f.done = {}, ~f.shifted, NEW seq, Len(seq) \in Nat
  PROVE  WalkIn(f, seq)
<1>1. \A j \in 1..Len(seq) : ~(j <= 0)
  OBVIOUS
<1>2. QED
  BY <1>1 DEF WalkIn

\* An entry that is added comes after the index, or the walk was disturbed.
LEMMA WalkLonger ==
  ASSUME Held, Longer, NEW f \in Frame, WalkIn(f, Sockets)
  PROVE  WalkIn(f, Sockets')
<1>1. CASE Sockets' = Sockets
  BY <1>1
<1>2. ASSUME NEW c \in Wrappers, c \notin Listed, Sockets' = Append(Sockets, c)
      PROVE  WalkIn(f, Sockets')
  <2>1. Sockets \in Seq(Wrappers) /\ f.i \in Nat
    BY DEF Held, DataOK, Frame
  <2>2. /\ Len(Sockets) \in Nat /\ DOMAIN Sockets = 1..Len(Sockets)
        /\ Len(Sockets') = Len(Sockets) + 1
        /\ \A j \in 1..Len(Sockets) : Sockets'[j] = Sockets[j]
        /\ Sockets'[Len(Sockets) + 1] = c
        /\ DOMAIN Sockets' = 1..(Len(Sockets) + 1)
    BY <1>2, <2>1, LenProperties, AppendProperties
  <2>3. f.done \subseteq ToSet(Sockets)
    BY DEF WalkIn
  <2>4. ToSet(Sockets) \subseteq ToSet(Sockets') /\ c \notin f.done
    <3>1. ASSUME NEW x \in ToSet(Sockets) PROVE x \in ToSet(Sockets')
      <4>1. PICK j \in 1..Len(Sockets) : x = Sockets[j]
        BY <2>2, <3>1 DEF ToSet
      <4>2. j \in DOMAIN Sockets' /\ Sockets'[j] = x
        BY <2>2, <4>1
      <4>3. QED
        BY <4>2 DEF ToSet
    <3>2. QED
      BY <1>2, <2>3, <3>1 DEF Listed
  <2>5. \A j \in 1..Len(Sockets') : j \in 1..Len(Sockets) \/ j = Len(Sockets) + 1
    BY <2>2
  <2>6. ~f.shifted => f.i <= Len(Sockets) /\ f.i <= Len(Sockets')
    BY <2>1, <2>2 DEF WalkIn
  <2>7. ASSUME NEW j \in 1..Len(Sockets'), j <= f.i, ~f.shifted
        PROVE  Sockets'[j] \in f.done
    <3>1. j \in 1..Len(Sockets)
      BY <2>1, <2>2, <2>6, <2>7
    <3>2. QED
      BY <2>2, <2>7, <3>1 DEF WalkIn
  <2>8. ASSUME NEW j \in 1..Len(Sockets'), j > f.i
        PROVE  Sockets'[j] \notin f.done
    BY <2>2, <2>4, <2>5, <2>8 DEF WalkIn
  <2>9. QED
    BY <2>3, <2>4, <2>6, <2>7, <2>8 DEF WalkIn
<1>3. QED
  BY <1>1, <1>2 DEF Longer

\* A step that takes frames off and puts others on, which are in order.
LEMMA WalksKept ==
  ASSUME Held, WalksOK, Longer, NEW m, NEW n, Shape(m, n), Moved(m, n),
         \A k \in 1..m : stack'[k].op \in Walks => WalkIn(stack'[k], Sockets')
  PROVE  WalksOK'
<1>1. stack \in Seq(Frame)
  BY Sizes
<1>2. ASSUME NEW k \in 1..Len(stack'), stack'[k].op \in Walks
      PROVE  WalkIn(stack'[k], Sockets')
  <2>1. CASE k \in 1..m
    BY <1>2, <2>1
  <2>2. ASSUME NEW j \in (n + 1)..Len(stack), k = m + j - n, j \in 1..Len(stack)
        PROVE  WalkIn(stack'[k], Sockets')
    <3>1. stack'[k] = stack[j] /\ stack[j] \in Frame
      BY <1>1, <2>2, ElementOfSeq DEF Moved
    <3>2. WalkIn(stack[j], Sockets)
      BY <1>2, <2>2, <3>1 DEF WalksOK
    <3>3. QED
      BY <3>1, <3>2, WalkLonger
  <2>3. QED
    BY <1>1, <2>1, <2>2, Place
<1>3. QED
  BY <1>2 DEF WalksOK

LEMMA IdleWalks ==
  ASSUME Held, WalksOK, UNCHANGED <<Sockets, stack>>
  PROVE  WalksOK'
  BY DEF WalksOK

LEMMA CallingWalks ==
  ASSUME Held, Held', Lists, WalksOK, Calling
  PROVE  WalksOK'
<1>1. PICK fs : Calls(fs)
  BY CallingCalls
<1>2. fs \in Seq(Frame) /\ Len(Sockets') \in Nat
  BY <1>1, LenProperties DEF Calls, Fresh, Held, DataOK
<1>3. \E n \in {0, 1} :
         /\ Shape(Len(fs), n) /\ Moved(Len(fs), n)
         /\ \A k \in 1..Len(fs) : stack'[k] = fs[k]
  BY <1>1, <1>2, Sizes, RunShape, BecomeShape DEF Calls
<1>4. \A k \in 1..Len(fs) :
         fs[k].op \in Walks => WalkIn(fs[k], Sockets')
  BY <1>1, <1>2, WalkBegins DEF Calls, Fresh
<1>5. QED
  BY <1>3, <1>4, CallingLonger, WalksKept

LEMMA UnwindWalks ==
  ASSUME Held, WalksOK, Unwind
  PROVE  WalksOK'
<1>1. PICK n \in 1..Len(stack) : Shape(0, n) /\ Moved(0, n)
  BY Sizes, UnwindShape
<1>2. Longer
  BY DEF Unwind, Longer
<1>3. \A k \in 1..0 : stack'[k].op \in Walks => WalkIn(stack'[k], Sockets')
  OBVIOUS
<1>4. QED
  BY <1>1, <1>2, <1>3, WalksKept
\* A walk that comes to the next entry.
LEMMA WalkStep ==
  ASSUME Held, Lists, NEW f \in Frame, WalkIn(f, Sockets), f.i < Len(Sockets),
         NEW g, g.i = f.i + 1, g.shifted = f.shifted,
         g.done = f.done \union {Sockets[f.i + 1]}
  PROVE  WalkIn(g, Sockets)
<1>1. /\ Len(Sockets) \in Nat /\ f.i \in Nat /\ DOMAIN Sockets = 1..Len(Sockets)
      /\ f.i + 1 \in 1..Len(Sockets)
  <2>1. Sockets \in Seq(Wrappers) /\ f.i \in Nat
    BY DEF Held, DataOK, Frame
  <2>2. Len(Sockets) \in Nat /\ DOMAIN Sockets = 1..Len(Sockets)
    BY <2>1, LenProperties
  <2>3. QED
    BY <2>1, <2>2
<1> DEFINE n == f.i + 1
<1>2. g.done \subseteq ToSet(Sockets)
  BY <1>1 DEF WalkIn, ToSet
<1>3. ASSUME NEW j \in 1..Len(Sockets), j <= n, ~g.shifted
      PROVE  Sockets[j] \in g.done
  <2>1. j <= f.i \/ j = f.i + 1
    BY <1>1, <1>3
  <2>2. QED
    BY <1>3, <2>1 DEF WalkIn
<1>4. ASSUME NEW j \in 1..Len(Sockets), j > n
      PROVE  Sockets[j] \notin g.done
  <2>1. j > f.i /\ j # f.i + 1
    BY <1>1, <1>4
  <2>2. Sockets[j] # Sockets[f.i + 1]
    BY <1>1, <2>1 DEF Lists, SocketsOK, Distinct
  <2>3. QED
    BY <2>1, <2>2 DEF WalkIn
<1>5. QED
  BY <1>1, <1>2, <1>3, <1>4 DEF WalkIn

LEMMA NextListed ==
  ASSUME Held, Top.op \in Walks, Top.i < Len(Sockets)
  PROVE  Sockets[Top.i + 1] \in Wrappers
<1>1. Sockets \in Seq(Wrappers) /\ Top.i \in Nat
  BY Sizes, TopIs DEF Held, DataOK, Frame, Walks
<1>2. Top.i + 1 \in 1..Len(Sockets)
  BY <1>1, LenProperties
<1>3. QED
  BY <1>1, <1>2, ElementOfSeq

LEMMA StepIs ==
  ASSUME Held, Top.op \in Walks, Top.i < Len(Sockets), NEW fs, Step(fs)
  PROVE  /\ stack # <<>> /\ Top \in Frame /\ Top = stack[1] /\ 1 \in 1..Len(stack)
         /\ \E g \in Frame :
               /\ Become(fs \o <<g>>)
               /\ g.i = Top.i + 1 /\ g.shifted = Top.shifted
               /\ g.done = Top.done \union {Sockets[Top.i + 1]}
<1>1. /\ stack # <<>> /\ Top \in Frame /\ Top = stack[1] /\ 1 \in 1..Len(stack)
  BY Sizes, TopIs DEF Walks
<1> DEFINE n == Top.i + 1
           g == [Top EXCEPT !.i = n, !.w = Sockets[n],
                            !.done = @ \union {Sockets[n]}]
<1>2. n \in Nat /\ Sockets[n] \in Wrappers
  <2>1. Sockets \in Seq(Wrappers) /\ Top.i \in Nat
    BY <1>1 DEF Held, DataOK, Frame
  <2>2. n \in 1..Len(Sockets)
    BY <2>1, LenProperties
  <2>3. QED
    BY <2>1, <2>2, ElementOfSeq
<1>3. Become(fs \o <<g>>)
  BY DEF Step
<1> HIDE DEF n
<1>4. /\ g \in Frame /\ g.i = n /\ g.shifted = Top.shifted
      /\ g.done = Top.done \union {Sockets[n]}
  <2>1. Top.done \union {Sockets[n]} \subseteq Wrappers
    BY <1>1, <1>2 DEF Frame
  <2>2. g \in Frame
    BY <1>1, <1>2, <2>1 DEF Frame
  <2>3. /\ g.i = n /\ g.shifted = Top.shifted
        /\ g.done = Top.done \union {Sockets[n]}
    BY <1>1 DEF Frame
  <2>4. QED
    BY <2>2, <2>3
<1> HIDE DEF g
<1>5. QED
  BY <1>1, <1>3, <1>4 DEF n

LEMMA StepWalks ==
  ASSUME Held, Lists, WalksOK, Sockets' = Sockets, Top.op \in Walks,
         Top.i < Len(Sockets), NEW fs, Fresh(fs), Step(fs)
  PROVE  WalksOK'
<1>1. /\ stack # <<>> /\ Top \in Frame /\ Top = stack[1] /\ 1 \in 1..Len(stack)
  BY StepIs
<1>2. PICK g \in Frame :
         /\ Become(fs \o <<g>>)
         /\ g.i = Top.i + 1 /\ g.shifted = Top.shifted
         /\ g.done = Top.done \union {Sockets[Top.i + 1]}
  BY StepIs
<1>3. WalkIn(Top, Sockets)
  BY <1>1 DEF WalksOK
<1>4. WalkIn(g, Sockets)
  BY <1>1, <1>2, <1>3, WalkStep
<1> DEFINE gs == fs \o <<g>>
<1>5. fs \in Seq(Frame) /\ Len(fs) \in Nat /\ Len(Sockets) \in Nat
  BY LenProperties DEF Fresh, Held, DataOK
<1>6. <<g>> \in Seq(Frame) /\ Len(<<g>>) = 1 /\ <<g>>[1] = g
  BY <1>2
<1>7. /\ gs \in Seq(Frame) /\ Len(gs) = Len(fs) + 1
      /\ \A k \in 1..(Len(fs) + 1) :
            gs[k] = IF k <= Len(fs) THEN fs[k] ELSE <<g>>[k - Len(fs)]
  BY <1>5, <1>6, ConcatProperties
<1> HIDE DEF gs
<1>8. \A k \in 1..Len(gs) : gs[k] = g \/ \E j \in 1..Len(fs) : gs[k] = fs[j]
  <2>1. ASSUME NEW k \in 1..Len(gs), k <= Len(fs)
        PROVE  k \in 1..Len(fs) /\ gs[k] = fs[k]
    BY <1>5, <1>7, <2>1
  <2>2. ASSUME NEW k \in 1..Len(gs), ~(k <= Len(fs))
        PROVE  gs[k] = g
    <3>1. k - Len(fs) = 1 /\ gs[k] = <<g>>[k - Len(fs)]
      BY <1>5, <1>7, <2>2
    <3>2. QED
      BY <1>6, <3>1
  <2>3. QED
    BY <2>1, <2>2
<1>9. \A k \in 1..Len(gs) : gs[k].op \in Walks => WalkIn(gs[k], Sockets')
  <2>1. \A k \in 1..Len(fs) : fs[k].op \in Walks => WalkIn(fs[k], Sockets)
    BY <1>5, WalkBegins DEF Fresh
  <2>2. QED
    BY <1>4, <1>8, <2>1
<1>10. /\ Shape(Len(gs), 1) /\ Moved(Len(gs), 1)
       /\ \A k \in 1..Len(gs) : stack'[k] = gs[k]
  BY <1>1, <1>2, <1>7, Sizes, BecomeShape DEF gs
<1>11. Longer
  BY DEF Longer
<1>12. \A k \in 1..Len(gs) :
          stack'[k].op \in Walks => WalkIn(stack'[k], Sockets')
  BY <1>9, <1>10
<1>13. QED
  BY <1>10, <1>11, <1>12, WalksKept

\* The erase of w found it at k, or nowhere if k is 0.
Erased(seq, w, k) ==
    /\ k \in 0..Len(seq)
    /\ k = 0 => RemoveFirst(seq, w) = seq /\ \A j \in 1..Len(seq) : seq[j] # w
    /\ k > 0 =>
          /\ seq[k] = w /\ Len(RemoveFirst(seq, w)) = Len(seq) - 1
          /\ \A j \in 1..(Len(seq) - 1) :
                RemoveFirst(seq, w)[j] = IF j < k THEN seq[j] ELSE seq[j + 1]

LEMMA DeleteErases ==
  ASSUME Sockets \in Seq(Wrappers), NEW w \in Wrappers, Delete(w)
  PROVE  \E k : /\ Erased(Sockets, w, k)
                /\ stack' = <<F("destroy", w)>> \o Shift(w, k)
<1>1. Len(Sockets) \in Nat
  BY LenProperties
<1>2. CASE \A j \in 1..Len(Sockets) : Sockets[j] # w
  <2>1. stack' = <<F("destroy", w)>> \o Shift(w, 0)
    <3>1. {j \in 1..Len(Sockets) : Sockets[j] = w} = {}
      BY <1>2
    <3>2. QED
      BY <3>1 DEF Delete, SelectInSeq
  <2>2. RemoveFirst(Sockets, w) = Sockets
    BY <1>2 DEF RemoveFirst
  <2>3. QED
    BY <1>1, <1>2, <2>1, <2>2 DEF Erased
<1>3. CASE \E j \in 1..Len(Sockets) : Sockets[j] = w
  <2>1. PICK k \in 1..Len(Sockets) : FirstAt(Sockets, w, k)
    BY <1>3, FirstExists
  <2>2. stack' = <<F("destroy", w)>> \o Shift(w, k)
    <3>1. SelectInSeq(Sockets, LAMBDA v : v = w) = k
      BY <2>1, SelectFirst DEF SelectInSeq
    <3>2. QED
      BY <3>1 DEF Delete, SelectInSeq
  <2>3. /\ Sockets[k] = w /\ Len(RemoveFirst(Sockets, w)) = Len(Sockets) - 1
        /\ \A j \in 1..(Len(Sockets) - 1) :
              RemoveFirst(Sockets, w)[j] =
                 IF j < k THEN Sockets[j] ELSE Sockets[j + 1]
    BY <2>1, RemoveFirstIs DEF FirstAt
  <2>4. k \in 0..Len(Sockets) /\ k # 0
    BY <1>1
  <2>5. QED
    BY <2>2, <2>3, <2>4 DEF Erased
<1>4. QED
  BY <1>2, <1>3

\* A walk whose list loses w is told if w was at or before its index.
LEMMA WalkErased ==
  ASSUME Held, Lists, NEW w \in Wrappers, NEW f \in Frame, WalkIn(f, Sockets),
         NEW k, Erased(Sockets, w, k),
         NEW g, g.i = f.i, ~g.shifted => ~f.shifted /\ k \notin 1..f.i,
         g.done = f.done \ {w}
  PROVE  WalkIn(g, RemoveFirst(Sockets, w))
<1> DEFINE seq == Sockets
           rest == RemoveFirst(Sockets, w)
<1>1. /\ seq \in Seq(Wrappers) /\ Distinct(seq) /\ Len(seq) \in Nat
      /\ f.i \in Nat /\ k \in 0..Len(seq)
  BY LenProperties DEF Held, DataOK, Lists, SocketsOK, Frame, Erased
<1>2. g.done \subseteq ToSet(rest)
  <2>1. ToSet(rest) = ToSet(seq) \ {w}
    BY <1>1, RemoveFirstRange
  <2>2. QED
    BY <2>1 DEF WalkIn
<1>3. /\ k = 0 => rest = seq /\ \A j \in 1..Len(seq) : seq[j] # w
      /\ k > 0 =>
            /\ seq[k] = w /\ Len(rest) = Len(seq) - 1
            /\ \A j \in 1..(Len(seq) - 1) :
                  rest[j] = IF j < k THEN seq[j] ELSE seq[j + 1]
  BY DEF Erased
<1> HIDE DEF rest
<1>4. CASE k = 0
  <2>1. ~g.shifted => ~f.shifted
    OBVIOUS
  <2>2. QED
    BY <1>2, <1>3, <1>4, <2>1 DEF WalkIn, rest
<1>5. CASE k > 0
  <2>1. /\ k \in 1..Len(seq) /\ seq[k] = w /\ Len(rest) = Len(seq) - 1
        /\ \A j \in 1..Len(rest) :
              rest[j] = IF j < k THEN seq[j] ELSE seq[j + 1]
    BY <1>1, <1>3, <1>5
  <2>2. ~g.shifted => ~f.shifted /\ f.i < k /\ f.i <= Len(rest)
    BY <1>1, <2>1
  <2>3. ASSUME NEW j \in 1..Len(rest), j <= f.i, ~g.shifted
        PROVE  rest[j] \in g.done
    <3>1. j \in 1..Len(seq) /\ j < k /\ ~f.shifted
      BY <1>1, <2>1, <2>2, <2>3
    <3>2. seq[j] \in f.done /\ rest[j] = seq[j]
      BY <2>1, <2>3, <3>1 DEF WalkIn
    <3>3. seq[j] # w
      BY <1>1, <2>1, <3>1 DEF Distinct
    <3>4. QED
      BY <3>2, <3>3
  <2>4. ASSUME NEW j \in 1..Len(rest), j > f.i
        PROVE  rest[j] \notin g.done
    <3>1. j \in 1..Len(seq) /\ j + 1 \in 1..Len(seq) /\ j + 1 > f.i
      BY <1>1, <2>1, <2>4
    <3>2. seq[j] \notin f.done /\ seq[j + 1] \notin f.done
      BY <2>4, <3>1 DEF WalkIn
    <3>3. QED
      BY <2>1, <3>2
  <2>5. QED
    BY <1>2, <2>2, <2>3, <2>4 DEF WalkIn, rest
<1>6. QED
  BY <1>1, <1>4, <1>5

LEMMA CollectWalks ==
  ASSUME Held, Lists, WalksOK, NEW w \in Wrappers, Collect(w)
  PROVE  WalksOK'
<1>1. CASE Delete(w)
  <2>1. /\ stack \in Seq(Frame) /\ Len(stack) \in Nat
        /\ DOMAIN stack = 1..Len(stack) /\ Sockets \in Seq(Wrappers)
    BY Sizes, LenProperties DEF Held, DataOK
  <2>2. PICK k : /\ Erased(Sockets, w, k)
                 /\ stack' = <<F("destroy", w)>> \o Shift(w, k)
    BY <1>1, <2>1, DeleteErases
  <2>3. ASSUME NEW j \in 1..Len(stack'), stack'[j].op \in Walks
        PROVE  WalkIn(stack'[j], Sockets')
    <3>1. Shape(1, 0) /\ stack'[1] = F("destroy", w) /\ F("destroy", w).op = "destroy"
      BY <1>1, <2>1, DeleteShape, FrameIs DEF Ops, Destructor
    <3>2. j # 1
      BY <2>3, <3>1 DEF Walks
    <3> DEFINE i == j - 1
    <3>3. i \in 1..Len(stack) /\ Same(stack'[j], stack[i])
      <4>1. ~(j \in 1..1) /\ 0 + 1 = 1
        BY <3>2
      <4>2. PICK h \in (0 + 1)..Len(stack) :
               j = 1 + h - 0 /\ h \in 1..Len(stack) /\ Same(stack'[j], stack[h])
        BY <2>1, <3>1, <4>1, Place
      <4>3. h = j - 1
        BY <4>2
      <4>4. QED
        BY <4>2, <4>3
    <3>4. stack'[j] = Shift(w, k)[i]
      <4>1. Len(<<F("destroy", w)>>) = 1 /\ DOMAIN Shift(w, k) = 1..Len(stack)
        BY <2>1 DEF Shift
      <4>2. QED
        BY <2>1, <2>2, <3>2, <3>3, <4>1
    <3> HIDE DEF i
    <3>5. stack[i] \in Frame /\ stack[i].op \in Walks
      BY <2>1, <2>3, <3>3, ElementOfSeq DEF Same
    <3>6. stack'[j] = [stack[i] EXCEPT !.shifted = @ \/ k \in 1..stack[i].i,
                                      !.done = @ \ {w}]
      BY <2>1, <3>3, <3>4, <3>5 DEF Shift
    <3>7. /\ stack'[j].i = stack[i].i /\ stack'[j].done = stack[i].done \ {w}
          /\ ~stack'[j].shifted => ~stack[i].shifted /\ k \notin 1..stack[i].i
      BY <3>5, <3>6 DEF Frame
    <3>8. WalkIn(stack[i], Sockets)
      BY <3>3, <3>5 DEF WalksOK
    <3>9. Sockets' = RemoveFirst(Sockets, w)
      BY <1>1 DEF Delete
    <3>10. QED
      BY <2>2, <3>5, <3>7, <3>8, <3>9, WalkErased
  <2>4. QED
    BY <2>3 DEF WalksOK
<1>2. CASE UNCHANGED <<Sockets, stack>>
  BY <1>2, IdleWalks
<1>3. QED
  BY <1>1, <1>2 DEF Collect

LEMMA NextWalks ==
  ASSUME Held, Held', Lists, WalksOK, Next
  PROVE  WalksOK'
<1>1. CASE Calling
  BY <1>1, CallingWalks
<1>2. CASE (ThinkNext \/ HookNext) /\ Top.i < Len(Sockets)
  <2>1. CASE ThinkNext
    <3>1. Sockets' = Sockets /\ Top.op \in Walks /\ Step(<<>>)
      BY <1>2, <2>1 DEF ThinkNext, At, Walks
    <3>2. QED
      BY <1>2, <3>1, FreshNone, StepWalks
  <2>2. CASE HookNext
    <3> DEFINE w == Sockets[Top.i + 1]
    <3>1. /\ Sockets' = Sockets /\ Top.op \in Walks
          /\ Step(Disconnect(w) \o <<F("reset", w)>>)
      BY <1>2, <2>2 DEF HookNext, At, Walks
    <3>2. w \in Wrappers
      BY <1>2, <3>1, NextListed
    <3> HIDE DEF w
    <3>3. Fresh(Disconnect(w) \o <<F("reset", w)>>)
      BY <3>2, FreshDisconnect, FreshF, FreshPut DEF Ops
    <3>4. QED
      BY <1>2, <3>1, <3>3, StepWalks
  <2>3. QED
    BY <1>2, <2>1, <2>2
<1>3. CASE Unwind
  BY <1>3, UnwindWalks
<1>4. ASSUME NEW w \in Wrappers, Collect(w)
      PROVE  WalksOK'
  BY <1>4, CollectWalks
<1>5. ASSUME NEW w \in Wrappers, NEW type \in Requests,
             \/ LuaStart(w) \/ LuaRequest(w, type) \/ Worker(w)
      PROVE  WalksOK'
  <2>1. UNCHANGED <<Sockets, stack>>
    BY <1>5 DEF LuaStart, LuaRequest, Worker, WorkerStart, WorkerRun, WorkerStop
  <2>2. QED
    BY <2>1, IdleWalks
<1>6. CASE Lose
  <2>1. UNCHANGED <<Sockets, stack>>
    BY <1>6 DEF Lose
  <2>2. QED
    BY <2>1, IdleWalks
<1>7. "Accept" \in Requests
  BY DEF Requests
<1>8. CASE Script
  <2>1. CASE LuaReturn \/ Unwind
    BY <1>1, <1>3, <2>1 DEF Calling
  <2>2. ASSUME NEW w \in Wrappers, LuaBromSock(w) \/ LuaStart(w) \/ LuaClose(w)
        PROVE  WalksOK'
    BY <1>1, <1>5, <1>7, <2>2 DEF Calling
  <2>3. ASSUME NEW w \in Wrappers, NEW type \in Requests, LuaRequest(w, type)
        PROVE  WalksOK'
    BY <1>5, <2>3
  <2>4. ASSUME NEW w \in Wrappers, NEW c \in Wrappers,
               LuaAccept(w, c) \/ LuaAcceptFails(w, c)
        PROVE  WalksOK'
    BY <1>1, <2>4 DEF Calling
  <2>5. QED
    BY <1>8, <2>1, <2>2, <2>3, <2>4 DEF Script
<1>9. CASE LuaThread
  <2>1. CASE ThinkNext \/ HookNext
    BY <1>1, <1>2, <2>1 DEF Calling
  <2>2. CASE \/ Tick \/ ThinkHandle \/ ShutdownHook \/ Reset \/ PushToStack
             \/ AcceptList \/ Destroy \/ DestroyLower \/ DestroyLock \/ Free
    BY <1>1, <2>2 DEF Calling
  <2>3. QED
    BY <1>4, <1>8, <1>9, <2>1, <2>2 DEF LuaThread
<1>10. QED
  BY <1>5, <1>6, <1>7, <1>9 DEF Next

LEMMA WalksComplete ==
  ASSUME Held, WalksOK
  PROVE  WalkComplete
<1>1. /\ stack \in Seq(Frame) /\ DOMAIN stack = 1..Len(stack)
      /\ Sockets \in Seq(Wrappers) /\ Len(Sockets) \in Nat
      /\ \A j \in 1..Len(Sockets) : Sockets[j] \in Wrappers
  BY Sizes, LenProperties, ElementOfSeq DEF Held, DataOK
<1>2. ASSUME NEW k \in DOMAIN stack, stack[k].op \in Walks
      PROVE  LET f == stack[k]
             IN /\ ~f.shifted => ToSet(SubSeq(Sockets, 1, f.i)) \subseteq f.done
                /\ f.done \intersect
                      ToSet(SubSeq(Sockets, f.i + 1, Len(Sockets))) = {}
  <2> DEFINE f == stack[k]
             before == SubSeq(Sockets, 1, f.i)
             after == SubSeq(Sockets, f.i + 1, Len(Sockets))
  <2>1. f.i \in Nat /\ WalkIn(f, Sockets)
    <3>1. f \in Frame
      BY <1>1, ElementOfSeq
    <3>2. QED
      BY <1>1, <1>2, <3>1 DEF WalksOK, Frame
  <2> HIDE DEF f
  <2>2. ASSUME ~f.shifted, NEW x \in ToSet(before)
        PROVE  x \in f.done
    <3>1. f.i <= Len(Sockets)
      BY <2>1, <2>2 DEF WalkIn
    <3>2. \A j \in 1..f.i : j \in 1..Len(Sockets) /\ Sockets[j] \in Wrappers
      BY <1>1, <2>1, <3>1
    <3>3. /\ before \in Seq(Wrappers) /\ Len(before) = f.i
          /\ \A j \in 1..f.i : before[j] = Sockets[j]
      BY <1>1, <2>1, <3>2, SubSeqProperties
    <3> HIDE DEF before
    <3>4. PICK j \in 1..f.i : x = before[j]
      BY <2>2, <3>3, LenProperties DEF ToSet
    <3>5. QED
      BY <2>1, <2>2, <3>2, <3>3, <3>4 DEF WalkIn
  <2>3. ASSUME NEW x \in ToSet(after), x \in f.done
        PROVE  FALSE
    <3>1. CASE f.i + 1 > Len(Sockets)
      <4>1. after = <<>>
        BY <1>1, <2>1, <3>1
      <4> HIDE DEF after
      <4>2. DOMAIN <<>> = {}
        OBVIOUS
      <4>3. QED
        BY <2>3, <4>1, <4>2 DEF ToSet
    <3>2. CASE f.i + 1 <= Len(Sockets)
      <4>1. \A j \in (f.i + 1)..Len(Sockets) : Sockets[j] \in Wrappers
        BY <1>1, <2>1
      <4>2. /\ after \in Seq(Wrappers) /\ Len(after) = Len(Sockets) - f.i
            /\ \A j \in 1..(Len(Sockets) - f.i) : after[j] = Sockets[f.i + j]
        <5> DEFINE m == f.i + 1
        <5>1. /\ m \in Int /\ Len(Sockets) \in Int /\ m <= Len(Sockets)
              /\ Len(Sockets) - m + 1 = Len(Sockets) - f.i
              /\ \A j \in 1..(Len(Sockets) - f.i) : m + j - 1 = f.i + j
          <6>1. f.i \in Nat /\ Len(Sockets) \in Nat /\ f.i + 1 <= Len(Sockets)
            BY <1>1, <2>1, <3>2
          <6>2. \A j \in 1..(Len(Sockets) - f.i) : j \in Int
            BY <6>1
          <6>3. QED
            BY <6>1, <6>2
        <5>2. after = SubSeq(Sockets, m, Len(Sockets))
          OBVIOUS
        <5>3. \A j \in m..Len(Sockets) : Sockets[j] \in Wrappers
          BY <4>1
        <5> HIDE DEF m, after
        <5>4. /\ after \in Seq(Wrappers) /\ Len(after) = Len(Sockets) - m + 1
              /\ \A j \in 1..(Len(Sockets) - m + 1) : after[j] = Sockets[m + j - 1]
          BY <5>1, <5>2, <5>3, SubSeqProperties
        <5>5. QED
          BY <5>1, <5>4
      <4> HIDE DEF after
      <4>3. PICK j \in 1..(Len(Sockets) - f.i) : x = after[j]
        BY <2>3, <4>2, LenProperties DEF ToSet
      <4>4. f.i + j \in 1..Len(Sockets) /\ f.i + j > f.i
        BY <1>1, <2>1, <4>3
      <4>5. QED
        BY <2>1, <2>3, <4>2, <4>3, <4>4 DEF WalkIn
    <3>3. QED
      BY <1>1, <2>1, <3>1, <3>2
  <2>4. QED
    BY <2>2, <2>3 DEF f
<1>3. QED
  BY <1>2 DEF WalkComplete

\* A walk over Engine::Sockets by index, of Think or of the ShutDown hook, leaves
\* out a socket only if one at or before its index has been erased since it began,
\* and it comes to no socket twice, whatever callbacks add and the collector takes
\* away.
THEOREM WalksMissNone == Spec => []WalkComplete
<1>1. Inv /\ Inv' /\ WalksOK /\ [Next]_vars => WalksOK'
  <2>1. ASSUME UNCHANGED vars PROVE UNCHANGED <<Sockets, stack>>
    BY <2>1 DEF vars
  <2>2. QED
    BY <2>1, NextWalks, IdleWalks DEF Inv
<1>2. Init => WalksOK
  <2>1. Len(<<>>) = 0 /\ 1..0 = {}
    OBVIOUS
  <2>2. QED
    BY <2>1 DEF Init, WalksOK
<1>3. Inv /\ WalksOK => WalkComplete
  BY WalksComplete DEF Inv
<1>4. QED
  BY <1>1, <1>2, <1>3, Holding, PTL DEF Spec

-----------------------------------------------------------------------------
(* Where a wrapper is that no script has, for NoLeak.                       *)

\* A frame has it, and has not handed it to Lua yet.
Made(c) == \E k \in 1..Len(stack) : c \in Making(stack[k])

\* A result brings it, of a wrapper that can still deliver results.
Waited(c) == \E v \in Wrappers \ stranded : \E i \in Nat : Waits(v, i, c)

WaysOK ==
    \A c \in Wrappers :
       Live(c) /\ userdata[c] = 0 => c \in leaked \/ Made(c) \/ Waited(c)

\* What an error has left in its destructor is among the leaks.
StrandedOK == stranded \subseteq leaked

\* After a step that puts m frames on, the wrapper is on its way to a script, or
\* will stay for ever.
Settled(c, m) ==
    \/ c \in leaked' \/ Waited(c)'
    \/ \E k \in 1..m : c \in Making(stack'[k])

\* A step that takes n frames off and puts m on.
LEMMA WaysKept ==
  ASSUME Held, WaysOK, leaked \subseteq leaked', NEW m, NEW n, Shape(m, n),
         \A c \in Wrappers :
            life'[c] = "live" /\ userdata'[c] = 0 =>
               \/ Settled(c, m)
               \/ /\ life[c] = "live" /\ userdata[c] = 0
                  /\ Waited(c) => Settled(c, m)
                  /\ \A k \in 1..n : c \in Making(stack[k]) => Settled(c, m)
  PROVE  WaysOK'
<1>1. /\ stack \in Seq(Frame) /\ Len(stack) \in Nat
      /\ n \in Nat /\ m \in Nat /\ n <= Len(stack)
      /\ \A k \in 1..m : k \in 1..Len(stack')
  BY Sizes DEF Shape
<1>2. ASSUME NEW c \in Wrappers, life'[c] = "live", userdata'[c] = 0
      PROVE  c \in leaked' \/ Made(c)' \/ Waited(c)'
  <2>1. CASE Settled(c, m)
    BY <1>1, <2>1 DEF Settled, Made
  <2>2. CASE ~Settled(c, m)
    <3>1. /\ life[c] = "live" /\ userdata[c] = 0 /\ ~Waited(c)
          /\ \A k \in 1..n : c \notin Making(stack[k])
      BY <1>2, <2>2
    <3>2. CASE c \in leaked
      BY <3>2
    <3>3. CASE Made(c)
      <4>1. PICK k \in 1..Len(stack) : c \in Making(stack[k])
        BY <3>3 DEF Made
      <4>2. k > n
        BY <1>1, <3>1, <4>1
      <4>3. m + k - n \in 1..Len(stack') /\ Same(stack'[m + k - n], stack[k])
        BY <1>1, <4>2, Stays
      <4>4. c \in Making(stack'[m + k - n])
        BY <4>1, <4>3 DEF Making, Same
      <4>5. QED
        BY <4>3, <4>4 DEF Made
    <3>4. QED
      BY <3>1, <3>2, <3>3 DEF WaysOK, Live
  <2>3. QED
    BY <2>1, <2>2
<1>3. QED
  BY <1>2 DEF WaysOK, Live

LEMMA WaitedKept ==
  ASSUME Callbacks' = Callbacks, stranded' = stranded
  PROVE  \A c \in Wrappers : Waited(c) => Waited(c)'
  BY DEF Waited, Waits

\* The frames that have no wrapper to hand to Lua.
LEMMA MakesNothing ==
  ASSUME NEW f, f.op \notin {"push", "both", "client", "list"}
  PROVE  Making(f) = {}
  BY DEF Making

\* A step that touches no life, userdata or result, and takes off a frame that
\* has nothing to hand to Lua.
LEMMA QuietWays ==
  ASSUME Held, WaysOK, UNCHANGED <<life, userdata, Callbacks, stranded>>,
         leaked \subseteq leaked', NEW m, NEW n, Shape(m, n),
         \A k \in 1..n : Making(stack[k]) \subseteq leaked'
  PROVE  WaysOK'
<1>1. ASSUME NEW c \in Wrappers, life'[c] = "live", userdata'[c] = 0
      PROVE  /\ life[c] = "live" /\ userdata[c] = 0
             /\ Waited(c) => Settled(c, m)
             /\ \A k \in 1..n : c \in Making(stack[k]) => Settled(c, m)
  <2>1. Waited(c) => Waited(c)'
    BY WaitedKept
  <2>2. QED
    BY <1>1, <2>1 DEF Settled
<1>2. QED
  BY <1>1, WaysKept

LEMMA IdleWays ==
  ASSUME Held, WaysOK, UNCHANGED <<life, userdata, Callbacks, leaked, stranded, stack>>
  PROVE  WaysOK'
<1>1. Shape(0, 0)
  BY Sizes, SameShape
<1>2. QED
  BY <1>1, QuietWays

\* The frames that a step puts on take the place of the one on top or of none.
LEMMA CallsShape ==
  ASSUME Held, NEW fs, Calls(fs)
  PROVE  \E n \in {0, 1} :
            /\ Shape(Len(fs), n) /\ \A k \in 1..Len(fs) : stack'[k] = fs[k]
            /\ \A k \in 1..n : stack[k] = Top
<1>1. fs \in Seq(Frame) /\ Len(fs) \in Nat /\ stack \in Seq(Frame)
  BY Sizes, LenProperties DEF Calls, Fresh
<1>2. CASE Run(fs)
  BY <1>1, <1>2, RunShape
<1>3. CASE stack # <<>> /\ Become(fs)
  <2>1. Shape(Len(fs), 1) /\ \A k \in 1..Len(fs) : stack'[k] = fs[k]
    BY <1>1, <1>3, BecomeShape
  <2>2. Top = stack[1] /\ \A k \in 1..1 : k = 1
    BY <1>1, <1>3 DEF Top
  <2>3. QED
    BY <2>1, <2>2
<1>4. QED
  BY <1>2, <1>3 DEF Calls

LEMMA CallsWays ==
  ASSUME Held, WaysOK, leaked \subseteq leaked', NEW fs, Calls(fs),
         \A c \in Wrappers :
            life'[c] = "live" /\ userdata'[c] = 0 =>
               \/ Settled(c, Len(fs))
               \/ /\ life[c] = "live" /\ userdata[c] = 0
                  /\ Waited(c) => Settled(c, Len(fs))
                  /\ c \in Making(Top) => Settled(c, Len(fs))
  PROVE  WaysOK'
<1>1. PICK n \in {0, 1} :
         Shape(Len(fs), n) /\ \A k \in 1..n : stack[k] = Top
  BY CallsShape
<1>2. QED
  BY <1>1, WaysKept

LEMMA QuietCallsWays ==
  ASSUME Held, WaysOK, UNCHANGED <<life, userdata, Callbacks, leaked, stranded>>,
         Top.op \notin {"push", "both", "client", "list"}, NEW fs, Calls(fs)
  PROVE  WaysOK'
<1>1. Making(Top) = {}
  BY MakesNothing
<1>2. \A c \in Wrappers : Waited(c) => Settled(c, Len(fs))
  BY WaitedKept DEF Settled
<1>3. QED
  BY <1>1, <1>2, CallsWays
\* The steps that touch no life, userdata, result or leak, but may call.
LEMMA QuietStepsWays ==
  ASSUME Held, WaysOK,
         \/ Tick \/ ShutdownHook \/ ThinkNext \/ HookNext \/ Reset
         \/ Destroy \/ DestroyLower \/ DestroyLock \/ LuaReturn \/ \E w \in Wrappers : LuaClose(w)
  PROVE  WaysOK'
<1>1. UNCHANGED <<life, userdata, Callbacks, leaked, stranded>>
  BY DEF Tick, ShutdownHook, ThinkNext, HookNext, Reset, Destroy, DestroyLower,
         DestroyLock, LuaReturn, LuaClose, wrapper, queue, past
<1>2. Top.op \notin {"push", "both", "client", "list"}
  BY DEF Tick, ShutdownHook, ThinkNext, HookNext, Reset, Destroy, DestroyLower,
         DestroyLock, LuaReturn, LuaClose, Uses, InScript, At
<1>3. CASE Calling
  BY <1>1, <1>2, <1>3, CallingCalls, QuietCallsWays
<1>4. ASSUME NEW fs, Fresh(fs), Step(fs), Top.op \in Walks, Top.i < Len(Sockets)
      PROVE  WaysOK'
  <2>1. stack # <<>> /\ Top = stack[1] /\ stack \in Seq(Frame)
    BY <1>4, StepIs, Sizes
  <2>2. PICK g \in Frame : Become(fs \o <<g>>)
    BY <1>4, StepIs
  <2> DEFINE gs == fs \o <<g>>
  <2>3. gs \in Seq(Frame)
    <3>1. <<g>> \in Seq(Frame) /\ fs \in Seq(Frame)
      BY <1>4 DEF Fresh
    <3>2. QED
      BY <3>1, ConcatProperties
  <2> HIDE DEF gs
  <2>4. Shape(Len(gs), 1)
    BY <2>1, <2>2, <2>3, BecomeShape DEF gs
  <2>5. Making(Top) = {} /\ \A k \in 1..1 : k = 1
    BY <1>2, MakesNothing
  <2>6. \A k \in 1..1 : Making(stack[k]) \subseteq leaked'
    BY <2>1, <2>5
  <2>7. QED
    BY <1>1, <2>4, <2>6, QuietWays
<1>5. CASE ThinkNext /\ Top.i < Len(Sockets)
  <2>1. Step(<<>>) /\ Top.op \in Walks
    BY <1>5 DEF ThinkNext, At, Walks
  <2>2. QED
    BY <1>4, <1>5, <2>1, FreshNone
<1>6. CASE HookNext /\ Top.i < Len(Sockets)
  <2> DEFINE w == Sockets[Top.i + 1]
  <2>1. Step(Disconnect(w) \o <<F("reset", w)>>) /\ Top.op \in Walks
    BY <1>6 DEF HookNext, At, Walks
  <2>2. w \in Wrappers
    BY <1>6, <2>1, NextListed
  <2> HIDE DEF w
  <2>3. Fresh(Disconnect(w) \o <<F("reset", w)>>)
    BY <2>2, FreshDisconnect, FreshF, FreshPut DEF Ops
  <2>4. QED
    BY <1>4, <1>6, <2>1, <2>3
<1>7. QED
  BY <1>3, <1>5, <1>6 DEF Calling

\* What an error cuts short never reaches Lua, and what waits in the wrappers it
\* leaves in their destructors is never delivered.
LEMMA UnwindWays ==
  ASSUME Held, WaysOK, Unwind
  PROVE  WaysOK'
<1>1. UNCHANGED <<life, userdata, Callbacks>>
  BY DEF Unwind, wrapper, queue
<1>2. PICK n \in 1..Len(stack) :
         /\ Shape(0, n)
         /\ stranded' = stranded \union Cut(n)
         /\ leaked' = leaked \union Cut(n) \union (UNION {Waiting(w) : w \in Cut(n)})
                             \union UNION {Making(stack[j]) : j \in 1..n}
  BY Sizes, UnwindShape
<1>3. ASSUME NEW c \in Wrappers, Waited(c)
      PROVE  Settled(c, 0)
  <2>1. PICK v \in Wrappers \ stranded, i \in Nat : Waits(v, i, c)
    BY <1>3 DEF Waited
  <2>2. CASE v \in Cut(n)
    <3>1. Callbacks[v] \in Seq(SockEvent)
      BY DEF Held, DataOK
    <3>2. i \in DOMAIN Callbacks[v] /\ Callbacks[v][i].sock = c /\ c # None
      BY <2>1, <3>1, LenProperties, WrapperAssumption DEF Waits
    <3>3. c \in Waiting(v)
      BY <3>2 DEF Waiting
    <3>4. c \in UNION {Waiting(w) : w \in Cut(n)}
      BY <2>2, <3>3
    <3>5. QED
      BY <1>2, <3>4 DEF Settled
  <2>3. CASE v \notin Cut(n)
    <3>1. v \in Wrappers \ stranded' /\ Waits(v, i, c)'
      BY <1>1, <1>2, <2>1, <2>3 DEF Waits
    <3>2. QED
      BY <3>1 DEF Settled, Waited
  <2>4. QED
    BY <2>2, <2>3
<1>4. ASSUME NEW k \in 1..n, NEW c \in Making(stack[k])
      PROVE  Settled(c, 0)
  BY <1>2, <1>4 DEF Settled
<1>5. leaked \subseteq leaked'
  BY <1>2
<1>6. QED
  BY <1>1, <1>2, <1>3, <1>4, <1>5, WaysKept

\* A new wrapper is pushed at once.
LEMMA MakesWays ==
  ASSUME Held, WaysOK, NEW w \in Wrappers, NEW c \in Wrappers,
         LuaBromSock(c) \/ LuaAccept(w, c) \/ LuaAcceptFails(w, c)
  PROVE  WaysOK'
<1>1. /\ UNCHANGED <<userdata, Callbacks, leaked, stranded>>
      /\ Top.op \in {"lua", "game"}
      /\ life' = [life EXCEPT ![c] = "live"] \/ LuaAcceptFails(w, c)
  BY DEF LuaBromSock, LuaAccept, LuaAcceptFails, Uses, InScript, At, Allocate,
         queue, past
<1>2. \A x \in Wrappers : x # c => life'[x] = life[x]
  BY <1>1 DEF Held, DataOK, LuaAcceptFails
<1>3. Making(Top) = {} /\ \A x \in Wrappers : Waited(x) => Waited(x)'
  BY <1>1, MakesNothing, WaitedKept
<1>4. CASE LuaBromSock(c) \/ LuaAccept(w, c)
  <2> DEFINE f == F("push", c)
  <2>1. Run(<<f>>) \/ Run(<<f, F("list", c)>>)
    BY <1>4 DEF LuaBromSock, LuaAccept
  <2>2. Fresh(<<f>>) /\ Fresh(<<f, F("list", c)>>)
    BY FreshF, FreshPair DEF Ops
  <2>3. /\ Len(<<f>>) = 1 /\ <<f>>[1] = f
        /\ Len(<<f, F("list", c)>>) = 2 /\ <<f, F("list", c)>>[1] = f
        /\ 1 \in 1..1 /\ 1 \in 1..2
    OBVIOUS
  <2>4. c \in Making(f)
    BY FrameIs DEF Making, Ops
  <2> HIDE DEF f
  <2>5. PICK fs : Calls(fs) /\ 1 \in 1..Len(fs) /\ fs[1] = f
    BY <2>1, <2>2, <2>3 DEF Calls
  <2>6. stack'[1] = f
    BY <2>5, CallsShape
  <2>7. Settled(c, Len(fs))
    BY <2>4, <2>5, <2>6 DEF Settled
  <2>8. \A x \in Wrappers : Waited(x) => Settled(x, Len(fs))
    BY <1>3 DEF Settled
  <2>9. QED
    BY <1>1, <1>2, <1>3, <2>5, <2>7, <2>8, CallsWays
<1>5. CASE LuaAcceptFails(w, c)
  <2>1. life'[c] = "dying" /\ Run(<<F("destroy", c)>>)
    BY <1>5 DEF LuaAcceptFails, Held, DataOK
  <2>2. PICK fs : Calls(fs)
    BY <2>1, FreshF DEF Calls, Ops, Destructor
  <2>3. \A x \in Wrappers : Waited(x) => Settled(x, Len(fs))
    BY <1>3 DEF Settled
  <2>4. QED
    BY <1>1, <1>2, <1>3, <2>1, <2>2, <2>3, CallsWays
<1>6. QED
  BY <1>4, <1>5

\* PushToStack hands one of them to Lua.
LEMMA PushToStackWays ==
  ASSUME Held, WaysOK, PushToStack
  PROVE  WaysOK'
<1> DEFINE w == Top.w
<1>1. /\ UNCHANGED <<life, Callbacks, leaked, stranded>>
      /\ Top.op \in {"push", "both", "client"}
      /\ userdata' = [userdata EXCEPT ![w] = @ + 1]
  BY DEF PushToStack, Push, At, queue, past
<1>2. stack # <<>> /\ Top = stack[1] /\ w \in Wrappers
  BY <1>1, TopIn, Sizes, TopIs DEF Held, FrameIn, FrameTyped
<1> HIDE DEF w
<1>3. userdata'[w] > 0 /\ \A c \in Wrappers : c # w => userdata'[c] = userdata[c]
  <2>1. userdata[w] \in Nat /\ userdata'[w] = userdata[w] + 1
    BY <1>1, <1>2 DEF Held, DataOK
  <2>2. QED
    BY <1>1, <2>1 DEF Held, DataOK
<1>4. \A c \in Wrappers : userdata'[c] = 0 => c # w /\ userdata[c] = 0
  BY <1>3
<1>5. \A c \in Wrappers : Waited(c) => Waited(c)'
  BY <1>1, WaitedKept
<1>6. CASE Top.op \in {"push", "client"}
  <2>1. Become(<<>>)
    BY <1>6 DEF PushToStack, At
  <2>2. Making(Top) = {w}
    BY <1>6 DEF Making, w
  <2>3. Calls(<<>>)
    BY <1>2, <2>1, FreshNone DEF Calls
  <2>4. \A x \in Wrappers : Waited(x) => Settled(x, Len(<<>>))
    BY <1>5 DEF Settled
  <2>5. QED
    BY <1>1, <1>4, <2>2, <2>3, <2>4, CallsWays
<1>7. CASE Top.op = "both"
  <2> DEFINE f == [F("client", Top.o) EXCEPT !.o = w]
  <2>1. Become(<<f>>)
    BY <1>7 DEF PushToStack, At, w
  <2>2. Top.o \in Wrappers /\ Making(Top) = {Top.o}
    BY <1>1, <1>7, TopIn DEF Held, FrameIn, FrameTyped, Making
  <2>3. F("client", Top.o) \in Frame
    BY <2>2, FreshF DEF Ops
  <2>4. /\ f \in Frame /\ f.i = 0 /\ f.done = {} /\ ~f.shifted
        /\ f.op = "client" /\ f.w = Top.o
    BY <1>2, <2>3 DEF Frame, F
  <2>5. Making(f) = {Top.o}
    BY <2>4 DEF Making
  <2> HIDE DEF f
  <2>6. Calls(<<f>>)
    BY <1>2, <2>1, <2>4, FreshOne DEF Calls
  <2>7. Len(<<f>>) = 1 /\ <<f>>[1] = f /\ 1 \in 1..1
    OBVIOUS
  <2> DEFINE fs == <<f>>
  <2> HIDE DEF fs
  <2>8. Calls(fs) /\ 1 \in 1..Len(fs) /\ fs[1] = f
    BY <2>6, <2>7 DEF fs
  <2>9. stack'[1] = f
    BY <2>8, CallsShape
  <2>10. Settled(Top.o, Len(fs))
    BY <2>5, <2>8, <2>9 DEF Settled
  <2>11. \A x \in Wrappers : Waited(x) => Settled(x, Len(fs))
    BY <1>5 DEF Settled
  <2>12. QED
    BY <1>1, <1>4, <2>2, <2>8, <2>10, <2>11, CallsWays
<1>8. QED
  BY <1>1, <1>6, <1>7

\* SOCK_Accept lists its client when Lua has it.
LEMMA AcceptListWays ==
  ASSUME Held, Lists, WaysOK, AcceptList
  PROVE  WaysOK'
<1>1. /\ UNCHANGED <<life, userdata, Callbacks, leaked, stranded>>
      /\ Top.op = "list"
      /\ Become(<<>>)
  BY DEF AcceptList, At, wrapper, queue, past
<1>2. stack # <<>> /\ Top = stack[1] /\ 1 \in 1..Len(stack)
  BY <1>1, Sizes, TopIs
<1>3. Making(Top) = {Top.w} /\ userdata[Top.w] > 0
  BY <1>1, <1>2 DEF Making, Lists, ListingOK
<1>4. Calls(<<>>)
  BY <1>1, <1>2, FreshNone DEF Calls
<1>5. \A x \in Wrappers : Waited(x) => Settled(x, Len(<<>>))
  BY <1>1, WaitedKept DEF Settled
<1>6. \A c \in Wrappers : userdata'[c] = 0 => c # Top.w
  BY <1>1, <1>3
<1>7. QED
  BY <1>1, <1>3, <1>4, <1>5, <1>6, CallsWays
\* A destructor leaves the clients of its results to nobody.
LEMMA FreeWays ==
  ASSUME Held, WaysOK, Free
  PROVE  WaysOK'
<1> DEFINE w == Top.w
<1>1. /\ UNCHANGED <<userdata, stranded>> /\ Top.op = "free" /\ Become(<<>>)
      /\ life' = [life EXCEPT ![w] = "deleted"]
      /\ Callbacks' = [Callbacks EXCEPT ![w] = <<>>]
      /\ leaked' = leaked \union Waiting(w)
  BY DEF Free, At
<1>2. stack # <<>> /\ w \in Wrappers
  BY <1>1, Sizes, TopIs, TopIn DEF Held, FrameIn, FrameTyped, Destructor
<1> HIDE DEF w
<1>3. life'[w] = "deleted" /\ \A c \in Wrappers : c # w => life'[c] = life[c]
  BY <1>1, <1>2 DEF Held, DataOK
<1>4. Calls(<<>>) /\ Making(Top) = {}
  BY <1>1, <1>2, FreshNone, MakesNothing DEF Calls
<1>5. ASSUME NEW c \in Wrappers, Waited(c)
      PROVE  Settled(c, Len(<<>>))
  <2>1. PICK v \in Wrappers \ stranded, i \in Nat : Waits(v, i, c)
    BY <1>5 DEF Waited
  <2>2. CASE v = w
    <3>1. Callbacks[w] \in Seq(SockEvent)
      BY <1>2 DEF Held, DataOK
    <3>2. i \in DOMAIN Callbacks[w] /\ Callbacks[w][i].sock = c /\ c # None
      BY <2>1, <2>2, <3>1, LenProperties, WrapperAssumption DEF Waits
    <3>3. c \in Waiting(w)
      BY <3>2 DEF Waiting
    <3>4. QED
      BY <1>1, <3>3 DEF Settled
  <2>3. CASE v # w
    <3>1. Callbacks'[v] = Callbacks[v]
      BY <1>1, <2>3 DEF Held, DataOK
    <3>2. v \in Wrappers \ stranded' /\ Waits(v, i, c)'
      BY <1>1, <2>1, <3>1 DEF Waits
    <3>3. QED
      BY <3>2 DEF Settled, Waited
  <2>4. QED
    BY <2>2, <2>3
<1>6. leaked \subseteq leaked' /\ \A c \in Wrappers : userdata'[c] = userdata[c]
  BY <1>1
<1>7. ASSUME NEW c \in Wrappers, life'[c] = "live"
      PROVE  life[c] = "live"
  BY <1>3, <1>7
<1>8. QED
  BY <1>4, <1>5, <1>6, <1>7, CallsWays

\* Think hands the client of the first result on to a PushToStack.
LEMMA ThinkHandleWays ==
  ASSUME Held, WaysOK, ThinkHandle
  PROVE  WaysOK'
<1> DEFINE w == Top.w
           e == Head(Callbacks[w])
<1>1. /\ UNCHANGED <<life, userdata, leaked, stranded>>
      /\ Top.op = "think" /\ w # None
      /\ Callbacks[w] # <<>> /\ Callbacks' = [Callbacks EXCEPT ![w] = Tail(@)]
      /\ Handle(w, e)
  BY DEF ThinkHandle, At, wrapper, past
<1>2. w \in Wrappers
  BY <1>1, Sizes, TopIs DEF Frame
<1> HIDE DEF w
<1>3. /\ Callbacks[w] \in Seq(SockEvent) /\ 1 \in 1..Len(Callbacks[w])
      /\ Len(Callbacks[w]) \in Nat
      /\ e = Callbacks[w][1] /\ e \in SockEvent
  <2>1. Callbacks[w] \in Seq(SockEvent)
    BY <1>2 DEF Held, DataOK
  <2>2. Len(Callbacks[w]) \in Nat /\ Len(Callbacks[w]) # 0
    BY <1>1, <2>1, LenProperties, EmptySeq
  <2>3. e = Callbacks[w][1] /\ 1 \in 1..Len(Callbacks[w])
    BY <2>1, <2>2
  <2>4. QED
    BY <2>1, <2>2, <2>3, ElementOfSeq
<1> HIDE DEF e
\* The others move up.
<1>4. ASSUME NEW v \in Wrappers \ stranded, NEW i \in Nat, NEW c \in Wrappers,
             Waits(v, i, c), ~(v = w /\ i = 1)
      PROVE  Waited(c)'
  <2>1. CASE v # w
    <3>1. Callbacks'[v] = Callbacks[v]
      BY <1>1, <2>1 DEF Held, DataOK
    <3>2. v \in Wrappers \ stranded' /\ Waits(v, i, c)'
      BY <1>1, <1>4, <3>1 DEF Waits
    <3>3. QED
      BY <3>2 DEF Waited
  <2>2. CASE v = w
    <3>1. Callbacks'[w] = Tail(Callbacks[w])
      BY <1>1, <1>2 DEF Held, DataOK
    <3>2. /\ Len(Tail(Callbacks[w])) = Len(Callbacks[w]) - 1
          /\ \A k \in 1..(Len(Callbacks[w]) - 1) :
                Tail(Callbacks[w])[k] = Callbacks[w][k + 1]
      BY <1>1, <1>3, HeadTailProperties
    <3>3. PICK j \in Nat : j \in 1..(Len(Callbacks[w]) - 1) /\ j + 1 = i
      <4>1. i - 1 \in Nat /\ i - 1 \in 1..(Len(Callbacks[w]) - 1) /\ (i - 1) + 1 = i
        BY <1>3, <1>4, <2>2 DEF Waits
      <4>2. QED
        BY <4>1
    <3>4. Callbacks'[w][j] = Callbacks[w][i] /\ j \in 1..Len(Callbacks'[w])
      BY <3>1, <3>2, <3>3
    <3>5. v \in Wrappers \ stranded' /\ Waits(v, j, c)'
      BY <1>1, <1>4, <2>2, <3>4 DEF Waits
    <3>6. QED
      BY <3>3, <3>5 DEF Waited
  <2>3. QED
    BY <2>1, <2>2
<1>5. \E fs : Calls(fs) /\ (e.type = "accepted" /\ e.sock \in Wrappers =>
                               Settled(e.sock, Len(fs)))
  <2>1. CASE e.type = "accepted" /\ e.sock \in Wrappers
    <3> DEFINE f == [F("both", w) EXCEPT !.o = e.sock]
    <3>1. Run(<<f, Lua>>)
      BY <1>1, <2>1 DEF Handle
    <3>2. F("both", w) \in Frame
      BY <1>2, FreshF DEF Ops
    <3>3. /\ f \in Frame /\ f.i = 0 /\ f.done = {} /\ ~f.shifted
          /\ f.op = "both" /\ f.o = e.sock
      BY <2>1, <3>2 DEF Frame, F
    <3>4. Lua \in Frame /\ Lua.i = 0 /\ Lua.done = {} /\ ~Lua.shifted
      BY FreshF DEF Ops, Lua
    <3> HIDE DEF f
    <3> DEFINE fs == <<f, Lua>>
    <3>5. Calls(fs)
      BY <3>1, <3>3, <3>4, FreshTwo DEF Calls
    <3>6. 1 \in 1..Len(fs) /\ fs[1] = f
      OBVIOUS
    <3> HIDE DEF fs
    <3>7. stack'[1] = f /\ e.sock \in Making(f)
      BY <3>3, <3>5, <3>6, CallsShape DEF Making
    <3>8. Settled(e.sock, Len(fs))
      BY <3>6, <3>7 DEF Settled
    <3>9. QED
      BY <3>5, <3>8
  <2>2. QED
    BY <2>1, CallingHandle
<1>6. PICK fs : Calls(fs) /\ (e.type = "accepted" /\ e.sock \in Wrappers =>
                                 Settled(e.sock, Len(fs)))
  BY <1>5
<1>7. ASSUME NEW c \in Wrappers, Waited(c)
      PROVE  Settled(c, Len(fs))
  <2>1. PICK v \in Wrappers \ stranded, i \in Nat : Waits(v, i, c)
    BY <1>7 DEF Waited
  <2>2. CASE v = w /\ i = 1
    <3>1. e.type = "accepted" /\ e.sock = c
      BY <1>3, <2>1, <2>2 DEF Waits
    <3>2. QED
      BY <1>6, <3>1
  <2>3. CASE ~(v = w /\ i = 1)
    BY <1>4, <2>1, <2>3 DEF Settled
  <2>4. QED
    BY <2>2, <2>3
<1>8. Making(Top) = {}
  BY <1>1, MakesNothing
<1>9. QED
  BY <1>1, <1>6, <1>7, <1>8, CallsWays

\* The last userdata of a wrapper: it is deleted, or its workers keep it.
LEMMA CollectWays ==
  ASSUME Held, Held', WaysOK, NEW w \in Wrappers, Collect(w)
  PROVE  WaysOK'
<1>1. /\ Callbacks' = Callbacks /\ stranded' = stranded
      /\ userdata' = [userdata EXCEPT ![w] = @ - 1]
  BY DEF Collect, queue
<1>2. \A c \in Wrappers : c # w => userdata'[c] = userdata[c]
  BY <1>1 DEF Held, DataOK
<1>3. RefCount'[w] = userdata'[w]
  BY DEF Held, CountOK
<1>4. \A c \in Wrappers : Waited(c) => Waited(c)'
  BY <1>1, WaitedKept
<1>5. CASE RefCount'[w] = 0 /\ CurrentWorkers[w] = 0
  <2>1. Delete(w) /\ leaked' = leaked /\ life' = [life EXCEPT ![w] = "dying"]
    BY <1>5 DEF Collect, Delete
  <2>2. life'[w] = "dying" /\ \A c \in Wrappers : c # w => life'[c] = life[c]
    BY <2>1 DEF Held, DataOK
  <2>3. Shape(1, 0)
    BY <2>1, Sizes, DeleteShape
  <2>4. \A c \in Wrappers : Waited(c) => Settled(c, 1)
    BY <1>4 DEF Settled
  <2>5. \A k \in 1..0 : FALSE
    OBVIOUS
  <2>6. ASSUME NEW c \in Wrappers, life'[c] = "live", userdata'[c] = 0
        PROVE  life[c] = "live" /\ userdata[c] = 0
    BY <1>2, <2>2, <2>6
  <2>7. QED
    BY <2>1, <2>3, <2>4, <2>5, <2>6, WaysKept
<1>6. CASE ~(RefCount'[w] = 0 /\ CurrentWorkers[w] = 0)
  <2>1. /\ UNCHANGED <<Sockets, stack, life>>
        /\ leaked' = IF RefCount'[w] = 0 THEN leaked \union {w} ELSE leaked
    BY <1>6 DEF Collect
  <2>2. Shape(0, 0) /\ leaked \subseteq leaked'
    BY <2>1, Sizes, SameShape
  <2>3. \A c \in Wrappers : Waited(c) => Settled(c, 0)
    BY <1>4 DEF Settled
  <2>4. \A k \in 1..0 : FALSE
    OBVIOUS
  <2>5. ASSUME NEW c \in Wrappers, life'[c] = "live", userdata'[c] = 0
        PROVE  Settled(c, 0) \/ (life[c] = "live" /\ userdata[c] = 0)
    <3>1. c = w => c \in leaked'
      BY <1>3, <2>1, <2>5
    <3>2. QED
      BY <1>2, <2>1, <2>5, <3>1 DEF Settled
  <2>6. QED
    BY <2>2, <2>3, <2>4, <2>5, WaysKept
<1>7. QED
  BY <1>5, <1>6

\* The wrapper of a client that a worker accepts is in its result.
LEMMA WorkerRunWays ==
  ASSUME Held, Alone, WaysOK, NEW w \in Wrappers, WorkerRun(w)
  PROVE  WaysOK'
<1>1. UNCHANGED <<userdata, stack, leaked, stranded>> /\ w \notin stranded'
  BY DEF WorkerRun, past, Alone, LivesAlone
<1>2. Shape(0, 0) /\ \A k \in 1..0 : FALSE
  BY <1>1, Sizes, SameShape
<1>3. /\ Callbacks \in [Wrappers -> Seq(SockEvent)]
      /\ Callbacks[w] \in Seq(SockEvent) /\ Len(Callbacks[w]) \in Nat
  BY LenProperties DEF Held, DataOK
<1>4. ASSUME NEW e \in SockEvent, Post(w, e)
      PROVE  /\ \A c \in Wrappers : Waited(c) => Waited(c)'
             /\ e.type = "accepted" => Waited(e.sock)'
  <2>1. /\ Callbacks'[w] = Append(Callbacks[w], e)
        /\ \A v \in Wrappers : v # w => Callbacks'[v] = Callbacks[v]
    BY <1>3, <1>4 DEF Post
  <2>2. /\ \E last \in Nat :
              last \in 1..Len(Callbacks'[w]) /\ Callbacks'[w][last] = e
        /\ \A i \in 1..Len(Callbacks[w]) :
              i \in 1..Len(Callbacks'[w]) /\ Callbacks'[w][i] = Callbacks[w][i]
    <3>1. /\ Len(Callbacks'[w]) = Len(Callbacks[w]) + 1
          /\ Callbacks'[w][Len(Callbacks[w]) + 1] = e
          /\ \A i \in 1..Len(Callbacks[w]) : Callbacks'[w][i] = Callbacks[w][i]
      BY <1>3, <2>1, AppendProperties
    <3>2. QED
      BY <1>3, <3>1
  <2>3. ASSUME NEW c \in Wrappers, NEW v \in Wrappers \ stranded', NEW i \in Nat,
               Waits(v, i, c)
        PROVE  Waits(v, i, c)'
    <3>1. CASE v = w
      BY <2>2, <2>3, <3>1 DEF Waits
    <3>2. CASE v # w
      BY <2>1, <2>3, <3>2 DEF Waits
    <3>3. QED
      BY <3>1, <3>2
  <2>4. e.type = "accepted" => \E last \in Nat : Waits(w, last, e.sock)'
    BY <2>2 DEF Waits
  <2>5. QED
    BY <1>1, <2>2, <2>3, <2>4 DEF Waited
<1>5. CASE \E c \in Wrappers :
              Allocate(c) /\ Post(w, [type |-> "accepted", sock |-> c])
  <2>1. PICK x \in Wrappers :
           Allocate(x) /\ Post(w, [type |-> "accepted", sock |-> x])
    BY <1>5
  <2> DEFINE e == [type |-> "accepted", sock |-> x]
  <2>2. e \in SockEvent /\ e.type = "accepted" /\ e.sock = x /\ Post(w, e)
    BY <2>1 DEF SockEvent, Results
  <2> HIDE DEF e
  <2>3. Waited(x)' /\ \A c \in Wrappers : Waited(c) => Waited(c)'
    BY <1>4, <2>2
  <2>4. \A c \in Wrappers : c # x => life'[c] = life[c]
    BY <2>1 DEF Allocate, Held, DataOK
  <2>5. Settled(x, 0) /\ \A c \in Wrappers : Waited(c) => Settled(c, 0)
    BY <2>3 DEF Settled
  <2>6. QED
    BY <1>1, <1>2, <2>4, <2>5, WaysKept
<1>6. CASE /\ \E t \in {"result", "fail", "big"} :
                 Post(w, [type |-> t, sock |-> None])
           /\ UNCHANGED life
  <2>1. PICK t \in {"result", "fail", "big"} :
           Post(w, [type |-> t, sock |-> None])
    BY <1>6
  <2>2. [type |-> t, sock |-> None] \in SockEvent
    BY DEF SockEvent, Results
  <2>3. \A c \in Wrappers : Waited(c) => Settled(c, 0)
    BY <1>4, <2>1, <2>2 DEF Settled
  <2>4. QED
    BY <1>1, <1>2, <1>6, <2>3, WaysKept
<1>7. QED
  BY <1>5, <1>6 DEF WorkerRun

LEMMA NextWays ==
  ASSUME Inv, Inv', WaysOK, Next
  PROVE  WaysOK'
<1> USE DEF Inv
<1>1. ASSUME NEW w \in Wrappers, NEW type \in Requests,
             \/ LuaStart(w) \/ LuaRequest(w, type) \/ WorkerStart(w)
             \/ WorkerStop(w) \/ Lose
      PROVE  WaysOK'
  <2>1. UNCHANGED <<life, userdata, Callbacks, leaked, stranded, stack>>
    BY <1>1 DEF LuaStart, LuaRequest, WorkerStart, WorkerStop, Lose, wrapper,
                queue, past
  <2>2. QED
    BY <2>1, IdleWays
<1>2. "Accept" \in Requests
  BY DEF Requests
<1>3. CASE LuaThread
  <2>1. CASE \/ Tick \/ ThinkNext \/ ShutdownHook \/ HookNext \/ Reset
             \/ Destroy \/ DestroyLower \/ DestroyLock
    BY <2>1, QuietStepsWays
  <2>2. CASE ThinkHandle \/ PushToStack \/ AcceptList \/ Free
    BY <2>2, ThinkHandleWays, PushToStackWays, AcceptListWays, FreeWays
  <2>3. CASE \E w \in Wrappers : Collect(w)
    BY <2>3, CollectWays
  <2>4. CASE Script
    <3>1. CASE LuaReturn \/ Unwind
      BY <3>1, QuietStepsWays, UnwindWays
    <3>2. ASSUME NEW w \in Wrappers, LuaBromSock(w) \/ LuaStart(w) \/ LuaClose(w)
          PROVE  WaysOK'
      BY <1>1, <1>2, <3>2, MakesWays, QuietStepsWays
    <3>3. ASSUME NEW w \in Wrappers, NEW type \in Requests, LuaRequest(w, type)
          PROVE  WaysOK'
      BY <1>1, <3>3
    <3>4. ASSUME NEW w \in Wrappers, NEW c \in Wrappers,
                 LuaAccept(w, c) \/ LuaAcceptFails(w, c)
          PROVE  WaysOK'
      BY <3>4, MakesWays
    <3>5. QED
      BY <2>4, <3>1, <3>2, <3>3, <3>4 DEF Script
  <2>5. QED
    BY <1>3, <2>1, <2>2, <2>3, <2>4 DEF LuaThread
<1>4. ASSUME NEW w \in Wrappers, Worker(w)
      PROVE  WaysOK'
  BY <1>1, <1>2, <1>4, WorkerRunWays DEF Worker
<1>5. CASE Lose
  <2>1. UNCHANGED <<life, userdata, Callbacks, leaked, stranded, stack>>
    BY <1>5 DEF Lose, wrapper, queue
  <2>2. QED
    BY <2>1, IdleWays
<1>6. QED
  BY <1>3, <1>4, <1>5 DEF Next

LEMMA StrandedKept ==
  ASSUME StrandedOK, [Next]_vars
  PROVE  StrandedOK'
<1>1. CASE stranded' = stranded /\ leaked \subseteq leaked'
  BY <1>1 DEF StrandedOK
<1>2. CASE Unwind
  BY <1>2 DEF Unwind, StrandedOK
<1>3. CASE UNCHANGED past
  BY <1>1, <1>3 DEF past
<1>4. CASE LuaThread /\ ~Unwind
  <2>1. CASE UNCHANGED <<leaked, stranded>>
    BY <1>1, <2>1
  <2>2. CASE Tick \/ ThinkNext \/ ThinkHandle \/ ShutdownHook \/ HookNext \/ Reset
             \/ PushToStack \/ AcceptList \/ DestroyLower \/ DestroyLock
    BY <1>3, <2>2 DEF Tick, ThinkNext, ThinkHandle, ShutdownHook, HookNext, Reset,
                      PushToStack, AcceptList, DestroyLower, DestroyLock
  <2>3. CASE Destroy
    BY <2>1, <2>3 DEF Destroy
  <2>4. CASE Free
    BY <1>1, <2>4 DEF Free
  <2>5. ASSUME NEW w \in Wrappers, Collect(w) PROVE StrandedOK'
    BY <1>1, <2>5 DEF Collect
  <2>6. CASE Script
    BY <1>3, <1>4, <2>6 DEF Script, LuaBromSock, LuaStart, LuaClose, LuaRequest,
                            LuaAccept, LuaAcceptFails, LuaReturn
  <2>7. QED
    BY <1>4, <2>2, <2>3, <2>4, <2>5, <2>6 DEF LuaThread
<1>5. ASSUME NEW w \in Wrappers, Worker(w) PROVE StrandedOK'
  BY <1>3, <1>5 DEF Worker, WorkerStart, WorkerRun, WorkerStop
<1>6. CASE Lose
  BY <1>1, <1>6 DEF Lose
<1>7. CASE UNCHANGED vars
  BY <1>3, <1>7 DEF vars
<1>8. QED
  BY <1>2, <1>4, <1>5, <1>6, <1>7 DEF Next

\* A wrapper that no script can reach any more is deleted, or on its way to a
\* script or to its end, or one of those that stay for ever: __gc found workers
\* counted, an error cut short the call that was to push it or its destructor, or
\* it was in a result that such a wrapper, or a deleted one, had not delivered.
THEOREM LeaksAreKnown == Spec => []NoLeak
<1>1. Inv /\ Inv' /\ WaysOK /\ [Next]_vars => WaysOK'
  <2>1. ASSUME UNCHANGED vars
        PROVE  UNCHANGED <<life, userdata, Callbacks, leaked, stranded, stack>>
    BY <2>1 DEF vars, wrapper, queue, past
  <2>2. QED
    BY <2>1, NextWays, IdleWays DEF Inv
<1>2. Init => WaysOK /\ StrandedOK
  BY DEF Init, WaysOK, StrandedOK, Live
<1>3. Inv /\ WaysOK /\ StrandedOK => NoLeak
  <2>1. ASSUME Inv, WaysOK, StrandedOK, NEW w \in Wrappers,
               life[w] \in {"live", "dying"}, userdata[w] = 0
        PROVE  \/ w \in leaked
               \/ \E k \in DOMAIN stack :
                     \/ w \in Making(stack[k])
                     \/ stack[k].op \in Destructor /\ stack[k].w = w
               \/ \E v \in Wrappers \ stranded : w \in Waiting(v)
    <3>1. DOMAIN stack = 1..Len(stack)
      BY <2>1, Sizes, LenProperties DEF Inv
    <3>2. CASE life[w] = "dying"
      <4>1. w \in stranded \/ \E k \in 1..Len(stack) : Dies(k, w)
        BY <2>1, <3>2 DEF Inv, Alone, LivesAlone
      <4>2. QED
        BY <2>1, <3>1, <4>1 DEF StrandedOK, Dies
    <3>3. CASE life[w] = "live"
      <4>1. w \in leaked \/ Made(w) \/ Waited(w)
        BY <2>1, <3>3 DEF WaysOK, Live
      <4>2. CASE Made(w)
        BY <3>1, <4>2 DEF Made
      <4>3. CASE Waited(w)
        <5>1. PICK v \in Wrappers \ stranded, i \in Nat : Waits(v, i, w)
          BY <4>3 DEF Waited
        <5>2. Callbacks[v] \in Seq(SockEvent)
          BY <2>1 DEF Inv, Held, DataOK
        <5>3. i \in DOMAIN Callbacks[v] /\ Callbacks[v][i].sock = w /\ w # None
          BY <5>1, <5>2, LenProperties, WrapperAssumption DEF Waits
        <5>4. w \in Waiting(v)
          BY <5>3 DEF Waiting
        <5>5. QED
          BY <5>4
      <4>4. QED
        BY <4>1, <4>2, <4>3
    <3>4. QED
      BY <2>1, <3>2, <3>3
  <2>2. QED
    BY <2>1 DEF NoLeak
<1>4. QED
  BY <1>1, <1>2, <1>3, StrandedKept, Holding, PTL DEF Spec

=============================================================================
