------------------------- MODULE SockWrapperProofs -------------------------
(***************************************************************************)
(* Proofs about SockWrapper, for any number of workers, any script and any  *)
(* bounds: the types and the shape of the control state, what KillWorkers   *)
(* guarantees, that each event is at one place, that the queues implement   *)
(* RequestQueue, and when the order to stop stands.                         *)
(***************************************************************************)
EXTENDS SockWrapper, FiniteSetTheorems, SequenceTheorems, TLAPS

-----------------------------------------------------------------------------
(* The control state of one thread.                                         *)

\* Where a thread at `label' with the frames s returns to: the Lua thread ends
\* in a script that the game called, a worker in its loop, and a worker that
\* runs no script has no frames.  The invariants below rest on this shape.
ThreadOK(t, label, s) ==
    IF t = LuaThread
    THEN /\ label \in LuaLabels \ {"panic"}
         /\ \A i \in 1..Len(s) : s[i] # "post"
         /\ IF s = <<>> THEN label = "lua" ELSE s[Len(s)] = "lua"
    ELSE /\ \A i \in 1..Len(s) : s[i] = "post" <=> i = Len(s)
         /\ label \in IF s = <<>> THEN WorkerLabels ELSE LuaLabels

StackOK == \A t \in Threads : ThreadOK(t, pc[t], stack[t])

LEMMA NoFrames ==
    ASSUME NEW s \in Seq(Frames)
    PROVE  s = <<>> <=> Len(s) = 0
BY EmptySeq

\* A thread can go from one label of its kind to another.
LEMMA RelabelOK ==
    ASSUME NEW t \in Threads, NEW s \in Seq(Frames), NEW label, NEW label2,
           ThreadOK(t, label, s),
           label \in WorkerLabels => label2 \in WorkerLabels,
           label \in LuaLabels => label2 \in LuaLabels,
           t = LuaThread => label2 # "panic",
           t = LuaThread /\ s = <<>> => label2 = "lua"
    PROVE  ThreadOK(t, label2, s)
BY DEF ThreadOK

\* Returning to the frame on top of the stack.
LEMMA ReturnOK ==
    ASSUME NEW t \in Threads, NEW s \in Seq(Frames), NEW label, s # <<>>,
           ThreadOK(t, label, s)
    PROVE  /\ Tail(s) \in Seq(Frames)
           /\ Head(s) \in Frames
           /\ ThreadOK(t, Head(s), Tail(s))
<1> DEFINE r == Tail(s)
<1>1. /\ r \in Seq(Frames) /\ Len(r) = Len(s) - 1
      /\ \A i \in 1..Len(r) : r[i] = s[i + 1]
      /\ Head(s) = s[1] /\ s[1] \in Frames /\ Len(s) \in Nat \ {0}
  OBVIOUS
<1>2. r = <<>> <=> Len(r) = 0
  BY <1>1, NoFrames
<1> HIDE DEF r
<1>3. CASE t = LuaThread
  <2>1. s[1] # "post" /\ s[Len(s)] = "lua"
    BY <1>1, <1>3 DEF ThreadOK
  <2>2. \A i \in 1..Len(r) : r[i] # "post"
    BY <1>1, <1>3 DEF ThreadOK
  <2>3. IF r = <<>> THEN s[1] = "lua" ELSE r[Len(r)] = "lua"
    BY <1>1, <1>2, <2>1
  <2>4. s[1] \in LuaLabels \ {"panic"}
    BY <1>1, <2>1 DEF Frames, LuaLabels
  <2>5. QED
    BY <1>1, <1>3, <2>2, <2>3, <2>4 DEF ThreadOK, r
<1>4. CASE t # LuaThread
  <2>1. \A i \in 1..Len(s) : s[i] = "post" <=> i = Len(s)
    BY <1>4 DEF ThreadOK
  <2>2. \A i \in 1..Len(r) : r[i] = "post" <=> i = Len(r)
    BY <1>1, <2>1
  <2>3. s[1] = "post" <=> r = <<>>
    BY <1>1, <1>2, <2>1
  <2>4. s[1] \in IF r = <<>> THEN WorkerLabels ELSE LuaLabels
    BY <1>1, <2>3 DEF Frames, LuaLabels, WorkerLabels
  <2>5. QED
    BY <1>1, <1>4, <2>2, <2>4 DEF ThreadOK, r
<1>5. QED
  BY <1>3, <1>4

\* Calling a function, to come back to the frames fs and then s.
LEMMA CallOK ==
    ASSUME NEW t \in Threads, NEW s \in Seq(Frames), NEW label, NEW label2,
           NEW fs \in Seq(Frames \ {"post"}),
           ThreadOK(t, label, s),
           label \in LuaLabels, label2 \in LuaLabels \ {"panic"},
           t = LuaThread /\ s = <<>> => fs # <<>> /\ fs[Len(fs)] = "lua"
    PROVE  /\ fs \o s \in Seq(Frames)
           /\ ThreadOK(t, label2, fs \o s)
<1> DEFINE r == fs \o s
<1>1. /\ r \in Seq(Frames) /\ Len(r) = Len(fs) + Len(s)
      /\ Len(fs) \in Nat /\ Len(s) \in Nat
      /\ \A i \in 1..Len(r) :
            r[i] = IF i <= Len(fs) THEN fs[i] ELSE s[i - Len(fs)]
  OBVIOUS
<1>2. \A i \in 1..Len(fs) : fs[i] # "post"
  OBVIOUS
<1>3. r = <<>> <=> Len(fs) = 0 /\ Len(s) = 0
  BY <1>1, NoFrames
<1>4. s = <<>> <=> Len(s) = 0
  BY NoFrames
<1> HIDE DEF r
<1>5. CASE t = LuaThread
  <2>1. \A i \in 1..Len(r) : r[i] # "post"
    BY <1>1, <1>2, <1>5 DEF ThreadOK
  <2>2. r # <<>> => r[Len(r)] = "lua"
    BY <1>1, <1>3, <1>4, <1>5 DEF ThreadOK
  <2>3. r = <<>> => FALSE
    BY <1>3, <1>4, <1>5
  <2>4. QED
    BY <1>1, <1>5, <2>1, <2>2, <2>3 DEF ThreadOK, r
<1>6. CASE t # LuaThread
  <2>1. s # <<>>
    BY <1>6 DEF ThreadOK, LuaLabels, WorkerLabels
  <2>2. \A i \in 1..Len(r) : r[i] = "post" <=> i = Len(r)
    BY <1>1, <1>2, <1>4, <1>6, <2>1 DEF ThreadOK
  <2>3. QED
    BY <1>1, <1>3, <1>4, <1>6, <2>1, <2>2 DEF ThreadOK, r
<1>7. QED
  BY <1>5, <1>6

\* An error leaves the frames above the k-th, a script.
LEMMA UnwindOK ==
    ASSUME NEW t \in Threads, NEW s \in Seq(Frames), NEW label,
           ThreadOK(t, label, s),
           NEW k \in 1..Len(s), s[k] = "lua"
    PROVE  /\ SubSeq(s, k + 1, Len(s)) \in Seq(Frames)
           /\ ThreadOK(t, "lua", SubSeq(s, k + 1, Len(s)))
<1> DEFINE r == SubSeq(s, k + 1, Len(s))
<1>1. /\ r \in Seq(Frames) /\ Len(r) = Len(s) - k
      /\ \A i \in 1..Len(r) : r[i] = s[i + k]
  OBVIOUS
<1>2. r = <<>> <=> Len(s) = k
  BY <1>1, NoFrames
<1> HIDE DEF r
<1>3. Len(s) \in Nat /\ k \in Nat
  OBVIOUS
<1>4. CASE t = LuaThread
  <2>1. \A i \in 1..Len(r) : r[i] # "post"
    BY <1>1, <1>3, <1>4 DEF ThreadOK
  <2>2. r # <<>> => r[Len(r)] = "lua"
    BY <1>1, <1>2, <1>3, <1>4, NoFrames DEF ThreadOK
  <2>3. QED
    BY <1>1, <1>4, <2>1, <2>2 DEF ThreadOK, LuaLabels, r
<1>5. CASE t # LuaThread
  <2>1. \A i \in 1..Len(s) : s[i] = "post" <=> i = Len(s)
    BY <1>5 DEF ThreadOK
  <2>2. k # Len(s) /\ r # <<>>
    BY <1>2, <1>3, <2>1
  <2>3. \A i \in 1..Len(r) : r[i] = "post" <=> i = Len(r)
    BY <1>1, <1>3, <2>1
  <2>4. QED
    BY <1>1, <1>5, <2>2, <2>3 DEF ThreadOK, LuaLabels, r
<1>6. QED
  BY <1>4, <1>5

-----------------------------------------------------------------------------
(* What a step of one thread does to the control state of all.              *)

ControlOK ==
    /\ pc \in [Threads -> WorkerLabels \union LuaLabels]
    /\ stack \in [Threads -> Seq(Frames)]
    /\ StackOK

\* One thread moves to a state that is good, the others stay.
LEMMA MoveKeeps ==
    ASSUME ControlOK, NEW t \in Threads,
           NEW label \in WorkerLabels \union LuaLabels, NEW s \in Seq(Frames),
           ThreadOK(t, label, s),
           pc' = [pc EXCEPT ![t] = label], stack' = [stack EXCEPT ![t] = s]
    PROVE  ControlOK'
<1>1. /\ pc' \in [Threads -> WorkerLabels \union LuaLabels]
      /\ stack' \in [Threads -> Seq(Frames)]
  BY DEF ControlOK
<1>2. ASSUME NEW u \in Threads
      PROVE  ThreadOK(u, pc'[u], stack'[u])
  <2>1. CASE u = t
    BY <2>1 DEF ControlOK
  <2>2. CASE u # t
    BY <2>2 DEF ControlOK, StackOK
  <2>3. QED
    BY <2>1, <2>2
<1>3. QED
  BY <1>1, <1>2 DEF ControlOK, StackOK

LEMMA GoKeeps ==
    ASSUME ControlOK, NEW t \in Threads, NEW label, Go(t, label),
           label \in WorkerLabels \union LuaLabels,
           pc[t] \in WorkerLabels => label \in WorkerLabels,
           pc[t] \in LuaLabels => label \in LuaLabels,
           pc[t] = "lua" => t \in Workers,
           t = LuaThread => label # "panic"
    PROVE  ControlOK'
<1>1. pc[t] \in WorkerLabels \union LuaLabels /\ stack[t] \in Seq(Frames)
      /\ ThreadOK(t, pc[t], stack[t])
  BY DEF ControlOK, StackOK
<1>2. t = LuaThread => stack[t] # <<>>
  BY <1>1, WorkersAssumption DEF ThreadOK
<1>3. ThreadOK(t, label, stack[t])
  BY <1>1, <1>2, RelabelOK
<1>4. pc' = [pc EXCEPT ![t] = label] /\ stack' = [stack EXCEPT ![t] = stack[t]]
  BY DEF Go, ControlOK
<1>5. QED
  BY <1>1, <1>3, <1>4, MoveKeeps

LEMMA ReturnKeeps ==
    ASSUME ControlOK, NEW t \in Threads, Return(t),
           pc[t] \in LuaLabels, pc[t] = "lua" => stack[t] # <<>>
    PROVE  ControlOK'
<1>1. stack[t] \in Seq(Frames) /\ ThreadOK(t, pc[t], stack[t])
  BY DEF ControlOK, StackOK
<1>2. stack[t] # <<>>
  BY <1>1 DEF ThreadOK, WorkerLabels, LuaLabels
<1>3. /\ Tail(stack[t]) \in Seq(Frames) /\ Head(stack[t]) \in Frames
      /\ ThreadOK(t, Head(stack[t]), Tail(stack[t]))
  BY <1>1, <1>2, ReturnOK
<1>4. Head(stack[t]) \in WorkerLabels \union LuaLabels
  BY <1>3 DEF Frames, WorkerLabels, LuaLabels
<1>5. /\ pc' = [pc EXCEPT ![t] = Head(stack[t])]
      /\ stack' = [stack EXCEPT ![t] = Tail(stack[t])]
  BY DEF Return
<1>6. QED
  BY <1>3, <1>4, <1>5, MoveKeeps

LEMMA CallKeeps ==
    ASSUME ControlOK, NEW t \in Threads, NEW label \in LuaLabels \ {"panic"},
           NEW fs \in Seq(Frames \ {"post"}), Call(t, label, fs),
           pc[t] \in LuaLabels,
           pc[t] = "lua" => fs # <<>> /\ fs[Len(fs)] = "lua"
    PROVE  ControlOK'
<1>1. stack[t] \in Seq(Frames) /\ ThreadOK(t, pc[t], stack[t])
  BY DEF ControlOK, StackOK
<1>2. t = LuaThread /\ stack[t] = <<>> => fs # <<>> /\ fs[Len(fs)] = "lua"
  BY <1>1 DEF ThreadOK
<1>3. fs \o stack[t] \in Seq(Frames) /\ ThreadOK(t, label, fs \o stack[t])
  BY <1>1, <1>2, CallOK
<1>4. /\ pc' = [pc EXCEPT ![t] = label]
      /\ stack' = [stack EXCEPT ![t] = fs \o stack[t]]
  BY DEF Call
<1>5. QED
  BY <1>3, <1>4, MoveKeeps

LEMMA CallDisconnectKeeps ==
    ASSUME ControlOK, NEW t \in Threads, NEW label \in {"kill", "think", "throw"},
           NEW fs \in Seq(Frames \ {"post"}), CallDisconnect(t, label, fs),
           pc[t] \in LuaLabels,
           pc[t] = "lua" => fs # <<>> /\ fs[Len(fs)] = "lua"
    PROVE  ControlOK'
<1>1. CASE Call(t, label, fs)
  BY <1>1, CallKeeps DEF LuaLabels
<1>2. CASE Call(t, "lua", <<label>> \o fs)
  <2> DEFINE gs == <<label>> \o fs
  <2>1. <<label>> \in Seq(Frames \ {"post"})
    BY DEF Frames
  <2>2. /\ gs \in Seq(Frames \ {"post"}) /\ Len(gs) = 1 + Len(fs)
        /\ \A i \in 1..Len(gs) : gs[i] = IF i <= 1 THEN label ELSE fs[i - 1]
        /\ Len(fs) \in Nat
    BY <2>1
  <2>3. fs # <<>> => Len(fs) # 0
    BY EmptySeq
  <2>4. gs # <<>>
    BY <2>2, EmptySeq
  <2> HIDE DEF gs
  <2>5. pc[t] = "lua" => gs # <<>> /\ gs[Len(gs)] = "lua"
    BY <2>2, <2>3, <2>4
  <2>6. Call(t, "lua", gs)
    BY <1>2 DEF gs
  <2>7. QED
    BY <2>2, <2>5, <2>6, CallKeeps DEF LuaLabels
<1>3. QED
  BY <1>1, <1>2 DEF CallDisconnect

LEMMA FrameLists ==
    /\ <<>> \in Seq(Frames \ {"post"})
    /\ \A f \in Frames \ {"post"} :
          <<f>> \in Seq(Frames \ {"post"}) /\ <<f>> # <<>>
          /\ <<f>>[Len(<<f>>)] = f
    /\ \A f, g \in Frames \ {"post"} :
          <<f, g>> \in Seq(Frames \ {"post"}) /\ <<f, g>> # <<>>
          /\ <<f, g>>[Len(<<f, g>>)] = g
OBVIOUS

\* The steps of SockWorkerFunction.
LEMMA WorkerControl ==
    ASSUME ControlOK, NEW w \in Workers, Worker(w)
    PROVE  ControlOK'
<1> w \in Threads /\ w # LuaThread
  BY WorkersAssumption DEF Threads
<1>1. CASE WorkerStart(w)
  BY <1>1, GoKeeps DEF WorkerStart, WorkerLabels, LuaLabels
<1>2. CASE WorkerTop(w)
  BY <1>2, GoKeeps DEF WorkerTop, WorkerLabels, LuaLabels
<1>3. CASE WorkerTake(w)
  BY <1>3, GoKeeps DEF WorkerTake, WorkerLabels, LuaLabels
<1>4. CASE WorkerLoad(w)
  BY <1>4, GoKeeps DEF WorkerLoad, WorkerLabels, LuaLabels
<1>5. CASE WorkerIO(w)
  <2>1. pc[w] = "io" /\ ThreadOK(w, pc[w], stack[w]) /\ stack[w] \in Seq(Frames)
    BY <1>5 DEF WorkerIO, ControlOK, StackOK
  <2>2. stack[w] = <<>>
    BY <2>1 DEF ThreadOK, LuaLabels
  <2>3. CASE Call(w, "think", <<"post">>)
    <3>1. <<"post">> \in Seq(Frames) /\ <<"post">> \o <<>> = <<"post">>
          /\ <<"post">> # <<>>
      BY ConcatEmptySeq DEF Frames
    <3>2. ThreadOK(w, "think", <<"post">>)
      BY <3>1 DEF ThreadOK, LuaLabels
    <3>3. /\ pc' = [pc EXCEPT ![w] = "think"]
          /\ stack' = [stack EXCEPT ![w] = <<"post">>]
      BY <2>2, <2>3, <3>1 DEF Call
    <3>4. QED
      BY <3>1, <3>2, <3>3, MoveKeeps DEF LuaLabels
  <2>4. CASE Go(w, "post")
    BY <2>1, <2>4, GoKeeps DEF WorkerLabels, LuaLabels
  <2>5. QED
    BY <1>5, <2>3, <2>4 DEF WorkerIO
<1>6. CASE WorkerPost(w)
  BY <1>6, GoKeeps DEF WorkerPost, WorkerLabels, LuaLabels
<1>7. CASE WorkerExit(w)
  BY <1>7, GoKeeps DEF WorkerExit, WorkerLabels, LuaLabels
<1>8. QED
  BY <1>1, <1>2, <1>3, <1>4, <1>5, <1>6, <1>7 DEF Worker

\* Workers that are made do not disturb the thread that makes them.
LEMMA SpawnControl ==
    ASSUME ControlOK, NEW t \in Threads, CreateEnd(t)
    PROVE  ControlOK'
<1>1. /\ stack[t] \in Seq(Frames) /\ ThreadOK(t, pc[t], stack[t])
      /\ pc[t] = "spawn"
  BY DEF CreateEnd, ControlOK, StackOK
<1>2. stack[t] # <<>>
  BY <1>1 DEF ThreadOK, WorkerLabels
<1>3. /\ Tail(stack[t]) \in Seq(Frames) /\ Head(stack[t]) \in Frames
      /\ ThreadOK(t, Head(stack[t]), Tail(stack[t]))
  BY <1>1, <1>2, ReturnOK
<1>4. PICK ws \in SUBSET Unborn : Spawn(t, ws)
  BY DEF CreateEnd
<1>5. stack' = [stack EXCEPT ![t] = Tail(stack[t])]
  BY DEF CreateEnd
<1>6. pc' = [u \in Threads |-> IF u \in ws THEN "new"
                               ELSE IF u = t THEN Head(stack[t]) ELSE pc[u]]
  BY <1>4 DEF Spawn
<1>7. /\ pc' \in [Threads -> WorkerLabels \union LuaLabels]
      /\ stack' \in [Threads -> Seq(Frames)]
  BY <1>3, <1>5, <1>6 DEF ControlOK, Frames, WorkerLabels, LuaLabels
<1>8. ASSUME NEW u \in Threads
      PROVE  ThreadOK(u, pc'[u], stack'[u])
  <2>1. /\ stack[u] \in Seq(Frames) /\ ThreadOK(u, pc[u], stack[u])
        /\ stack \in [Threads -> Seq(Frames)]
    BY DEF ControlOK, StackOK
  <2>2. CASE u \in ws
    <3>1. u \in Workers /\ pc[u] = "unborn" /\ u # t /\ u # LuaThread
      BY <1>1, <2>2, WorkersAssumption DEF Unborn
    <3>2. ThreadOK(u, "new", stack[u])
      BY <2>1, <3>1, RelabelOK DEF WorkerLabels, LuaLabels
    <3>3. QED
      BY <1>5, <1>6, <2>1, <2>2, <3>1, <3>2
  <2>3. CASE u \notin ws /\ u = t
    BY <1>3, <1>5, <1>6, <2>1, <2>3
  <2>4. CASE u \notin ws /\ u # t
    BY <1>5, <1>6, <2>1, <2>4
  <2>5. QED
    BY <2>2, <2>3, <2>4
<1>9. QED
  BY <1>7, <1>8 DEF ControlOK, StackOK

\* A step inside a call of the module.
LEMMA InsideControl ==
    ASSUME ControlOK, NEW t \in Threads, LuaInside(t)
    PROVE  ControlOK'
<1>1. CASE CreateBegin(t)
  BY <1>1, GoKeeps DEF CreateBegin, WorkerLabels, LuaLabels
<1>2. CASE CreateEnd(t)
  BY <1>2, SpawnControl
<1>3. CASE LuaConnectRest(t)
  BY <1>3, ReturnKeeps DEF LuaConnectRest, LuaLabels
<1>4. CASE KillClose(t)
  BY <1>4, GoKeeps DEF KillClose, WorkerLabels, LuaLabels
<1>5. CASE KillRaise(t)
  BY <1>5, GoKeeps DEF KillRaise, WorkerLabels, LuaLabels
<1>6. CASE KillWait(t)
  BY <1>6, GoKeeps DEF KillWait, WorkerLabels, LuaLabels
<1>7. CASE KillLower(t)
  BY <1>7, GoKeeps DEF KillLower, WorkerLabels, LuaLabels
<1>8. CASE ResetDrop(t)
  BY <1>8, GoKeeps DEF ResetDrop, WorkerLabels, LuaLabels
<1>9. CASE ResetRenew(t)
  BY <1>9, ReturnKeeps DEF ResetRenew, LuaLabels
<1>10. CASE ThinkDeliver(t)
  <2>1. pc[t] = "think" /\ pc[t] \in LuaLabels /\ Handle(t, Head(Callbacks))
    BY <1>10 DEF ThinkDeliver, LuaLabels
  <2>2. CASE Callback(t)
    BY <2>1, <2>2, CallKeeps, FrameLists DEF Callback, LuaLabels, Frames
  <2>3. CASE CallDisconnect(t, "think", <<>>) \/ CallDisconnect(t, "throw", <<>>)
    BY <2>1, <2>3, CallDisconnectKeeps, FrameLists
  <2>4. CASE UNCHANGED <<pc, stack>>
    BY <2>4 DEF ControlOK, StackOK
  <2>5. QED
    BY <2>1, <2>2, <2>3, <2>4 DEF Handle
<1>11. CASE ThinkDone(t)
  BY <1>11, ReturnKeeps DEF ThinkDone, LuaLabels
<1>12. CASE ShutDownThink(t)
  BY <1>12, GoKeeps DEF ShutDownThink, WorkerLabels, LuaLabels
<1>13. QED
  BY <1>1, <1>2, <1>3, <1>4, <1>5, <1>6, <1>7, <1>8, <1>9, <1>10, <1>11,
     <1>12 DEF LuaInside

\* A module function called by a script.
LEMMA CallControl ==
    ASSUME ControlOK, NEW t \in Threads, LuaCall(t)
    PROVE  ControlOK'
<1>1. CASE UNCHANGED <<pc, stack>>
  BY <1>1 DEF ControlOK, StackOK
<1>2. CASE LuaConnect(t)
  BY <1>2, CallKeeps, FrameLists DEF LuaConnect, Script, LuaLabels, Frames
<1>3. CASE LuaListen(t)
  <2>1. CASE Call(t, "create", <<"lua">>)
    BY <1>3, <2>1, CallKeeps, FrameLists DEF LuaListen, Script, LuaLabels, Frames
  <2>2. QED
    BY <1>1, <1>3, <2>1 DEF LuaListen
<1>4. CASE LuaAcceptFails(t)
  BY <1>4, CallKeeps, FrameLists DEF LuaAcceptFails, Script, LuaLabels, Frames
<1>5. ASSUME Script(t, "SendTo") \/ Script(t, "ReceiveFrom"), EnsureWorkers(t)
      PROVE  ControlOK'
  <2>1. CASE Call(t, "create", <<"lua">>)
    BY <1>5, <2>1, CallKeeps, FrameLists DEF Script, LuaLabels, Frames
  <2>2. QED
    BY <1>1, <1>5, <2>1 DEF EnsureWorkers
<1>6. CASE LuaAddWorker(t)
  <2>1. PICK w \in Unborn : pc' = [pc EXCEPT ![w] = "new"]
    BY <1>6 DEF LuaAddWorker
  <2>2. w \in Threads /\ w # LuaThread /\ pc[w] = "unborn" /\ stack' = stack
    BY <1>6, WorkersAssumption DEF LuaAddWorker, Unborn, Threads
  <2>3. Go(w, "new")
    BY <2>1, <2>2 DEF Go
  <2>4. QED
    BY <2>2, <2>3, GoKeeps DEF WorkerLabels, LuaLabels
<1>7. CASE LuaClose(t)
  BY <1>7, CallDisconnectKeeps, FrameLists
     DEF LuaClose, Script, LuaLabels, Frames
<1>8. QED
  BY <1>1, <1>2, <1>3, <1>4, <1>5, <1>6, <1>7
     DEF LuaCall, LuaCreate, LuaSend, LuaReceive, LuaAccept, LuaRequest,
         LuaBlocking, LuaSendTo, LuaReceiveFrom, thread

LEMMA UnwindControl ==
    ASSUME ControlOK, NEW t \in Threads, Unwind(t)
    PROVE  ControlOK'
<1>1. /\ pc[t] \in {"throw", "lua"} /\ stack[t] \in Seq(Frames)
      /\ ThreadOK(t, pc[t], stack[t])
  BY DEF Unwind, ControlOK, StackOK
<1>2. ASSUME NEW k \in 1..Len(stack[t]), stack[t][k] = "lua",
             pc' = [pc EXCEPT ![t] = "lua"],
             stack' = [stack EXCEPT
                          ![t] = SubSeq(stack[t], k + 1, Len(stack[t]))]
      PROVE  ControlOK'
  <2>1. /\ SubSeq(stack[t], k + 1, Len(stack[t])) \in Seq(Frames)
        /\ ThreadOK(t, "lua", SubSeq(stack[t], k + 1, Len(stack[t])))
    BY <1>1, <1>2, UnwindOK
  <2>2. QED
    BY <1>2, <2>1, MoveKeeps DEF LuaLabels
<1>3. CASE t \in Workers /\ Go(t, "panic")
  BY <1>1, <1>3, WorkersAssumption, GoKeeps DEF LuaLabels, WorkerLabels
<1>4. QED
  BY <1>2, <1>3 DEF Unwind

LEMMA ControlStep ==
    ASSUME ControlOK, [Next]_vars
    PROVE  ControlOK'
<1>0. LuaThread \in Threads
  BY DEF Threads
<1>1. ASSUME NEW w \in Workers, Worker(w)
      PROVE  ControlOK'
  BY <1>1, WorkerControl
<1>2. ASSUME NEW t \in Threads, LuaCall(t) \/ LuaInside(t)
      PROVE  ControlOK'
  BY <1>2, CallControl, InsideControl
<1>3. ASSUME NEW t \in Threads, LuaReturn(t)
      PROVE  ControlOK'
  BY <1>3, ReturnKeeps DEF LuaReturn, LuaLabels
<1>4. ASSUME NEW t \in Threads, Unwind(t)
      PROVE  ControlOK'
  BY <1>4, UnwindControl
<1>5. CASE Tick
  BY <1>0, <1>5, CallKeeps, FrameLists DEF Tick, LuaLabels, Frames
<1>6. CASE ShutDown
  BY <1>0, <1>6, CallDisconnectKeeps, FrameLists
     DEF ShutDown, Script, LuaLabels, Frames
<1>7. CASE UNCHANGED vars
  BY <1>7 DEF vars, thread, ControlOK, StackOK
<1>8. QED
  BY <1>1, <1>2, <1>3, <1>4, <1>5, <1>6, <1>7 DEF Next

LEMMA ControlInit == Init => ControlOK
<1> SUFFICES ASSUME Init PROVE ControlOK
  OBVIOUS
<1>2. <<>> \in Seq(Frames) /\ Len(<<>>) = 0
  BY EmptySeq
<1>3. ASSUME NEW t \in Threads
      PROVE  /\ stack[t] = <<>>
             /\ pc[t] = IF t = LuaThread THEN "lua" ELSE "unborn"
  BY DEF Init
<1>4. /\ pc \in [Threads -> WorkerLabels \union LuaLabels]
      /\ stack \in [Threads -> Seq(Frames)]
  BY <1>2 DEF Init, WorkerLabels, LuaLabels
<1>5. ASSUME NEW t \in Threads
      PROVE  ThreadOK(t, pc[t], stack[t])
  BY <1>2, <1>3 DEF ThreadOK, WorkerLabels, LuaLabels
<1>6. QED
  BY <1>4, <1>5 DEF ControlOK, StackOK

-----------------------------------------------------------------------------
(* What a worker holds, and the types of the data.                          *)

DataOK ==
    /\ QueueTypes /\ PoolTypes /\ SockTypes /\ EngineTypes
    /\ cur \in [Workers -> SockEvent \union {NoEvent}]
    /\ using \in [Workers -> {"none", "live", "shut", "freed"}]

LEMMA OperationTypes ==
    ASSUME NEW type, NEW res, NEW had, SockTypes,
           Operation(type, res, had)
    PROVE  open' \in BOOLEAN /\ state' \in SockStates
BY DEF Operation, SockTypes, SockStates

LEMMA PushTypes ==
    ASSUME NEW type \in Types, QueueTypes, Push(type),
           UNCHANGED <<Callbacks, delivered>>
    PROVE  QueueTypes'
BY DEF Push, QueueTypes, SockEvent, Results

LEMMA CallDisconnectTypes ==
    ASSUME NEW t, NEW label, NEW fs, SockTypes, CallDisconnect(t, label, fs),
           UNCHANGED <<open, dangling>>
    PROVE  SockTypes'
BY DEF CallDisconnect, SockTypes, SockStates

-----------------------------------------------------------------------------
(* How a thread that runs scripts moves: it stays in the scripts, or a      *)
(* worker comes back to the loop with its result; new threads may appear.   *)

LuaMove(t) ==
    /\ pc[t] \in LuaLabels
    /\ pc'[t] \in LuaLabels \union {"post"}
    /\ \A u \in Threads \ {t} :
          pc'[u] = pc[u] \/ (u \in Unborn /\ pc'[u] = "new")

LEMMA ReturnMove ==
    ASSUME ControlOK, NEW t \in Threads, Return(t), pc[t] \in LuaLabels,
           pc[t] = "lua" => stack[t] # <<>>
    PROVE  LuaMove(t)
<1>1. stack[t] \in Seq(Frames) /\ ThreadOK(t, pc[t], stack[t])
  BY DEF ControlOK, StackOK
<1>2. stack[t] # <<>>
  BY <1>1 DEF ThreadOK, WorkerLabels, LuaLabels
<1>3. Head(stack[t]) \in Frames
  BY <1>1, <1>2
<1>4. QED
  BY <1>3 DEF Return, LuaMove, ControlOK, Frames, LuaLabels

LEMMA CallMove ==
    ASSUME ControlOK, NEW t \in Threads, NEW label \in LuaLabels, NEW fs,
           Call(t, label, fs), pc[t] \in LuaLabels
    PROVE  LuaMove(t)
BY DEF Call, LuaMove, ControlOK

LEMMA GoMove ==
    ASSUME ControlOK, NEW t \in Threads, NEW label \in LuaLabels,
           Go(t, label), pc[t] \in LuaLabels
    PROVE  LuaMove(t)
BY DEF Go, LuaMove, ControlOK

LEMMA CallDisconnectMove ==
    ASSUME ControlOK, NEW t \in Threads, NEW label \in LuaLabels, NEW fs,
           CallDisconnect(t, label, fs), pc[t] \in LuaLabels
    PROVE  LuaMove(t)
BY CallMove DEF CallDisconnect, LuaLabels

LEMMA InsideMove ==
    ASSUME ControlOK, NEW t \in Threads, LuaInside(t)
    PROVE  LuaMove(t)
<1>1. CASE CreateBegin(t)
  BY <1>1, GoMove DEF CreateBegin, LuaLabels
<1>2. CASE CreateEnd(t)
  <2>1. /\ stack[t] \in Seq(Frames) /\ ThreadOK(t, pc[t], stack[t])
        /\ pc[t] = "spawn"
    BY <1>2 DEF CreateEnd, ControlOK, StackOK
  <2>2. stack[t] # <<>>
    BY <2>1 DEF ThreadOK, WorkerLabels
  <2>3. Head(stack[t]) \in Frames
    BY <2>1, <2>2
  <2>4. PICK ws \in SUBSET Unborn : Spawn(t, ws)
    BY <1>2 DEF CreateEnd
  <2>5. t \notin ws
    BY <2>1 DEF Unborn
  <2>6. pc' = [u \in Threads |-> IF u \in ws THEN "new"
                                 ELSE IF u = t THEN Head(stack[t]) ELSE pc[u]]
    BY <2>4 DEF Spawn
  <2>7. QED
    BY <2>1, <2>3, <2>5, <2>6 DEF LuaMove, Frames, LuaLabels
<1>3. CASE LuaConnectRest(t)
  BY <1>3, ReturnMove DEF LuaConnectRest, LuaLabels
<1>4. CASE KillClose(t)
  BY <1>4, GoMove DEF KillClose, LuaLabels
<1>5. CASE KillRaise(t)
  BY <1>5, GoMove DEF KillRaise, LuaLabels
<1>6. CASE KillWait(t)
  BY <1>6, GoMove DEF KillWait, LuaLabels
<1>7. CASE KillLower(t)
  BY <1>7, GoMove DEF KillLower, LuaLabels
<1>8. CASE ResetDrop(t)
  BY <1>8, GoMove DEF ResetDrop, LuaLabels
<1>9. CASE ResetRenew(t)
  BY <1>9, ReturnMove DEF ResetRenew, LuaLabels
<1>10. CASE ThinkDeliver(t)
  <2>1. pc[t] = "think" /\ pc[t] \in LuaLabels /\ Handle(t, Head(Callbacks))
    BY <1>10 DEF ThinkDeliver, LuaLabels
  <2>2. CASE UNCHANGED <<pc, stack>>
    BY <2>1, <2>2 DEF LuaMove
  <2>3. QED
    BY <2>1, <2>2, CallMove, CallDisconnectMove DEF Handle, Callback, LuaLabels
<1>11. CASE ThinkDone(t)
  BY <1>11, ReturnMove DEF ThinkDone, LuaLabels
<1>12. CASE ShutDownThink(t)
  BY <1>12, GoMove DEF ShutDownThink, LuaLabels
<1>13. QED
  BY <1>1, <1>2, <1>3, <1>4, <1>5, <1>6, <1>7, <1>8, <1>9, <1>10, <1>11,
     <1>12 DEF LuaInside

LEMMA CallsMove ==
    ASSUME ControlOK, NEW t \in Threads, LuaCall(t)
    PROVE  LuaMove(t)
<1>1. pc[t] = "lua" /\ pc[t] \in LuaLabels
  BY DEF LuaCall, LuaCreate, LuaConnect, LuaListen, LuaSend, LuaReceive,
         LuaAccept, LuaRequest, LuaBlocking, LuaAcceptFails, LuaSendTo,
         LuaReceiveFrom, LuaAddWorker, LuaClose, Script, LuaLabels
<1>2. CASE UNCHANGED <<pc, stack>>
  BY <1>1, <1>2 DEF LuaMove
<1>3. ASSUME NEW label \in LuaLabels, NEW fs, Call(t, label, fs)
      PROVE  LuaMove(t)
  BY <1>1, <1>3, CallMove
<1>4. CASE LuaAddWorker(t)
  <2>1. PICK w \in Unborn : pc' = [pc EXCEPT ![w] = "new"]
    BY <1>4 DEF LuaAddWorker
  <2>2. QED
    BY <1>1, <2>1 DEF LuaMove, Unborn, ControlOK
<1>5. CASE LuaClose(t)
  BY <1>1, <1>5, CallDisconnectMove DEF LuaClose, LuaLabels
<1>6. QED
  BY <1>2, <1>3, <1>4, <1>5
     DEF LuaCall, LuaCreate, LuaConnect, LuaListen, LuaSend, LuaReceive,
         LuaAccept, LuaRequest, LuaBlocking, LuaAcceptFails, LuaSendTo,
         LuaReceiveFrom, EnsureWorkers, thread,
         LuaLabels

LEMMA OtherMove ==
    ASSUME ControlOK, NEW t \in Threads,
           \/ LuaReturn(t)
           \/ Unwind(t)
           \/ t = LuaThread /\ (Tick \/ ShutDown)
    PROVE  LuaMove(t)
<1>1. CASE LuaReturn(t)
  BY <1>1, ReturnMove DEF LuaReturn, LuaLabels
<1>2. CASE Unwind(t)
  BY <1>2 DEF Unwind, Go, LuaMove, LuaLabels, ControlOK
<1>3. CASE t = LuaThread /\ Tick
  BY <1>3, CallMove DEF Tick, LuaLabels
<1>4. CASE t = LuaThread /\ ShutDown
  BY <1>4, CallDisconnectMove DEF ShutDown, Script, LuaLabels
<1>5. QED
  BY <1>1, <1>2, <1>3, <1>4

LEMMA HandMove ==
    ASSUME HandOK, NEW t \in Threads, LuaMove(t), UNCHANGED cur
    PROVE  HandOK'
BY DEF HandOK, LuaMove, Idle, Unborn, LuaLabels, Threads

LEMMA HandStep ==
    ASSUME HandOK, ControlOK, DataOK, NEW w \in Workers, NEW label, NEW e,
           pc' = [pc EXCEPT ![w] = label], cur' = [cur EXCEPT ![w] = e],
           e = NoEvent <=> label \in Idle
    PROVE  HandOK'
<1>1. pc \in [Threads -> WorkerLabels \union LuaLabels] /\ w \in Threads
  BY DEF ControlOK, Threads
<1>2. cur \in [Workers -> SockEvent \union {NoEvent}]
  BY DEF DataOK
<1>3. SUFFICES ASSUME NEW v \in Workers
               PROVE  cur'[v] = NoEvent <=> pc'[v] \in Idle
  BY DEF HandOK
<1>4. CASE v = w
  BY <1>1, <1>2, <1>4
<1>5. CASE v # w
  BY <1>1, <1>2, <1>5 DEF HandOK, Threads
<1>6. QED
  BY <1>4, <1>5

\* A worker moves from one such place to another.
LEMMA HandStays ==
    ASSUME HandOK, ControlOK, DataOK, NEW w \in Workers, NEW label,
           Go(w, label), UNCHANGED cur, pc[w] \in Idle <=> label \in Idle
    PROVE  HandOK'
<1>1. cur' = [cur EXCEPT ![w] = cur[w]] /\ pc' = [pc EXCEPT ![w] = label]
  BY DEF DataOK, Go
<1>2. cur[w] = NoEvent <=> label \in Idle
  BY DEF HandOK
<1>3. QED
  BY <1>1, <1>2, HandStep

\* The data after a step of SockWorkerFunction.
LEMMA WorkerData ==
    ASSUME DataOK, HandOK, ControlOK, NEW w \in Workers, Worker(w)
    PROVE  DataOK' /\ HandOK'
<1>1. CASE WorkerStart(w)
  <2>1. DataOK'
    BY <1>1 DEF WorkerStart, DataOK, QueueTypes, PoolTypes, SockTypes,
                EngineTypes, queue, ezsock, engine
  <2>2. HandOK'
    BY <1>1, HandStays DEF WorkerStart, Idle
  <2>3. QED
    BY <2>1, <2>2
<1>2. CASE WorkerTop(w)
  <2>1. DataOK'
    BY <1>2 DEF WorkerTop, DataOK, QueueTypes, PoolTypes, SockTypes,
                EngineTypes, queue, pool, ezsock, engine
  <2>2. HandOK'
    BY <1>2, HandStays DEF WorkerTop, Idle
  <2>3. QED
    BY <2>1, <2>2
<1>3. CASE WorkerTake(w)
  <2>1. CASE Todo = <<>>
    <3>1. DataOK'
      BY <1>3, <2>1 DEF WorkerTake, DataOK, QueueTypes, PoolTypes, SockTypes,
                        EngineTypes, pool, ezsock, engine
    <3>2. HandOK'
      BY <1>3, <2>1, HandStays DEF WorkerTake, Idle
    <3>3. QED
      BY <3>1, <3>2
  <2>2. CASE Todo # <<>>
    <3>1. Head(Todo) \in SockEvent /\ Tail(Todo) \in Seq(SockEvent)
      BY <2>2 DEF DataOK, QueueTypes
    <3>2. Head(Todo) # NoEvent
      BY <3>1 DEF SockEvent, NoEvent, Types
    <3>3. /\ cur' = [cur EXCEPT ![w] = Head(Todo)] /\ Todo' = Tail(Todo)
          /\ pc' = [pc EXCEPT ![w] = "load"]
      BY <1>3, <2>2 DEF WorkerTake, Go
    <3>4. DataOK'
      BY <1>3, <3>1, <3>3 DEF WorkerTake, DataOK, QueueTypes, PoolTypes,
                              SockTypes, EngineTypes, pool, ezsock, engine
    <3>5. HandOK'
      BY <3>2, <3>3, HandStep DEF Idle
    <3>6. QED
      BY <3>4, <3>5
  <2>3. QED
    BY <2>1, <2>2
<1>4. CASE WorkerLoad(w)
  <2>1. DataOK'
    BY <1>4 DEF WorkerLoad, Entering, DataOK, QueueTypes, PoolTypes, SockTypes,
                EngineTypes, queue, pool, ezsock, engine
  <2>2. HandOK'
    BY <1>4, HandStays DEF WorkerLoad, Idle
  <2>3. QED
    BY <2>1, <2>2
<1>5. CASE WorkerIO(w)
  <2>1. cur[w] \in SockEvent
    BY <1>5 DEF WorkerIO, HandOK, DataOK, Idle
  <2>2. PICK res \in Outcomes(cur[w].type) :
           /\ IF using[w] = "freed"
              THEN UNCHANGED <<open, state>>
              ELSE Operation(cur[w].type, res, using[w] = "live")
           /\ cur' = [cur EXCEPT ![w].res = res]
           /\ \/ Call(w, "think", <<"post">>) /\ tick' = TRUE
              \/ Go(w, "post") /\ UNCHANGED tick
    BY <1>5 DEF WorkerIO
  <2>3. res \in Results
    BY DEF Outcomes, Results
  <2>4. /\ cur' = [cur EXCEPT ![w] = [cur[w] EXCEPT !.res = res]]
        /\ [cur[w] EXCEPT !.res = res] \in SockEvent
    BY <2>1, <2>2, <2>3 DEF SockEvent
  <2>5. open' \in BOOLEAN /\ state' \in SockStates
    BY <2>2, OperationTypes DEF DataOK, SockTypes
  <2>6. tick' \in BOOLEAN
    BY <2>2 DEF DataOK, EngineTypes
  <2>7. DataOK'
    BY <1>5, <2>4, <2>5, <2>6
       DEF WorkerIO, DataOK, QueueTypes, PoolTypes, SockTypes, EngineTypes,
           queue, pool
  <2>8. pc' \in {[pc EXCEPT ![w] = "think"], [pc EXCEPT ![w] = "post"]}
    BY <2>2 DEF Call, Go
  <2>9. [cur[w] EXCEPT !.res = res] # NoEvent
    BY <2>4 DEF SockEvent, NoEvent, Types
  <2>10. HandOK'
    BY <2>4, <2>8, <2>9, HandStep DEF Idle
  <2>11. QED
    BY <2>7, <2>10
<1>6. CASE WorkerPost(w)
  <2>1. cur[w] \in SockEvent
    BY <1>6 DEF WorkerPost, HandOK, DataOK, Idle
  <2>2. DataOK'
    BY <1>6, <2>1 DEF WorkerPost, DataOK, QueueTypes, PoolTypes, SockTypes,
                      EngineTypes, pool, ezsock, engine
  <2>3. HandOK'
    BY <1>6, HandStep DEF WorkerPost, Go, Idle
  <2>4. QED
    BY <2>2, <2>3
<1>7. CASE WorkerExit(w)
  <2>1. DataOK'
    BY <1>7 DEF WorkerExit, DataOK, QueueTypes, PoolTypes, SockTypes,
                EngineTypes, queue, ezsock, engine
  <2>2. HandOK'
    BY <1>7, HandStays DEF WorkerExit, Idle
  <2>3. QED
    BY <2>1, <2>2
<1>8. QED
  BY <1>1, <1>2, <1>3, <1>4, <1>5, <1>6, <1>7 DEF Worker

\* The data after a step inside a call of the module.
LEMMA InsideData ==
    ASSUME DataOK, NEW t \in Threads, LuaInside(t)
    PROVE  DataOK' /\ UNCHANGED cur
<1>1. CASE CreateBegin(t)
  BY <1>1 DEF CreateBegin, DataOK, QueueTypes, PoolTypes, SockTypes,
              EngineTypes, queue, ezsock, engine
<1>2. CASE CreateEnd(t)
  <2>1. orphans' \subseteq Workers
    BY <1>2 DEF CreateEnd, Spawn, Unborn, DataOK, PoolTypes
  <2>2. QED
    BY <1>2, <2>1 DEF CreateEnd, DataOK, QueueTypes, PoolTypes, SockTypes,
                      EngineTypes, queue, ezsock, engine
<1>3. CASE LuaConnectRest(t)
  <2>1. CASE "Connect" \in Registered
    <3>1. QueueTypes'
      BY <1>3, <2>1, PushTypes DEF LuaConnectRest, DataOK, Types
    <3>2. QED
      BY <1>3, <2>1, <3>1 DEF LuaConnectRest, DataOK, PoolTypes, SockTypes,
                              EngineTypes, pool, engine, Push
  <2>2. CASE "Connect" \notin Registered
    <3>1. open' \in BOOLEAN /\ state' \in SockStates
      BY <1>3, <2>2, OperationTypes DEF LuaConnectRest, RunNow, DataOK,
                                        SockTypes
    <3>2. QED
      BY <1>3, <2>2, <3>1 DEF LuaConnectRest, DataOK, QueueTypes, PoolTypes,
                              SockTypes, EngineTypes, pool, engine
  <2>3. QED
    BY <2>1, <2>2
<1>4. CASE KillClose(t)
  BY <1>4 DEF KillClose, DataOK, QueueTypes, PoolTypes, SockTypes, SockStates,
              EngineTypes, queue, pool, engine
<1>5. CASE KillRaise(t)
  BY <1>5 DEF KillRaise, DataOK, QueueTypes, PoolTypes, SockTypes,
              EngineTypes, queue, ezsock, engine
<1>6. CASE KillWait(t)
  BY <1>6 DEF KillWait, Uncounted, DataOK, QueueTypes, PoolTypes, SockTypes,
              EngineTypes, queue, ezsock, engine
<1>7. CASE KillLower(t)
  BY <1>7 DEF KillLower, DataOK, QueueTypes, PoolTypes, SockTypes,
              EngineTypes, queue, ezsock, engine
<1>8. CASE ResetDrop(t)
  BY <1>8 DEF ResetDrop, DataOK, QueueTypes, PoolTypes, SockTypes, SockStates,
              EngineTypes, queue, pool, engine
<1>9. CASE ResetRenew(t)
  BY <1>9 DEF ResetRenew, DataOK, QueueTypes, PoolTypes, SockTypes,
              EngineTypes, queue, pool, engine
<1>10. CASE ThinkDeliver(t)
  <2>1. Head(Callbacks) \in SockEvent /\ Tail(Callbacks) \in Seq(SockEvent)
    BY <1>10 DEF ThinkDeliver, DataOK, QueueTypes
  <2>2. QueueTypes'
    BY <1>10, <2>1 DEF ThinkDeliver, DataOK, QueueTypes, SockEvent
  <2>3. SockTypes'
    BY <1>10, CallDisconnectTypes DEF ThinkDeliver, Handle, DataOK, SockTypes
  <2>4. QED
    BY <1>10, <2>2, <2>3 DEF ThinkDeliver, DataOK, PoolTypes, EngineTypes,
                             pool, engine
<1>11. CASE ThinkDone(t)
  BY <1>11 DEF ThinkDone, DataOK, QueueTypes, PoolTypes, SockTypes,
               EngineTypes, queue, pool, ezsock, engine
<1>12. CASE ShutDownThink(t)
  BY <1>12 DEF ShutDownThink, DataOK, QueueTypes, PoolTypes, SockTypes,
               EngineTypes, queue, pool, ezsock
<1>13. QED
  BY <1>1, <1>2, <1>3, <1>4, <1>5, <1>6, <1>7, <1>8, <1>9, <1>10, <1>11,
     <1>12 DEF LuaInside

\* The data after a step that makes or leaves the descriptor of the socket.
LEMMA CreateSockTypes ==
    ASSUME SockTypes, CreateSock, UNCHANGED <<dangling, DidDisconnectCallback>>
    PROVE  SockTypes'
BY DEF CreateSock, SockTypes, SockStates

\* The data after a module function called by a script.
LEMMA CallData ==
    ASSUME DataOK, NEW t \in Threads, LuaCall(t)
    PROVE  DataOK' /\ UNCHANGED cur
<1>1. CASE LuaCreate(t)
  <2>1. SockTypes'
    BY <1>1, CreateSockTypes DEF LuaCreate, DataOK
  <2>2. QED
    BY <1>1, <2>1 DEF LuaCreate, DataOK, QueueTypes, PoolTypes, EngineTypes,
                      queue, pool, engine, thread
<1>2. CASE LuaConnect(t)
  <2>1. SockTypes'
    BY <1>2, CreateSockTypes DEF LuaConnect, DataOK
  <2>2. QED
    BY <1>2, <2>1 DEF LuaConnect, DataOK, QueueTypes, PoolTypes, EngineTypes,
                      queue, pool, engine
<1>3. CASE LuaListen(t)
  <2>1. SockTypes'
    BY <1>3, CreateSockTypes DEF LuaListen, DataOK, SockTypes, SockStates
  <2>2. QED
    BY <1>3, <2>1 DEF LuaListen, DataOK, QueueTypes, PoolTypes, EngineTypes,
                      queue, pool, engine
<1>4. ASSUME NEW type \in {"Send", "Receive", "Accept"}, LuaRequest(t, type)
      PROVE  DataOK' /\ UNCHANGED cur
  <2>1. QueueTypes'
    BY <1>4, PushTypes DEF LuaRequest, DataOK, Types
  <2>2. QED
    BY <1>4, <2>1 DEF LuaRequest, Push, DataOK, PoolTypes, SockTypes,
                      EngineTypes, pool, ezsock, engine, thread
<1>5. ASSUME NEW type \in {"Send", "Receive"}, LuaBlocking(t, type)
      PROVE  DataOK' /\ UNCHANGED cur
  <2>1. open' \in BOOLEAN /\ state' \in SockStates
    BY <1>5, OperationTypes DEF LuaBlocking, RunNow, DataOK, SockTypes
  <2>2. QED
    BY <1>5, <2>1 DEF LuaBlocking, DataOK, QueueTypes, PoolTypes, SockTypes,
                      EngineTypes, queue, pool, engine, thread
<1>6. CASE LuaAcceptFails(t)
  BY <1>6 DEF LuaAcceptFails, DataOK, QueueTypes, PoolTypes, SockTypes,
              EngineTypes, queue, pool, ezsock
<1>7. CASE LuaSendTo(t)
  <2>1. SockTypes'
    BY <1>7, CreateSockTypes DEF LuaSendTo, DataOK
  <2>2. QueueTypes'
    BY <1>7, PushTypes DEF LuaSendTo, DataOK, Types
  <2>3. QED
    BY <1>7, <2>1, <2>2 DEF LuaSendTo, DataOK, PoolTypes, EngineTypes, pool,
                            engine
<1>8. CASE LuaReceiveFrom(t)
  <2>1. QueueTypes'
    BY <1>8, PushTypes DEF LuaReceiveFrom, DataOK, Types
  <2>2. QED
    BY <1>8, <2>1 DEF LuaReceiveFrom, DataOK, PoolTypes, SockTypes,
                      EngineTypes, pool, ezsock, engine
<1>9. CASE LuaAddWorker(t)
  BY <1>9 DEF LuaAddWorker, Unborn, DataOK, QueueTypes, PoolTypes, SockTypes,
              EngineTypes, queue, ezsock, engine
<1>10. CASE LuaClose(t)
  <2>1. SockTypes'
    BY <1>10, CallDisconnectTypes DEF LuaClose, DataOK
  <2>2. QED
    BY <1>10, <2>1 DEF LuaClose, DataOK, QueueTypes, PoolTypes, EngineTypes,
                       queue, pool, engine
<1>11. QED
  BY <1>1, <1>2, <1>3, <1>4, <1>5, <1>6, <1>7, <1>8, <1>9, <1>10
     DEF LuaCall, LuaSend, LuaReceive, LuaAccept

\* The data after the other steps of a thread that runs scripts.
LEMMA OtherData ==
    ASSUME DataOK, NEW t \in Threads,
           LuaReturn(t) \/ Unwind(t) \/ Tick \/ ShutDown
    PROVE  DataOK' /\ UNCHANGED cur
<1>1. CASE LuaReturn(t)
  BY <1>1 DEF LuaReturn, DataOK, QueueTypes, PoolTypes, SockTypes,
              EngineTypes, queue, pool, ezsock, engine
<1>2. CASE Unwind(t)
  BY <1>2 DEF Unwind, DataOK, QueueTypes, PoolTypes, SockTypes,
              EngineTypes, queue, pool, ezsock, engine
<1>3. CASE Tick
  BY <1>3 DEF Tick, DataOK, QueueTypes, PoolTypes, SockTypes,
              EngineTypes, queue, pool, ezsock
<1>4. CASE ShutDown
  <2>1. SockTypes'
    BY <1>4, CallDisconnectTypes DEF ShutDown, DataOK
  <2>2. QED
    BY <1>4, <2>1 DEF ShutDown, DataOK, QueueTypes, PoolTypes, EngineTypes,
                      queue, pool
<1>5. QED
  BY <1>1, <1>2, <1>3, <1>4

\* Every step is a step of SockWorkerFunction, a move of a thread that runs
\* scripts, which keeps the events where they are, or a stutter.
LEMMA Moves ==
    ASSUME ControlOK, DataOK, [Next]_vars
    PROVE  \/ \E w \in Workers : Worker(w)
           \/ \E t \in Threads : LuaMove(t) /\ DataOK' /\ UNCHANGED cur
           \/ UNCHANGED vars
<1>1. ASSUME NEW t \in Threads, LuaCall(t)
      PROVE  LuaMove(t) /\ DataOK' /\ UNCHANGED cur
  BY <1>1, CallsMove, CallData
<1>2. ASSUME NEW t \in Threads, LuaInside(t)
      PROVE  LuaMove(t) /\ DataOK' /\ UNCHANGED cur
  BY <1>2, InsideMove, InsideData
<1>3. ASSUME NEW t \in Threads, LuaReturn(t) \/ Unwind(t)
      PROVE  LuaMove(t) /\ DataOK' /\ UNCHANGED cur
  BY <1>3, OtherMove, OtherData
<1>4. LuaThread \in Threads
  BY DEF Threads
<1>5. CASE Tick \/ ShutDown
  BY <1>4, <1>5, OtherMove, OtherData
<1>6. QED
  BY <1>1, <1>2, <1>3, <1>4, <1>5 DEF Next

TypeInv == ControlOK /\ DataOK /\ HandOK

LEMMA TypeInit == Init => TypeInv
<1> SUFFICES ASSUME Init PROVE DataOK /\ HandOK
  BY ControlInit DEF TypeInv
<1>1. <<>> \in Seq(SockEvent)
  OBVIOUS
<1>2. DataOK
  <2>1. /\ cur \in [Workers -> SockEvent \union {NoEvent}]
        /\ using \in [Workers -> {"none", "live", "shut", "freed"}]
    BY DEF Init
  <2>2. QueueTypes
    BY <1>1 DEF Init, QueueTypes
  <2>3. CurrentWorkers \in Int /\ state \in SockStates
    BY DEF Init, SockStates
  <2>4. PoolTypes /\ SockTypes /\ EngineTypes
    BY <2>3, Zenon DEF Init, PoolTypes, SockTypes, EngineTypes
  <2>5. QED
    BY <2>1, <2>2, <2>4 DEF DataOK
<1>3. HandOK
  BY WorkersAssumption DEF Init, HandOK, Idle, Threads
<1>4. QED
  BY <1>2, <1>3

LEMMA TypeStep == TypeInv /\ [Next]_vars => TypeInv'
<1> SUFFICES ASSUME ControlOK, DataOK, HandOK, [Next]_vars
             PROVE  TypeInv'
  BY DEF TypeInv
<1>1. ControlOK'
  BY ControlStep
<1>2. ASSUME NEW w \in Workers, Worker(w)
      PROVE  DataOK' /\ HandOK'
  BY <1>2, WorkerData
<1>3. ASSUME NEW t \in Threads, LuaMove(t), DataOK', UNCHANGED cur
      PROVE  DataOK' /\ HandOK'
  BY <1>3, HandMove
<1>4. ASSUME UNCHANGED vars
      PROVE  DataOK' /\ HandOK'
  BY <1>4 DEF vars, queue, pool, ezsock, engine, thread, DataOK, QueueTypes,
              PoolTypes, SockTypes, EngineTypes, HandOK
<1>5. QED
  BY <1>1, <1>2, <1>3, <1>4, Moves DEF TypeInv

LEMMA TypesAlways == Spec => []TypeInv
BY TypeInit, TypeStep, PTL DEF Spec

\* Every variable keeps the type that the headers give it.
THEOREM TypeInvariant == Spec => []TypeOK
<1>1. TypeInv => TypeOK
  BY DEF TypeInv, TypeOK, ControlOK, DataOK, ThreadTypes
<1>2. QED
  BY <1>1, TypesAlways, PTL

\* A worker holds its event from the moment it takes it until it has posted
\* the result, through all the scripts that a failed accept runs on it.
THEOREM HandInvariant == Spec => []HandOK
<1>1. TypeInv => HandOK
  BY DEF TypeInv
<1>2. QED
  BY <1>1, TypesAlways, PTL

-----------------------------------------------------------------------------
(* What KillWorkers guarantees.                                             *)

ResetLabels == {"lower", "drop", "renew"}

\* A worker has a socket pointer only in a socket call, and one that has been
\* deleted only if KillWorkers could not see the worker.
UsingOK ==
    \A w \in Workers :
       /\ using[w] # "none" => pc[w] = "io"
       /\ using[w] = "freed" => w \in orphans

\* Sock dangles only between the two statements of Reset.
DanglingOK == dangling => pc[LuaThread] = "renew"

KillInv ==
    /\ TypeInv
    /\ CountExact
    /\ OnlyLuaThreadResets
    /\ ResetAlone
    /\ UsingOK
    /\ DanglingOK

\* A step of a thread that runs scripts and is not between the wait of
\* KillWorkers and the end of Reset, nor gets there.
Quiet(t) ==
    /\ LuaMove(t)
    /\ pc[t] \notin ResetLabels /\ pc'[t] \notin ResetLabels
    /\ UNCHANGED <<CurrentWorkers, using, dangling>>
    /\ orphans \subseteq orphans'
    /\ t \in orphans => \A u \in Unborn : pc'[u] = "new" => u \in orphans'

LEMMA ReturnFrame ==
    ASSUME ControlOK, NEW t \in Threads, Return(t), pc[t] \in LuaLabels,
           pc[t] = "lua" => stack[t] # <<>>
    PROVE  pc'[t] \in Frames
<1>1. stack[t] \in Seq(Frames) /\ ThreadOK(t, pc[t], stack[t])
  BY DEF ControlOK, StackOK
<1>2. stack[t] # <<>>
  BY <1>1 DEF ThreadOK, WorkerLabels, LuaLabels
<1>3. Head(stack[t]) \in Frames
  BY <1>1, <1>2
<1>4. QED
  BY <1>3 DEF Return, ControlOK

LEMMA NoResetFrame == Frames \intersect ResetLabels = {}
BY DEF Frames, ResetLabels

\* A step that makes no thread.
LEMMA QuietWithoutSpawn ==
    ASSUME ControlOK, NEW t \in Threads, NEW label, pc[t] \in LuaLabels,
           pc' = [pc EXCEPT ![t] = label],
           label \in (LuaLabels \union {"post"}) \ ResetLabels,
           pc[t] \notin ResetLabels,
           UNCHANGED <<CurrentWorkers, using, dangling, orphans>>
    PROVE  Quiet(t)
BY DEF Quiet, LuaMove, ControlOK, Unborn, Threads

LEMMA MoveCounts ==
    ASSUME NEW t \in Threads, LuaMove(t)
    PROVE  /\ Counted' = Counted
           /\ Uncounted' \subseteq Uncounted \union {u \in Unborn : pc'[u] = "new"}
BY DEF LuaMove, Counted, Uncounted, Unborn, LuaLabels, Threads

\* A worker that runs scripts is counted.
LEMMA ScriptsCounted ==
    ASSUME NEW w \in Workers, pc[w] \in LuaLabels
    PROVE  w \in Counted
BY DEF Counted, LuaLabels

LEMMA QuietKeeps ==
    ASSUME KillInv, TypeInv', NEW t \in Threads, Quiet(t)
    PROVE  KillInv'
<1>1. /\ pc[t] \in LuaLabels /\ LuaMove(t) /\ pc'[t] \notin ResetLabels
      /\ \A u \in Threads \ {t} :
            pc'[u] = pc[u] \/ (u \in Unborn /\ pc'[u] = "new")
  BY DEF Quiet, LuaMove
<1>2. CountExact'
  BY <1>1, MoveCounts DEF KillInv, CountExact, Quiet
<1>3. OnlyLuaThreadResets'
  BY <1>1 DEF KillInv, OnlyLuaThreadResets, ResetLabels, Threads
<1>4. LuaThread \in Threads \ Unborn
  BY WorkersAssumption DEF Threads, Unborn
<1>5. ResetAlone'
  <2> SUFFICES ASSUME Resetting'
               PROVE  Counted' \union Uncounted' \subseteq orphans'
    BY DEF ResetAlone
  <2>1. t # LuaThread /\ pc'[LuaThread] = pc[LuaThread]
    BY <1>1, <1>4 DEF Resetting, ResetLabels
  <2>2. Counted \union Uncounted \subseteq orphans
    BY <2>1 DEF Resetting, KillInv, ResetAlone
  <2>3. t \in orphans
    BY <1>1, <2>1, <2>2, ScriptsCounted DEF Threads
  <2>4. \A u \in Unborn : pc'[u] = "new" => u \in orphans'
    BY <2>3 DEF Quiet
  <2>5. orphans \subseteq orphans'
    BY DEF Quiet
  <2>6. QED
    BY <1>1, <2>2, <2>4, <2>5, MoveCounts
<1>6. UsingOK'
  <2> SUFFICES ASSUME NEW w \in Workers
               PROVE  /\ using'[w] # "none" => pc'[w] = "io"
                      /\ using'[w] = "freed" => w \in orphans'
    BY DEF UsingOK
  <2>1. using[w] # "none" => pc[w] = "io"
    BY DEF KillInv, UsingOK
  <2>2. using[w] = "freed" => w \in orphans
    BY DEF KillInv, UsingOK
  <2>3. pc[w] = "io" => w # t /\ w \notin Unborn
    BY <1>1 DEF Unborn, LuaLabels
  <2>4. using' = using /\ orphans \subseteq orphans'
    BY DEF Quiet
  <2>5. QED
    BY <1>1, <2>1, <2>2, <2>3, <2>4 DEF Threads
<1>7. DanglingOK'
  BY <1>1, <1>4 DEF KillInv, DanglingOK, Quiet, ResetLabels
<1>8. QED
  BY <1>2, <1>3, <1>5, <1>6, <1>7 DEF KillInv

LEMMA CallsQuiet ==
    ASSUME ControlOK, NEW t \in Threads, LuaCall(t)
    PROVE  Quiet(t)
<1>1. pc[t] = "lua" /\ pc[t] \in LuaLabels
  BY DEF LuaCall, LuaCreate, LuaConnect, LuaListen, LuaSend, LuaReceive,
         LuaAccept, LuaRequest, LuaBlocking, LuaAcceptFails, LuaSendTo,
         LuaReceiveFrom, LuaAddWorker, LuaClose, Script, LuaLabels
<1>2. pc' = [pc EXCEPT ![t] = "lua"] \/ pc' # pc
  BY <1>1 DEF ControlOK
<1>3. CASE LuaAddWorker(t)
  <2>1. PICK w \in Unborn :
           /\ pc' = [pc EXCEPT ![w] = "new"]
           /\ orphans' = IF t \in orphans THEN orphans \union {w} ELSE orphans
    BY <1>3 DEF LuaAddWorker
  <2>2. w \in Threads /\ w # t /\ pc[w] = "unborn"
    BY <1>1, <2>1 DEF Unborn, Threads
  <2>3. pc'[t] = "lua" /\ \A u \in Unborn \ {w} : pc'[u] # "new"
    BY <1>1, <2>1, <2>2 DEF ControlOK, Unborn, Threads
  <2>4. LuaMove(t)
    BY <1>3, CallsMove DEF LuaCall
  <2>5. UNCHANGED <<CurrentWorkers, using, dangling>>
    BY <1>3 DEF LuaAddWorker, ezsock
  <2>6. QED
    BY <1>1, <2>1, <2>3, <2>4, <2>5 DEF Quiet, ResetLabels
<1>4. ASSUME ~LuaAddWorker(t)
      PROVE  \E label \in {"lua", "create", "think", "kill"} :
                pc' = [pc EXCEPT ![t] = label]
  BY <1>1, <1>2, <1>4
     DEF LuaCall, LuaCreate, LuaConnect, LuaListen, LuaSend, LuaReceive,
         LuaAccept, LuaRequest, LuaBlocking, LuaAcceptFails, LuaSendTo,
         LuaReceiveFrom, LuaClose, CallDisconnect,
         EnsureWorkers, Call, thread
<1>5. ASSUME ~LuaAddWorker(t)
      PROVE  UNCHANGED <<CurrentWorkers, using, dangling, orphans>>
  BY <1>5
     DEF LuaCall, LuaCreate, LuaConnect, LuaListen, LuaSend, LuaReceive,
         LuaAccept, LuaRequest, LuaBlocking, LuaAcceptFails, LuaSendTo,
         LuaReceiveFrom, LuaClose, pool, thread,
         ezsock
<1>6. QED
  BY <1>1, <1>3, <1>4, <1>5, QuietWithoutSpawn DEF LuaLabels, ResetLabels

LEMMA OtherQuiet ==
    ASSUME ControlOK, NEW t \in Threads,
           \/ LuaReturn(t)
           \/ Unwind(t)
           \/ t = LuaThread /\ (Tick \/ ShutDown)
    PROVE  Quiet(t)
<1>1. pc[t] \in {"lua", "throw"} /\ pc[t] \in LuaLabels
  BY DEF LuaReturn, Unwind, Tick, ShutDown, Script, LuaLabels
<1>2. UNCHANGED <<CurrentWorkers, using, dangling, orphans>>
  BY DEF LuaReturn, Unwind, Tick, ShutDown, pool, ezsock
<1>3. CASE LuaReturn(t)
  <2>1. pc'[t] \in Frames /\ LuaMove(t)
    BY <1>1, <1>3, ReturnFrame, OtherMove DEF LuaReturn
  <2>2. pc' = [pc EXCEPT ![t] = Head(stack[t])]
    BY <1>3 DEF LuaReturn, Return
  <2>3. Head(stack[t]) \in (LuaLabels \union {"post"}) \ ResetLabels
    BY <2>1, <2>2 DEF ControlOK, Frames, LuaLabels, ResetLabels
  <2>4. QED
    BY <1>1, <1>2, <2>2, <2>3, QuietWithoutSpawn DEF ResetLabels
<1>4. CASE ~LuaReturn(t)
  <2>1. \E label \in {"lua", "panic", "think", "kill"} :
           pc' = [pc EXCEPT ![t] = label]
    BY <1>4 DEF Unwind, Tick, ShutDown, CallDisconnect, Call, Go
  <2>2. QED
    BY <1>1, <1>2, <2>1, QuietWithoutSpawn DEF LuaLabels, ResetLabels
<1>5. QED
  BY <1>3, <1>4

\* What a call does inside is quiet, except for the end of KillWorkers and the
\* rest of Reset.
LEMMA InsideQuiet ==
    ASSUME ControlOK, NEW t \in Threads, LuaInside(t)
    PROVE  \/ Quiet(t)
           \/ KillWait(t) \/ KillLower(t) \/ ResetDrop(t) \/ ResetRenew(t)
<1>1. CASE CreateBegin(t)
  BY <1>1, QuietWithoutSpawn DEF CreateBegin, Go, LuaLabels, ResetLabels, ezsock
<1>2. CASE CreateEnd(t)
  <2>1. PICK ws \in SUBSET Unborn : Spawn(t, ws)
    BY <1>2 DEF CreateEnd
  <2>2. /\ stack[t] \in Seq(Frames) /\ ThreadOK(t, pc[t], stack[t])
        /\ pc[t] = "spawn"
    BY <1>2 DEF CreateEnd, ControlOK, StackOK
  <2>3. stack[t] # <<>>
    BY <2>2 DEF ThreadOK, WorkerLabels
  <2>4. Head(stack[t]) \in Frames
    BY <2>2, <2>3
  <2>5. t \notin ws
    BY <2>2 DEF Unborn
  <2>6. pc'[t] \in Frames
    BY <2>1, <2>4, <2>5 DEF Spawn
  <2>7. \A u \in Unborn : pc'[u] = "new" => u \in ws
    BY <2>1, <2>2, <2>6 DEF Spawn, Unborn, Frames, Threads
  <2>8. LuaMove(t)
    BY <1>2, InsideMove DEF LuaInside
  <2>9. /\ UNCHANGED <<CurrentWorkers, using, dangling>>
        /\ orphans' = IF t \in orphans THEN orphans \union ws ELSE orphans
    BY <1>2, <2>1 DEF CreateEnd, Spawn, ezsock
  <2>10. QED
    BY <2>2, <2>6, <2>7, <2>8, <2>9, NoResetFrame DEF Quiet, ResetLabels
<1>3. ASSUME Return(t), pc[t] \in {"connect", "think"},
             UNCHANGED <<CurrentWorkers, using, dangling, orphans>>
      PROVE  Quiet(t)
  <2>1. pc'[t] \in Frames
    BY <1>3, ReturnFrame DEF LuaLabels
  <2>2. pc' = [pc EXCEPT ![t] = Head(stack[t])]
    BY <1>3 DEF Return
  <2>3. Head(stack[t]) \in (LuaLabels \union {"post"}) \ ResetLabels
    BY <2>1, <2>2 DEF ControlOK, Frames, LuaLabels, ResetLabels
  <2>4. pc[t] \in LuaLabels /\ pc[t] \notin ResetLabels
    BY <1>3 DEF LuaLabels, ResetLabels
  <2>5. QED
    BY <1>3, <2>2, <2>3, <2>4, QuietWithoutSpawn
<1>4. CASE LuaConnectRest(t)
  BY <1>3, <1>4 DEF LuaConnectRest, pool
<1>5. CASE KillClose(t)
  BY <1>5, QuietWithoutSpawn DEF KillClose, Go, LuaLabels, ResetLabels, pool
<1>6. CASE KillRaise(t)
  BY <1>6, QuietWithoutSpawn DEF KillRaise, Go, LuaLabels, ResetLabels, ezsock
<1>7. CASE ThinkDeliver(t)
  <2>1. pc[t] = "think" /\ Handle(t, Head(Callbacks))
    BY <1>7 DEF ThinkDeliver
  <2>2. \E label \in {"lua", "think", "throw"} : pc' = [pc EXCEPT ![t] = label]
    BY <2>1 DEF Handle, Callback, CallDisconnect, Call, ControlOK
  <2>3. UNCHANGED <<CurrentWorkers, using, dangling, orphans>>
    BY <1>7 DEF ThinkDeliver, pool
  <2>4. QED
    BY <2>1, <2>2, <2>3, QuietWithoutSpawn DEF LuaLabels, ResetLabels
<1>8. CASE ThinkDone(t)
  BY <1>3, <1>8 DEF ThinkDone, pool, ezsock
<1>9. CASE ShutDownThink(t)
  BY <1>9, QuietWithoutSpawn DEF ShutDownThink, Go, LuaLabels, ResetLabels,
                                 pool, ezsock
<1>10. QED
  BY <1>1, <1>2, <1>4, <1>5, <1>6, <1>7, <1>8, <1>9 DEF LuaInside

LEMMA CountedFinite == IsFiniteSet(Counted)
BY WorkersAssumption, FS_Subset DEF Counted

\* The steps of KillWorkers and Reset that are not quiet.
LEMMA ResetKeeps ==
    ASSUME KillInv, TypeInv', NEW t \in Threads,
           KillWait(t) \/ KillLower(t) \/ ResetDrop(t) \/ ResetRenew(t)
    PROVE  KillInv'
<1>1. ControlOK /\ DataOK /\ LuaMove(t)
  BY InsideMove DEF KillInv, TypeInv, LuaInside
<1>2. Counted' = Counted /\ CountExact'
  BY <1>1, MoveCounts
     DEF KillInv, CountExact, KillWait, KillLower, ResetDrop, ResetRenew, pool
<1>3. LuaThread \in Threads
  BY DEF Threads
\* A worker here would be counted, and could not have seen a count of zero.
<1>4. t = LuaThread
  <2>1. CASE KillWait(t)
    <3>1. Cardinality(Counted) = 0
      BY <2>1 DEF KillWait, KillInv, CountExact
    <3>2. Counted = {}
      BY <3>1, CountedFinite, FS_EmptySet
    <3>3. QED
      BY <1>1, <3>2, ScriptsCounted DEF LuaMove, Threads
  <2>2. CASE pc[t] \in ResetLabels
    BY <2>2 DEF KillInv, OnlyLuaThreadResets, ResetLabels, Threads
  <2>3. QED
    BY <2>1, <2>2 DEF KillLower, ResetDrop, ResetRenew, ResetLabels
<1>5. \A w \in Workers : pc'[w] = pc[w]
  BY <1>1, <1>4, WorkersAssumption
     DEF KillWait, KillLower, ResetDrop, ResetRenew, Go, Return, ControlOK,
         Threads
<1>6. OnlyLuaThreadResets'
  BY <1>5 DEF KillInv, OnlyLuaThreadResets
<1>7. Uncounted' = Uncounted
  BY <1>5 DEF Uncounted
<1>8. CASE KillWait(t)
  <2>1. Counted = {}
    BY <1>8, CountedFinite, FS_EmptySet DEF KillWait, KillInv, CountExact
  <2>2. orphans' = orphans \union Uncounted
    BY <1>8 DEF KillWait
  <2>3. ResetAlone'
    BY <1>2, <1>7, <2>1, <2>2 DEF ResetAlone
  <2>4. UNCHANGED <<using, dangling>>
    BY <1>8 DEF KillWait, ezsock
  <2>5. UsingOK'
    BY <1>5, <2>2, <2>4 DEF KillInv, UsingOK
  <2>6. pc[LuaThread] = "wait"
    BY <1>4, <1>8 DEF KillWait
  <2>7. DanglingOK'
    BY <2>4, <2>6 DEF KillInv, DanglingOK
  <2>8. QED
    BY <1>2, <1>6, <2>3, <2>5, <2>7 DEF KillInv
<1>9. CASE KillLower(t) \/ ResetDrop(t) \/ ResetRenew(t)
  <2>1. pc[LuaThread] \in ResetLabels
    BY <1>4, <1>9 DEF KillLower, ResetDrop, ResetRenew, ResetLabels
  <2>2. Counted \union Uncounted \subseteq orphans
    BY <2>1 DEF KillInv, ResetAlone, Resetting, ResetLabels
  <2>3. orphans' = orphans
    BY <1>9 DEF KillLower, ResetDrop, ResetRenew, pool
  <2>4. ResetAlone'
    BY <1>2, <1>7, <2>2, <2>3 DEF ResetAlone
  <2>5. ASSUME NEW w \in Workers
        PROVE  /\ using'[w] # "none" => pc'[w] = "io"
               /\ using'[w] = "freed" => w \in orphans'
    <3>1. using[w] # "none" => pc[w] = "io"
      BY DEF KillInv, UsingOK
    <3>2. using[w] = "freed" => w \in orphans
      BY DEF KillInv, UsingOK
    <3>3. pc[w] = "io" => w \in orphans
      BY <2>2 DEF Counted
    <3>4. using'[w] = using[w] \/ (using[w] # "none" /\ using'[w] = "freed")
      BY <1>9 DEF KillLower, ResetDrop, ResetRenew
    <3>5. QED
      BY <1>5, <2>3, <3>1, <3>2, <3>3, <3>4
  <2>6. UsingOK'
    BY <2>5 DEF UsingOK
  <2>7. DanglingOK'
    <3>1. CASE KillLower(t)
      BY <1>4, <3>1 DEF KillLower, KillInv, DanglingOK, ezsock
    <3>2. CASE ResetDrop(t)
      BY <1>1, <1>3, <1>4, <3>2 DEF ResetDrop, Go, DanglingOK, ControlOK
    <3>3. CASE ResetRenew(t)
      BY <3>3 DEF ResetRenew, DanglingOK
    <3>4. QED
      BY <1>9, <3>1, <3>2, <3>3
  <2>8. QED
    BY <1>2, <1>6, <2>4, <2>6, <2>7 DEF KillInv
<1>10. QED
  BY <1>8, <1>9

\* The steps of SockWorkerFunction.
LEMMA WorkerKeeps ==
    ASSUME KillInv, TypeInv', NEW w \in Workers, Worker(w)
    PROVE  KillInv'
<1>1. /\ ControlOK /\ DataOK /\ w \in Threads /\ LuaThread \in Threads
      /\ w # LuaThread
  BY WorkersAssumption DEF KillInv, TypeInv, Threads
<1>2. PICK label \in WorkerLabels \union {"think"} :
         /\ pc' = [pc EXCEPT ![w] = label]
         /\ label \notin {"unborn", "new"}
  BY DEF Worker, WorkerStart, WorkerTop, WorkerTake, WorkerLoad, WorkerIO,
         WorkerPost, WorkerExit, Go, Call, WorkerLabels
<1>3. pc[w] \in WorkerLabels \ {"unborn", "done"}
  BY DEF Worker, WorkerStart, WorkerTop, WorkerTake, WorkerLoad, WorkerIO,
         WorkerPost, WorkerExit, WorkerLabels
<1>4. pc'[w] = label /\ \A u \in Threads \ {w} : pc'[u] = pc[u]
  BY <1>1, <1>2 DEF ControlOK
<1>5. UNCHANGED <<orphans, dangling>>
  BY DEF Worker, WorkerStart, WorkerTop, WorkerTake, WorkerLoad, WorkerIO,
         WorkerPost, WorkerExit, pool, ezsock
<1>6. Counted' \union Uncounted' \subseteq Counted \union Uncounted
  BY <1>3, <1>4 DEF Counted, Uncounted, WorkerLabels, Threads
<1>7. pc'[LuaThread] = pc[LuaThread]
  BY <1>1, <1>4
<1>8. ResetAlone'
  BY <1>5, <1>6, <1>7 DEF KillInv, ResetAlone, Resetting
<1>9. OnlyLuaThreadResets'
  BY <1>2, <1>4 DEF KillInv, OnlyLuaThreadResets, WorkerLabels, Threads
<1>10. DanglingOK'
  BY <1>5, <1>7 DEF KillInv, DanglingOK
<1>11. UsingOK'
  <2> SUFFICES ASSUME NEW v \in Workers
               PROVE  /\ using'[v] # "none" => pc'[v] = "io"
                      /\ using'[v] = "freed" => v \in orphans'
    BY DEF UsingOK
  <2>1. /\ using[v] # "none" => pc[v] = "io"
        /\ using[v] = "freed" => v \in orphans
    BY DEF KillInv, UsingOK
  <2>2. CASE v # w
    <3>1. using'[v] = using[v]
      BY <1>1, <2>2
         DEF Worker, WorkerStart, WorkerTop, WorkerTake, WorkerLoad, WorkerIO,
             WorkerPost, WorkerExit, DataOK
    <3>2. QED
      BY <1>4, <1>5, <2>1, <2>2, <3>1 DEF Threads
  <2>3. CASE v = w
    <3>1. CASE WorkerLoad(w)
      <4>1. dangling => Resetting
        BY DEF KillInv, DanglingOK, Resetting
      <4>2. w \in Counted
        BY <3>1 DEF WorkerLoad, Counted
      <4>3. dangling => w \in orphans
        BY <4>1, <4>2 DEF KillInv, ResetAlone
      <4>4. /\ pc'[w] = "io"
            /\ using'[w] = "freed" => dangling
        BY <1>1, <3>1 DEF WorkerLoad, Entering, Go, ControlOK, DataOK
      <4>5. QED
        BY <1>5, <2>3, <4>3, <4>4
    <3>2. CASE WorkerIO(w)
      <4>1. using'[w] = "none"
        BY <1>1, <3>2 DEF WorkerIO, DataOK
      <4>2. QED
        BY <2>3, <4>1
    <3>3. CASE ~WorkerLoad(w) /\ ~WorkerIO(w)
      <4>1. pc[w] # "io" /\ using' = using
        BY <3>3 DEF Worker, WorkerStart, WorkerTop, WorkerTake, WorkerPost,
                    WorkerExit
      <4>2. QED
        BY <2>1, <2>3, <4>1
    <3>4. QED
      BY <3>1, <3>2, <3>3
  <2>4. QED
    BY <2>2, <2>3
<1>12. CountExact'
  <2>1. CurrentWorkers \in Int /\ CurrentWorkers = Cardinality(Counted)
    BY <1>1 DEF DataOK, PoolTypes, KillInv, CountExact
  <2>2. CASE WorkerStart(w)
    <3>1. w \notin Counted /\ Counted' = Counted \union {w}
      BY <1>1, <1>4, <2>2 DEF WorkerStart, Go, Counted, ControlOK, Threads
    <3>2. Cardinality(Counted') = Cardinality(Counted) + 1
      BY <3>1, CountedFinite, FS_AddElement
    <3>3. QED
      BY <2>1, <2>2, <3>2 DEF WorkerStart, CountExact
  <2>3. CASE WorkerExit(w)
    <3>1. w \in Counted /\ Counted' = Counted \ {w}
      BY <1>1, <1>4, <2>3 DEF WorkerExit, Go, Counted, ControlOK, Threads
    <3>2. Cardinality(Counted') = Cardinality(Counted) - 1
      BY <3>1, CountedFinite, FS_RemoveElement
    <3>3. QED
      BY <2>1, <2>3, <3>2 DEF WorkerExit, CountExact
  <2>4. CASE ~WorkerStart(w) /\ ~WorkerExit(w)
    <3>1. pc[w] \in {"top", "take", "load", "io", "post"} /\ label # "done"
      BY <1>1, <1>2, <2>4
         DEF Worker, WorkerTop, WorkerTake, WorkerLoad, WorkerIO, WorkerPost,
             Go, Call, ControlOK
    <3>2. Counted' = Counted
      BY <1>2, <1>4, <3>1 DEF Counted, Threads
    <3>3. CurrentWorkers' = CurrentWorkers
      BY <2>4 DEF Worker, WorkerTop, WorkerTake, WorkerLoad, WorkerIO,
                  WorkerPost, pool
    <3>4. QED
      BY <2>1, <3>2, <3>3 DEF CountExact
  <2>5. QED
    BY <2>2, <2>3, <2>4
<1>13. QED
  BY <1>8, <1>9, <1>10, <1>11, <1>12 DEF KillInv

LEMMA KillInit == Init => KillInv
<1> SUFFICES ASSUME Init PROVE KillInv
  OBVIOUS
<1>1. TypeInv
  BY TypeInit
<1>2. /\ pc[LuaThread] = "lua" /\ ~dangling
      /\ \A w \in Workers : pc[w] = "unborn" /\ using[w] = "none"
  BY WorkersAssumption DEF Init, Threads
<1>3. Counted = {} /\ CurrentWorkers = 0
  BY <1>2 DEF Counted, Init
<1>4. CountExact
  BY <1>3, FS_EmptySet DEF CountExact
<1>5. OnlyLuaThreadResets /\ ResetAlone /\ UsingOK /\ DanglingOK
  BY <1>2 DEF OnlyLuaThreadResets, ResetAlone, Resetting, UsingOK, DanglingOK
<1>6. QED
  BY <1>1, <1>4, <1>5 DEF KillInv

LEMMA KillStep == KillInv /\ [Next]_vars => KillInv'
<1> SUFFICES ASSUME KillInv, [Next]_vars
             PROVE  KillInv'
  OBVIOUS
<1>1. ControlOK /\ TypeInv'
  BY TypeStep DEF KillInv, TypeInv
<1>2. ASSUME NEW w \in Workers, Worker(w)
      PROVE  KillInv'
  BY <1>1, <1>2, WorkerKeeps
<1>3. ASSUME NEW t \in Threads, LuaCall(t) \/ LuaReturn(t) \/ Unwind(t)
      PROVE  KillInv'
  BY <1>1, <1>3, CallsQuiet, OtherQuiet, QuietKeeps
<1>4. ASSUME NEW t \in Threads, LuaInside(t)
      PROVE  KillInv'
  BY <1>1, <1>4, InsideQuiet, QuietKeeps, ResetKeeps
<1>5. CASE Tick \/ ShutDown
  BY <1>1, <1>5, OtherQuiet, QuietKeeps DEF Threads
<1>6. CASE UNCHANGED vars
  BY <1>1, <1>6
     DEF vars, pool, ezsock, thread, KillInv, CountExact, Counted,
         OnlyLuaThreadResets, ResetAlone, Resetting, Uncounted, UsingOK,
         DanglingOK
<1>7. QED
  BY <1>2, <1>3, <1>4, <1>5, <1>6 DEF Next

LEMMA KillAlways == Spec => []KillInv
BY KillInit, KillStep, PTL DEF Spec

\* CurrentWorkers is the number of threads between their increment and their
\* decrement, at any time.
THEOREM CountInvariant == Spec => []CountExact
<1>1. KillInv => CountExact
  BY DEF KillInv
<1>2. QED
  BY <1>1, KillAlways, PTL

\* A script that closes the socket on a worker hangs there: it cannot see the
\* count go to zero.
THEOREM ResetterInvariant == Spec => []OnlyLuaThreadResets
<1>1. KillInv => OnlyLuaThreadResets
  BY DEF KillInv
<1>2. QED
  BY <1>1, KillAlways, PTL

\* While the Lua thread replaces the EzSock, no thread that KillWorkers could
\* see exists.
THEOREM ResetInvariant == Spec => []ResetAlone
<1>1. KillInv => ResetAlone
  BY DEF KillInv
<1>2. QED
  BY <1>1, KillAlways, PTL

\* The EzSock that Reset deletes is only ever used by a thread that KillWorkers
\* could not see.
THEOREM UseInvariant == Spec => []NoStaleUse
<1>1. KillInv => NoStaleUse
  BY DEF KillInv, ResetAlone, Resetting, UsingOK, DanglingOK, NoStaleUse
<1>2. QED
  BY <1>1, KillAlways, PTL

-----------------------------------------------------------------------------
(* The queues: what a step does to them.                                    *)

\* The events stay where they are; a worker may note the result of its own.
StaysPut ==
    /\ UNCHANGED queue
    /\ \A w \in Workers :
          /\ cur'[w].id = cur[w].id
          /\ cur'[w] = NoEvent <=> cur[w] = NoEvent

Issues ==
    /\ \E type \in Types : Push(type)
    /\ UNCHANGED <<Callbacks, delivered, cur>>

Takes(w) ==
    /\ Todo # <<>> /\ cur[w] = NoEvent
    /\ Todo' = Tail(Todo) /\ cur' = [cur EXCEPT ![w] = Head(Todo)]
    /\ UNCHANGED <<Callbacks, issued, delivered>>

Posts(w) ==
    /\ cur[w] # NoEvent
    /\ Callbacks' = Append(Callbacks, cur[w])
    /\ cur' = [cur EXCEPT ![w] = NoEvent]
    /\ UNCHANGED <<Todo, issued, delivered>>

Delivers ==
    /\ Callbacks # <<>>
    /\ Callbacks' = Tail(Callbacks)
    /\ delivered' = delivered \union {Head(Callbacks).id}
    /\ UNCHANGED <<Todo, issued, cur>>

QueueStep ==
    \/ StaysPut \/ Issues \/ Delivers
    \/ \E w \in Workers : Takes(w) \/ Posts(w)

LEMMA WorkerQueue ==
    ASSUME DataOK, HandOK, NEW w \in Workers, Worker(w)
    PROVE  QueueStep
<1>1. CASE UNCHANGED queue /\ UNCHANGED cur
  BY <1>1 DEF QueueStep, StaysPut
<1>2. CASE WorkerTake(w)
  <2>1. cur[w] = NoEvent
    BY <1>2 DEF WorkerTake, HandOK, Idle
  <2>2. CASE Todo = <<>>
    BY <1>1, <1>2, <2>2 DEF WorkerTake, queue
  <2>3. CASE Todo # <<>>
    <3>1. Takes(w)
      BY <1>2, <2>1, <2>3 DEF WorkerTake, Takes
    <3>2. QED
      BY <3>1 DEF QueueStep
  <2>4. QED
    BY <2>2, <2>3
<1>3. CASE WorkerIO(w)
  <2>1. PICK res \in Outcomes(cur[w].type) : cur' = [cur EXCEPT ![w].res = res]
    BY <1>3 DEF WorkerIO
  <2>2. cur[w] # NoEvent /\ UNCHANGED queue
    BY <1>3 DEF WorkerIO, HandOK, Idle
  <2>3. cur \in [Workers -> SockEvent \union {NoEvent}]
    BY DEF DataOK
  <2>4. cur[w].id \in Nat /\ cur[w].type \in Types
    BY <2>2, <2>3 DEF SockEvent
  <2>5. /\ cur'[w].id = cur[w].id /\ cur'[w].type = cur[w].type
        /\ \A v \in Workers : v # w => cur'[v] = cur[v]
    BY <2>1, <2>2, <2>3 DEF SockEvent
  <2>6. NoEvent.type \notin Types
    BY DEF NoEvent, Types
  <2>7. cur'[w] # NoEvent
    BY <2>4, <2>5, <2>6
  <2>8. QED
    BY <2>2, <2>5, <2>7 DEF QueueStep, StaysPut
<1>4. CASE WorkerPost(w)
  <2>1. cur[w] # NoEvent
    BY <1>4 DEF WorkerPost, HandOK, Idle
  <2>2. Posts(w)
    BY <1>4, <2>1 DEF WorkerPost, Posts
  <2>3. QED
    BY <2>2 DEF QueueStep
<1>5. CASE WorkerStart(w) \/ WorkerTop(w) \/ WorkerLoad(w) \/ WorkerExit(w)
  BY <1>1, <1>5 DEF WorkerStart, WorkerTop, WorkerLoad, WorkerExit
<1>6. QED
  BY <1>2, <1>3, <1>4, <1>5 DEF Worker

LEMMA CallsQueue ==
    ASSUME DataOK, NEW t \in Threads, LuaCall(t)
    PROVE  QueueStep
<1>1. UNCHANGED cur
  BY CallData
<1>2. CASE UNCHANGED queue
  BY <1>1, <1>2 DEF QueueStep, StaysPut
<1>3. ASSUME NEW type \in Types, Push(type), UNCHANGED <<Callbacks, delivered>>
      PROVE  QueueStep
  BY <1>1, <1>3 DEF QueueStep, Issues
<1>4. CASE \E type \in {"Send", "Receive", "Accept"} : LuaRequest(t, type)
  BY <1>3, <1>4 DEF LuaRequest, Types
<1>5. CASE LuaSendTo(t) \/ LuaReceiveFrom(t)
  BY <1>3, <1>5 DEF LuaSendTo, LuaReceiveFrom, Types
<1>6. CASE LuaCreate(t) \/ LuaConnect(t) \/ LuaListen(t) \/ LuaAddWorker(t)
  BY <1>2, <1>6 DEF LuaCreate, LuaConnect, LuaListen, LuaAddWorker
<1>7. CASE \/ \E type \in {"Send", "Receive"} : LuaBlocking(t, type)
           \/ LuaAcceptFails(t) \/ LuaClose(t)
  BY <1>2, <1>7 DEF LuaBlocking, LuaAcceptFails, LuaClose
<1>8. QED
  BY <1>4, <1>5, <1>6, <1>7 DEF LuaCall, LuaSend, LuaReceive, LuaAccept

LEMMA InsideQueue ==
    ASSUME DataOK, NEW t \in Threads, LuaInside(t)
    PROVE  QueueStep
<1>1. UNCHANGED cur
  BY InsideData
<1>2. CASE UNCHANGED queue
  BY <1>1, <1>2 DEF QueueStep, StaysPut
<1>3. CASE LuaConnectRest(t)
  <2>1. CASE "Connect" \in Registered
    <3>1. Push("Connect") /\ UNCHANGED <<Callbacks, delivered>>
      BY <1>3, <2>1 DEF LuaConnectRest
    <3>2. QED
      BY <1>1, <3>1 DEF QueueStep, Issues, Types
  <2>2. CASE "Connect" \notin Registered
    BY <1>2, <1>3, <2>2 DEF LuaConnectRest, queue
  <2>3. QED
    BY <2>1, <2>2
<1>4. CASE ThinkDeliver(t)
  BY <1>1, <1>4 DEF ThinkDeliver, QueueStep, Delivers
<1>5. CASE CreateBegin(t) \/ CreateEnd(t) \/ ThinkDone(t) \/ ShutDownThink(t)
  BY <1>2, <1>5 DEF CreateBegin, CreateEnd, ThinkDone, ShutDownThink
<1>6. CASE KillClose(t) \/ KillRaise(t) \/ KillWait(t) \/ KillLower(t)
  BY <1>2, <1>6 DEF KillClose, KillRaise, KillWait, KillLower
<1>7. CASE ResetDrop(t) \/ ResetRenew(t)
  BY <1>2, <1>7 DEF ResetDrop, ResetRenew
<1>8. QED
  BY <1>3, <1>4, <1>5, <1>6, <1>7 DEF LuaInside

LEMMA NextQueue ==
    ASSUME DataOK, HandOK, [Next]_vars
    PROVE  QueueStep
<1>1. ASSUME NEW t \in Threads, LuaReturn(t) \/ Unwind(t) \/ Tick \/ ShutDown
      PROVE  QueueStep
  <2>1. UNCHANGED cur
    BY <1>1, OtherData
  <2>2. UNCHANGED queue
    BY <1>1 DEF LuaReturn, Unwind, Tick, ShutDown
  <2>3. QED
    BY <2>1, <2>2 DEF QueueStep, StaysPut
<1>2. LuaThread \in Threads
  BY DEF Threads
<1>3. CASE UNCHANGED vars
  BY <1>3 DEF vars, thread, QueueStep, StaysPut
<1>4. QED
  BY <1>1, <1>2, <1>3, WorkerQueue, CallsQueue, InsideQueue DEF Next

-----------------------------------------------------------------------------
(* The ids in the hands of workers and in a list of events.                 *)

HandIds == {cur[w].id : w \in Held}

LEMMA HandStaysPut ==
    ASSUME StaysPut
    PROVE  /\ Held' = Held /\ HandIds' = HandIds
           /\ \A w \in Held : cur'[w].id = cur[w].id
<1>1. Held' = Held
  BY DEF StaysPut, Held
<1>2. \A w \in Held : cur'[w].id = cur[w].id
  BY DEF StaysPut, Held
<1>3. HandIds' = {cur'[w].id : w \in Held}
  BY <1>1 DEF HandIds
<1>4. QED
  BY <1>1, <1>2, <1>3 DEF HandIds

LEMMA HandTakes ==
    ASSUME DataOK, NEW w \in Workers, Takes(w)
    PROVE  /\ Held' = Held \union {w} /\ w \notin Held
           /\ \A v \in Held : cur'[v] = cur[v]
           /\ cur'[w] = Head(Todo)
           /\ HandIds' = HandIds \union {Head(Todo).id}
<1>1. Head(Todo) \in SockEvent
  BY DEF DataOK, QueueTypes, Takes
<1>2. Head(Todo) # NoEvent
  BY <1>1 DEF SockEvent, NoEvent, Types
<1>3. cur' = [cur EXCEPT ![w] = Head(Todo)] /\ cur[w] = NoEvent
  BY DEF Takes
<1>4. cur \in [Workers -> SockEvent \union {NoEvent}]
  BY DEF DataOK
<1>5. cur'[w] = Head(Todo) /\ \A v \in Workers : v # w => cur'[v] = cur[v]
  BY <1>3, <1>4
<1>6. Held' = Held \union {w} /\ w \notin Held
  BY <1>2, <1>3, <1>5 DEF Held
<1>7. \A v \in Held : v \in Workers /\ cur'[v] = cur[v]
  BY <1>5, <1>6 DEF Held
<1>8. HandIds' = {cur'[v].id : v \in Held \union {w}}
  BY <1>6 DEF HandIds
<1>9. QED
  BY <1>5, <1>6, <1>7, <1>8 DEF HandIds

LEMMA HandPosts ==
    ASSUME DataOK, NEW w \in Workers, Posts(w),
           \A u, v \in Held : cur[u].id = cur[v].id => u = v
    PROVE  /\ Held' = Held \ {w} /\ w \in Held
           /\ \A v \in Held' : cur'[v] = cur[v]
           /\ HandIds' = HandIds \ {cur[w].id}
<1>1. cur' = [cur EXCEPT ![w] = NoEvent] /\ cur[w] # NoEvent
  BY DEF Posts
<1>2. cur \in [Workers -> SockEvent \union {NoEvent}]
  BY DEF DataOK
<1>3. cur'[w] = NoEvent /\ \A v \in Workers : v # w => cur'[v] = cur[v]
  BY <1>1, <1>2
<1>4. Held' = Held \ {w} /\ w \in Held
  BY <1>1, <1>3 DEF Held
<1>5. \A v \in Held' : v \in Held /\ v # w /\ cur'[v] = cur[v]
  BY <1>3, <1>4 DEF Held
<1>6. HandIds' = {cur'[v].id : v \in Held \ {w}}
  BY <1>4 DEF HandIds
<1>7. HandIds' = {cur[v].id : v \in Held \ {w}}
  BY <1>4, <1>5, <1>6
<1>8. QED
  BY <1>4, <1>5, <1>7 DEF HandIds

LEMMA IdsAppend ==
    ASSUME NEW s \in Seq(SockEvent), NEW e \in SockEvent
    PROVE  Ids(Append(s, e)) = Ids(s) \union {e.id}
<1> DEFINE t == Append(s, e)
<1>1. Len(s) \in Nat
  BY LenProperties
<1>2. /\ Len(t) = Len(s) + 1 /\ t[Len(s) + 1] = e
      /\ \A i \in 1..Len(s) : t[i] = s[i]
  BY AppendProperties
<1> HIDE DEF t
<1>3. \A i \in 1..Len(t) : i \in 1..Len(s) \/ i = Len(s) + 1
  BY <1>1, <1>2
<1>4. \A i \in 1..Len(s) : i \in 1..Len(t)
  BY <1>1, <1>2
<1>5. Len(s) + 1 \in 1..Len(t)
  BY <1>1, <1>2
<1>6. Ids(t) = Ids(s) \union {e.id}
  BY <1>2, <1>3, <1>4, <1>5 DEF Ids
<1>7. QED
  BY <1>6 DEF t

LEMMA IdsTail ==
    ASSUME NEW s \in Seq(SockEvent), s # <<>>
    PROVE  /\ Ids(s) = {Head(s).id} \union Ids(Tail(s))
           /\ (\A i, j \in 1..Len(s) : s[i].id = s[j].id => i = j) =>
                 /\ Head(s).id \notin Ids(Tail(s))
                 /\ \A i, j \in 1..Len(Tail(s)) :
                       Tail(s)[i].id = Tail(s)[j].id => i = j
<1> DEFINE t == Tail(s)
<1>1. /\ Len(s) \in Nat /\ Len(s) >= 1
  BY LenProperties, EmptySeq
<1>2. /\ Len(t) = Len(s) - 1 /\ Head(s) = s[1]
      /\ \A i \in 1..Len(t) : t[i] = s[i + 1]
  BY <1>1, HeadTailProperties
<1> HIDE DEF t
<1>3. /\ \A i \in 1..Len(t) : i + 1 \in 1..Len(s) /\ i + 1 # 1
      /\ \A i, j \in 1..Len(t) : i + 1 = j + 1 => i = j
      /\ 1 \in 1..Len(s)
  BY <1>1, <1>2
<1>4. \A i \in 1..Len(s) : i = 1 \/ (i - 1 \in 1..Len(t) /\ (i - 1) + 1 = i)
  BY <1>1, <1>2
<1>5. Ids(s) = {s[1].id} \union Ids(t)
  <2>1. \A x \in Ids(s) : x = s[1].id \/ x \in Ids(t)
    <3>1. SUFFICES ASSUME NEW i \in 1..Len(s), i # 1 PROVE s[i].id \in Ids(t)
      BY DEF Ids
    <3>2. i - 1 \in 1..Len(t) /\ t[i - 1] = s[i]
      BY <1>2, <1>4, <3>1
    <3>3. QED
      BY <3>2 DEF Ids
  <2>2. Ids(t) \subseteq Ids(s) /\ s[1].id \in Ids(s)
    BY <1>2, <1>3 DEF Ids
  <2>3. QED
    BY <2>1, <2>2
<1>6. ASSUME \A i, j \in 1..Len(s) : s[i].id = s[j].id => i = j
      PROVE  /\ s[1].id \notin Ids(t)
             /\ \A i, j \in 1..Len(t) : t[i].id = t[j].id => i = j
  <2>1. \A i \in 1..Len(t) : t[i].id # s[1].id
    BY <1>2, <1>3, <1>6
  <2>2. s[1].id \notin Ids(t)
    BY <2>1 DEF Ids
  <2>3. ASSUME NEW i \in 1..Len(t), NEW j \in 1..Len(t), t[i].id = t[j].id
        PROVE  i = j
    <3>1. i + 1 = j + 1
      BY <1>2, <1>3, <1>6, <2>3
    <3>2. QED
      BY <1>3, <3>1
  <2>4. QED
    BY <2>2, <2>3
<1>7. QED
  BY <1>2, <1>5, <1>6 DEF t

-----------------------------------------------------------------------------
(* The invariant of EventOnce.                                              *)

OnceInv ==
    /\ TypeInv
    /\ EventOnce
    /\ Len(Todo) <= issued

\* The requests that wait are the last issued.
TodoOK == \A i \in 1..Len(Todo) : Todo[i].id = issued - Len(Todo) + i

\* The others are at one place each.
PlacesOK ==
    /\ \A i, j \in 1..Len(Callbacks) :
          Callbacks[i].id = Callbacks[j].id => i = j
    /\ \A v, w \in Held : cur[v].id = cur[w].id => v = w
    /\ HandIds \intersect Ids(Callbacks) = {}
    /\ (HandIds \union Ids(Callbacks)) \intersect delivered = {}
    /\ HandIds \union Ids(Callbacks) \union delivered = 1..(issued - Len(Todo))

LEMMA OnceParts == EventOnce <=> TodoOK /\ PlacesOK
BY DEF EventOnce, TodoOK, PlacesOK, HandIds

LEMMA StaysOnce ==
    ASSUME DataOK, TodoOK, PlacesOK, StaysPut
    PROVE  TodoOK' /\ PlacesOK' /\ Len(Todo') = Len(Todo) /\ issued' = issued
<1>1. UNCHANGED <<Todo, Callbacks, issued, delivered>>
  BY DEF StaysPut, queue
<1>2. TodoOK'
  BY <1>1 DEF TodoOK
<1>3. PlacesOK'
  BY <1>1, HandStaysPut DEF PlacesOK, Ids
<1>4. QED
  BY <1>1, <1>2, <1>3

LEMMA IssuesOnce ==
    ASSUME DataOK, TodoOK, PlacesOK, Issues
    PROVE  TodoOK' /\ PlacesOK' /\ Len(Todo') - issued' = Len(Todo) - issued
<1>1. PICK type \in Types : Push(type)
  BY DEF Issues
<1> DEFINE e == [id |-> issued + 1, type |-> type, res |-> "none"]
<1>2. Todo' = Append(Todo, e) /\ issued' = issued + 1 /\ e.id = issued + 1
  BY <1>1 DEF Push
<1>3. Todo \in Seq(SockEvent) /\ issued \in Nat /\ Len(Todo) \in Nat /\ e \in SockEvent
  BY LenProperties DEF DataOK, QueueTypes, SockEvent, Results
<1> HIDE DEF e
<1>4. /\ Len(Todo') = Len(Todo) + 1 /\ Todo'[Len(Todo) + 1] = e
      /\ \A i \in 1..Len(Todo) : Todo'[i] = Todo[i]
  BY <1>2, <1>3, AppendProperties
<1>5. issued' - Len(Todo') = issued - Len(Todo)
  BY <1>2, <1>3, <1>4
<1>6. ASSUME NEW i \in 1..Len(Todo') PROVE Todo'[i].id = issued' - Len(Todo') + i
  <2>1. CASE i \in 1..Len(Todo)
    BY <1>4, <1>5, <2>1 DEF TodoOK
  <2>2. CASE i = Len(Todo) + 1
    BY <1>2, <1>3, <1>4, <1>5, <2>2
  <2>3. QED
    BY <1>3, <1>4, <2>1, <2>2
<1>7. TodoOK'
  BY <1>6 DEF TodoOK
<1>8. UNCHANGED <<cur, Callbacks, delivered>>
  BY DEF Issues
<1>9. Held' = Held /\ HandIds' = HandIds
  BY <1>8 DEF HandIds, Held
<1>10. PlacesOK'
  BY <1>5, <1>8, <1>9 DEF PlacesOK, Ids
<1>11. QED
  BY <1>2, <1>3, <1>4, <1>7, <1>10

LEMMA TakesOnce ==
    ASSUME DataOK, TodoOK, PlacesOK, Len(Todo) <= issued,
           NEW w \in Workers, Takes(w)
    PROVE  TodoOK' /\ PlacesOK' /\ Len(Todo') < Len(Todo) /\ issued' = issued
<1>1. /\ Todo \in Seq(SockEvent) /\ Todo # <<>> /\ issued \in Nat
      /\ Todo' = Tail(Todo) /\ UNCHANGED <<Callbacks, issued, delivered>>
  BY DEF DataOK, QueueTypes, Takes
<1>2. Len(Todo) \in Nat /\ Len(Todo) >= 1
  BY <1>1, LenProperties, EmptySeq
<1>3. /\ Len(Todo') = Len(Todo) - 1 /\ Head(Todo) = Todo[1]
      /\ \A i \in 1..Len(Todo') : Todo'[i] = Todo[i + 1]
  BY <1>1, <1>2, HeadTailProperties
<1>4. TodoOK'
  <2>1. SUFFICES ASSUME NEW i \in 1..Len(Todo')
                 PROVE  Todo'[i].id = issued' - Len(Todo') + i
    BY DEF TodoOK
  <2>2. i + 1 \in 1..Len(Todo)
    BY <1>2, <1>3
  <2>3. Todo[i + 1].id = issued - Len(Todo) + (i + 1)
    BY <2>2 DEF TodoOK
  <2>4. QED
    BY <1>1, <1>2, <1>3, <2>3
<1> DEFINE n == issued - Len(Todo)
<1>5. n \in Nat /\ issued' - Len(Todo') = n + 1
  BY <1>1, <1>2, <1>3
<1>6. Head(Todo).id = n + 1
  <2>1. 1 \in 1..Len(Todo)
    BY <1>2
  <2>2. QED
    BY <1>3, <2>1 DEF TodoOK
<1>7. HandIds \union Ids(Callbacks) \union delivered = 1..n
  BY DEF PlacesOK
<1> HIDE DEF n
<1>8. 1..(n + 1) = 1..n \union {n + 1} /\ n + 1 \notin 1..n
  BY <1>5
<1>9. /\ Held' = Held \union {w} /\ w \notin Held
      /\ \A v \in Held : cur'[v] = cur[v]
      /\ cur'[w].id = n + 1 /\ HandIds' = HandIds \union {n + 1}
  BY <1>6, HandTakes
<1>10. Ids(Callbacks)' = Ids(Callbacks) /\ delivered' = delivered
  BY <1>1 DEF Ids
<1>11. ASSUME NEW u \in Held', NEW v \in Held', cur'[u].id = cur'[v].id
       PROVE  u = v
  <2>1. \A x \in Held : cur'[x].id \in HandIds /\ cur'[x].id # n + 1
    BY <1>7, <1>8, <1>9 DEF HandIds
  <2>2. CASE u \in Held /\ v \in Held
    BY <1>9, <1>11, <2>2 DEF PlacesOK
  <2>3. QED
    BY <1>9, <1>11, <2>1, <2>2
<1>12. /\ HandIds' \intersect Ids(Callbacks)' = {}
       /\ (HandIds' \union Ids(Callbacks)') \intersect delivered' = {}
       /\ HandIds' \union Ids(Callbacks)' \union delivered' = 1..(n + 1)
  BY <1>7, <1>8, <1>9, <1>10 DEF PlacesOK
<1>13. PlacesOK'
  BY <1>1, <1>5, <1>11, <1>12 DEF PlacesOK
<1>14. QED
  BY <1>1, <1>2, <1>3, <1>4, <1>13

LEMMA PostsOnce ==
    ASSUME DataOK, TodoOK, PlacesOK, NEW w \in Workers, Posts(w)
    PROVE  TodoOK' /\ PlacesOK' /\ Todo' = Todo /\ issued' = issued
<1>1. /\ Callbacks' = Append(Callbacks, cur[w]) /\ Callbacks \in Seq(SockEvent)
      /\ UNCHANGED <<Todo, issued, delivered>>
  BY DEF Posts, DataOK, QueueTypes
<1>2. cur[w] \in SockEvent
  BY DEF Posts, DataOK
<1>3. /\ Held' = Held \ {w} /\ w \in Held
      /\ \A v \in Held' : cur'[v] = cur[v]
      /\ HandIds' = HandIds \ {cur[w].id}
  BY HandPosts DEF PlacesOK
<1>4. Ids(Callbacks') = Ids(Callbacks) \union {cur[w].id}
  BY <1>1, <1>2, IdsAppend
<1>5. cur[w].id \in HandIds /\ cur[w].id \notin Ids(Callbacks)
  BY <1>3 DEF HandIds, PlacesOK
<1>6. /\ Len(Callbacks) \in Nat /\ Len(Callbacks') = Len(Callbacks) + 1
      /\ Callbacks'[Len(Callbacks) + 1] = cur[w]
      /\ \A i \in 1..Len(Callbacks) : Callbacks'[i] = Callbacks[i]
  BY <1>1, <1>2, LenProperties, AppendProperties
<1>7. ASSUME NEW i \in 1..Len(Callbacks'), NEW j \in 1..Len(Callbacks'),
             Callbacks'[i].id = Callbacks'[j].id
      PROVE  i = j
  <2>1. \A k \in 1..Len(Callbacks) : Callbacks'[k].id # cur[w].id
    BY <1>5, <1>6 DEF Ids
  <2>2. \A k \in 1..Len(Callbacks') :
           k \in 1..Len(Callbacks) \/ k = Len(Callbacks) + 1
    BY <1>6
  <2>3. CASE i \in 1..Len(Callbacks) /\ j \in 1..Len(Callbacks)
    BY <1>6, <1>7, <2>3 DEF PlacesOK
  <2>4. QED
    BY <1>6, <1>7, <2>1, <2>2, <2>3
<1>8. \A u, v \in Held' : cur'[u].id = cur'[v].id => u = v
  BY <1>3 DEF PlacesOK
<1>9. /\ HandIds' \intersect Ids(Callbacks') = {}
      /\ (HandIds' \union Ids(Callbacks')) \intersect delivered' = {}
      /\ HandIds' \union Ids(Callbacks') \union delivered'
            = 1..(issued' - Len(Todo'))
  BY <1>1, <1>3, <1>4, <1>5 DEF PlacesOK
<1>10. PlacesOK'
  BY <1>7, <1>8, <1>9 DEF PlacesOK, Ids
<1>11. TodoOK'
  BY <1>1 DEF TodoOK
<1>12. QED
  BY <1>1, <1>10, <1>11

LEMMA DeliversOnce ==
    ASSUME DataOK, TodoOK, PlacesOK, Delivers
    PROVE  TodoOK' /\ PlacesOK' /\ Todo' = Todo /\ issued' = issued
<1>1. /\ Callbacks' = Tail(Callbacks) /\ Callbacks \in Seq(SockEvent)
      /\ Callbacks # <<>> /\ UNCHANGED <<Todo, issued, cur>>
      /\ delivered' = delivered \union {Head(Callbacks).id}
  BY DEF Delivers, DataOK, QueueTypes
<1>2. /\ Ids(Callbacks) = {Head(Callbacks).id} \union Ids(Callbacks')
      /\ Head(Callbacks).id \notin Ids(Callbacks')
      /\ \A i, j \in 1..Len(Callbacks') :
            Callbacks'[i].id = Callbacks'[j].id => i = j
  BY <1>1, IdsTail DEF PlacesOK
<1>3. Held' = Held /\ HandIds' = HandIds
  BY <1>1 DEF HandIds, Held
<1>4. /\ HandIds' \intersect Ids(Callbacks') = {}
      /\ (HandIds' \union Ids(Callbacks')) \intersect delivered' = {}
      /\ HandIds' \union Ids(Callbacks') \union delivered'
            = 1..(issued' - Len(Todo'))
  BY <1>1, <1>2, <1>3 DEF PlacesOK
<1>5. PlacesOK'
  BY <1>1, <1>2, <1>3, <1>4 DEF PlacesOK, Ids
<1>6. TodoOK'
  BY <1>1 DEF TodoOK
<1>7. QED
  BY <1>1, <1>5, <1>6

LEMMA OnceInit == Init => OnceInv
<1> SUFFICES ASSUME Init PROVE EventOnce /\ Len(Todo) <= issued
  BY TypeInit DEF OnceInv
<1>1. Todo = <<>> /\ Callbacks = <<>> /\ issued = 0 /\ delivered = {}
  BY DEF Init
<1>2. Len(<<>>) = 0
  BY EmptySeq
<1>3. Held = {}
  BY DEF Init, Held
<1>4. HandIds = {} /\ Ids(Callbacks) = {}
  BY <1>1, <1>2, <1>3 DEF HandIds, Ids
<1>5. TodoOK
  BY <1>1, <1>2 DEF TodoOK
<1>6. PlacesOK
  BY <1>1, <1>2, <1>3, <1>4 DEF PlacesOK
<1>7. QED
  BY <1>1, <1>2, <1>5, <1>6, OnceParts

LEMMA OnceStep == OnceInv /\ [Next]_vars => OnceInv'
<1> SUFFICES ASSUME OnceInv, [Next]_vars PROVE OnceInv'
  OBVIOUS
<1>1. TypeInv /\ DataOK /\ HandOK /\ TodoOK /\ PlacesOK /\ Len(Todo) <= issued
  BY OnceParts DEF OnceInv, TypeInv
<1>2. TypeInv'
  BY <1>1, TypeStep
<1>3. QueueStep
  BY <1>1, NextQueue
<1>4. Len(Todo) \in Nat /\ issued \in Nat
  BY <1>1, LenProperties DEF DataOK, QueueTypes
<1>5. Len(Todo') \in Nat /\ issued' \in Nat
  BY <1>2, LenProperties DEF TypeInv, DataOK, QueueTypes
<1>6. TodoOK' /\ PlacesOK' /\ Len(Todo') <= issued'
  <2>1. CASE StaysPut \/ Issues \/ Delivers
    BY <1>1, <1>4, <1>5, <2>1, StaysOnce, IssuesOnce, DeliversOnce
  <2>2. ASSUME NEW w \in Workers, Takes(w) \/ Posts(w)
        PROVE  TodoOK' /\ PlacesOK' /\ Len(Todo') <= issued'
    BY <1>1, <1>4, <1>5, <2>2, TakesOnce, PostsOnce
  <2>3. QED
    BY <1>3, <2>1, <2>2 DEF QueueStep
<1>7. EventOnce'
  BY <1>6 DEF EventOnce, TodoOK, PlacesOK, HandIds
<1>8. QED
  BY <1>2, <1>6, <1>7 DEF OnceInv

LEMMA OnceAlways == Spec => []OnceInv
BY OnceInit, OnceStep, PTL DEF Spec

\* Every request is at one place at any time, wherever the workers are stopped.
THEOREM EventInvariant == Spec => []EventOnce
<1>1. OnceInv => EventOnce
  BY DEF OnceInv
<1>2. QED
  BY <1>1, OnceAlways, PTL

-----------------------------------------------------------------------------
(* The refinement of RequestQueue.                                          *)

\* The ids of a list of events, as the refinement mapping has them.
IdList(s) == [i \in 1..Len(s) |-> s[i].id]

LEMMA IdListType ==
    ASSUME NEW s \in Seq(SockEvent)
    PROVE  IdList(s) \in Seq(Nat) /\ Len(IdList(s)) = Len(s)
<1> DEFINE a == IdList(s)
<1>1. Len(s) \in Nat
  BY LenProperties
<1>2. \A i \in 1..Len(s) : s[i].id \in Nat
  <2>1. \A i \in 1..Len(s) : s[i] \in SockEvent
    BY ElementOfSeq
  <2>2. QED
    BY <2>1 DEF SockEvent
<1>3. a \in [1..Len(s) -> Nat]
  BY <1>2 DEF IdList
<1> HIDE DEF a
<1>4. a \in Seq(Nat)
  BY <1>1, <1>3
<1>5. Len(a) = Len(s)
  BY <1>1, <1>3, <1>4, LenProperties
<1>6. QED
  BY <1>4, <1>5 DEF a

LEMMA IdListAppend ==
    ASSUME NEW s \in Seq(SockEvent), NEW e \in SockEvent
    PROVE  IdList(Append(s, e)) = Append(IdList(s), e.id)
<1> DEFINE t == Append(s, e)
           a == Append(IdList(s), e.id)
<1>1. Len(s) \in Nat
  BY LenProperties
<1>2. /\ Len(t) = Len(s) + 1 /\ t[Len(s) + 1] = e
      /\ \A i \in 1..Len(s) : t[i] = s[i]
  BY AppendProperties
<1>3. IdList(s) \in Seq(Nat) /\ Len(IdList(s)) = Len(s) /\ e.id \in Nat
  BY IdListType DEF SockEvent
<1>4. /\ a \in Seq(Nat) /\ Len(a) = Len(s) + 1 /\ a[Len(s) + 1] = e.id
      /\ \A i \in 1..Len(s) : a[i] = IdList(s)[i]
  BY <1>3, AppendProperties
<1>5. a = [i \in 1..(Len(s) + 1) |-> a[i]]
  BY <1>1, <1>4
<1> HIDE DEF t, a
<1>6. ASSUME NEW i \in 1..(Len(s) + 1) PROVE t[i].id = a[i]
  <2>1. CASE i \in 1..Len(s)
    BY <1>2, <1>4, <2>1 DEF IdList
  <2>2. CASE i = Len(s) + 1
    BY <1>2, <1>4, <2>2
  <2>3. QED
    BY <1>1, <2>1, <2>2
<1>7. IdList(t) = a
  BY <1>2, <1>5, <1>6 DEF IdList
<1>8. QED
  BY <1>7 DEF t, a

LEMMA IdListTail ==
    ASSUME NEW s \in Seq(SockEvent), s # <<>>
    PROVE  /\ IdList(s) # <<>> /\ Head(IdList(s)) = Head(s).id
           /\ IdList(Tail(s)) = Tail(IdList(s))
<1> DEFINE t == Tail(s)
           a == IdList(s)
           b == Tail(a)
<1>1. Len(s) \in Nat /\ Len(s) >= 1
  BY LenProperties, EmptySeq
<1>2. a \in Seq(Nat) /\ Len(a) = Len(s)
  BY IdListType
<1>3. a # <<>> /\ Head(a) = a[1] /\ a[1] = s[1].id /\ Head(s) = s[1]
  <2>1. 1 \in 1..Len(s)
    BY <1>1
  <2>2. a[1] = s[1].id
    BY <2>1 DEF IdList
  <2> HIDE DEF a
  <2>3. a # <<>>
    BY <1>1, <1>2, EmptySeq
  <2>4. QED
    BY <1>1, <1>2, <2>2, <2>3, HeadTailProperties
<1>4. /\ Len(t) = Len(s) - 1 /\ \A i \in 1..(Len(s) - 1) : t[i] = s[i + 1]
  BY <1>1, HeadTailProperties
<1>5. \A i \in 1..Len(s) : a[i] = s[i].id
  BY DEF IdList
<1> HIDE DEF a
<1>6. /\ b \in Seq(Nat) /\ Len(b) = Len(s) - 1
      /\ \A i \in 1..(Len(s) - 1) : b[i] = a[i + 1]
  BY <1>1, <1>2, <1>3, HeadTailProperties
<1> HIDE DEF b, t
<1>7. b = [i \in 1..(Len(s) - 1) |-> b[i]]
  BY <1>1, <1>6
<1>8. ASSUME NEW i \in 1..(Len(s) - 1) PROVE t[i].id = b[i]
  <2>1. i + 1 \in 1..Len(s)
    BY <1>1
  <2>2. QED
    BY <1>4, <1>5, <1>6, <2>1
<1>9. IdList(t) = b
  BY <1>4, <1>7, <1>8 DEF IdList
<1>10. QED
  BY <1>3, <1>9 DEF t, a, b

LEMMA ImplementsInit == Init => RQ!Init
<1> SUFFICES ASSUME Init PROVE RQ!Init
  OBVIOUS
<1>1. Todo = <<>> /\ Callbacks = <<>> /\ issued = 0 /\ delivered = {}
  BY DEF Init
<1>2. Held = {}
  BY DEF Init, Held
<1>3. [i \in 1..0 |-> <<>>[i].id] = <<>>
  OBVIOUS
<1>4. QED
  BY <1>1, <1>2, <1>3, EmptySeq DEF RQ!Init

LEMMA ImplementsStep == OnceInv /\ [Next]_vars => [RQ!Next]_(RQ!qvars)
<1> SUFFICES ASSUME OnceInv, [Next]_vars PROVE RQ!Next \/ UNCHANGED RQ!qvars
  OBVIOUS
<1>1. DataOK /\ HandOK /\ PlacesOK
  BY OnceParts DEF OnceInv, TypeInv
<1>2. QueueStep
  BY <1>1, NextQueue
<1>3. Todo \in Seq(SockEvent) /\ Callbacks \in Seq(SockEvent) /\ issued \in Nat
  BY <1>1 DEF DataOK, QueueTypes
<1>4. CASE StaysPut
  <2>1. UNCHANGED <<Todo, Callbacks, issued, delivered, HandIds>>
    BY <1>4, HandStaysPut DEF StaysPut, queue
  <2>2. QED
    BY <2>1 DEF RQ!qvars, HandIds
<1>5. CASE Issues
  <2>1. PICK type \in Types : Push(type)
    BY <1>5 DEF Issues
  <2>2. /\ issued' = issued + 1
        /\ IdList(Todo') = Append(IdList(Todo), issued + 1)
    <3> DEFINE e == [id |-> issued + 1, type |-> type, res |-> "none"]
    <3>1. Todo' = Append(Todo, e) /\ issued' = issued + 1
      BY <2>1 DEF Push
    <3>2. e \in SockEvent /\ e.id = issued + 1
      BY <1>3 DEF SockEvent, Results
    <3> HIDE DEF e
    <3>3. QED
      BY <1>3, <3>1, <3>2, IdListAppend
  <2>3. UNCHANGED <<Callbacks, delivered, HandIds>>
    BY <1>5 DEF Issues, HandIds, Held
  <2>4. RQ!Issue
    BY <2>2, <2>3 DEF RQ!Issue, IdList, HandIds
  <2>5. QED
    BY <2>4 DEF RQ!Next
<1>6. ASSUME NEW w \in Workers, Takes(w)
      PROVE  RQ!Next
  <2>1. /\ Todo # <<>> /\ Todo' = Tail(Todo)
        /\ UNCHANGED <<Callbacks, issued, delivered>>
    BY <1>6 DEF Takes
  <2>2. HandIds' = HandIds \union {Head(Todo).id}
    BY <1>1, <1>6, HandTakes
  <2>3. /\ IdList(Todo) # <<>> /\ Head(IdList(Todo)) = Head(Todo).id
        /\ IdList(Todo') = Tail(IdList(Todo))
    BY <1>3, <2>1, IdListTail
  <2>4. RQ!Dispatch
    BY <2>1, <2>2, <2>3 DEF RQ!Dispatch, IdList, HandIds
  <2>5. QED
    BY <2>4 DEF RQ!Next
<1>7. ASSUME NEW w \in Workers, Posts(w)
      PROVE  RQ!Next
  <2>1. /\ Callbacks' = Append(Callbacks, cur[w])
        /\ UNCHANGED <<Todo, issued, delivered>>
    BY <1>7 DEF Posts
  <2>2. w \in Held /\ HandIds' = HandIds \ {cur[w].id}
    BY <1>1, <1>7, HandPosts DEF PlacesOK
  <2>3. cur[w] \in SockEvent
    BY <1>1, <1>7 DEF Posts, DataOK
  <2>4. IdList(Callbacks') = Append(IdList(Callbacks), cur[w].id)
    BY <1>3, <2>1, <2>3, IdListAppend
  <2>5. \E id \in HandIds : RQ!Finish(id)
    <3>1. cur[w].id \in HandIds
      BY <2>2 DEF HandIds
    <3>2. PICK id : id = cur[w].id
      OBVIOUS
    <3>3. RQ!Finish(id)
      BY <2>1, <2>2, <2>4, <3>1, <3>2 DEF RQ!Finish, IdList, HandIds
    <3>4. QED
      BY <3>1, <3>2, <3>3
  <2>6. QED
    BY <2>5 DEF RQ!Next, HandIds
<1>8. CASE Delivers
  <2>1. /\ Callbacks # <<>> /\ Callbacks' = Tail(Callbacks)
        /\ delivered' = delivered \union {Head(Callbacks).id}
        /\ UNCHANGED <<Todo, issued>> /\ cur' = cur
    BY <1>8 DEF Delivers
  <2>2. HandIds' = HandIds
    BY <2>1 DEF HandIds, Held
  <2>3. /\ IdList(Callbacks) # <<>>
        /\ Head(IdList(Callbacks)) = Head(Callbacks).id
        /\ IdList(Callbacks') = Tail(IdList(Callbacks))
    BY <1>3, <2>1, IdListTail
  <2>4. RQ!Deliver
    BY <2>1, <2>2, <2>3 DEF RQ!Deliver, IdList, HandIds
  <2>5. QED
    BY <2>4 DEF RQ!Next
<1>9. QED
  BY <1>2, <1>4, <1>5, <1>6, <1>7, <1>8 DEF QueueStep

\* The queues, with their threads, locks, stops and errors, implement those of
\* RequestQueue: first in first out on both sides, and each result once.
THEOREM QueueRefinement == Spec => ImplementsRequestQueue
<1>1. Spec => RQ!Spec
  BY ImplementsInit, ImplementsStep, OnceAlways, PTL DEF Spec, RQ!Spec
<1>2. QED
  BY <1>1 DEF ImplementsRequestQueue

-----------------------------------------------------------------------------
(* The order to stop.                                                       *)

FlagLabels == {"wait", "lower", "spawn"}
Stopper == \E u \in Threads : pc[u] = "wait"

\* The mutex is held over a step only by a thread in CreateWorkers, and what it
\* will restore is an order of a thread that still waits: that thread cannot see
\* the count while the mutex is held.
FlagInv ==
    /\ KillInv
    /\ \A t \in Threads : pc[t] = "spawn" <=> mutex = t
    /\ orphans = {} =>
          /\ DestoryWorkers => \E u \in Threads : pc[u] \in {"wait", "lower"}
          /\ mutex # Nobody /\ old => Stopper

\* A step that has nothing to do with the order to stop.
FlagStill ==
    /\ UNCHANGED <<mutex, DestoryWorkers, old>>
    /\ orphans \subseteq orphans'
    /\ \A u \in Threads :
          pc[u] \in FlagLabels \/ pc'[u] \in FlagLabels => pc'[u] = pc[u]

LEMMA MoveStill ==
    ASSUME NEW t \in Threads, Quiet(t), UNCHANGED <<mutex, DestoryWorkers, old>>,
           pc[t] \notin FlagLabels, pc'[t] \notin FlagLabels
    PROVE  FlagStill
<1>1. \A u \in Threads \ {t} :
         pc'[u] = pc[u] \/ (pc[u] = "unborn" /\ pc'[u] = "new")
  BY DEF Quiet, LuaMove, Unborn
<1>2. orphans \subseteq orphans'
  BY DEF Quiet
<1>3. QED
  BY <1>1, <1>2 DEF FlagStill, FlagLabels

LEMMA WorkerStill ==
    ASSUME ControlOK, NEW w \in Workers, Worker(w)
    PROVE  FlagStill
<1>1. UNCHANGED <<mutex, DestoryWorkers, old, orphans>>
  BY DEF Worker, WorkerStart, WorkerTop, WorkerTake, WorkerLoad, WorkerIO,
         WorkerPost, WorkerExit, pool
<1>2. pc[w] \notin FlagLabels
  BY DEF Worker, WorkerStart, WorkerTop, WorkerTake, WorkerLoad, WorkerIO,
         WorkerPost, WorkerExit, FlagLabels
<1>3. \E label \in WorkerLabels \union {"think"} : pc' = [pc EXCEPT ![w] = label]
  BY DEF Worker, WorkerStart, WorkerTop, WorkerTake, WorkerLoad, WorkerIO,
         WorkerPost, WorkerExit, Go, Call, WorkerLabels
<1>4. PICK label \in WorkerLabels \union {"think"} :
         pc' = [pc EXCEPT ![w] = label]
  BY <1>3
<1>5. /\ label \notin FlagLabels /\ pc'[w] = label
      /\ \A u \in Threads \ {w} : pc'[u] = pc[u]
  BY <1>4 DEF ControlOK, WorkerLabels, FlagLabels, Threads
<1>6. QED
  BY <1>1, <1>2, <1>5 DEF FlagStill

LEMMA CallsStill ==
    ASSUME ControlOK, NEW t \in Threads, LuaCall(t)
    PROVE  FlagStill
<1>1. Quiet(t) /\ pc[t] = "lua"
  BY CallsQuiet
     DEF LuaCall, LuaCreate, LuaConnect, LuaListen, LuaSend, LuaReceive,
         LuaAccept, LuaRequest, LuaBlocking, LuaAcceptFails, LuaSendTo,
         LuaReceiveFrom, LuaAddWorker, LuaClose, Script
<1>2. CASE LuaAddWorker(t)
  <2>1. PICK w \in Unborn : pc' = [pc EXCEPT ![w] = "new"]
    BY <1>2 DEF LuaAddWorker
  <2>2. pc'[t] = "lua"
    BY <1>1, <2>1 DEF Unborn, ControlOK
  <2>3. UNCHANGED <<mutex, DestoryWorkers, old>>
    BY <1>2 DEF LuaAddWorker
  <2>4. QED
    BY <1>1, <2>2, <2>3, MoveStill DEF FlagLabels
<1>3. CASE ~LuaAddWorker(t)
  <2>1. UNCHANGED <<mutex, DestoryWorkers, old>>
    BY <1>3
       DEF LuaCall, LuaCreate, LuaConnect, LuaListen, LuaSend, LuaReceive,
           LuaAccept, LuaRequest, LuaBlocking, LuaAcceptFails, LuaSendTo,
           LuaReceiveFrom, LuaClose, pool
  <2>2. pc' = [pc EXCEPT ![t] = "lua"] \/ pc' # pc
    BY <1>1 DEF ControlOK
  <2>3. \E label \in {"lua", "create", "think", "kill"} :
           pc' = [pc EXCEPT ![t] = label]
    BY <1>1, <1>3, <2>2
       DEF LuaCall, LuaCreate, LuaConnect, LuaListen, LuaSend, LuaReceive,
           LuaAccept, LuaRequest, LuaBlocking, LuaAcceptFails, LuaSendTo,
           LuaReceiveFrom, LuaClose, CallDisconnect, EnsureWorkers, Call, thread
  <2>4. pc'[t] \in {"lua", "create", "think", "kill"}
    BY <2>3 DEF ControlOK
  <2>5. QED
    BY <1>1, <2>1, <2>4, MoveStill DEF FlagLabels
<1>4. QED
  BY <1>2, <1>3

LEMMA OtherStill ==
    ASSUME ControlOK, NEW t \in Threads,
           \/ LuaReturn(t)
           \/ Unwind(t)
           \/ t = LuaThread /\ (Tick \/ ShutDown)
    PROVE  FlagStill
<1>1. Quiet(t) /\ pc[t] \in {"lua", "throw"}
  BY OtherQuiet DEF LuaReturn, Unwind, Tick, ShutDown, Script
<1>2. UNCHANGED <<mutex, DestoryWorkers, old>>
  BY DEF LuaReturn, Unwind, Tick, ShutDown, pool
<1>3. CASE LuaReturn(t)
  <2>1. pc'[t] \in Frames
    BY <1>3, ReturnFrame DEF LuaReturn, LuaLabels
  <2>2. QED
    BY <1>1, <1>2, <2>1, MoveStill DEF Frames, FlagLabels
<1>4. CASE ~LuaReturn(t)
  <2>1. \E label \in {"lua", "panic", "think", "kill"} :
           pc' = [pc EXCEPT ![t] = label]
    BY <1>4 DEF Unwind, Tick, ShutDown, CallDisconnect, Call, Go
  <2>2. pc'[t] \in {"lua", "panic", "think", "kill"}
    BY <2>1 DEF ControlOK
  <2>3. QED
    BY <1>1, <1>2, <2>2, MoveStill DEF FlagLabels
<1>5. QED
  BY <1>3, <1>4

LEMMA InsideStill ==
    ASSUME ControlOK, NEW t \in Threads, LuaInside(t)
    PROVE  \/ FlagStill \/ CreateBegin(t) \/ CreateEnd(t)
           \/ KillRaise(t) \/ KillWait(t) \/ KillLower(t)
<1>1. ASSUME NEW label, Go(t, label), label \notin FlagLabels,
             pc[t] \notin FlagLabels, UNCHANGED <<mutex, pool>>
      PROVE  FlagStill
  BY <1>1 DEF Go, FlagStill, ControlOK, pool
<1>2. ASSUME Return(t), pc[t] \in LuaLabels \ (FlagLabels \union {"lua"}),
             UNCHANGED <<mutex, pool>>
      PROVE  FlagStill
  <2>1. pc'[t] \in Frames
    BY <1>2, ReturnFrame
  <2>2. \A u \in Threads \ {t} : pc'[u] = pc[u]
    BY <1>2 DEF Return, ControlOK
  <2>3. Frames \intersect FlagLabels = {}
    BY DEF Frames, FlagLabels
  <2>4. QED
    BY <1>2, <2>1, <2>2, <2>3 DEF FlagStill, pool
<1>3. CASE LuaConnectRest(t)
  BY <1>2, <1>3 DEF LuaConnectRest, Push, LuaLabels, FlagLabels
<1>4. CASE KillClose(t) \/ ResetDrop(t) \/ ShutDownThink(t)
  BY <1>1, <1>4 DEF KillClose, ResetDrop, ShutDownThink, FlagLabels
<1>5. CASE ResetRenew(t) \/ ThinkDone(t)
  BY <1>2, <1>5 DEF ResetRenew, ThinkDone, LuaLabels, FlagLabels
<1>6. CASE ThinkDeliver(t)
  <2>1. pc[t] = "think" /\ Handle(t, Head(Callbacks)) /\ UNCHANGED <<mutex, pool>>
    BY <1>6 DEF ThinkDeliver
  <2>2. \E label \in {"lua", "think", "throw"} : pc' = [pc EXCEPT ![t] = label]
    BY <2>1 DEF Handle, Callback, CallDisconnect, Call, ControlOK
  <2>3. PICK label \in {"lua", "think", "throw"} : pc' = [pc EXCEPT ![t] = label]
    BY <2>2
  <2>4. QED
    BY <2>1, <2>3 DEF FlagStill, FlagLabels, ControlOK, pool
<1>7. QED
  BY <1>3, <1>4, <1>5, <1>6 DEF LuaInside

LEMMA StillKeeps ==
    ASSUME FlagInv, KillInv', FlagStill
    PROVE  FlagInv'
<1>1. orphans' = {} => orphans = {}
  BY DEF FlagStill
<1>2. \A u \in Threads :
         /\ pc[u] \in {"wait", "lower"} => pc'[u] = pc[u]
         /\ pc[u] = "spawn" <=> pc'[u] = "spawn"
  BY DEF FlagStill, FlagLabels
<1>3. UNCHANGED <<mutex, DestoryWorkers, old>>
  BY DEF FlagStill
<1>4. Stopper => Stopper'
  BY <1>2 DEF Stopper
<1>5. \A t \in Threads : pc'[t] = "spawn" <=> mutex' = t
  BY <1>2, <1>3 DEF FlagInv
<1>6. orphans' = {} => (mutex' # Nobody /\ old' => Stopper')
  BY <1>1, <1>3, <1>4 DEF FlagInv
<1>7. orphans' = {} /\ DestoryWorkers' => \E u \in Threads : pc'[u] \in {"wait", "lower"}
  BY <1>1, <1>2, <1>3 DEF FlagInv
<1>8. QED
  BY <1>5, <1>6, <1>7 DEF FlagInv

\* CreateWorkers saves no order that KillWorkers is about to take back.
LEMMA CreateBeginFlag ==
    ASSUME FlagInv, KillInv', NEW t \in Threads, CreateBegin(t)
    PROVE  FlagInv'
<1>1. /\ pc[t] = "create" /\ mutex = Nobody /\ mutex' = t
      /\ old' = DestoryWorkers /\ DestoryWorkers' = FALSE
      /\ pc' = [pc EXCEPT ![t] = "spawn"] /\ orphans' = orphans
  BY DEF CreateBegin, Go
<1>2. pc'[t] = "spawn" /\ \A u \in Threads \ {t} : pc'[u] = pc[u]
  BY <1>1 DEF FlagInv, KillInv, TypeInv, ControlOK
<1>3. \A u \in Threads : u # Nobody
  BY WorkersAssumption DEF Threads
<1>4. \A u \in Threads : pc'[u] = "spawn" <=> mutex' = u
  BY <1>1, <1>2, <1>3 DEF FlagInv
<1>5. ASSUME orphans = {}, DestoryWorkers
      PROVE  Stopper'
  <2>1. PICK u \in Threads : pc[u] \in {"wait", "lower"}
    BY <1>5 DEF FlagInv
  <2>2. CASE pc[u] = "wait"
    BY <1>1, <1>2, <2>1, <2>2 DEF Stopper
  <2>3. CASE pc[u] = "lower"
    <3>1. u = LuaThread
      BY <2>3 DEF FlagInv, KillInv, OnlyLuaThreadResets, Threads
    <3>2. Counted = {}
      BY <1>5, <2>3, <3>1 DEF FlagInv, KillInv, ResetAlone, Resetting
    <3>3. t \in Workers
      BY <1>1, <2>3, <3>1 DEF Threads
    <3>4. t \in Counted
      BY <1>1, <3>3, ScriptsCounted DEF LuaLabels
    <3>5. QED
      BY <3>2, <3>4
  <2>4. QED
    BY <2>1, <2>2, <2>3
<1>6. QED
  BY <1>1, <1>4, <1>5 DEF FlagInv

LEMMA CreateEndFlag ==
    ASSUME FlagInv, KillInv', NEW t \in Threads, CreateEnd(t)
    PROVE  FlagInv'
<1>1. /\ pc[t] = "spawn" /\ DestoryWorkers' = old /\ mutex' = Nobody
      /\ old' = old
  BY DEF CreateEnd
<1>2. Quiet(t) /\ pc'[t] \in LuaLabels \union {"post"}
  BY InsideQuiet DEF FlagInv, KillInv, TypeInv, LuaInside, CreateEnd,
                     KillWait, KillLower, ResetDrop, ResetRenew, Quiet, LuaMove
<1>3. /\ orphans \subseteq orphans'
      /\ \A u \in Threads \ {t} :
            pc'[u] = pc[u] \/ (pc[u] = "unborn" /\ pc'[u] = "new")
  BY <1>2 DEF Quiet, LuaMove, Unborn
<1>4. pc'[t] # "spawn"
  <2>1. PICK ws \in SUBSET Unborn : Spawn(t, ws)
    BY DEF CreateEnd
  <2>2. /\ stack[t] \in Seq(Frames) /\ ThreadOK(t, pc[t], stack[t])
    BY DEF FlagInv, KillInv, TypeInv, ControlOK, StackOK
  <2>3. stack[t] # <<>>
    BY <1>1, <2>2 DEF ThreadOK, WorkerLabels
  <2>4. Head(stack[t]) \in Frames
    BY <2>2, <2>3
  <2>5. t \notin ws
    BY <1>1 DEF Unborn
  <2>6. pc'[t] = Head(stack[t])
    BY <2>1, <2>5 DEF Spawn
  <2>7. QED
    BY <2>4, <2>6 DEF Frames
<1>5. mutex = t /\ t # Nobody
  BY <1>1, WorkersAssumption DEF FlagInv, Threads
<1>6. \A u \in Threads : pc'[u] # "spawn" /\ mutex' # u
  BY <1>1, <1>3, <1>4, <1>5, WorkersAssumption DEF FlagInv, Threads
<1>7. ASSUME orphans' = {}, old
      PROVE  \E u \in Threads : pc'[u] \in {"wait", "lower"}
  <2>1. PICK u \in Threads : pc[u] = "wait"
    BY <1>3, <1>5, <1>7 DEF FlagInv, Stopper
  <2>2. pc'[u] = "wait"
    BY <1>1, <1>3, <2>1
  <2>3. QED
    BY <2>2
<1>8. QED
  BY <1>1, <1>6, <1>7 DEF FlagInv

LEMMA KillFlag ==
    ASSUME FlagInv, KillInv', NEW t \in Threads,
           KillRaise(t) \/ KillWait(t) \/ KillLower(t)
    PROVE  FlagInv'
<1>1. pc \in [Threads -> WorkerLabels \union LuaLabels]
  BY DEF FlagInv, KillInv, TypeInv, ControlOK
<1>2. mutex' = mutex /\ old' = old /\ orphans \subseteq orphans'
  BY DEF KillRaise, KillWait, KillLower
<1>3. orphans' = {} => orphans = {}
  BY <1>2
<1>4. \A u \in Threads \ {t} : pc'[u] = pc[u]
  BY <1>1 DEF KillRaise, KillWait, KillLower, Go
<1>5. pc[t] # "spawn" /\ pc'[t] # "spawn"
  BY <1>1 DEF KillRaise, KillWait, KillLower, Go
<1>6. \A u \in Threads : pc'[u] = "spawn" <=> mutex' = u
  BY <1>2, <1>4, <1>5 DEF FlagInv
<1>7. CASE KillRaise(t)
  <2>1. pc'[t] = "wait"
    BY <1>1, <1>7 DEF KillRaise, Go
  <2>2. Stopper'
    BY <2>1 DEF Stopper
  <2>3. \E u \in Threads : pc'[u] \in {"wait", "lower"}
    BY <2>1
  <2>4. QED
    BY <1>6, <2>2, <2>3 DEF FlagInv
<1>8. CASE KillWait(t)
  <2>1. pc'[t] = "lower" /\ mutex' = Nobody
    BY <1>1, <1>8 DEF KillWait, Go
  <2>2. \E u \in Threads : pc'[u] \in {"wait", "lower"}
    BY <2>1
  <2>3. QED
    BY <1>6, <2>1, <2>2 DEF FlagInv
<1>9. CASE KillLower(t)
  <2>1. pc[t] = "lower" /\ DestoryWorkers' = FALSE
    BY <1>9 DEF KillLower
  <2>2. Stopper => Stopper'
    BY <1>4, <2>1 DEF Stopper
  <2>3. orphans' = {} => (mutex' # Nobody /\ old' => Stopper')
    BY <1>2, <1>3, <2>2 DEF FlagInv
  <2>4. QED
    BY <1>6, <2>1, <2>3 DEF FlagInv
<1>10. QED
  BY <1>7, <1>8, <1>9

LEMMA FlagInit == Init => FlagInv
<1> SUFFICES ASSUME Init PROVE FlagInv
  OBVIOUS
<1>1. KillInv
  BY KillInit
<1>2. mutex = Nobody /\ ~DestoryWorkers /\ \A t \in Threads : pc[t] # "spawn"
  BY DEF Init
<1>3. QED
  BY <1>1, <1>2, WorkersAssumption DEF FlagInv, Threads

LEMMA FlagStep == FlagInv /\ [Next]_vars => FlagInv'
<1> SUFFICES ASSUME FlagInv, [Next]_vars PROVE FlagInv'
  OBVIOUS
<1>1. ControlOK /\ KillInv'
  BY KillStep DEF FlagInv, KillInv, TypeInv
<1>2. CASE FlagStill
  BY <1>1, <1>2, StillKeeps
<1>3. ASSUME NEW w \in Workers, Worker(w)
      PROVE  FlagInv'
  BY <1>1, <1>2, <1>3, WorkerStill
<1>4. ASSUME NEW t \in Threads, LuaCall(t) \/ LuaReturn(t) \/ Unwind(t)
      PROVE  FlagInv'
  BY <1>1, <1>2, <1>4, CallsStill, OtherStill
<1>5. ASSUME NEW t \in Threads, LuaInside(t)
      PROVE  FlagInv'
  BY <1>1, <1>2, <1>5, InsideStill, CreateBeginFlag, CreateEndFlag, KillFlag
<1>6. CASE Tick \/ ShutDown
  BY <1>1, <1>2, <1>6, OtherStill DEF Threads
<1>7. CASE UNCHANGED vars
  BY <1>2, <1>7 DEF vars, pool, thread, FlagStill
<1>8. QED
  BY <1>3, <1>4, <1>5, <1>6, <1>7 DEF Next

\* The order to stop stands only while some KillWorkers is under way, whatever
\* CreateWorkers saves and restores, until a thread slips past a KillWorkers.
THEOREM FlagInvariant == Spec => []FlagJustified
<1>1. Spec => []FlagInv
  BY FlagInit, FlagStep, PTL DEF Spec
<1>2. FlagInv => FlagJustified
  BY DEF FlagInv, FlagJustified, Stopper
<1>3. QED
  BY <1>1, <1>2, PTL

=============================================================================
