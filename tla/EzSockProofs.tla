---------------------------- MODULE EzSockProofs ----------------------------
(***************************************************************************)
(* Proofs about EzSock, for any wrappers, workers, descriptors and bounds.  *)
(***************************************************************************)
EXTENDS EzSock, SequenceTheorems, TLAPS

-----------------------------------------------------------------------------
(* The inductive invariant.                                                 *)

\* What a thread does fits what it is: only the Lua thread resets, and a worker
\* that does anything works for its wrapper, and is in its crew.
ThreadOK(t) ==
    /\ ~In(t, "idle") => W(t) \in made
    /\ t \in Workers /\ ~In(t, "idle") => W(t) = Home[t] /\ Home[t] \in crew
    /\ at[t].pc \in {"raise", "wait", "renew"} => t = LuaThread
    /\ at[t].pc \in {"shutdown", "close", "clear"} /\ at[t].call = "reset" =>
          t = LuaThread
    /\ at[t].pc \in {"enter", "inside"} => at[t].call # "reset"
    /\ at[t].pc \notin {"enter", "inside"} => at[t].ses = 0
    /\ In(t, "inside") /\ at[t].call \in {"connect", "listen"} =>
          at[t].num \in Numbers
    /\ In(t, "renew") => W(t) \notin crew /\ ssl[W(t)] = 0

\* A wrapper that does not exist has nothing.
Unmade ==
    \A w \in Wrappers \ made : sock[w] = INVALID_SOCKET /\ ssl[w] = 0

Control ==
    /\ TypeOK
    /\ \A t \in Threads : ThreadOK(t)
    /\ Unmade

\* One thread at a time is in the middle of EzSock::close.
OneCloser ==
    ~clashed => \A t, u \in Threads :
                   t \in Closers(W(t)) /\ u \in Closers(W(t)) => t = u

\* The number that CloseClear forgets is no longer its own.
ForgetsNothing ==
    ~clashed => \A t \in Threads :
                   In(t, "clear") /\ sock[W(t)] \in Numbers =>
                      table[sock[W(t)]] # Now(W(t))

\* The number of a call is that of a descriptor its EzSock has opened, until it
\* closes it.
CallOwned ==
    \A t \in Threads :
       In(t, "enter") /\ ~at[t].stale /\ at[t].num \in Numbers =>
          table[at[t].num] = Now(W(t))

Descriptors ==
    /\ OneCloser /\ ForgetsNothing /\ CallOwned
    /\ OwnDescriptor /\ NoLeakedDescriptor

\* An EzSock that is being closed does not say that it is connected.
ClosingSaysSo ==
    \A t \in Threads :
       at[t].pc \in {"close", "clear"} /\ W(t) \notin raced =>
          state[W(t)] \notin {"CONNECTED", "LISTENING"}

\* A session that a thread goes through is one of its wrapper.
SessionOwned ==
    \A t \in Threads :
       at[t].ses # 0 => /\ at[t].ses \in DOMAIN sessions
                        /\ sessions[at[t].ses].of[1] = W(t)

-----------------------------------------------------------------------------
(* Control: the types, what a thread may do, and wrappers that do not exist. *)

LEMMA RestOK == Rest \in Activity
  BY DEF Rest, Activity, PCs

LEMMA GoTypes ==
  ASSUME TypeOK, NEW t \in Threads, NEW pc \in PCs, Go(t, pc)
  PROVE  /\ at' \in [Threads -> Activity]
         /\ at'[t] = [at[t] EXCEPT !.pc = pc]
         /\ at'[t].pc = pc /\ at'[t].w = at[t].w /\ at'[t].call = at[t].call
         /\ at'[t].num = at[t].num /\ at'[t].ses = at[t].ses
         /\ \A u \in Threads \ {t} : at'[u] = at[u]
<1>1. [at[t] EXCEPT !.pc = pc] \in Activity
  BY DEF TypeOK, Activity
<1>2. QED
  BY <1>1 DEF TypeOK, Go, Activity

LEMMA StopTypes ==
  ASSUME TypeOK, NEW t \in Threads, Stop(t)
  PROVE  /\ at' \in [Threads -> Activity] /\ at'[t] = Rest
         /\ \A u \in Threads \ {t} : at'[u] = at[u]
  BY RestOK DEF TypeOK, Stop

\* A step of t that takes nothing away keeps what is said of other threads.
LEMMA OthersOK ==
  ASSUME TypeOK, \A u \in Threads : ThreadOK(u), NEW t \in Threads,
         \A u \in Threads \ {t} : at'[u] = at[u],
         made \subseteq made', crew' = crew,
         \A w \in Wrappers : ssl[w] = 0 => ssl'[w] = 0, ThreadOK(t)'
  PROVE  \A u \in Threads : ThreadOK(u)'
<1>1. ASSUME NEW u \in Threads \ {t} PROVE ThreadOK(u)'
  <2>1. ThreadOK(u) /\ at'[u] = at[u] /\ W(u) \in Wrappers \union {None}
    BY <1>1 DEF TypeOK, Activity, W
  <2>2. In(u, "renew") => ssl'[W(u)] = 0
    <3>1. In(u, "renew") => W(u) \in made /\ ssl[W(u)] = 0
      BY <2>1 DEF ThreadOK, In
    <3>2. QED
      BY <3>1 DEF TypeOK
  <2>3. QED
    BY <2>1, <2>2 DEF ThreadOK, In, W
<1>2. QED
  BY <1>1

LEMMA CloseControl ==
  ASSUME Control, NEW t \in Threads, Close(t)
  PROVE  Control'
<1> USE DEF Control
<1>1. CASE CloseShutdown(t)
  <2>1. /\ at' \in [Threads -> Activity]
        /\ at'[t].pc = "close" /\ at'[t].w = at[t].w /\ at'[t].call = at[t].call
        /\ at'[t].ses = at[t].ses
        /\ \A u \in Threads \ {t} : at'[u] = at[u]
    BY <1>1, GoTypes DEF CloseShutdown, PCs
  <2>2. /\ table' = table /\ sockets' = sockets /\ made' = made /\ gen' = gen
        /\ sock' = sock /\ crew' = crew /\ DestoryWorkers' = DestoryWorkers
        /\ sessions' = sessions /\ ssl' = ssl /\ raced' = raced
    BY <1>1 DEF CloseShutdown, kernel, pool, tls
  <2>3. clashed' \in BOOLEAN
    BY <1>1, Zenon DEF CloseShutdown
  <2>4. state' \in [Wrappers -> SockStates]
    BY <1>1 DEF CloseShutdown, TypeOK, SockStates
  <2>5. TypeOK'
    BY <2>1, <2>2, <2>3, <2>4 DEF TypeOK
  <2>6. In(t, "shutdown")
    BY <1>1 DEF CloseShutdown
  <2>7. ThreadOK(t)'
    BY <2>1, <2>2, <2>6 DEF TypeOK, In, W, ThreadOK
  <2>8. \A u \in Threads : ThreadOK(u)'
    BY <2>1, <2>2, <2>7, OthersOK
  <2>9. QED
    BY <2>2, <2>5, <2>8 DEF Unmade
<1>2. CASE CloseNumber(t)
  <2>1. at' \in [Threads -> Activity]
    <3>1. \A u \in Threads : /\ [at[u] EXCEPT !.pc = "clear"] \in Activity
                             /\ [at[u] EXCEPT !.stale = TRUE] \in Activity
                             /\ at[u] \in Activity
      BY DEF TypeOK, Activity, PCs
    <3>2. QED
      BY <1>2, <3>1 DEF CloseNumber
  <2>2. table' \in [Numbers -> (Wrappers \X Nat) \union {None}]
    BY <1>2 DEF TypeOK, CloseNumber
  <2>3. TypeOK'
    BY <1>2, <2>1, <2>2 DEF TypeOK, CloseNumber, ezsock, pool, tls, history
  <2>4. ASSUME NEW u \in Threads PROVE ThreadOK(u)'
    BY <1>2, <2>4 DEF TypeOK, CloseNumber, In, W, Activity, ThreadOK,
                      ezsock, pool, tls
  <2>5. QED
    BY <1>2, <2>3, <2>4 DEF Unmade, CloseNumber, tls, ezsock
<1>3. CASE CloseClear(t)
  <2>1. /\ at' \in [Threads -> Activity]
        /\ at'[t] = IF at[t].call = "reset" THEN [at[t] EXCEPT !.pc = "raise"]
                    ELSE Rest
        /\ \A u \in Threads \ {t} : at'[u] = at[u]
    BY <1>3, GoTypes, StopTypes DEF CloseClear, PCs
  <2>2. sock' \in [Wrappers -> Numbers \union {INVALID_SOCKET}]
    BY <1>3 DEF CloseClear, TypeOK
  <2>3. TypeOK'
    BY <1>3, <2>1, <2>2 DEF TypeOK, CloseClear, kernel, pool, tls, history
  <2>4. ThreadOK(t)'
    BY <1>3, <2>1 DEF TypeOK, CloseClear, Rest, In, W, Activity, ThreadOK, pool, tls
  <2>5. \A u \in Threads : ThreadOK(u)'
    BY <1>3, <2>1, <2>4, OthersOK DEF CloseClear, pool, tls
  <2>6. Unmade'
    BY <1>3 DEF Unmade, CloseClear, tls, TypeOK
  <2>7. QED
    BY <2>3, <2>5, <2>6
<1>4. QED
  BY <1>1, <1>2, <1>3 DEF Close

\* A call of t begins; the number and the session it has read are given.
LEMMA EnterOK ==
  ASSUME Control, NEW t \in Threads, NEW w \in made, NEW call \in Calls,
         NEW num \in Numbers \union {INVALID_SOCKET}, NEW ses \in Nat,
         NEW stale \in BOOLEAN, t \in Workers => w = Home[t] /\ w \in crew,
         at' = [at EXCEPT ![t] = [pc |-> "enter", w |-> w, call |-> call,
                                  num |-> num, ses |-> ses, stale |-> stale]],
         made' = made, crew' = crew,
         \A v \in Wrappers : ssl[v] = 0 => ssl'[v] = 0 \/ t = LuaThread
  PROVE  at' \in [Threads -> Activity] /\ \A u \in Threads : ThreadOK(u)'
<1> DEFINE act == [pc |-> "enter", w |-> w, call |-> call, num |-> num,
                   ses |-> ses, stale |-> stale]
<1>1. act \in Activity
  BY DEF Control, TypeOK, Activity, PCs
<1>2. at' \in [Threads -> Activity]
  BY <1>1 DEF Control, TypeOK
<1>3. ThreadOK(t)'
  <2>1. at'[t] = act
    BY DEF Control, TypeOK
  <2>2. QED
    BY <2>1 DEF ThreadOK, In, W, Calls
<1>4. ASSUME NEW u \in Threads \ {t} PROVE ThreadOK(u)'
  <2>1. ThreadOK(u) /\ at'[u] = at[u]
    BY DEF Control, TypeOK
  <2>2. In(u, "renew") => u = LuaThread /\ W(u) \in Wrappers
    BY <2>1 DEF Control, TypeOK, ThreadOK, In
  <2>3. QED
    BY <2>1, <2>2 DEF ThreadOK, In, W
<1>5. QED
  BY <1>2, <1>3, <1>4

LEMMA CallControl ==
  ASSUME Control, NEW t \in Threads, NEW w \in Wrappers,
         NEW call \in Calls \ {"handshake"}, Call(t, w, call)
  PROVE  Control'
<1> DEFINE num(ses) == IF ses = 0 THEN sock[w] ELSE sessions[ses].num
           stale(ses) == num(ses) # sock[w] \/ ~Cleared(w)
<1>1. /\ UNCHANGED <<kernel, ezsock, pool, tls, history>>
      /\ \E ses \in {0, ssl[w]} :
            at' = [at EXCEPT ![t] = [pc |-> "enter", w |-> w, call |-> call,
                                     num |-> num(ses), ses |-> ses,
                                     stale |-> stale(ses)]]
  BY DEF Call
<1>2. PICK ses \in {0, ssl[w]} :
         at' = [at EXCEPT ![t] = [pc |-> "enter", w |-> w, call |-> call,
                                  num |-> num(ses), ses |-> ses,
                                  stale |-> stale(ses)]]
  BY <1>1
<1>3. w \in made /\ (t \in Workers => w = Home[t] /\ w \in crew)
  BY ThreadAssumption DEF Call, MayCall, Control, TypeOK
<1>4. ses \in Nat /\ num(ses) \in Numbers \union {INVALID_SOCKET}
  <2>1. ssl[w] \in 0..Len(sessions) /\ sock[w] \in Numbers \union {INVALID_SOCKET}
    BY DEF Control, TypeOK
  <2>2. ssl[w] # 0 => sessions[ssl[w]] \in Session
    BY <2>1, ElementOfSeq DEF Control, TypeOK
  <2>3. QED
    BY <2>1, <2>2 DEF Session
<1>5. stale(ses) \in BOOLEAN
  OBVIOUS
<1> HIDE DEF num, stale
<1>6. at' \in [Threads -> Activity] /\ \A u \in Threads : ThreadOK(u)'
  BY <1>1, <1>2, <1>3, <1>4, <1>5, EnterOK DEF ezsock, pool, tls
<1>7. QED
  BY <1>1, <1>6 DEF Control, TypeOK, Unmade, kernel, ezsock, pool, tls, history

LEMMA EnterControl ==
  ASSUME Control, NEW t \in Threads, Enter(t)
  PROVE  Control'
<1> DEFINE act == [at[t] EXCEPT !.pc = "inside", !.stale = FALSE,
                       !.num = IF at[t].call \in {"connect", "listen"}
                               THEN @ ELSE INVALID_SOCKET]
<1>1. act \in Activity
  BY DEF Control, TypeOK, Activity, PCs
<1>2. at' = [at EXCEPT ![t] = act] /\ UNCHANGED <<kernel, ezsock, pool, tls, history>>
  BY DEF Enter
<1>3. /\ at' \in [Threads -> Activity] /\ at'[t] = act
      /\ \A u \in Threads \ {t} : at'[u] = at[u]
  BY <1>1, <1>2 DEF Control, TypeOK
<1>4. ThreadOK(t)'
  <2>1. /\ act.pc = "inside" /\ act.w = at[t].w /\ act.call = at[t].call
        /\ act.call \in {"connect", "listen"} => act.num = at[t].num
    BY DEF Control, TypeOK, Activity
  <2>2. In(t, "enter") /\ at[t].num \in Numbers
    BY DEF Enter, IsOpen
  <2>3. QED
    BY <1>2, <1>3, <2>1, <2>2 DEF Control, ThreadOK, In, W, ezsock, pool, tls
<1>5. \A u \in Threads : ThreadOK(u)'
  BY <1>2, <1>3, <1>4, OthersOK DEF Control, ezsock, pool, tls
<1>6. QED
  BY <1>2, <1>3, <1>5 DEF Control, TypeOK, Unmade, kernel, ezsock, pool, tls, history

\* What a new socket changes.
LEMMA NewSocketTypes ==
  ASSUME TypeOK, NEW w \in Wrappers, NEW n, NewSocket(w, Now(w), n)
  PROVE  /\ table' \in [Numbers -> (Wrappers \X Nat) \union {None}]
         /\ sockets' \in Nat /\ n \in Numbers
         /\ sock' \in [Wrappers -> Numbers \union {INVALID_SOCKET}]
         /\ \A v \in Wrappers \ {w} : sock'[v] = sock[v]
  BY DEF NewSocket, Now, TypeOK

LEMMA SucceedControl ==
  ASSUME Control, NEW t \in Threads, Succeed(t)
  PROVE  Control'
<1>1. /\ at' \in [Threads -> Activity] /\ at'[t] = Rest
      /\ \A u \in Threads \ {t} : at'[u] = at[u]
  BY StopTypes DEF Succeed, Control
<1>2. UNCHANGED <<gen, crew, DestoryWorkers, ssl, sessions, clashed>>
  BY DEF Succeed, pool, tls
<1>3. W(t) \in made
  BY DEF Succeed, Control, ThreadOK, In
<1>4. /\ table' \in [Numbers -> (Wrappers \X Nat) \union {None}]
      /\ sockets' \in Nat
      /\ made \subseteq made' /\ made' \subseteq Wrappers
      /\ sock' \in [Wrappers -> Numbers \union {INVALID_SOCKET}]
      /\ state' \in [Wrappers -> SockStates]
      /\ raced' \subseteq made'
      /\ \A w \in Wrappers \ made' : sock'[w] = sock[w]
  <2>1. CASE \E to \in {"CONNECTED", "LISTENING"} : Establish(t, to)
    BY <1>3, <2>1 DEF Establish, kernel, Control, TypeOK, SockStates
  <2>2. CASE \E c \in Wrappers : Accepted(c)
    BY <2>2, NewSocketTypes DEF Accepted, Control, TypeOK, SockStates
  <2>3. CASE UNCHANGED <<kernel, made, sock, state, raced>>
    BY <2>3 DEF Control, TypeOK, kernel
  <2>4. QED
    BY <2>1, <2>2, <2>3 DEF Succeed
<1>5. ThreadOK(t)'
  BY <1>1 DEF ThreadOK, Rest, In, W
<1>6. \A u \in Threads : ThreadOK(u)'
  BY <1>1, <1>2, <1>4, <1>5, OthersOK DEF Control
<1>7. TypeOK' /\ Unmade'
  BY <1>1, <1>2, <1>4 DEF Control, TypeOK, Unmade
<1>8. QED
  BY <1>6, <1>7 DEF Control

\* A session that is freed is still a session.
LEMMA FreedTypes ==
  ASSUME TypeOK, NEW s, NEW by \in {"kill", "failed"}
  PROVE  /\ [sessions EXCEPT ![s].freed = by] \in Seq(Session)
         /\ Len([sessions EXCEPT ![s].freed = by]) = Len(sessions)
         /\ \A r \in DOMAIN sessions :
               [sessions EXCEPT ![s].freed = by][r] =
                  IF r = s THEN [sessions[r] EXCEPT !.freed = by] ELSE sessions[r]
<1>1. sessions \in [1..Len(sessions) -> Session] /\ DOMAIN sessions = 1..Len(sessions)
  BY LenProperties DEF TypeOK
<1>2. CASE s \in 1..Len(sessions)
  <2>1. [sessions[s] EXCEPT !.freed = by] \in Session
    BY <1>1, <1>2 DEF Session
  <2>2. QED
    BY <1>1, <1>2, <2>1, ExceptSeq DEF TypeOK
<1>3. CASE s \notin 1..Len(sessions)
  <2>1. [sessions EXCEPT ![s].freed = by] = sessions
    BY <1>1, <1>3
  <2>2. QED
    BY <1>1, <1>3, <2>1 DEF TypeOK
<1>4. QED
  BY <1>2, <1>3

\* SockWrapper::ssl is set to null.
LEMMA SslForgets ==
  ASSUME TypeOK, NEW w, ssl' = [ssl EXCEPT ![w] = 0]
  PROVE  /\ ssl' \in [Wrappers -> 0..Len(sessions)]
         /\ \A v \in Wrappers : ssl'[v] = IF v = w THEN 0 ELSE ssl[v]
<1> DEFINE S == 0..Len(sessions)
<1>1. 0 \in S /\ ssl \in [Wrappers -> S]
  BY LenProperties DEF TypeOK
<1> HIDE DEF S
<1>2. ssl' \in [Wrappers -> S]
  BY <1>1
<1>3. \A v \in Wrappers : ssl'[v] = IF v = w THEN 0 ELSE ssl[v]
  BY <1>1
<1>4. QED
  BY <1>2, <1>3 DEF S

LEMMA FailControl ==
  ASSUME Control, NEW t \in Threads, Fail(t)
  PROVE  Control'
<1>1. /\ at' \in [Threads -> Activity]
      /\ \A u \in Threads \ {t} : at'[u] = at[u]
      /\ \/ at'[t] = Rest
         \/ at'[t].pc = "shutdown" /\ at'[t].w = W(t) /\ at'[t].call = "transfer"
            /\ at'[t].ses = 0
  <2>1. CASE Stop(t)
    BY <2>1, StopTypes DEF Control
  <2>2. CASE RawSendFails(t)
    <3> DEFINE act == [Rest EXCEPT !.pc = "shutdown", !.w = W(t), !.call = "transfer"]
    <3>1. act \in Activity
      BY RestOK DEF Activity, PCs, W, Calls, Control, TypeOK
    <3>2. at' = [at EXCEPT ![t] = act]
      BY <2>2 DEF RawSendFails
    <3>3. act.pc = "shutdown" /\ act.w = W(t) /\ act.call = "transfer" /\ act.ses = 0
      BY DEF Rest
    <3> HIDE DEF act
    <3>4. QED
      BY <3>1, <3>2, <3>3 DEF Control, TypeOK
  <2>3. QED
    BY <2>1, <2>2 DEF Fail, ReadFails, HandshakeFails
<1>2. UNCHANGED <<kernel, made, gen, sock, pool, history>>
  BY DEF Fail
<1>3. /\ state' \in [Wrappers -> SockStates]
      /\ sessions' \in Seq(Session) /\ Len(sessions') = Len(sessions)
      /\ ssl' \in [Wrappers -> 0..Len(sessions)]
      /\ \A w \in Wrappers : ssl[w] = 0 => ssl'[w] = 0
  <2>1. CASE ReadFails(t)
    BY <2>1 DEF ReadFails, tls, Control, TypeOK, SockStates
  <2>2. CASE RawSendFails(t)
    BY <2>2 DEF RawSendFails, tls, Control, TypeOK
  <2>3. CASE HandshakeFails(t)
    <3>1. sessions' \in Seq(Session) /\ Len(sessions') = Len(sessions)
      BY <2>3, FreedTypes DEF HandshakeFails, Control
    <3>2. ssl' = [ssl EXCEPT ![W(t)] = 0] /\ state' = state
      BY <2>3 DEF HandshakeFails
    <3>3. /\ ssl' \in [Wrappers -> 0..Len(sessions)]
          /\ \A w \in Wrappers : ssl[w] = 0 => ssl'[w] = 0
      BY <3>2, SslForgets DEF Control
    <3>4. state' \in [Wrappers -> SockStates]
      BY <3>2 DEF Control, TypeOK
    <3>5. QED
      BY <3>1, <3>3, <3>4
  <2>4. CASE UNCHANGED <<state, tls>>
    BY <2>4 DEF tls, Control, TypeOK
  <2>5. QED
    BY <2>1, <2>2, <2>3, <2>4 DEF Fail
<1>4. ThreadOK(t)'
  <2>1. ~In(t, "idle")
    BY DEF Fail, In
  <2>2. QED
    BY <1>1, <1>2, <2>1 DEF Control, ThreadOK, Rest, In, W, pool
<1>5. \A u \in Threads : ThreadOK(u)'
  BY <1>1, <1>2, <1>3, <1>4, OthersOK DEF Control, pool
<1>6. TypeOK' /\ Unmade'
  BY <1>1, <1>2, <1>3 DEF Control, TypeOK, Unmade, kernel, pool, history
<1>7. QED
  BY <1>5, <1>6 DEF Control

\* The Lua thread begins or goes on with a Reset of w.
LEMMA ResetMoves ==
  ASSUME Control, NEW act \in Activity, at' = [at EXCEPT ![LuaThread] = act]
  PROVE  /\ at' \in [Threads -> Activity] /\ at'[LuaThread] = act
         /\ \A u \in Threads \ {LuaThread} : at'[u] = at[u]
  BY DEF Control, TypeOK, Threads

\* BromSock, Create and CreateWorkers move no thread.
LEMMA MakeControl ==
  ASSUME Control, NEW w \in Wrappers, BromSock(w) \/ Create(w) \/ CreateWorkers(w)
  PROVE  Control'
<1>1. UNCHANGED <<at, gen, DestoryWorkers, tls, raced>>
  BY DEF BromSock, Create, CreateWorkers, ezsock, pool, history
<1>2. /\ table' \in [Numbers -> (Wrappers \X Nat) \union {None}]
      /\ sockets' \in Nat
      /\ made \subseteq made' /\ made' \subseteq Wrappers
      /\ sock' \in [Wrappers -> Numbers \union {INVALID_SOCKET}]
      /\ state' \in [Wrappers -> SockStates]
      /\ crew \subseteq crew' /\ crew' \subseteq made'
      /\ \A v \in Wrappers \ made' : sock'[v] = sock[v]
  <2>1. CASE BromSock(w)
    BY <2>1 DEF BromSock, kernel, pool, Control, TypeOK
  <2>2. CASE Create(w)
    <3>1. w \in made /\ made' = made /\ crew' = crew
      BY <2>2 DEF Create, pool
    <3>2. state' \in [Wrappers -> SockStates]
      BY <2>2 DEF Create, Control, TypeOK, SockStates
    <3>3. \/ \E n \in Numbers : NewSocket(w, Now(w), n)
          \/ sock' = [sock EXCEPT ![w] = INVALID_SOCKET] /\ UNCHANGED kernel
      BY <2>2 DEF Create
    <3>4. QED
      BY <3>1, <3>2, <3>3, NewSocketTypes DEF Control, TypeOK, kernel
  <2>3. CASE CreateWorkers(w)
    BY <2>3 DEF CreateWorkers, kernel, ezsock, Control, TypeOK
  <2>4. QED
    BY <2>1, <2>2, <2>3
<1>3. clashed' \in BOOLEAN
  <2>1. CASE Create(w)
    BY <2>1, Zenon DEF Create
  <2>2. CASE BromSock(w) \/ CreateWorkers(w)
    BY <2>2 DEF BromSock, CreateWorkers, history, Control, TypeOK
  <2>3. QED
    BY <2>1, <2>2
<1>4. In(LuaThread, "idle")
  BY DEF BromSock, Create, CreateWorkers
<1>5. ASSUME NEW u \in Threads PROVE ThreadOK(u)'
  <2>1. ThreadOK(u) /\ ~In(u, "renew")
    BY <1>4 DEF Control, ThreadOK, In
  <2>2. QED
    BY <1>1, <1>2, <2>1 DEF ThreadOK, In, W
<1>6. TypeOK'
  BY <1>1, <1>2, <1>3 DEF Control, TypeOK, tls
<1>7. Unmade'
  BY <1>1, <1>2 DEF Control, Unmade, tls
<1>8. QED
  BY <1>5, <1>6, <1>7 DEF Control

LEMMA StartSSLClientControl ==
  ASSUME Control, NEW w \in Wrappers, StartSSLClient(w)
  PROVE  Control'
<1> DEFINE new == [of |-> Now(w), num |-> sock[w], freed |-> "no"]
<1>1. Len(sessions) \in Nat /\ new \in Session
  BY LenProperties DEF Control, TypeOK, Session, Now
<1>2. sessions' \in Seq(Session) /\ Len(sessions') = Len(sessions) + 1
  <2>1. sessions' = Append(sessions, new)
    BY DEF StartSSLClient
  <2> HIDE DEF new
  <2>2. QED
    BY <1>1, <2>1, AppendProperties DEF Control, TypeOK
<1>3. UNCHANGED <<kernel, ezsock, pool, history>> /\ w \in made
      /\ ssl' = [ssl EXCEPT ![w] = Len(sessions')]
      /\ at' = [at EXCEPT ![LuaThread] =
                  [pc |-> "enter", w |-> w, call |-> "handshake", num |-> sock[w],
                   ses |-> Len(sessions'), stale |-> ~Cleared(w)]]
  BY DEF StartSSLClient
<1>4. ssl' \in [Wrappers -> 0..Len(sessions')]
  <2>1. \A v \in Wrappers : ssl[v] \in 0..Len(sessions)
    BY DEF Control, TypeOK
  <2>2. \A v \in Wrappers : ssl'[v] \in 0..Len(sessions')
    BY <1>1, <1>2, <1>3, <2>1 DEF Control, TypeOK
  <2>3. QED
    BY <1>3, <2>2 DEF Control, TypeOK
<1>5. at' \in [Threads -> Activity] /\ \A u \in Threads : ThreadOK(u)'
  <2>1. LuaThread \in Threads /\ LuaThread \notin Workers
    BY ThreadAssumption DEF Threads
  <2>2. sock[w] \in Numbers \union {INVALID_SOCKET} /\ (~Cleared(w)) \in BOOLEAN
    BY DEF Control, TypeOK
  <2>3. Len(sessions') \in Nat
    BY <1>1, <1>2
  <2>4. "handshake" \in Calls /\ UNCHANGED <<made, crew>>
    BY <1>3 DEF Calls, ezsock, pool
  <2>5. QED
    BY <1>3, <2>1, <2>2, <2>3, <2>4, EnterOK
<1>6. Unmade'
  BY <1>3 DEF Control, Unmade, ezsock, TypeOK
<1>7. QED
  BY <1>2, <1>3, <1>4, <1>5, <1>6 DEF Control, TypeOK, kernel, ezsock, pool, history

LEMMA ResetControl ==
  ASSUME Control, NEW w \in Wrappers, Reset(w)
  PROVE  Control'
<1> DEFINE act == [Rest EXCEPT !.pc = "shutdown", !.w = w]
<1>1. act \in Activity /\ act.pc = "shutdown" /\ act.w = w /\ act.ses = 0
  BY RestOK DEF Activity, PCs, Rest
<1>2. at' = [at EXCEPT ![LuaThread] = act] /\ w \in made
      /\ UNCHANGED <<kernel, ezsock, pool, tls, history>>
  BY DEF Reset
<1> HIDE DEF act
<1>3. /\ at' \in [Threads -> Activity] /\ at'[LuaThread] = act
      /\ \A u \in Threads \ {LuaThread} : at'[u] = at[u]
  BY <1>1, <1>2, ResetMoves
<1>4. LuaThread \in Threads /\ ThreadOK(LuaThread)'
  BY <1>1, <1>2, <1>3, ThreadAssumption DEF ThreadOK, In, W, Threads, ezsock
<1>5. \A u \in Threads : ThreadOK(u)'
  BY <1>2, <1>3, <1>4, OthersOK DEF Control, ezsock, pool, tls
<1>6. QED
  BY <1>2, <1>3, <1>5 DEF Control, TypeOK, Unmade, kernel, ezsock, pool, tls, history

LEMMA KillRaiseControl ==
  ASSUME Control, KillRaise
  PROVE  Control'
<1>1. LuaThread \in Threads /\ LuaThread \notin Workers
  BY ThreadAssumption DEF Threads
<1>2. /\ at' \in [Threads -> Activity]
      /\ at'[LuaThread].pc = "wait" /\ at'[LuaThread].w = at[LuaThread].w
      /\ at'[LuaThread].call = at[LuaThread].call
      /\ at'[LuaThread].ses = at[LuaThread].ses
      /\ \A u \in Threads \ {LuaThread} : at'[u] = at[u]
  BY <1>1, GoTypes DEF KillRaise, PCs, Control
<1>3. W(LuaThread) \in made /\ at[LuaThread].ses = 0
  BY <1>1 DEF KillRaise, In, Control, ThreadOK
<1>4. UNCHANGED <<kernel, ezsock, crew, tls, history>>
      /\ DestoryWorkers' = DestoryWorkers \union {W(LuaThread)}
  BY DEF KillRaise
<1>5. ThreadOK(LuaThread)'
  BY <1>1, <1>2, <1>3, <1>4 DEF ThreadOK, In, W, ezsock
<1>6. \A u \in Threads : ThreadOK(u)'
  BY <1>1, <1>2, <1>4, <1>5, OthersOK DEF Control, ezsock, tls
<1>7. QED
  BY <1>2, <1>3, <1>4, <1>6 DEF Control, TypeOK, Unmade, kernel, ezsock, tls, history

\* What freeing the session of w changes.
LEMMA KilledTypes ==
  ASSUME TypeOK, NEW w \in Wrappers, SessionKilled(w)
  PROVE  /\ sessions' \in Seq(Session) /\ Len(sessions') = Len(sessions)
         /\ ssl' \in [Wrappers -> 0..Len(sessions)]
         /\ \A v \in Wrappers : ssl'[v] = IF v = w THEN 0 ELSE ssl[v]
         /\ \A s \in DOMAIN sessions :
               sessions'[s] = IF s = ssl[w] THEN [sessions[s] EXCEPT !.freed = "kill"]
                              ELSE sessions[s]
<1>1. Len(sessions) \in Nat /\ DOMAIN sessions = 1..Len(sessions)
      /\ sessions \in [1..Len(sessions) -> Session]
  BY LenProperties DEF TypeOK
<1>2. \A s \in DOMAIN sessions : [sessions[s] EXCEPT !.freed = "kill"] \in Session
  BY <1>1 DEF Session
<1>3. sessions' = [s \in 1..Len(sessions) |->
                     IF s = ssl[w] THEN [sessions[s] EXCEPT !.freed = "kill"]
                     ELSE sessions[s]]
  BY <1>1 DEF SessionKilled
<1>4. sessions' \in [1..Len(sessions) -> Session]
  BY <1>1, <1>2, <1>3
<1>5. sessions' \in Seq(Session) /\ Len(sessions') = Len(sessions)
  BY <1>1, <1>4
<1>6. ssl' = [ssl EXCEPT ![w] = 0]
  BY DEF SessionKilled
<1>7. QED
  BY <1>1, <1>3, <1>5, <1>6, SslForgets

LEMMA KillWaitControl ==
  ASSUME Control, KillWait
  PROVE  Control'
<1> DEFINE w == W(LuaThread)
<1>1. LuaThread \in Threads /\ LuaThread \notin Workers
  BY ThreadAssumption DEF Threads
<1>2. /\ at' \in [Threads -> Activity]
      /\ at'[LuaThread].pc = "renew" /\ at'[LuaThread].w = at[LuaThread].w
      /\ at'[LuaThread].call = at[LuaThread].call
      /\ at'[LuaThread].ses = at[LuaThread].ses
      /\ \A u \in Threads \ {LuaThread} : at'[u] = at[u]
  BY <1>1, GoTypes DEF KillWait, PCs, Control
<1>3. w \in made /\ w \in Wrappers /\ at[LuaThread].ses = 0
  BY <1>1 DEF KillWait, In, Control, ThreadOK, TypeOK
<1>4. UNCHANGED <<kernel, ezsock, history>> /\ SessionKilled(w)
      /\ crew' = crew \ {w} /\ DestoryWorkers' = DestoryWorkers \ {w}
      /\ \A t \in Workers : Home[t] = w => In(t, "idle")
  BY DEF KillWait
<1>5. /\ sessions' \in Seq(Session) /\ Len(sessions') = Len(sessions)
      /\ ssl' \in [Wrappers -> 0..Len(sessions)]
      /\ \A v \in Wrappers : ssl'[v] = IF v = w THEN 0 ELSE ssl[v]
  BY <1>3, <1>4, KilledTypes DEF Control
<1>6. ThreadOK(LuaThread)'
  BY <1>1, <1>2, <1>3, <1>4, <1>5 DEF ThreadOK, In, W, ezsock
<1>7. ASSUME NEW u \in Threads \ {LuaThread} PROVE ThreadOK(u)'
  <2>1. ThreadOK(u) /\ at'[u] = at[u] /\ made' = made /\ u \in Workers
    BY <1>2, <1>4 DEF Control, ezsock, Threads
  <2>2. ~In(u, "idle") => Home[u] \in crew'
    BY <1>4, <2>1 DEF ThreadOK
  <2>3. ~In(u, "renew")
    BY <1>1, <2>1 DEF ThreadOK, In
  <2>4. QED
    BY <2>1, <2>2, <2>3 DEF ThreadOK, In, W
<1>8. QED
  BY <1>2, <1>4, <1>5, <1>6, <1>7 DEF Control, TypeOK, Unmade, kernel, ezsock, history

LEMMA RenewControl ==
  ASSUME Control, Renew
  PROVE  Control'
<1> DEFINE w == W(LuaThread)
<1>1. LuaThread \in Threads
  BY DEF Threads
<1>2. /\ at' \in [Threads -> Activity] /\ at'[LuaThread] = Rest
      /\ \A u \in Threads \ {LuaThread} : at'[u] = at[u]
  BY <1>1, StopTypes DEF Renew, Control
<1>3. UNCHANGED <<sockets, made, pool, tls, clashed>> /\ Destroyed(w)
      /\ gen' = [gen EXCEPT ![w] = @ + 1] /\ raced' = raced \ {w}
      /\ sock' = [sock EXCEPT ![w] = INVALID_SOCKET]
      /\ state' = [state EXCEPT ![w] = "DISCONNECTED"]
  BY DEF Renew
<1>4. ThreadOK(LuaThread)'
  BY <1>2 DEF ThreadOK, Rest, In, W
<1>5. \A u \in Threads : ThreadOK(u)'
  BY <1>1, <1>2, <1>3, <1>4, OthersOK DEF Control, pool, tls
<1>6. /\ gen' \in [Wrappers -> Nat]
      /\ sock' \in [Wrappers -> Numbers \union {INVALID_SOCKET}]
      /\ state' \in [Wrappers -> SockStates]
      /\ table' \in [Numbers -> (Wrappers \X Nat) \union {None}]
  <2>1. gen' \in [Wrappers -> Nat]
    <3>1. gen \in [Wrappers -> Nat] /\ gen' = [gen EXCEPT ![w] = gen[w] + 1]
      BY <1>3 DEF Control, TypeOK
    <3>2. w \in Wrappers
      BY <1>1 DEF Renew, In, Control, TypeOK, ThreadOK
    <3>3. gen[w] + 1 \in Nat
      BY <3>1, <3>2
    <3>4. QED
      BY <3>1, <3>3
  <2>2. /\ sock' \in [Wrappers -> Numbers \union {INVALID_SOCKET}]
        /\ state' \in [Wrappers -> SockStates]
    BY <1>3 DEF Control, TypeOK, SockStates
  <2>3. table' \in [Numbers -> (Wrappers \X Nat) \union {None}]
    BY <1>3 DEF Control, TypeOK, Destroyed
  <2>4. QED
    BY <2>1, <2>2, <2>3
<1>7. TypeOK'
  BY <1>2, <1>3, <1>6 DEF Control, TypeOK, pool, tls
<1>8. Unmade'
  BY <1>3 DEF Control, Unmade, tls, TypeOK
<1>9. QED
  BY <1>5, <1>7, <1>8 DEF Control

LEMMA ControlInit == Init => Control
<1> SUFFICES ASSUME Init PROVE Control
  OBVIOUS
<1>1. TypeOK
  <2>1. sessions \in Seq(Session) /\ Len(sessions) = 0
    BY DEF Init
  <2>2. /\ ssl \in [Wrappers -> 0..Len(sessions)]
        /\ gen \in [Wrappers -> Nat]
    BY <2>1 DEF Init
  <2>3. /\ table \in [Numbers -> (Wrappers \X Nat) \union {None}]
        /\ sock \in [Wrappers -> Numbers \union {INVALID_SOCKET}]
        /\ state \in [Wrappers -> SockStates]
        /\ at \in [Threads -> Activity]
    BY RestOK DEF Init, SockStates
  <2>4. QED
    BY <2>1, <2>2, <2>3 DEF Init, TypeOK
<1>2. \A t \in Threads : ThreadOK(t)
  BY DEF Init, ThreadOK, Rest, In, W
<1>3. QED
  BY <1>1, <1>2 DEF Control, Unmade, Init

LEMMA ControlStep == Control /\ [Next]_vars => Control'
<1> SUFFICES ASSUME Control, [Next]_vars PROVE Control'
  OBVIOUS
<1>1. ASSUME NEW t \in Threads, SocketCall(t) PROVE Control'
  BY <1>1, CallControl, EnterControl, SucceedControl, FailControl, CloseControl
  DEF SocketCall
<1>2. ASSUME Script PROVE Control'
  BY <1>2, MakeControl, StartSSLClientControl, ResetControl, KillRaiseControl,
     KillWaitControl, RenewControl DEF Script
<1>3. CASE UNCHANGED vars
  BY <1>3 DEF vars, kernel, ezsock, pool, tls, history, Control, TypeOK, Unmade,
              ThreadOK, In, W
<1>4. QED
  BY <1>1, <1>2, <1>3 DEF Next

LEMMA ControlAlways == Spec => []Control
  BY ControlInit, ControlStep, PTL DEF Spec

\* The types of EzSock.h and of the model: whatever the threads do, sock is a
\* number of a descriptor or INVALID_SOCKET, ssl a session that was made.
THEOREM TypeInvariant == Spec => []TypeOK
<1>1. Control => TypeOK
  BY DEF Control
<1>2. QED
  BY <1>1, ControlAlways, PTL

-----------------------------------------------------------------------------
(* Descriptors: the step of each action, as far as descriptors go.          *)

LEMMA Names ==
  ASSUME TypeOK
  PROVE  /\ \A v \in Wrappers : Now(v) # None
         /\ \A v, w \in Wrappers : Now(v) = Now(w) => v = w
         /\ INVALID_SOCKET \notin Numbers
<1>1. \A v \in Wrappers : Now(v) \in Wrappers \X Nat
  BY DEF Now, TypeOK
<1>2. QED
  BY <1>1, ThreadAssumption, NumbersAssumption DEF Now, INVALID_SOCKET

\* A step of t that changes no descriptor.
LEMMA ThreadStep ==
  ASSUME Control, Descriptors, NEW t \in Threads,
         UNCHANGED <<table, gen, sock>>,
         \A u \in Threads \ {t} : at'[u] = at[u],
         ~In(t, "clear"), at'[t].pc # "clear",
         at'[t].pc = "close" => clashed' \/ Closers(at'[t].w) = {},
         clashed => clashed',
         at'[t].pc = "enter" /\ ~at'[t].stale /\ at'[t].num \in Numbers =>
            table[at'[t].num] = Now(at'[t].w)
  PROVE  Descriptors'
<1>1. OneCloser'
  <2>1. ASSUME NEW u \in Threads, NEW v \in Threads, ~clashed',
               at'[u].pc \in {"close", "clear"}, at'[v].pc \in {"close", "clear"},
               at'[u].w = at'[v].w
        PROVE  u = v
    <3>1. CASE u # t /\ v # t
      BY <2>1, <3>1 DEF Descriptors, OneCloser, Closers, W
    <3>2. CASE u = t /\ v # t
      BY <2>1, <3>2 DEF Closers, W
    <3>3. CASE u # t /\ v = t
      BY <2>1, <3>3 DEF Closers, W
    <3>4. QED
      BY <3>1, <3>2, <3>3
  <2>2. QED
    BY <2>1 DEF OneCloser, Closers, W
<1>2. ForgetsNothing'
  BY DEF Descriptors, ForgetsNothing, In, W, Now
<1>3. CallOwned'
  BY DEF Descriptors, CallOwned, In, W, Now
<1>4. OwnDescriptor'
  BY DEF Descriptors, OwnDescriptor, Owned, Cleared, In, W, Now
<1>5. NoLeakedDescriptor'
  BY DEF Descriptors, NoLeakedDescriptor, Now
<1>6. QED
  BY <1>1, <1>2, <1>3, <1>4, <1>5 DEF Descriptors

\* A step that gives w, which has no socket to lose, a new one.
LEMMA NewSocketStep ==
  ASSUME Control, Descriptors, NEW w \in Wrappers, ~check(w),
         NEW n, NewSocket(w, Now(w), n), gen' = gen,
         \A u \in Threads : at'[u] = at[u] \/ (~In(u, "clear") /\ at'[u] = Rest),
         clashed => clashed', clashed' \/ Closers(w) = {}
  PROVE  Descriptors'
<1>1. /\ n \in Numbers /\ table[n] = None
      /\ \A m \in Numbers : table'[m] = IF m = n THEN Now(w) ELSE table[m]
      /\ \A v \in Wrappers : sock'[v] = IF v = w THEN n ELSE sock[v]
      /\ \A v \in Wrappers : Now(v)' = Now(v)
  BY DEF NewSocket, Control, TypeOK, Now
<1>2. /\ \A v \in Wrappers : Now(v) # None
      /\ \A u, v \in Wrappers : Now(u) = Now(v) => u = v
  BY Names DEF Control
<1>3. \A u \in Threads : ~In(u, "idle") => W(u) \in Wrappers
  BY DEF Control, ThreadOK, TypeOK
<1>4. OneCloser'
  BY DEF Descriptors, OneCloser, Closers, W, Rest
<1>5. ForgetsNothing'
  <2>1. ASSUME NEW u \in Threads, ~clashed', In(u, "clear")', sock[W(u)]' \in Numbers
        PROVE  table'[sock[W(u)]'] # Now(W(u))'
    <3>1. at'[u] = at[u] /\ In(u, "clear") /\ W(u) \in Wrappers
      BY <1>3, <2>1 DEF In, Rest
    <3>2. W(u) # w
      BY <2>1, <3>1 DEF Closers, In
    <3>3. sock'[W(u)] = sock[W(u)] /\ W(u)' = W(u)
      BY <1>1, <3>1, <3>2 DEF W
    <3>4. table[sock[W(u)]] # Now(W(u))
      BY <2>1, <3>1, <3>3 DEF Descriptors, ForgetsNothing
    <3>5. QED
      BY <1>1, <1>2, <2>1, <3>1, <3>2, <3>3, <3>4
  <2>2. QED
    BY <2>1 DEF ForgetsNothing
<1>6. CallOwned'
  <2>1. ASSUME NEW u \in Threads, In(u, "enter")', ~at'[u].stale, at'[u].num \in Numbers
        PROVE  table'[at'[u].num] = Now(W(u))'
    <3>1. at'[u] = at[u] /\ In(u, "enter") /\ W(u) \in Wrappers
      BY <1>3, <2>1 DEF In, Rest
    <3>2. table[at[u].num] = Now(W(u)) /\ W(u)' = W(u)
      BY <2>1, <3>1 DEF Descriptors, CallOwned, W
    <3>3. QED
      BY <1>1, <1>2, <2>1, <3>1, <3>2
  <2>2. QED
    BY <2>1 DEF CallOwned
<1>7. OwnDescriptor'
  <2>1. ASSUME NEW v \in Wrappers, v # w, sock[v] # INVALID_SOCKET, Cleared(v)'
        PROVE  Owned(v)'
    <3>1. Cleared(v)
      BY <2>1 DEF Cleared, In, W
    <3>2. sock[v] \in Numbers /\ table[sock[v]] = Now(v)
      BY <2>1, <3>1 DEF Descriptors, OwnDescriptor, Owned
    <3>3. QED
      BY <1>1, <1>2, <2>1, <3>2 DEF Owned
  <2>2. Owned(w)'
    BY <1>1 DEF Owned
  <2>3. QED
    BY <1>1, <2>1, <2>2 DEF OwnDescriptor
<1>8. NoLeakedDescriptor'
  <2>1. ASSUME NEW m \in Numbers \ {0}, table'[m] # None
        PROVE  \E v \in Wrappers : table'[m] = Now(v)' /\ sock'[v] = m
    <3>1. CASE m = n
      BY <1>1, <3>1
    <3>2. CASE m # n
      <4>1. PICK v \in Wrappers : table[m] = Now(v) /\ sock[v] = m
        BY <1>1, <2>1, <3>2 DEF Descriptors, NoLeakedDescriptor
      <4>2. v # w
        BY <4>1, NumbersAssumption DEF check
      <4>3. QED
        BY <1>1, <3>2, <4>1, <4>2
    <3>3. QED
      BY <3>1, <3>2
  <2>2. QED
    BY <2>1 DEF NoLeakedDescriptor
<1>9. QED
  BY <1>4, <1>5, <1>6, <1>7, <1>8 DEF Descriptors

\* A number that is read from sock is that of an own descriptor, if no one has
\* closed it yet.
LEMMA ReadsOwn ==
  ASSUME Control, Descriptors, NEW w \in Wrappers, sock[w] \in Numbers, Cleared(w)
  PROVE  table[sock[w]] = Now(w)
  BY Names DEF Control, Descriptors, OwnDescriptor, Owned

\* Whoever is about to close a number is the first to do so.
LEMMA CloserOwns ==
  ASSUME Control, Descriptors, ~clashed, NEW t \in Threads, In(t, "close")
  PROVE  /\ W(t) \in Wrappers
         /\ sock[W(t)] \in Numbers => table[sock[W(t)]] = Now(W(t))
<1>1. W(t) \in Wrappers
  BY DEF In, Control, ThreadOK, TypeOK
<1>2. Cleared(W(t))
  <2>1. ASSUME NEW u \in Threads, In(u, "clear"), W(u) = W(t) PROVE FALSE
    <3>1. u \in Closers(W(t)) /\ t \in Closers(W(t))
      BY <2>1 DEF Closers, In
    <3>2. u = t
      BY <2>1, <3>1 DEF Descriptors, OneCloser
    <3>3. QED
      BY <2>1, <3>2 DEF In
  <2>2. QED
    BY <2>1 DEF Cleared
<1>3. QED
  BY <1>1, <1>2, ReadsOwn

\* ::close frees a number that is still the one of this EzSock: it is the first
\* to close it, and whoever else works with the number is told (stale).
LEMMA CloseNumberStep ==
  ASSUME Control, Descriptors, ~clashed, NEW t \in Threads, CloseNumber(t)
  PROVE  Descriptors'
<1> DEFINE w == W(t)
<1>1. /\ In(t, "close") /\ w \in Wrappers
      /\ \A u \in Threads : ~In(u, "idle") => W(u) \in Wrappers
  BY DEF CloseNumber, In, Control, ThreadOK, TypeOK
<1>2. /\ \A n \in Numbers : table'[n] = IF n = sock[w] THEN None ELSE table[n]
      /\ sock' = sock /\ gen' = gen /\ clashed' = clashed
      /\ \A v \in Wrappers : Now(v)' = Now(v)
  BY DEF CloseNumber, ezsock, history, Now
<1>3. /\ at'[t].pc = "clear" /\ at'[t].w = w
      /\ \A u \in Threads \ {t} :
            /\ at'[u].pc = at[u].pc /\ at'[u].w = at[u].w /\ at'[u].num = at[u].num
            /\ at'[u].stale = IF W(u) = w /\ In(u, "enter") THEN TRUE ELSE at[u].stale
  BY DEF CloseNumber, W, Control, TypeOK, Activity
<1>4. /\ \A v \in Wrappers : Now(v) # None
      /\ \A u, v \in Wrappers : Now(u) = Now(v) => u = v
  BY Names DEF Control
<1>5. sock[w] \in Numbers => table[sock[w]] = Now(w)
  BY <1>1, CloserOwns
<1> HIDE DEF w
<1>6. OneCloser'
  <2>1. \A u \in Threads : at'[u].pc \in {"close", "clear"} =>
            at[u].pc \in {"close", "clear"} /\ at'[u].w = at[u].w
    BY <1>1, <1>3 DEF In, w, W
  <2>2. QED
    BY <2>1 DEF Descriptors, OneCloser, Closers, W
<1>7. ForgetsNothing'
  <2>1. ASSUME NEW u \in Threads, In(u, "clear")', sock[W(u)]' \in Numbers
        PROVE  table'[sock[W(u)]'] # Now(W(u))'
    <3>1. CASE u = t
      BY <1>1, <1>2, <1>3, <1>4, <2>1, <3>1 DEF w, W
    <3>2. CASE u # t
      <4>1. In(u, "clear") /\ W(u)' = W(u) /\ W(u) \in Wrappers
        BY <1>1, <1>3, <2>1, <3>2 DEF In, W
      <4>2. table[sock[W(u)]] # Now(W(u))
        BY <1>2, <2>1, <4>1 DEF Descriptors, ForgetsNothing
      <4>3. QED
        BY <1>2, <1>4, <2>1, <4>1, <4>2
    <3>3. QED
      BY <3>1, <3>2
  <2>2. QED
    BY <2>1 DEF ForgetsNothing
<1>8. CallOwned'
  <2>1. ASSUME NEW u \in Threads, In(u, "enter")', ~at'[u].stale, at'[u].num \in Numbers
        PROVE  table'[at'[u].num] = Now(W(u))'
    <3>1. /\ u # t /\ In(u, "enter") /\ W(u)' = W(u) /\ W(u) \in Wrappers
          /\ at'[u].num = at[u].num
      BY <1>1, <1>3, <2>1 DEF In, W
    <3>2. W(u) # w /\ ~at[u].stale
      BY <1>3, <2>1, <3>1
    <3>3. table[at[u].num] = Now(W(u))
      BY <2>1, <3>1, <3>2 DEF Descriptors, CallOwned
    <3>4. at[u].num # sock[w]
      BY <1>1, <1>4, <1>5, <2>1, <3>1, <3>2, <3>3
    <3>5. QED
      BY <1>2, <2>1, <3>1, <3>3, <3>4
  <2>2. QED
    BY <2>1 DEF CallOwned
<1>9. OwnDescriptor'
  <2>1. ASSUME NEW v \in Wrappers, sock[v] # INVALID_SOCKET, Cleared(v)'
        PROVE  Owned(v)'
    <3>1. v # w /\ Cleared(v)
      BY <1>1, <1>3, <2>1 DEF Cleared, In, W
    <3>2. sock[v] \in Numbers /\ table[sock[v]] = Now(v)
      BY <2>1, <3>1 DEF Descriptors, OwnDescriptor, Owned
    <3>3. sock[v] # sock[w]
      BY <1>1, <1>4, <1>5, <3>1, <3>2
    <3>4. QED
      BY <1>2, <3>2, <3>3 DEF Owned
  <2>2. QED
    BY <1>2, <2>1 DEF OwnDescriptor
<1>10. NoLeakedDescriptor'
  <2>1. ASSUME NEW m \in Numbers \ {0}, table'[m] # None
        PROVE  \E v \in Wrappers : table'[m] = Now(v)' /\ sock'[v] = m
    <3>1. table'[m] = table[m]
      BY <1>2, <2>1
    <3>2. PICK v \in Wrappers : table[m] = Now(v) /\ sock[v] = m
      BY <2>1, <3>1 DEF Descriptors, NoLeakedDescriptor
    <3>3. QED
      BY <1>2, <3>1, <3>2
  <2>2. QED
    BY <2>1 DEF NoLeakedDescriptor
<1>11. QED
  BY <1>6, <1>7, <1>8, <1>9, <1>10 DEF Descriptors

\* The end of EzSock::close forgets a number that is no longer its own.
LEMMA CloseClearStep ==
  ASSUME Control, Descriptors, ~clashed, NEW t \in Threads, CloseClear(t)
  PROVE  Descriptors'
<1> DEFINE w == W(t)
<1>1. In(t, "clear") /\ w \in Wrappers
  BY DEF CloseClear, In, Control, ThreadOK, TypeOK
<1>2. /\ \A v \in Wrappers : sock'[v] = IF v = w THEN INVALID_SOCKET ELSE sock[v]
      /\ table' = table /\ gen' = gen /\ clashed' = clashed
      /\ \A v \in Wrappers : Now(v)' = Now(v)
  BY DEF CloseClear, kernel, history, Now, Control, TypeOK
<1>3. /\ at'[t].pc \in {"idle", "raise"}
      /\ \A u \in Threads \ {t} : at'[u] = at[u]
  <2>1. CASE Go(t, "raise")
    BY <2>1, GoTypes DEF Control, PCs
  <2>2. CASE Stop(t)
    BY <2>2, StopTypes DEF Control, Rest
  <2>3. QED
    BY <2>1, <2>2 DEF CloseClear
<1>4. sock[w] \in Numbers => table[sock[w]] # Now(w)
  BY <1>1 DEF Descriptors, ForgetsNothing
<1> HIDE DEF w
<1>5. OneCloser'
  BY <1>2, <1>3 DEF Descriptors, OneCloser, Closers, W
<1>6. ForgetsNothing'
  <2>1. ASSUME NEW u \in Threads, In(u, "clear")', sock[W(u)]' \in Numbers
        PROVE  table'[sock[W(u)]'] # Now(W(u))'
    <3>1. In(u, "clear") /\ W(u)' = W(u) /\ W(u) \in Wrappers
      BY <1>3, <2>1 DEF In, W, Control, ThreadOK, TypeOK
    <3>2. sock[W(u)]' = sock[W(u)]
      BY <1>2, <2>1, <3>1, Names DEF Control
    <3>3. QED
      BY <1>2, <2>1, <3>1, <3>2 DEF Descriptors, ForgetsNothing
  <2>2. QED
    BY <2>1 DEF ForgetsNothing
<1>7. CallOwned'
  BY <1>2, <1>3 DEF Descriptors, CallOwned, In, W, Now
<1>8. OwnDescriptor'
  <2>1. ASSUME NEW v \in Wrappers, v # w, sock[v] # INVALID_SOCKET, Cleared(v)'
        PROVE  Owned(v)'
    <3>1. Cleared(v)
      BY <1>3, <2>1 DEF Cleared, In, W, w
    <3>2. QED
      BY <1>2, <2>1, <3>1 DEF Descriptors, OwnDescriptor, Owned
  <2>2. QED
    BY <1>2, <2>1 DEF OwnDescriptor
<1>9. NoLeakedDescriptor'
  <2>1. ASSUME NEW m \in Numbers \ {0}, table[m] # None
        PROVE  \E v \in Wrappers : table'[m] = Now(v)' /\ sock'[v] = m
    <3>1. PICK v \in Wrappers : table[m] = Now(v) /\ sock[v] = m
      BY <2>1 DEF Descriptors, NoLeakedDescriptor
    <3>2. v # w
      BY <1>4, <3>1
    <3>3. QED
      BY <1>2, <3>1, <3>2
  <2>2. QED
    BY <1>2, <2>1 DEF NoLeakedDescriptor
<1>10. QED
  BY <1>5, <1>6, <1>7, <1>8, <1>9 DEF Descriptors

\* In Reset, when the workers are gone, no other thread works with the EzSock
\* that is deleted.
LEMMA AloneInRenew ==
  ASSUME Control, In(LuaThread, "renew")
  PROVE  /\ W(LuaThread) \in Wrappers
         /\ \A u \in Threads \ {LuaThread} :
               ~In(u, "idle") => W(u) # W(LuaThread) /\ W(u) \in Wrappers
<1>1. LuaThread \in Threads /\ W(LuaThread) \notin crew /\ W(LuaThread) \in Wrappers
  BY DEF Threads, In, Control, ThreadOK, TypeOK
<1>2. ASSUME NEW u \in Threads \ {LuaThread}, ~In(u, "idle")
      PROVE  W(u) # W(LuaThread) /\ W(u) \in Wrappers
  <2>1. u \in Workers
    BY DEF Threads
  <2>2. W(u) \in made /\ W(u) = Home[u] /\ Home[u] \in crew
    BY <1>2, <2>1 DEF Control, ThreadOK
  <2>3. QED
    BY <1>1, <2>2 DEF Control, TypeOK
<1>3. QED
  BY <1>1, <1>2

LEMMA RenewStep ==
  ASSUME Control, Descriptors, ~clashed, Renew
  PROVE  Descriptors'
<1> DEFINE w == W(LuaThread)
<1>1. /\ In(LuaThread, "renew") /\ w \in Wrappers /\ LuaThread \in Threads
      /\ \A u \in Threads \ {LuaThread} :
            ~In(u, "idle") => W(u) # w /\ W(u) \in Wrappers
  BY AloneInRenew DEF Renew, Threads
<1>2. /\ \A n \in Numbers :
            table'[n] = IF check(w) /\ n = sock[w] THEN None ELSE table[n]
      /\ \A v \in Wrappers : sock'[v] = IF v = w THEN INVALID_SOCKET ELSE sock[v]
      /\ \A v \in Wrappers \ {w} : Now(v)' = Now(v)
      /\ clashed' = clashed
  BY DEF Renew, Destroyed, Now, Control, TypeOK
<1>3. at'[LuaThread] = Rest /\ \A u \in Threads \ {LuaThread} : at'[u] = at[u]
  BY <1>1, StopTypes DEF Renew, Control
<1>4. /\ \A v \in Wrappers : Now(v) # None
      /\ \A u, v \in Wrappers : Now(u) = Now(v) => u = v
      /\ INVALID_SOCKET \notin Numbers
  BY Names DEF Control
<1>5. sock[w] \in Numbers => table[sock[w]] = Now(w)
  <2>1. Cleared(w)
    BY <1>1 DEF Cleared, In
  <2>2. QED
    BY <1>1, <1>4, <2>1 DEF Descriptors, OwnDescriptor, Owned
<1>6. ASSUME NEW u \in Threads, ~In(u, "idle")'
      PROVE  /\ at'[u] = at[u] /\ W(u)' = W(u)
             /\ W(u) \in Wrappers /\ W(u) # w
  BY <1>1, <1>3, <1>6 DEF In, W, Rest
<1> HIDE DEF w
<1>7. OneCloser'
  <2>1. \A u \in Threads : at'[u].pc \in {"close", "clear"} => at'[u] = at[u]
    BY <1>6 DEF In
  <2>2. QED
    BY <1>2, <2>1 DEF Descriptors, OneCloser, Closers, W
<1>8. ForgetsNothing'
  <2>1. ASSUME NEW u \in Threads, In(u, "clear")', sock[W(u)]' \in Numbers
        PROVE  table'[sock[W(u)]'] # Now(W(u))'
    <3>1. /\ In(u, "clear") /\ W(u)' = W(u) /\ W(u) \in Wrappers /\ W(u) # w
      BY <1>6, <2>1 DEF In
    <3>2. sock[W(u)]' = sock[W(u)] /\ Now(W(u))' = Now(W(u))
      BY <1>2, <3>1
    <3>3. table[sock[W(u)]] # Now(W(u))
      BY <2>1, <3>1, <3>2 DEF Descriptors, ForgetsNothing
    <3>4. QED
      BY <1>2, <1>4, <2>1, <3>1, <3>2, <3>3
  <2>2. QED
    BY <2>1 DEF ForgetsNothing
<1>9. CallOwned'
  <2>1. ASSUME NEW u \in Threads, In(u, "enter")', ~at'[u].stale, at'[u].num \in Numbers
        PROVE  table'[at'[u].num] = Now(W(u))'
    <3>1. /\ In(u, "enter") /\ W(u)' = W(u) /\ W(u) \in Wrappers /\ W(u) # w
          /\ at'[u] = at[u]
      BY <1>6, <2>1 DEF In
    <3>2. table[at[u].num] = Now(W(u)) /\ Now(W(u))' = Now(W(u))
      BY <1>2, <2>1, <3>1 DEF Descriptors, CallOwned
    <3>3. at[u].num # sock[w]
      BY <1>1, <1>4, <1>5, <2>1, <3>1, <3>2
    <3>4. QED
      BY <1>2, <2>1, <3>1, <3>2, <3>3
  <2>2. QED
    BY <2>1 DEF CallOwned
<1>10. OwnDescriptor'
  <2>1. ASSUME NEW v \in Wrappers, v # w, sock[v] # INVALID_SOCKET, Cleared(v)'
        PROVE  Owned(v)'
    <3>1. Cleared(v)
      BY <1>1, <1>3, <2>1 DEF Cleared, In, W
    <3>2. sock[v] \in Numbers /\ table[sock[v]] = Now(v)
      BY <2>1, <3>1 DEF Descriptors, OwnDescriptor, Owned
    <3>3. sock[v] # sock[w]
      BY <1>1, <1>4, <1>5, <2>1, <3>2
    <3>4. QED
      BY <1>2, <2>1, <3>2, <3>3 DEF Owned
  <2>2. QED
    BY <1>2, <2>1 DEF OwnDescriptor
<1>11. NoLeakedDescriptor'
  <2>1. ASSUME NEW m \in Numbers \ {0}, table'[m] # None
        PROVE  \E v \in Wrappers : table'[m] = Now(v)' /\ sock'[v] = m
    <3>1. table'[m] = table[m] /\ ~(check(w) /\ m = sock[w])
      BY <1>2, <2>1
    <3>2. PICK v \in Wrappers : table[m] = Now(v) /\ sock[v] = m
      BY <2>1, <3>1 DEF Descriptors, NoLeakedDescriptor
    <3>3. v # w
      BY <3>1, <3>2, NumbersAssumption DEF check
    <3>4. QED
      BY <1>2, <3>1, <3>2, <3>3
  <2>2. QED
    BY <2>1 DEF NoLeakedDescriptor
<1>12. QED
  BY <1>7, <1>8, <1>9, <1>10, <1>11 DEF Descriptors

LEMMA CreateStep ==
  ASSUME Control, Descriptors, ~clashed, NEW w \in Wrappers, Create(w)
  PROVE  Descriptors'
<1>1. ~check(w) /\ gen' = gen /\ at' = at
      /\ \/ \E n \in Numbers : NewSocket(w, Now(w), n)
         \/ sock' = [sock EXCEPT ![w] = INVALID_SOCKET] /\ table' = table
  BY DEF Create, kernel
<1>2. clashed' \/ Closers(w) = {}
  BY Zenon DEF Create
<1>3. CASE \E n \in Numbers : NewSocket(w, Now(w), n)
  BY <1>1, <1>2, <1>3, NewSocketStep
<1>4. CASE sock' = [sock EXCEPT ![w] = INVALID_SOCKET] /\ table' = table
  <2>1. /\ \A v \in Wrappers : sock'[v] = IF v = w THEN INVALID_SOCKET ELSE sock[v]
        /\ \A v \in Wrappers : Now(v)' = Now(v)
    BY <1>1, <1>4 DEF Control, TypeOK, Now
  <2>2. OneCloser'
    BY <1>1 DEF Descriptors, OneCloser, Closers, W
  <2>3. ForgetsNothing'
    <3>1. ASSUME NEW u \in Threads, In(u, "clear")', sock[W(u)]' \in Numbers
          PROVE  table'[sock[W(u)]'] # Now(W(u))'
      <4>1. In(u, "clear") /\ W(u)' = W(u) /\ W(u) \in Wrappers
        BY <1>1, <3>1 DEF In, W, Control, ThreadOK, TypeOK
      <4>2. sock[W(u)]' = sock[W(u)]
        BY <2>1, <3>1, <4>1, Names DEF Control
      <4>3. QED
        BY <1>4, <2>1, <3>1, <4>1, <4>2 DEF Descriptors, ForgetsNothing
    <3>2. QED
      BY <3>1 DEF ForgetsNothing
  <2>4. CallOwned'
    BY <1>1, <1>4 DEF Descriptors, CallOwned, In, W, Now
  <2>5. OwnDescriptor'
    BY <1>1, <1>4, <2>1 DEF Descriptors, OwnDescriptor, Owned, Cleared, In, W
  <2>6. NoLeakedDescriptor'
    <3>1. ASSUME NEW m \in Numbers \ {0}, table[m] # None
          PROVE  \E v \in Wrappers : table'[m] = Now(v)' /\ sock'[v] = m
      <4>1. PICK v \in Wrappers : table[m] = Now(v) /\ sock[v] = m
        BY <3>1 DEF Descriptors, NoLeakedDescriptor
      <4>2. v # w
        BY <1>1, <4>1, NumbersAssumption DEF check
      <4>3. QED
        BY <1>4, <2>1, <4>1, <4>2
    <3>2. QED
      BY <1>4, <3>1 DEF NoLeakedDescriptor
  <2>7. QED
    BY <2>2, <2>3, <2>4, <2>5, <2>6 DEF Descriptors
<1>5. QED
  BY <1>1, <1>3, <1>4

LEMMA SocketCallStep ==
  ASSUME Control, Descriptors, ~clashed, NEW t \in Threads, SocketCall(t)
  PROVE  Descriptors'
<1>1. ASSUME NEW w \in Wrappers, NEW call \in Calls \ {"handshake"}, Call(t, w, call)
      PROVE  Descriptors'
  <2> DEFINE num(ses) == IF ses = 0 THEN sock[w] ELSE sessions[ses].num
             Act(ses) == [pc |-> "enter", w |-> w, call |-> call,
                          num |-> num(ses), ses |-> ses,
                          stale |-> num(ses) # sock[w] \/ ~Cleared(w)]
  <2>1. /\ In(t, "idle") /\ UNCHANGED <<table, gen, sock, clashed>>
        /\ \E ses \in {0, ssl[w]} : at' = [at EXCEPT ![t] = Act(ses)]
    BY <1>1 DEF Call, kernel, ezsock, history
  <2>2. PICK ses \in {0, ssl[w]} : at' = [at EXCEPT ![t] = Act(ses)]
    BY <2>1
  <2> DEFINE act == Act(ses)
  <2>3. at' = [at EXCEPT ![t] = act]
    BY <2>2
  <2>4. act.pc = "enter" /\ act.w = w /\ (act.stale = (act.num # sock[w] \/ ~Cleared(w)))
    OBVIOUS
  <2> HIDE DEF act
  <2>5. at'[t] = act /\ \A u \in Threads \ {t} : at'[u] = at[u]
    BY <2>3 DEF Control, TypeOK
  <2>6. ~act.stale /\ act.num \in Numbers => table[act.num] = Now(w)
    BY <2>4, ReadsOwn
  <2>7. QED
    BY <2>3, <2>4, <2>5, <2>6, <2>1, ThreadStep DEF In
<1>2. CASE Enter(t)
  <2>1. /\ at'[t].pc = "inside" /\ \A u \in Threads \ {t} : at'[u] = at[u]
        /\ In(t, "enter") /\ UNCHANGED <<table, gen, sock, clashed>>
    BY <1>2 DEF Enter, kernel, ezsock, history, Control, TypeOK, Activity
  <2>2. QED
    BY <2>1, ThreadStep DEF In
<1>3. CASE Succeed(t)
  <2>1. at'[t] = Rest /\ \A u \in Threads \ {t} : at'[u] = at[u]
    BY <1>3, StopTypes DEF Succeed, Control
  <2>2. In(t, "inside") /\ gen' = gen /\ clashed' = clashed
    BY <1>3 DEF Succeed
  <2>3. CASE UNCHANGED <<table, sock>>
    BY <2>1, <2>2, <2>3, ThreadStep DEF In, Rest
  <2>4. ASSUME NEW c \in Wrappers, Accepted(c) PROVE Descriptors'
    <3>1. c \notin made /\ \E n \in Numbers : NewSocket(c, Now(c), n)
      BY <2>4 DEF Accepted
    <3>2. ~check(c)
      BY <3>1 DEF Control, Unmade, check, INVALID_SOCKET
    <3>3. Closers(c) = {}
      BY <3>1 DEF Control, ThreadOK, Closers, In
    <3>4. \A u \in Threads : at'[u] = at[u] \/ (~In(u, "clear") /\ at'[u] = Rest)
      BY <2>1, <2>2 DEF In
    <3>5. QED
      BY <2>2, <3>1, <3>2, <3>3, <3>4, NewSocketStep
  <2>5. QED
    BY <1>3, <2>3, <2>4 DEF Succeed, Establish, kernel
<1>4. CASE Fail(t)
  <2>1. UNCHANGED <<table, gen, sock, clashed>> /\ ~In(t, "clear")
    BY <1>4 DEF Fail, In, kernel, history
  <2>2. at'[t].pc \in {"idle", "shutdown"} /\ \A u \in Threads \ {t} : at'[u] = at[u]
    <3>1. CASE Stop(t)
      BY <3>1, StopTypes DEF Control, Rest
    <3>2. CASE RawSendFails(t)
      BY <3>2 DEF RawSendFails, Rest, Control, TypeOK
    <3>3. QED
      BY <1>4, <3>1, <3>2 DEF Fail, ReadFails, HandshakeFails
  <2>3. QED
    BY <2>1, <2>2, ThreadStep
<1>5. CASE CloseShutdown(t)
  <2>1. /\ at'[t].pc = "close" /\ at'[t].w = W(t)
        /\ \A u \in Threads \ {t} : at'[u] = at[u]
    BY <1>5, GoTypes DEF CloseShutdown, PCs, Control, W
  <2>2. UNCHANGED <<table, gen, sock>> /\ In(t, "shutdown")
    BY <1>5 DEF CloseShutdown, kernel
  <2>3. clashed' \/ Closers(W(t)) = {}
    BY <1>5, Zenon DEF CloseShutdown
  <2>4. QED
    BY <2>1, <2>2, <2>3, ThreadStep DEF In
<1>6. QED
  BY <1>1, <1>2, <1>3, <1>4, <1>5, CloseNumberStep, CloseClearStep
  DEF SocketCall, Close

LEMMA ScriptStep ==
  ASSUME Control, Descriptors, ~clashed, Script
  PROVE  Descriptors'
<1>1. LuaThread \in Threads
  BY DEF Threads
<1>2. ASSUME NEW w \in Wrappers, BromSock(w) \/ CreateWorkers(w) PROVE Descriptors'
  <2>1. UNCHANGED <<table, gen, sock, at, clashed>> /\ In(LuaThread, "idle")
    BY <1>2 DEF BromSock, CreateWorkers, kernel, ezsock, history
  <2>2. QED
    BY <1>1, <2>1, ThreadStep DEF In
<1>3. ASSUME NEW w \in Wrappers, StartSSLClient(w) PROVE Descriptors'
  <2> DEFINE act == [pc |-> "enter", w |-> w, call |-> "handshake", num |-> sock[w],
                     ses |-> Len(sessions'), stale |-> ~Cleared(w)]
  <2>1. at' = [at EXCEPT ![LuaThread] = act] /\ In(LuaThread, "idle")
        /\ UNCHANGED <<table, gen, sock, clashed>>
    BY <1>3 DEF StartSSLClient, kernel, ezsock, history
  <2>2. act.pc = "enter" /\ act.w = w /\ act.num = sock[w] /\ (act.stale = ~Cleared(w))
    OBVIOUS
  <2> HIDE DEF act
  <2>3. at'[LuaThread] = act /\ \A u \in Threads \ {LuaThread} : at'[u] = at[u]
    BY <1>1, <2>1 DEF Control, TypeOK
  <2>4. ~act.stale /\ act.num \in Numbers => table[act.num] = Now(w)
    BY <2>2, ReadsOwn
  <2>5. QED
    BY <1>1, <2>1, <2>2, <2>3, <2>4, ThreadStep DEF In
<1>4. ASSUME NEW w \in Wrappers, Reset(w) PROVE Descriptors'
  <2>1. /\ at'[LuaThread].pc = "shutdown" /\ In(LuaThread, "idle")
        /\ \A u \in Threads \ {LuaThread} : at'[u] = at[u]
        /\ UNCHANGED <<table, gen, sock, clashed>>
    BY <1>1, <1>4 DEF Reset, kernel, ezsock, history, Rest, Control, TypeOK
  <2>2. QED
    BY <1>1, <2>1, ThreadStep DEF In
<1>5. CASE KillRaise
  <2>1. /\ at'[LuaThread].pc = "wait" /\ In(LuaThread, "raise")
        /\ \A u \in Threads \ {LuaThread} : at'[u] = at[u]
        /\ UNCHANGED <<table, gen, sock, clashed>>
    BY <1>1, <1>5, GoTypes DEF KillRaise, PCs, kernel, ezsock, history, Control
  <2>2. QED
    BY <1>1, <2>1, ThreadStep DEF In
<1>6. CASE KillWait
  <2>1. /\ at'[LuaThread].pc = "renew" /\ In(LuaThread, "wait")
        /\ \A u \in Threads \ {LuaThread} : at'[u] = at[u]
        /\ UNCHANGED <<table, gen, sock, clashed>>
    BY <1>1, <1>6, GoTypes DEF KillWait, PCs, kernel, ezsock, history, Control
  <2>2. QED
    BY <1>1, <2>1, ThreadStep DEF In
<1>7. QED
  BY <1>2, <1>3, <1>4, <1>5, <1>6, CreateStep, RenewStep DEF Script

LEMMA DescriptorsInit == Init => Descriptors
  BY DEF Init, Descriptors, OneCloser, ForgetsNothing, CallOwned, OwnDescriptor,
         NoLeakedDescriptor, Closers, In, Rest

LEMMA DescriptorsStep == Control /\ Descriptors /\ [Next]_vars => Descriptors'
<1> SUFFICES ASSUME Control, Descriptors, [Next]_vars PROVE Descriptors'
  OBVIOUS
<1>1. CASE Next
  BY <1>1, SocketCallStep, ScriptStep DEF Next
<1>2. CASE UNCHANGED vars
  BY <1>2 DEF vars, kernel, ezsock, history, Descriptors, OneCloser, ForgetsNothing,
              CallOwned, OwnDescriptor, NoLeakedDescriptor, Closers, Owned, Cleared,
              In, W, Now
<1>3. QED
  BY <1>1, <1>2

LEMMA DescriptorsAlways == Spec => []Descriptors
  BY DescriptorsInit, DescriptorsStep, ControlAlways, PTL DEF Spec

\* sock never holds a number that belongs to another socket, outside the two
\* last steps of EzSock::close.
THEOREM OwnInvariant == Spec => []OwnDescriptor
<1>1. Descriptors => OwnDescriptor
  BY DEF Descriptors
<1>2. QED
  BY <1>1, DescriptorsAlways, PTL

\* close, Reset and the destructor leave no descriptor open that no EzSock holds.
THEOREM LeakInvariant == Spec => []NoLeakedDescriptor
<1>1. Descriptors => NoLeakedDescriptor
  BY DEF Descriptors
<1>2. QED
  BY <1>1, DescriptorsAlways, PTL

\* A socket call reaches the kernel with a number of its own EzSock, unless that
\* one has closed it in between.
THEOREM CallInvariant == Spec => []CallsOwn
<1>1. Descriptors => CallsOwn
  BY DEF Descriptors, CallOwned, CallsOwn, IsOpen
<1>2. QED
  BY <1>1, DescriptorsAlways, PTL

-----------------------------------------------------------------------------
(* The state of an EzSock.                                                  *)

Truthful == StateTruthful /\ ClosingSaysSo

\* What is said of one wrapper.
TruthfulOf(v) ==
    /\ v \notin raced /\ state[v] \in {"CONNECTED", "LISTENING"} => Owned(v)
    /\ v \notin raced /\ Closers(v) # {} =>
          state[v] \notin {"CONNECTED", "LISTENING"}

LEMMA TruthfulIs ==
  ASSUME Control
  PROVE  Truthful <=> \A v \in Wrappers : TruthfulOf(v)
<1>1. \A t \in Threads : at[t].pc \in {"close", "clear"} => W(t) \in Wrappers
  BY DEF Control, ThreadOK, TypeOK, In
<1>2. ClosingSaysSo <=> \A v \in Wrappers : v \notin raced /\ Closers(v) # {} =>
                           state[v] \notin {"CONNECTED", "LISTENING"}
  BY <1>1 DEF ClosingSaysSo, Closers
<1>3. QED
  BY <1>2 DEF Truthful, TruthfulOf, StateTruthful

\* A step that leaves what v has as it was.
LEMMA TruthfulKept ==
  ASSUME NEW v \in Wrappers, TruthfulOf(v), Now(v)' = Now(v),
         v \notin raced' => v \notin raced,
         state'[v] = state[v] \/ state'[v] \notin {"CONNECTED", "LISTENING"},
         Owned(v) /\ state'[v] = state[v] => Owned(v)',
         Closers(v)' \subseteq Closers(v)
         \/ state'[v] \notin {"CONNECTED", "LISTENING"}
  PROVE  TruthfulOf(v)'
  BY DEF TruthfulOf

\* A step of t that neither takes a descriptor nor begins to close one.
LEMMA ThreadTruthful ==
  ASSUME Control, Truthful, NEW t \in Threads,
         UNCHANGED <<table, gen, sock, raced>>,
         \A v \in Wrappers : \/ state'[v] = state[v]
                             \/ state'[v] \notin {"CONNECTED", "LISTENING"},
         \A u \in Threads \ {t} : at'[u] = at[u],
         at'[t].pc \notin {"close", "clear"}
  PROVE  \A v \in Wrappers : TruthfulOf(v)'
<1> SUFFICES ASSUME NEW v \in Wrappers PROVE TruthfulOf(v)'
  OBVIOUS
<1>1. TruthfulOf(v)
  BY TruthfulIs
<1>2. Closers(v)' \subseteq Closers(v)
  BY DEF Closers, W
<1>3. Now(v)' = Now(v) /\ (Owned(v) => Owned(v)')
  BY DEF Now, Owned
<1>4. QED
  BY <1>1, <1>2, <1>3, TruthfulKept

\* A new socket for w, whatever state it is put in.
LEMMA NewSocketTruthful ==
  ASSUME Control, Truthful, NEW w \in Wrappers, NEW n, NewSocket(w, Now(w), n),
         gen' = gen, raced' = raced, \A v \in Wrappers \ {w} : state'[v] = state[v],
         \A u \in Threads : at'[u] = at[u] \/ at'[u] = Rest,
         Closers(w) = {} \/ state'[w] = "DISCONNECTED"
  PROVE  \A v \in Wrappers : TruthfulOf(v)'
<1>1. /\ n \in Numbers /\ table[n] = None
      /\ \A m \in Numbers : table'[m] = IF m = n THEN Now(w) ELSE table[m]
      /\ \A v \in Wrappers : sock'[v] = IF v = w THEN n ELSE sock[v]
      /\ \A v \in Wrappers : Now(v)' = Now(v)
  BY DEF NewSocket, Control, TypeOK, Now
<1>2. \A v \in Wrappers : Closers(v)' \subseteq Closers(v)
  BY DEF Closers, W, Rest
<1>3. TruthfulOf(w)'
  BY <1>1, <1>2 DEF TruthfulOf, Owned
<1>4. ASSUME NEW v \in Wrappers \ {w} PROVE TruthfulOf(v)'
  <2>1. TruthfulOf(v)
    BY TruthfulIs
  <2>2. Owned(v) => Owned(v)'
    BY <1>1, Names DEF Owned, Control
  <2>3. QED
    BY <1>1, <1>2, <2>1, <2>2, TruthfulKept
<1>5. QED
  BY <1>3, <1>4

LEMMA CloseTruthful ==
  ASSUME Control, Descriptors, Truthful, ~clashed, NEW t \in Threads, Close(t)
  PROVE  \A v \in Wrappers : TruthfulOf(v)'
<1> SUFFICES ASSUME NEW v \in Wrappers PROVE TruthfulOf(v)'
  OBVIOUS
<1>1. TruthfulOf(v)
  BY TruthfulIs
<1>2. CASE CloseShutdown(t)
  <2>1. /\ at'[t].w = W(t) /\ \A u \in Threads \ {t} : at'[u] = at[u]
        /\ UNCHANGED <<table, gen, sock, raced>>
        /\ state' = [state EXCEPT ![W(t)] = "DISCONNECTED"]
    BY <1>2, GoTypes DEF CloseShutdown, PCs, Control, W, kernel
  <2>2. state'[v] = IF v = W(t) THEN "DISCONNECTED" ELSE state[v]
    BY <2>1 DEF Control, TypeOK
  <2>3. v # W(t) => Closers(v)' \subseteq Closers(v)
    BY <2>1 DEF Closers, W
  <2>4. Now(v)' = Now(v) /\ (Owned(v) => Owned(v)')
    BY <2>1 DEF Now, Owned
  <2>5. QED
    BY <1>1, <2>1, <2>2, <2>3, <2>4, TruthfulKept
<1>3. CASE CloseNumber(t)
  <2>1. /\ In(t, "close")
        /\ \A n \in Numbers : table'[n] = IF n = sock[W(t)] THEN None ELSE table[n]
        /\ sock' = sock /\ Now(v)' = Now(v) /\ UNCHANGED <<state, raced>>
    BY <1>3 DEF CloseNumber, ezsock, history, Now
  <2>2. Closers(v)' = Closers(v)
    BY <1>3 DEF CloseNumber, Closers, In, W, Control, TypeOK, Activity
  <2>3. CASE v = W(t)
    <3>1. Closers(v) # {}
      BY <2>1, <2>3 DEF Closers, In
    <3>2. QED
      BY <1>1, <2>1, <2>2, <3>1 DEF TruthfulOf
  <2>4. CASE v # W(t)
    <3>1. Owned(v) => sock[v] # sock[W(t)]
      BY <2>1, <2>4, CloserOwns, Names DEF Owned, Control
    <3>2. Owned(v) => Owned(v)'
      BY <2>1, <3>1 DEF Owned
    <3>3. QED
      BY <1>1, <2>1, <2>2, <3>2, TruthfulKept
  <2>5. QED
    BY <2>3, <2>4
<1>4. CASE CloseClear(t)
  <2>1. /\ at'[t].pc \in {"idle", "raise"}
        /\ \A u \in Threads \ {t} : at'[u] = at[u]
    <3>1. CASE Go(t, "raise")
      BY <3>1, GoTypes DEF Control, PCs
    <3>2. CASE Stop(t)
      BY <3>2, StopTypes DEF Control, Rest
    <3>3. QED
      BY <1>4, <3>1, <3>2 DEF CloseClear
  <2>2. /\ In(t, "clear") /\ table' = table /\ Now(v)' = Now(v)
        /\ UNCHANGED <<state, raced>>
        /\ sock'[v] = IF v = W(t) THEN INVALID_SOCKET ELSE sock[v]
    BY <1>4 DEF CloseClear, kernel, history, Now, Control, TypeOK
  <2>3. Closers(v)' \subseteq Closers(v)
    BY <2>1 DEF Closers, W
  <2>4. CASE v = W(t)
    <3>1. Closers(v) # {}
      BY <2>2, <2>4 DEF Closers, In
    <3>2. QED
      BY <1>1, <2>2, <3>1 DEF TruthfulOf
  <2>5. CASE v # W(t)
    <3>1. Owned(v) => Owned(v)'
      BY <2>2, <2>5 DEF Owned
    <3>2. QED
      BY <1>1, <2>2, <2>3, <3>1, TruthfulKept
  <2>6. QED
    BY <2>4, <2>5
<1>5. QED
  BY <1>2, <1>3, <1>4 DEF Close

\* connect and listen: the number they worked with is still the one of their
\* EzSock, and no one is closing it, or the EzSock is counted as raced.
LEMMA EstablishTruthful ==
  ASSUME Control, Descriptors, Truthful, NEW t \in Threads, NEW to,
         In(t, "inside"), at[t].call \in {"connect", "listen"}, Establish(t, to),
         gen' = gen, Stop(t)
  PROVE  \A v \in Wrappers : TruthfulOf(v)'
<1> SUFFICES ASSUME NEW v \in Wrappers PROVE TruthfulOf(v)'
  OBVIOUS
<1>1. TruthfulOf(v)
  BY TruthfulIs
<1>2. /\ at'[t] = Rest /\ \A u \in Threads \ {t} : at'[u] = at[u]
      /\ UNCHANGED <<table, sock>> /\ Now(v)' = Now(v)
  BY StopTypes DEF Control, Establish, kernel, Now
<1>3. /\ state' = [state EXCEPT ![W(t)] = to]
      /\ raced' = IF Closers(W(t)) # {} \/ at[t].num # sock[W(t)]
                  THEN raced \union {W(t)} ELSE raced
  BY DEF Establish
<1>4. Closers(v)' \subseteq Closers(v) /\ (Owned(v) => Owned(v)')
  BY <1>2 DEF Closers, W, Rest, Owned
<1>5. CASE v # W(t)
  <2>1. state'[v] = state[v] /\ (v \notin raced' => v \notin raced)
    BY <1>3, <1>5 DEF Control, TypeOK
  <2>2. QED
    BY <1>1, <1>2, <1>4, <2>1, TruthfulKept
<1>6. CASE v = W(t) /\ v \notin raced'
  <2>1. Closers(v) = {} /\ at[t].num = sock[v]
    BY <1>3, <1>6
  <2>2. sock[v] \in Numbers /\ Cleared(v)
    BY <2>1 DEF Control, ThreadOK, Closers, Cleared, In
  <2>3. Owned(v)
    BY <2>2, ReadsOwn DEF Owned
  <2>4. QED
    BY <1>4, <2>1, <2>3 DEF TruthfulOf
<1>7. CASE v \in raced'
  BY <1>7 DEF TruthfulOf
<1>8. QED
  BY <1>5, <1>6, <1>7

LEMMA SocketCallTruthful ==
  ASSUME Control, Descriptors, Truthful, ~clashed, NEW t \in Threads, SocketCall(t)
  PROVE  \A v \in Wrappers : TruthfulOf(v)'
<1>1. ASSUME NEW w \in Wrappers, NEW call \in Calls, Call(t, w, call)
      PROVE  \A v \in Wrappers : TruthfulOf(v)'
  <2>1. UNCHANGED <<table, gen, sock, state, raced>>
    BY <1>1 DEF Call, kernel, ezsock, history
  <2>2. at'[t].pc = "enter" /\ \A u \in Threads \ {t} : at'[u] = at[u]
    BY <1>1 DEF Call, Control, TypeOK
  <2>3. QED
    BY <2>1, <2>2, ThreadTruthful
<1>2. CASE Enter(t)
  <2>1. /\ at'[t].pc = "inside" /\ \A u \in Threads \ {t} : at'[u] = at[u]
        /\ UNCHANGED <<table, gen, sock, state, raced>>
    BY <1>2 DEF Enter, kernel, ezsock, history, Control, TypeOK, Activity
  <2>2. QED
    BY <2>1, ThreadTruthful
<1>3. CASE Succeed(t)
  <2>1. at'[t] = Rest /\ \A u \in Threads \ {t} : at'[u] = at[u]
    BY <1>3, StopTypes DEF Succeed, Control
  <2>2. In(t, "inside") /\ gen' = gen /\ Stop(t)
    BY <1>3 DEF Succeed
  <2>3. CASE /\ at[t].call \in {"connect", "listen"}
             /\ \E to \in SockStates : Establish(t, to)
    BY <2>2, <2>3, EstablishTruthful
  <2>4. ASSUME NEW c \in Wrappers, Accepted(c)
        PROVE  \A v \in Wrappers : TruthfulOf(v)'
    <3>1. /\ c \notin made /\ raced' = raced
          /\ \E n \in Numbers : NewSocket(c, Now(c), n)
          /\ \A v \in Wrappers \ {c} : state'[v] = state[v]
      BY <2>4 DEF Accepted, Control, TypeOK
    <3>2. Closers(c) = {}
      BY <3>1 DEF Control, ThreadOK, Closers, In
    <3>3. QED
      BY <2>1, <2>2, <3>1, <3>2, NewSocketTruthful
  <2>5. CASE UNCHANGED <<kernel, made, sock, state, raced>>
    BY <2>1, <2>2, <2>5, ThreadTruthful DEF kernel, Rest
  <2>6. QED
    BY <1>3, <2>3, <2>4, <2>5 DEF Succeed, SockStates
<1>4. CASE Fail(t)
  <2>1. UNCHANGED <<table, gen, sock, raced>>
    BY <1>4 DEF Fail, kernel, history
  <2>2. at'[t].pc \in {"idle", "shutdown"} /\ \A u \in Threads \ {t} : at'[u] = at[u]
    <3>1. CASE Stop(t)
      BY <3>1, StopTypes DEF Control, Rest
    <3>2. CASE RawSendFails(t)
      BY <3>2 DEF RawSendFails, Rest, Control, TypeOK
    <3>3. QED
      BY <1>4, <3>1, <3>2 DEF Fail, ReadFails, HandshakeFails
  <2>3. state' = state \/ state' = [state EXCEPT ![W(t)] = "ERROR"]
    BY <1>4 DEF Fail, ReadFails, RawSendFails, HandshakeFails
  <2>4. \A v \in Wrappers : \/ state'[v] = state[v]
                           \/ state'[v] \notin {"CONNECTED", "LISTENING"}
    BY <2>3 DEF Control, TypeOK
  <2>5. QED
    BY <2>1, <2>2, <2>4, ThreadTruthful
<1>5. QED
  BY <1>1, <1>2, <1>3, <1>4, CloseTruthful DEF SocketCall

LEMMA RenewTruthful ==
  ASSUME Control, Descriptors, Truthful, Renew
  PROVE  \A v \in Wrappers : TruthfulOf(v)'
<1> SUFFICES ASSUME NEW v \in Wrappers PROVE TruthfulOf(v)'
  OBVIOUS
<1> DEFINE w == W(LuaThread)
<1>1. /\ w \in Wrappers /\ LuaThread \in Threads /\ In(LuaThread, "renew")
      /\ \A u \in Threads \ {LuaThread} :
            ~In(u, "idle") => W(u) # w /\ W(u) \in Wrappers
  BY AloneInRenew DEF Renew, Threads
<1>2. /\ at'[LuaThread] = Rest
      /\ \A u \in Threads \ {LuaThread} : at'[u] = at[u]
  BY <1>1, StopTypes DEF Renew, Control
<1>3. /\ \A n \in Numbers :
            table'[n] = IF check(w) /\ n = sock[w] THEN None ELSE table[n]
      /\ v # w => sock'[v] = sock[v] /\ Now(v)' = Now(v) /\ state'[v] = state[v]
      /\ raced' = raced \ {w} /\ state'[w] = "DISCONNECTED"
  BY <1>1 DEF Renew, Destroyed, Now, Control, TypeOK
<1>4. CASE v = w
  BY <1>3, <1>4 DEF TruthfulOf
<1>5. CASE v # w
  <2>1. TruthfulOf(v) /\ Closers(v)' \subseteq Closers(v)
    BY <1>2, TruthfulIs DEF Closers, W, Rest
  <2>2. Cleared(w)
    BY <1>1 DEF Cleared, In
  <2>3. Owned(v) => sock[v] # sock[w]
    BY <1>1, <1>5, <2>2, ReadsOwn, Names DEF Owned, Control
  <2>4. Owned(v) => Owned(v)'
    BY <1>3, <1>5, <2>3 DEF Owned
  <2>5. QED
    BY <1>3, <1>5, <2>1, <2>4, TruthfulKept
<1>6. QED
  BY <1>4, <1>5

LEMMA ScriptTruthful ==
  ASSUME Control, Descriptors, Truthful, ~clashed, Script
  PROVE  \A v \in Wrappers : TruthfulOf(v)'
<1>1. LuaThread \in Threads
  BY DEF Threads
<1>2. ASSUME NEW w \in Wrappers, BromSock(w) \/ CreateWorkers(w)
      PROVE  \A v \in Wrappers : TruthfulOf(v)'
  <2>1. UNCHANGED <<table, gen, sock, state, at, raced>> /\ In(LuaThread, "idle")
    BY <1>2 DEF BromSock, CreateWorkers, kernel, ezsock, history
  <2>2. QED
    BY <1>1, <2>1, ThreadTruthful DEF In
<1>3. ASSUME NEW w \in Wrappers, StartSSLClient(w)
      PROVE  \A v \in Wrappers : TruthfulOf(v)'
  <2>1. /\ UNCHANGED <<table, gen, sock, state, raced>>
        /\ at'[LuaThread].pc = "enter"
        /\ \A u \in Threads \ {LuaThread} : at'[u] = at[u]
    BY <1>1, <1>3 DEF StartSSLClient, kernel, ezsock, history, Control, TypeOK
  <2>2. QED
    BY <1>1, <2>1, ThreadTruthful
<1>4. ASSUME NEW w \in Wrappers, Reset(w)
      PROVE  \A v \in Wrappers : TruthfulOf(v)'
  <2>1. /\ UNCHANGED <<table, gen, sock, state, raced>>
        /\ at'[LuaThread].pc = "shutdown"
        /\ \A u \in Threads \ {LuaThread} : at'[u] = at[u]
    BY <1>1, <1>4 DEF Reset, kernel, ezsock, history, Rest, Control, TypeOK
  <2>2. QED
    BY <1>1, <2>1, ThreadTruthful
<1>5. CASE KillRaise \/ KillWait
  <2>1. /\ UNCHANGED <<table, gen, sock, state, raced>>
        /\ at'[LuaThread].pc \in {"wait", "renew"}
        /\ \A u \in Threads \ {LuaThread} : at'[u] = at[u]
    BY <1>1, <1>5, GoTypes
    DEF KillRaise, KillWait, PCs, kernel, ezsock, history, Control
  <2>2. QED
    BY <1>1, <2>1, ThreadTruthful
<1>6. ASSUME NEW w \in Wrappers, Create(w)
      PROVE  \A v \in Wrappers : TruthfulOf(v)'
  <2>1. /\ ~check(w) /\ UNCHANGED <<gen, at, raced>>
        /\ state' = [state EXCEPT ![w] = "DISCONNECTED"]
        /\ \/ \E n \in Numbers : NewSocket(w, Now(w), n)
           \/ sock' = [sock EXCEPT ![w] = INVALID_SOCKET] /\ table' = table
    BY <1>6 DEF Create, kernel
  <2>2. /\ state'[w] = "DISCONNECTED"
        /\ \A v \in Wrappers \ {w} : state'[v] = state[v]
    BY <2>1 DEF Control, TypeOK
  <2>3. CASE \E n \in Numbers : NewSocket(w, Now(w), n)
    BY <2>1, <2>2, <2>3, NewSocketTruthful
  <2>4. CASE sock' = [sock EXCEPT ![w] = INVALID_SOCKET] /\ table' = table
    <3>1. ASSUME NEW v \in Wrappers \ {w} PROVE TruthfulOf(v)'
      <4>1. TruthfulOf(v) /\ Closers(v)' = Closers(v) /\ Now(v)' = Now(v)
        BY <2>1, TruthfulIs DEF Closers, W, Now
      <4>2. Owned(v) => Owned(v)'
        BY <2>1, <2>4, <4>1 DEF Owned, Control, TypeOK
      <4>3. QED
        BY <2>1, <2>2, <4>1, <4>2, TruthfulKept
    <3>2. TruthfulOf(w)'
      BY <2>2 DEF TruthfulOf
    <3>3. QED
      BY <3>1, <3>2
  <2>5. QED
    BY <2>1, <2>3, <2>4
<1>7. QED
  BY <1>2, <1>3, <1>4, <1>5, <1>6, RenewTruthful DEF Script

LEMMA TruthfulStep ==
  Control /\ Control' /\ Descriptors /\ Truthful /\ [Next]_vars => Truthful'
<1> SUFFICES ASSUME Control, Control', Descriptors, Truthful, [Next]_vars
             PROVE  Truthful'
  OBVIOUS
<1>1. CASE Next
  <2>1. \A v \in Wrappers : TruthfulOf(v)'
    BY <1>1, SocketCallTruthful, ScriptTruthful DEF Next
  <2>2. \A t \in Threads : at'[t].pc \in {"close", "clear"} => W(t)' \in Wrappers
    BY DEF Control, ThreadOK, TypeOK, In, W
  <2>3. ClosingSaysSo'
    BY <2>1, <2>2 DEF TruthfulOf, ClosingSaysSo, Closers, W
  <2>4. QED
    BY <2>1, <2>3 DEF Truthful, StateTruthful, TruthfulOf
<1>2. CASE UNCHANGED vars
  BY <1>2 DEF vars, kernel, ezsock, history, Truthful, StateTruthful, ClosingSaysSo,
              Owned, W, Now
<1>3. QED
  BY <1>1, <1>2

LEMMA TruthfulInit == Init => Truthful
  BY DEF Init, Truthful, StateTruthful, ClosingSaysSo, Rest

LEMMA TruthfulAlways == Spec => []Truthful
  BY TruthfulInit, TruthfulStep, ControlAlways, DescriptorsAlways, PTL DEF Spec

\* An EzSock that says it is connected or listening has its own descriptor,
\* unless connect or listen came back while it was being closed.
THEOREM StateInvariant == Spec => []StateTruthful
<1>1. Truthful => StateTruthful
  BY DEF Truthful
<1>2. QED
  BY <1>1, TruthfulAlways, PTL

-----------------------------------------------------------------------------
(* SSL sessions.                                                            *)

Safe == SessionSafe /\ SessionOwned

\* A session in use, by a wrapper or a thread, is one that was made.
LEMMA SessionsMade ==
  ASSUME Control, Safe
  PROVE  /\ sessions \in [1..Len(sessions) -> Session] /\ Len(sessions) \in Nat
         /\ DOMAIN sessions = 1..Len(sessions)
         /\ \A w \in Wrappers : ssl[w] # 0 => ssl[w] \in 1..Len(sessions)
         /\ \A t \in Threads : at[t].ses # 0 => at[t].ses \in 1..Len(sessions)
<1>1. /\ sessions \in [1..Len(sessions) -> Session] /\ Len(sessions) \in Nat
      /\ DOMAIN sessions = 1..Len(sessions)
  BY LenProperties DEF Control, TypeOK
<1>2. \A w \in Wrappers : ssl[w] \in 0..Len(sessions)
  BY DEF Control, TypeOK
<1>3. QED
  BY <1>1, <1>2 DEF Safe, SessionOwned

\* A step of t that leaves the sessions and the EzSocks as they are.
LEMMA ThreadSafe ==
  ASSUME Control, Safe, NEW t \in Threads, UNCHANGED <<gen, ssl, sessions>>,
         \A u \in Threads \ {t} : at'[u] = at[u],
         \/ at'[t].ses = 0
         \/ at'[t].ses = at[t].ses /\ at'[t].w = at[t].w
         \/ at'[t].w \in Wrappers /\ at'[t].ses = ssl[at'[t].w]
  PROVE  Safe'
<1>1. SessionOwned'
  <2>1. ASSUME NEW u \in Threads, at'[u].ses # 0
        PROVE  at'[u].ses \in DOMAIN sessions /\ sessions[at'[u].ses].of[1] = at'[u].w
    <3>1. CASE at'[u].ses = at[u].ses /\ at'[u].w = at[u].w
      BY <2>1, <3>1 DEF Safe, SessionOwned, W
    <3>2. CASE at'[u].w \in Wrappers /\ at'[u].ses = ssl[at'[u].w]
      <4>1. ssl[at'[u].w] \in DOMAIN sessions
        BY <2>1, <3>2, SessionsMade
      <4>2. sessions[ssl[at'[u].w]].of = <<at'[u].w, gen[at'[u].w]>>
        BY <2>1, <3>2 DEF Safe, SessionSafe, Now
      <4>3. QED
        BY <3>2, <4>1, <4>2
    <3>3. QED
      BY <2>1, <3>1, <3>2
  <2>2. QED
    BY <2>1 DEF SessionOwned, W
<1>2. SessionSafe'
  <2>1. ASSUME NEW u \in Threads, at'[u].ses # 0
        PROVE  sessions[at'[u].ses].freed # "kill"
    <3>1. CASE at'[u].ses = at[u].ses
      BY <2>1, <3>1 DEF Safe, SessionSafe
    <3>2. CASE at'[u].w \in Wrappers /\ at'[u].ses = ssl[at'[u].w]
      BY <2>1, <3>2 DEF Safe, SessionSafe
    <3>3. QED
      BY <2>1, <3>1, <3>2
  <2>2. \A w \in Wrappers : ssl[w] # 0 => sessions[ssl[w]].of = Now(w)'
                                       /\ sessions[ssl[w]].freed = "no"
    BY DEF Safe, SessionSafe, Now
  <2>3. QED
    BY <2>1, <2>2 DEF SessionSafe
<1>3. QED
  BY <1>1, <1>2 DEF Safe

\* A handshake that fails frees the session it was for, and no other wrapper has
\* that session.
LEMMA HandshakeFailsSafe ==
  ASSUME Control, Safe, NEW t \in Threads, HandshakeFails(t), UNCHANGED gen
  PROVE  Safe'
<1> DEFINE s == at[t].ses
<1>1. /\ at'[t] = Rest /\ \A u \in Threads \ {t} : at'[u] = at[u]
      /\ \A w \in Wrappers : ssl'[w] = IF w = W(t) THEN 0 ELSE ssl[w]
      /\ \A w \in Wrappers : Now(w)' = Now(w)
  BY StopTypes, SslForgets DEF HandshakeFails, Control, Now
<1>2. /\ DOMAIN sessions' = DOMAIN sessions
      /\ \A r \in DOMAIN sessions :
            /\ sessions'[r].of = sessions[r].of
            /\ sessions'[r].freed = IF r = s THEN "failed" ELSE sessions[r].freed
  <2>1. sessions' = [sessions EXCEPT ![s].freed = "failed"]
    BY DEF HandshakeFails
  <2>2. \A r \in DOMAIN sessions : sessions[r] \in Session
    BY SessionsMade
  <2>3. \A r \in DOMAIN sessions :
           sessions'[r] = IF r = s THEN [sessions[r] EXCEPT !.freed = "failed"]
                          ELSE sessions[r]
    BY <2>1, FreedTypes DEF Control
  <2>4. QED
    BY <2>1, <2>2, <2>3 DEF Session
<1> HIDE DEF s
<1>3. SessionOwned'
  BY <1>1, <1>2 DEF Safe, SessionOwned, W, Rest
<1>4. ASSUME NEW w \in Wrappers, ssl'[w] # 0
      PROVE  sessions'[ssl'[w]].of = Now(w)' /\ sessions'[ssl'[w]].freed = "no"
  <2>1. w # W(t) /\ ssl'[w] = ssl[w] /\ ssl[w] \in DOMAIN sessions
    BY <1>1, <1>4, SessionsMade
  <2>2. sessions[ssl[w]].of = Now(w) /\ sessions[ssl[w]].freed = "no"
    BY <1>4, <2>1 DEF Safe, SessionSafe
  <2>3. ssl[w] # s
    <3>1. SUFFICES ASSUME ssl[w] = s PROVE FALSE
      OBVIOUS
    <3>2. sessions[s].of[1] = W(t)
      BY <1>4, <2>1, <3>1 DEF Safe, SessionOwned, s
    <3>3. sessions[s].of[1] = w
      BY <2>2, <3>1 DEF Now
    <3>4. QED
      BY <2>1, <3>2, <3>3
  <2>4. QED
    BY <1>1, <1>2, <2>1, <2>2, <2>3
<1>5. ASSUME NEW u \in Threads, at'[u].ses # 0
      PROVE  sessions'[at'[u].ses].freed # "kill"
  <2>1. at'[u].ses = at[u].ses /\ at[u].ses \in DOMAIN sessions
    BY <1>1, <1>5, SessionsMade DEF Rest
  <2>2. QED
    BY <1>2, <1>5, <2>1 DEF Safe, SessionSafe
<1>6. QED
  BY <1>3, <1>4, <1>5 DEF Safe, SessionSafe

LEMMA SocketCallSafe ==
  ASSUME Control, Safe, NEW t \in Threads, SocketCall(t)
  PROVE  Safe'
<1>1. ASSUME NEW w \in Wrappers, NEW call \in Calls, Call(t, w, call)
      PROVE  Safe'
  <2>1. UNCHANGED <<gen, ssl, sessions>>
    BY <1>1 DEF Call, ezsock, tls
  <2>2. /\ at'[t].w = w /\ at'[t].ses \in {0, ssl[w]}
        /\ \A u \in Threads \ {t} : at'[u] = at[u]
    BY <1>1 DEF Call, Control, TypeOK
  <2>3. QED
    BY <2>1, <2>2, ThreadSafe
<1>2. CASE Enter(t)
  <2>1. /\ at'[t].ses = at[t].ses /\ at'[t].w = at[t].w
        /\ \A u \in Threads \ {t} : at'[u] = at[u]
        /\ UNCHANGED <<gen, ssl, sessions>>
    BY <1>2 DEF Enter, ezsock, tls, Control, TypeOK, Activity
  <2>2. QED
    BY <2>1, ThreadSafe
<1>3. CASE Succeed(t)
  <2>1. /\ at'[t] = Rest /\ \A u \in Threads \ {t} : at'[u] = at[u]
        /\ UNCHANGED <<gen, ssl, sessions>>
    BY <1>3, StopTypes DEF Succeed, Control, tls
  <2>2. QED
    BY <2>1, ThreadSafe DEF Rest
<1>4. CASE Fail(t)
  <2>1. CASE HandshakeFails(t)
    BY <1>4, <2>1, HandshakeFailsSafe DEF Fail
  <2>2. CASE UNCHANGED tls /\ (Stop(t) \/ RawSendFails(t))
    <3>1. at'[t].ses = 0 /\ \A u \in Threads \ {t} : at'[u] = at[u]
      <4>1. CASE Stop(t)
        BY <4>1, StopTypes DEF Control, Rest
      <4>2. CASE RawSendFails(t)
        BY <4>2 DEF RawSendFails, Rest, Control, TypeOK
      <4>3. QED
        BY <2>2, <4>1, <4>2
    <3>2. UNCHANGED <<gen, ssl, sessions>>
      BY <1>4, <2>2 DEF Fail, tls
    <3>3. QED
      BY <3>1, <3>2, ThreadSafe
  <2>3. QED
    BY <1>4, <2>1, <2>2 DEF Fail, ReadFails, RawSendFails
<1>5. CASE Close(t)
  <2>1. UNCHANGED <<gen, ssl, sessions>>
    BY <1>5 DEF Close, CloseShutdown, CloseNumber, CloseClear, ezsock, tls
  <2>2. CASE CloseShutdown(t)
    BY <2>1, <2>2, GoTypes, ThreadSafe DEF CloseShutdown, PCs, Control
  <2>3. CASE CloseClear(t)
    <3>1. CASE Go(t, "raise")
      BY <2>1, <3>1, GoTypes, ThreadSafe DEF PCs, Control
    <3>2. CASE Stop(t)
      BY <2>1, <3>2, StopTypes, ThreadSafe DEF Rest, Control
    <3>3. QED
      BY <2>3, <3>1, <3>2 DEF CloseClear
  <2>4. CASE CloseNumber(t)
    <3>1. \A u \in Threads : at'[u].ses = at[u].ses /\ at'[u].w = at[u].w
      BY <2>4 DEF CloseNumber, Control, TypeOK, Activity
    <3>2. QED
      BY <2>1, <3>1 DEF Safe, SessionSafe, SessionOwned, W, Now
  <2>5. QED
    BY <1>5, <2>2, <2>3, <2>4 DEF Close
<1>6. QED
  BY <1>1, <1>2, <1>3, <1>4, <1>5 DEF SocketCall

\* A new session is that of the EzSock which w has now.
LEMMA StartSSLClientSafe ==
  ASSUME Control, Safe, NEW w \in Wrappers, StartSSLClient(w)
  PROVE  Safe'
<1> DEFINE new == [of |-> Now(w), num |-> sock[w], freed |-> "no"]
           n == Len(sessions) + 1
<1>1. new \in Session /\ new.of = Now(w) /\ new.freed = "no"
  BY DEF Session, Now, Control, TypeOK
<1>2. sessions' = Append(sessions, new)
  BY DEF StartSSLClient
<1>3. Now(w)[1] = w
  BY DEF Now
<1> HIDE DEF new
<1>4. /\ Len(sessions') = n /\ DOMAIN sessions' = 1..n /\ Len(sessions) \in Nat
      /\ \A r \in 1..Len(sessions) : sessions'[r] = sessions[r]
      /\ sessions'[n] = new
  <2>1. /\ sessions' \in Seq(Session) /\ Len(sessions') = n
        /\ \A r \in 1..Len(sessions) : sessions'[r] = sessions[r]
        /\ sessions'[n] = new
    BY <1>1, <1>2, AppendProperties DEF Control, TypeOK
  <2>2. DOMAIN sessions' = 1..n
    BY <2>1, LenProperties
  <2>3. QED
    BY <2>1, <2>2, SessionsMade
<1>5. /\ \A v \in Wrappers : ssl'[v] = IF v = w THEN n ELSE ssl[v]
      /\ \A v \in Wrappers : Now(v)' = Now(v)
  BY <1>4 DEF StartSSLClient, ezsock, Now, Control, TypeOK
<1>6. /\ at'[LuaThread].ses = n /\ at'[LuaThread].w = w
      /\ \A u \in Threads \ {LuaThread} : at'[u] = at[u]
  BY <1>4 DEF StartSSLClient, Control, TypeOK, Threads
<1> HIDE DEF n
<1>7. ASSUME NEW u \in Threads, at'[u].ses # 0
      PROVE  /\ at'[u].ses \in DOMAIN sessions'
             /\ sessions'[at'[u].ses].of[1] = at'[u].w
             /\ sessions'[at'[u].ses].freed # "kill"
  <2>1. CASE u = LuaThread
    BY <1>1, <1>3, <1>4, <1>6, <2>1 DEF n
  <2>2. CASE u # LuaThread
    <3>1. at'[u] = at[u] /\ at[u].ses \in 1..Len(sessions)
      BY <1>6, <1>7, <2>2, SessionsMade
    <3>2. sessions[at[u].ses].of[1] = at[u].w /\ sessions[at[u].ses].freed # "kill"
      BY <1>7, <3>1 DEF Safe, SessionOwned, SessionSafe, W
    <3>3. QED
      BY <1>4, <3>1, <3>2 DEF n
  <2>3. QED
    BY <2>1, <2>2
<1>8. ASSUME NEW v \in Wrappers, ssl'[v] # 0
      PROVE  sessions'[ssl'[v]].of = Now(v)' /\ sessions'[ssl'[v]].freed = "no"
  <2>1. CASE v = w
    BY <1>1, <1>4, <1>5, <2>1
  <2>2. CASE v # w
    BY <1>4, <1>5, <1>8, <2>2, SessionsMade DEF Safe, SessionSafe
  <2>3. QED
    BY <2>1, <2>2
<1>9. QED
  BY <1>7, <1>8 DEF Safe, SessionSafe, SessionOwned, W

\* KillWorkers frees the session when the workers of the wrapper have stopped;
\* threads of other wrappers have other sessions.
LEMMA KillWaitSafe ==
  ASSUME Control, Safe, KillWait
  PROVE  Safe'
<1> DEFINE w == W(LuaThread)
<1>1. LuaThread \in Threads /\ In(LuaThread, "wait") /\ w \in Wrappers
      /\ at[LuaThread].ses = 0
  BY DEF KillWait, Threads, In, Control, ThreadOK, TypeOK
<1>2. /\ at'[LuaThread].ses = 0
      /\ \A u \in Threads \ {LuaThread} : at'[u] = at[u]
      /\ \A v \in Wrappers : Now(v)' = Now(v)
  BY <1>1, GoTypes DEF KillWait, PCs, Control, ezsock, Now
<1>3. /\ \A v \in Wrappers : ssl'[v] = IF v = w THEN 0 ELSE ssl[v]
      /\ DOMAIN sessions' = DOMAIN sessions
      /\ \A r \in DOMAIN sessions :
            /\ sessions'[r].of = sessions[r].of
            /\ sessions'[r].freed = IF r = ssl[w] THEN "kill" ELSE sessions[r].freed
  <2>1. SessionKilled(w)
    BY DEF KillWait
  <2>2. /\ \A v \in Wrappers : ssl'[v] = IF v = w THEN 0 ELSE ssl[v]
        /\ \A r \in DOMAIN sessions :
              sessions'[r] = IF r = ssl[w] THEN [sessions[r] EXCEPT !.freed = "kill"]
                             ELSE sessions[r]
    BY <1>1, <2>1, KilledTypes DEF Control
  <2>3. \A r \in DOMAIN sessions : sessions[r] \in Session
    BY SessionsMade
  <2>4. DOMAIN sessions' = DOMAIN sessions
    BY <2>1 DEF SessionKilled
  <2>5. QED
    BY <2>2, <2>3, <2>4 DEF Session
<1>4. ASSUME NEW u \in Threads, at'[u].ses # 0
      PROVE  /\ at'[u].ses \in DOMAIN sessions'
             /\ sessions'[at'[u].ses].of[1] = at'[u].w
             /\ sessions'[at'[u].ses].freed # "kill"
  <2>1. /\ u # LuaThread /\ at'[u] = at[u] /\ at[u].ses \in DOMAIN sessions
        /\ sessions[at[u].ses].of[1] = W(u) /\ sessions[at[u].ses].freed # "kill"
    BY <1>2, <1>4 DEF Safe, SessionOwned, SessionSafe
  <2>2. W(u) # w
    <3>1. u \in Workers /\ ~In(u, "idle")
      BY <1>4, <2>1 DEF Threads, Control, ThreadOK, In
    <3>2. W(u) = Home[u]
      BY <2>1, <3>1 DEF Control, ThreadOK
    <3>3. QED
      BY <3>1, <3>2 DEF KillWait
  <2>3. at[u].ses # ssl[w]
    <3>1. SUFFICES ASSUME at[u].ses = ssl[w] PROVE FALSE
      OBVIOUS
    <3>2. sessions[ssl[w]].of = Now(w)
      BY <1>1, <1>4, <2>1, <3>1 DEF Safe, SessionSafe
    <3>3. QED
      BY <2>1, <2>2, <3>1, <3>2 DEF Now
  <2>4. QED
    BY <1>3, <2>1, <2>3 DEF W
<1>5. ASSUME NEW v \in Wrappers, ssl'[v] # 0
      PROVE  sessions'[ssl'[v]].of = Now(v)' /\ sessions'[ssl'[v]].freed = "no"
  <2>1. v # w /\ ssl'[v] = ssl[v] /\ ssl[v] \in DOMAIN sessions
    BY <1>3, <1>5, SessionsMade
  <2>2. sessions[ssl[v]].of = Now(v) /\ sessions[ssl[v]].freed = "no"
    BY <1>5, <2>1 DEF Safe, SessionSafe
  <2>3. ssl[v] # ssl[w]
    <3>1. SUFFICES ASSUME ssl[v] = ssl[w] PROVE FALSE
      OBVIOUS
    <3>2. sessions[ssl[w]].of = Now(w)
      BY <1>1, <1>5, <2>1, <3>1 DEF Safe, SessionSafe
    <3>3. QED
      BY <1>1, <2>1, <2>2, <3>1, <3>2, Names DEF Control
  <2>4. QED
    BY <1>2, <1>3, <2>1, <2>2, <2>3
<1>6. QED
  BY <1>4, <1>5 DEF Safe, SessionSafe, SessionOwned, W

\* Before Reset makes a new EzSock, the session of the old one is gone.
LEMMA RenewSafe ==
  ASSUME Control, Safe, Renew
  PROVE  Safe'
<1> DEFINE w == W(LuaThread)
<1>1. LuaThread \in Threads /\ w \in Wrappers /\ ssl[w] = 0
  BY DEF Renew, Threads, In, Control, ThreadOK, TypeOK
<1>2. /\ at'[LuaThread] = Rest
      /\ \A u \in Threads \ {LuaThread} : at'[u] = at[u]
      /\ UNCHANGED <<ssl, sessions>>
      /\ \A v \in Wrappers \ {w} : Now(v)' = Now(v)
  BY <1>1, StopTypes DEF Renew, Control, tls, Now, TypeOK
<1>3. SessionOwned'
  BY <1>2 DEF Safe, SessionOwned, W, Rest
<1>4. ASSUME NEW v \in Wrappers, ssl'[v] # 0
      PROVE  sessions'[ssl'[v]].of = Now(v)' /\ sessions'[ssl'[v]].freed = "no"
  BY <1>1, <1>2, <1>4 DEF Safe, SessionSafe
<1>5. ASSUME NEW u \in Threads, at'[u].ses # 0
      PROVE  sessions'[at'[u].ses].freed # "kill"
  BY <1>2, <1>5 DEF Safe, SessionSafe, Rest
<1>6. QED
  BY <1>3, <1>4, <1>5 DEF Safe, SessionSafe

LEMMA ScriptSafe ==
  ASSUME Control, Safe, Script
  PROVE  Safe'
<1>1. LuaThread \in Threads
  BY DEF Threads
<1>2. ASSUME NEW w \in Wrappers, BromSock(w) \/ Create(w) \/ CreateWorkers(w)
      PROVE  Safe'
  <2>1. UNCHANGED <<gen, ssl, sessions, at>>
    BY <1>2 DEF BromSock, Create, CreateWorkers, ezsock, tls
  <2>2. QED
    BY <1>1, <2>1, ThreadSafe
<1>3. ASSUME NEW w \in Wrappers, Reset(w) PROVE Safe'
  <2>1. /\ at'[LuaThread].ses = 0 /\ UNCHANGED <<gen, ssl, sessions>>
        /\ \A u \in Threads \ {LuaThread} : at'[u] = at[u]
    BY <1>1, <1>3 DEF Reset, Rest, ezsock, tls, Control, TypeOK
  <2>2. QED
    BY <1>1, <2>1, ThreadSafe
<1>4. CASE KillRaise
  <2>1. UNCHANGED <<gen, ssl, sessions>>
    BY <1>4 DEF KillRaise, ezsock, tls
  <2>2. QED
    BY <1>1, <1>4, <2>1, GoTypes, ThreadSafe DEF KillRaise, PCs, Control
<1>5. QED
  BY <1>2, <1>3, <1>4, StartSSLClientSafe, KillWaitSafe, RenewSafe DEF Script

LEMMA SafeInit == Init => Safe
  BY DEF Init, Safe, SessionSafe, SessionOwned, Rest

LEMMA SafeStep == Control /\ Safe /\ [Next]_vars => Safe'
<1> SUFFICES ASSUME Control, Safe, [Next]_vars PROVE Safe'
  OBVIOUS
<1>1. CASE Next
  BY <1>1, SocketCallSafe, ScriptSafe DEF Next
<1>2. CASE UNCHANGED vars
  BY <1>2 DEF vars, ezsock, tls, Safe, SessionSafe, SessionOwned, W, Now
<1>3. QED
  BY <1>1, <1>2

LEMMA SafeAlways == Spec => []Safe
  BY SafeInit, SafeStep, ControlAlways, PTL DEF Spec

\* The session of a wrapper is never one of an EzSock that Reset has deleted, and
\* KillWorkers frees none that a thread works with.
THEOREM SessionInvariant == Spec => []SessionSafe
<1>1. Safe => SessionSafe
  BY DEF Safe
<1>2. QED
  BY <1>1, SafeAlways, PTL

=============================================================================
