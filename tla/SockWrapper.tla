---------------------------- MODULE SockWrapper ----------------------------
(***************************************************************************)
(* One SockWrapper of gm_bromsock: its request queues, its pool of worker   *)
(* threads, the Lua thread that calls the SOCK_* functions and runs         *)
(* Engine::Think, and the life of the EzSock it points to.                  *)
(*                                                                         *)
(* A thread has a program counter and a stack of the C++ and Lua frames it  *)
(* returns to, because Lua callbacks call back into the module: Think calls *)
(* a callback, the callback closes the socket, closing it calls the         *)
(* Disconnect callback, and so on.  A worker thread gets a stack as well:   *)
(* when an accept fails on it, ~SockWrapper calls Engine::Think there.      *)
(***************************************************************************)
EXTENDS Integers, Sequences, FiniteSets

CONSTANTS
    Workers,        \* every thread that may ever run SockWorkerFunction
    LuaThread,      \* the thread of the game server that owns the lua_State
    Nobody,         \* the owner of a mutex that is not locked
    Registered,     \* the events the script has set a callback for
    Calls,          \* the module functions the script calls
    MaxEvents,      \* bound: requests the script queues
    MaxNest         \* bound: frames below a script that calls a function
                    \* which calls scripts

Types == {"Connect", "Accept", "Send", "SendTo", "Receive", "ReceiveFrom"}
AllCalls == Types \union {"Create", "Listen", "AddWorker", "Close", "Error",
                          "ShutDown"}

ASSUME WorkersAssumption ==
    /\ IsFiniteSet(Workers)
    /\ LuaThread \notin Workers
    /\ Nobody \notin Workers \union {LuaThread}
ASSUME ScriptAssumption ==
    /\ Registered \subseteq Types \union {"Disconnect"}
    /\ Calls \subseteq AllCalls
ASSUME BoundAssumption == MaxEvents \in Nat /\ MaxNest \in Nat

Threads == Workers \union {LuaThread}

VARIABLES
    mutex,          \* SockWrapper::Mutex: its owner, or Nobody
    Todo,           \* SockWrapper::Todo
    Callbacks,      \* SockWrapper::Callbacks
    CurrentWorkers, \* SockWrapper::CurrentWorkers
    DestoryWorkers, \* SockWrapper::DestoryWorkers
    old,            \* the local of CreateWorkers that saves DestoryWorkers
    DidDisconnectCallback,
    open,           \* Sock->sock is a descriptor (EzSock::check)
    state,          \* Sock->state
    dangling,       \* Sock has been deleted and does not point to a new EzSock
    tick,           \* Engine::IntialTickHappend
    pc,             \* where each thread is
    stack,          \* the frames below it, innermost first
    cur,            \* the SockEvent a worker holds (cur, then ne)
    using,          \* what the Sock pointer a worker has loaded points to
    issued,         \* history: requests queued so far
    delivered,      \* history: ids of the results Think has handled
    shut,           \* history: the game has called the ShutDown hook
    orphans         \* history: threads that existed but were not counted when
                    \* KillWorkers saw CurrentWorkers = 0, and their children

queue  == <<Todo, Callbacks, issued, delivered>>
pool   == <<CurrentWorkers, DestoryWorkers, old, orphans>>
ezsock == <<open, state, dangling, DidDisconnectCallback>>
engine == <<tick, shut>>
thread == <<pc, stack, cur, using>>
vars   == <<mutex, queue, pool, ezsock, engine, thread>>

SockStates == {"DISCONNECTED", "CONNECTED", "LISTENING", "ERROR"}

\* "big" is a frame length outside 0..MaxReceiveSize, which makes Think throw.
Results == {"none", "ok", "fail", "big"}
Outcomes(type) == IF type = "Receive" THEN {"ok", "fail", "big"}
                                      ELSE {"ok", "fail"}

SockEvent == [id : Nat, type : Types, res : Results]
NoEvent == [id |-> 0, type |-> "none", res |-> "none"]

\* Labels of SockWorkerFunction; the others are the frames of a thread that
\* runs scripts: a script, Think, a throw, Reset, KillWorkers, CreateWorkers.
WorkerLabels == {"unborn", "new", "top", "take", "load", "io", "post", "exit",
                 "done"}
LuaLabels == {"lua", "think", "throw", "kill", "raise", "wait", "lower",
              "drop", "renew", "create", "spawn", "connect", "hook", "panic"}
Frames == {"lua", "think", "throw", "kill", "connect", "hook", "post"}

Unborn == {w \in Workers : pc[w] = "unborn"}
Uncounted == {w \in Workers : pc[w] = "new"}

\* Where a worker holds no event.
Idle == {"unborn", "new", "top", "take", "exit", "done"}

\* The workers between CurrentWorkers++ and CurrentWorkers--.
Counted == {w \in Workers : pc[w] \notin {"unborn", "new", "done"}}

Init ==
    /\ mutex = Nobody
    /\ Todo = <<>> /\ Callbacks = <<>>
    /\ CurrentWorkers = 0 /\ DestoryWorkers = FALSE /\ old = FALSE
    /\ DidDisconnectCallback = FALSE
    /\ open = FALSE /\ state = "DISCONNECTED" /\ dangling = FALSE
    /\ tick = FALSE /\ shut = FALSE
    /\ pc = [t \in Threads |-> IF t = LuaThread THEN "lua" ELSE "unborn"]
    /\ stack = [t \in Threads |-> <<>>]
    /\ cur = [w \in Workers |-> NoEvent]
    /\ using = [w \in Workers |-> "none"]
    /\ issued = 0 /\ delivered = {} /\ orphans = {}

-----------------------------------------------------------------------------
(* Control flow of a thread.                                                *)

Go(t, label) == pc' = [pc EXCEPT ![t] = label] /\ UNCHANGED stack

\* Call: run `label' and come back to the frames fs, innermost first.
Call(t, label, fs) ==
    /\ pc' = [pc EXCEPT ![t] = label]
    /\ stack' = [stack EXCEPT ![t] = fs \o @]

Return(t) ==
    /\ pc' = [pc EXCEPT ![t] = Head(stack[t])]
    /\ stack' = [stack EXCEPT ![t] = Tail(@)]

\* CallDisconnect, returning to `label' on top of the frames fs.
CallDisconnect(t, label, fs) ==
    IF DidDisconnectCallback \/ "Disconnect" \notin Registered
    THEN Call(t, label, fs) /\ UNCHANGED <<DidDisconnectCallback, state>>
    ELSE /\ Call(t, "lua", <<label>> \o fs)
         /\ DidDisconnectCallback' = TRUE
         /\ state' = IF dangling THEN state ELSE "DISCONNECTED"

-----------------------------------------------------------------------------
(* The operations on the EzSock: what an operation of a type does to it     *)
(* when it ends with the result res.  It succeeds only if it entered with a *)
(* descriptor (had), which another thread may have closed since: a connect  *)
(* that comes back after that still says CONNECTED.  A short or refused     *)
(* write closes the socket, a failed read leaves it in skERROR.             *)

Operation(type, res, had) ==
    \/ /\ type = "Connect" /\ res = "ok" /\ had
       /\ state' = "CONNECTED" /\ UNCHANGED open
    \/ /\ type \in {"Connect", "Accept", "ReceiveFrom"} /\ res = "fail"
       /\ UNCHANGED <<open, state>>
    \/ /\ type \in {"Accept", "ReceiveFrom", "Receive"} /\ res = "ok" /\ had
       /\ UNCHANGED <<open, state>>
    \/ type = "SendTo" /\ UNCHANGED <<open, state>>
    \/ /\ type = "Send"
       /\ \/ UNCHANGED <<open, state>>
          \/ open' = FALSE /\ state' = "DISCONNECTED"
       /\ res = IF state' = "CONNECTED" THEN "ok" ELSE "fail"
    \/ /\ type = "Receive" /\ res = "fail"
       /\ state' \in {state, "ERROR"} /\ UNCHANGED open
    \/ /\ type = "Receive" /\ res = "big"
       /\ UNCHANGED <<open, state>>

-----------------------------------------------------------------------------
(* SockWorkerFunction, on thread w.                                         *)

\* A thread counts itself, some time after pthread_create made it.
WorkerStart(w) ==
    /\ pc[w] = "new" /\ mutex = Nobody
    /\ CurrentWorkers' = CurrentWorkers + 1
    /\ Go(w, "top")
    /\ UNCHANGED <<mutex, queue, DestoryWorkers, old, orphans, ezsock, engine,
                   cur, using>>

\* The unlocked tests at the head of the loop; before the first tick the
\* worker sleeps and tests again.
WorkerTop(w) ==
    /\ pc[w] = "top"
    /\ \/ DestoryWorkers /\ Go(w, "exit")
       \/ ~DestoryWorkers /\ tick /\ Go(w, "take")
    /\ UNCHANGED <<mutex, queue, pool, ezsock, engine, cur, using>>

\* Mutant: the event taken is not erased from Todo.
WorkerTakeKeeps(w) ==
    /\ pc[w] = "take" /\ mutex = Nobody
    /\ IF Todo = <<>>
       THEN Go(w, "top") /\ UNCHANGED cur
       ELSE cur' = [cur EXCEPT ![w] = Head(Todo)] /\ Go(w, "load")
    /\ UNCHANGED <<mutex, queue, pool, ezsock, engine, using>>

\* Under the mutex, the oldest request if there is one.
WorkerTake(w) ==
    /\ pc[w] = "take" /\ mutex = Nobody
    /\ IF Todo = <<>>
       THEN Go(w, "top") /\ UNCHANGED <<Todo, cur>>
       ELSE /\ cur' = [cur EXCEPT ![w] = Head(Todo)]
            /\ Todo' = Tail(Todo)
            /\ Go(w, "load")
    /\ UNCHANGED <<mutex, Callbacks, issued, delivered, pool, ezsock, engine,
                   using>>

\* What the EzSock is to a call that loads the pointer now: deleted, with a
\* descriptor, or without one.
Entering == IF dangling THEN "freed" ELSE IF open THEN "live" ELSE "shut"

\* Mutant: one more test of DestoryWorkers, with the event in hand.
WorkerLoadQuits(w) ==
    /\ pc[w] = "load"
    /\ using' = [using EXCEPT ![w] = Entering]
    /\ Go(w, IF DestoryWorkers THEN "exit" ELSE "io")
    /\ UNCHANGED <<mutex, queue, pool, ezsock, engine, cur>>

\* The worker reads sock->Sock, unlocked, and enters the socket call with the
\* descriptor it finds there.
WorkerLoad(w) ==
    /\ pc[w] = "load"
    /\ using' = [using EXCEPT ![w] = Entering]
    /\ Go(w, "io")
    /\ UNCHANGED <<mutex, queue, pool, ezsock, engine, cur>>

\* The socket call ends.  On an EzSock that has been deleted anything may come
\* out of it.  A failed accept deletes the SockWrapper made for the client,
\* whose destructor calls Engine::Think on this thread before ne is queued.
WorkerIO(w) ==
    /\ pc[w] = "io"
    /\ \E res \in Outcomes(cur[w].type) :
          /\ IF using[w] = "freed"
             THEN UNCHANGED <<open, state>>
             ELSE Operation(cur[w].type, res, using[w] = "live")
          /\ cur' = [cur EXCEPT ![w].res = res]
          /\ IF cur[w].type = "Accept" /\ res # "ok"
             THEN Call(w, "think", <<"post">>) /\ tick' = TRUE
             ELSE Go(w, "post") /\ UNCHANGED tick
    /\ using' = [using EXCEPT ![w] = "none"]
    /\ UNCHANGED <<mutex, queue, pool, dangling, DidDisconnectCallback,
                   shut>>

\* Mutant: the Type of ne is left at EventType::NONE.
WorkerPostUntyped(w) ==
    /\ pc[w] = "post" /\ mutex = Nobody
    /\ Callbacks' = Append(Callbacks, [cur[w] EXCEPT !.type = "none"])
    /\ cur' = [cur EXCEPT ![w] = NoEvent]
    /\ Go(w, "top")
    /\ UNCHANGED <<mutex, Todo, issued, delivered, pool, ezsock, engine, using>>

WorkerPost(w) ==
    /\ pc[w] = "post" /\ mutex = Nobody
    /\ Callbacks' = Append(Callbacks, cur[w])
    /\ cur' = [cur EXCEPT ![w] = NoEvent]
    /\ Go(w, "top")
    /\ UNCHANGED <<mutex, Todo, issued, delivered, pool, ezsock, engine, using>>

\* Mutant: a thread leaves without taking itself off the count.
WorkerExitUncounted(w) ==
    /\ pc[w] = "exit" /\ mutex = Nobody
    /\ Go(w, "done")
    /\ UNCHANGED <<mutex, queue, pool, ezsock, engine, cur, using>>

WorkerExit(w) ==
    /\ pc[w] = "exit" /\ mutex = Nobody
    /\ CurrentWorkers' = CurrentWorkers - 1
    /\ Go(w, "done")
    /\ UNCHANGED <<mutex, queue, DestoryWorkers, old, orphans, ezsock, engine,
                   cur, using>>

Worker(w) ==
    \/ WorkerStart(w)
    \/ WorkerTop(w)
    \/ WorkerTake(w)
    \/ WorkerLoad(w)
    \/ WorkerIO(w)
    \/ WorkerPost(w)
    \/ WorkerExit(w)

-----------------------------------------------------------------------------
(* CreateWorkers, on a thread t that runs scripts.                          *)

\* Lock, save DestoryWorkers and lower it.
CreateBegin(t) ==
    /\ pc[t] = "create" /\ mutex = Nobody
    /\ mutex' = t
    /\ old' = DestoryWorkers
    /\ DestoryWorkers' = FALSE
    /\ Go(t, "spawn")
    /\ UNCHANGED <<queue, CurrentWorkers, orphans, ezsock, engine, cur, using>>

\* pthread_create for every thread of ws.  A child of an orphan is one too.
Spawn(t, ws) ==
    /\ pc' = [u \in Threads |-> IF u \in ws THEN "new"
                                ELSE IF u = t THEN Head(stack[t]) ELSE pc[u]]
    /\ orphans' = IF t \in orphans THEN orphans \union ws ELSE orphans

\* Two pthread_create calls (they fail when Workers is used up; the results
\* are not looked at), then restore DestoryWorkers and unlock.
CreateEnd(t) ==
    /\ pc[t] = "spawn"
    /\ \E ws \in SUBSET Unborn :
          /\ Cardinality(ws) = IF Cardinality(Unborn) < 2
                               THEN Cardinality(Unborn) ELSE 2
          /\ Spawn(t, ws)
    /\ stack' = [stack EXCEPT ![t] = Tail(@)]
    /\ DestoryWorkers' = old
    /\ mutex' = Nobody
    /\ UNCHANGED <<queue, CurrentWorkers, old, ezsock, engine, cur, using>>

-----------------------------------------------------------------------------
(* KillWorkers and the rest of Reset, on a thread t that runs scripts.      *)

\* Mutant: the socket stays open, and blocked workers stay blocked.
KillCloseForgets(t) ==
    /\ pc[t] = "kill"
    /\ Go(t, "raise")
    /\ UNCHANGED <<mutex, queue, pool, ezsock, engine, cur, using>>

KillClose(t) ==
    /\ pc[t] = "kill"
    /\ open' = FALSE /\ state' = "DISCONNECTED"
    /\ Go(t, "raise")
    /\ UNCHANGED <<mutex, queue, pool, dangling, DidDisconnectCallback, engine,
                   cur, using>>

KillRaise(t) ==
    /\ pc[t] = "raise"
    /\ DestoryWorkers' = TRUE
    /\ Go(t, "wait")
    /\ UNCHANGED <<mutex, queue, CurrentWorkers, old, orphans, ezsock, engine,
                   cur, using>>

\* Mutant: no test of CurrentWorkers.
KillWaitShort(t) ==
    /\ pc[t] = "wait" /\ mutex = Nobody
    /\ orphans' = orphans \union Uncounted
    /\ Go(t, "lower")
    /\ UNCHANGED <<mutex, queue, CurrentWorkers, DestoryWorkers, old, ezsock,
                   engine, cur, using>>

\* The iteration of the wait loop that finds no worker counted.
KillWait(t) ==
    /\ pc[t] = "wait" /\ mutex = Nobody /\ CurrentWorkers = 0
    /\ orphans' = orphans \union Uncounted
    /\ Go(t, "lower")
    /\ UNCHANGED <<mutex, queue, CurrentWorkers, DestoryWorkers, old, ezsock,
                   engine, cur, using>>

\* Mutant: DestoryWorkers is left standing.
KillLowerForgets(t) ==
    /\ pc[t] = "lower"
    /\ Go(t, "drop")
    /\ UNCHANGED <<mutex, queue, pool, ezsock, engine, cur, using>>

KillLower(t) ==
    /\ pc[t] = "lower"
    /\ DestoryWorkers' = FALSE
    /\ Go(t, "drop")
    /\ UNCHANGED <<mutex, queue, CurrentWorkers, old, orphans, ezsock, engine,
                   cur, using>>

\* delete this->Sock
ResetDrop(t) ==
    /\ pc[t] = "drop"
    /\ dangling' = TRUE
    /\ open' = FALSE /\ state' = "DISCONNECTED"
    /\ using' = [w \in Workers |-> IF using[w] = "none" THEN "none"
                                                        ELSE "freed"]
    /\ Go(t, "renew")
    /\ UNCHANGED <<mutex, queue, pool, DidDisconnectCallback, engine, cur>>

\* this->Sock = new EzSock(), and the flag for the new one.
ResetRenew(t) ==
    /\ pc[t] = "renew"
    /\ dangling' = FALSE
    /\ DidDisconnectCallback' = FALSE
    /\ Return(t)
    /\ UNCHANGED <<mutex, queue, pool, open, state, engine, cur, using>>

-----------------------------------------------------------------------------
(* Engine::Think for this wrapper.                                          *)

\* The Lua call of a callback from Think.
Callback(t) == Call(t, "lua", <<"think">>)

\* Where the handling of the result e leaves the thread.
Handle(t, e) ==
    \/ /\ e.type = "Connect"
       /\ DidDisconnectCallback' =
             IF e.res = "ok" THEN FALSE ELSE DidDisconnectCallback
       /\ Callback(t) /\ UNCHANGED state
    \/ /\ \/ e.type \in {"Accept", "Send", "Receive"} /\ e.res = "ok"
          \/ e.type = "ReceiveFrom"
          \/ e.type = "SendTo" /\ e.type \in Registered
       /\ Callback(t) /\ UNCHANGED <<DidDisconnectCallback, state>>
    \/ /\ e.type = "SendTo" /\ e.type \notin Registered
       /\ UNCHANGED <<pc, stack, DidDisconnectCallback, state>>
    \/ /\ e.type \in {"Accept", "Send", "Receive"} /\ e.res = "fail"
       /\ CallDisconnect(t, "think", <<>>)
    \/ /\ e.type = "Receive" /\ e.res = "big"
       /\ CallDisconnect(t, "throw", <<>>)

\* Pop one result and handle it.
ThinkDeliver(t) ==
    /\ pc[t] = "think" /\ mutex = Nobody /\ Callbacks # <<>>
    /\ Callbacks' = Tail(Callbacks)
    /\ delivered' = delivered \union {Head(Callbacks).id}
    /\ Handle(t, Head(Callbacks))
    /\ UNCHANGED <<mutex, Todo, issued, pool, open, dangling, engine, cur,
                   using>>

\* Mutant: Think may return before Callbacks is empty.
ThinkDoneEarly(t) ==
    /\ pc[t] = "think" /\ mutex = Nobody
    /\ Return(t)
    /\ UNCHANGED <<mutex, queue, pool, ezsock, engine, cur, using>>

ThinkDone(t) ==
    /\ pc[t] = "think" /\ mutex = Nobody /\ Callbacks = <<>>
    /\ Return(t)
    /\ UNCHANGED <<mutex, queue, pool, ezsock, engine, cur, using>>

-----------------------------------------------------------------------------
(* The module functions, called by a script on thread t: the Lua thread, or *)
(* a worker inside a callback that Think made there.                        *)

Script(t, call) ==
    /\ pc[t] = "lua" /\ call \in Calls
    /\ t = LuaThread /\ stack[t] = <<>> => ~shut

\* EzSock::create: nothing on an open socket, and socket() may fail.
CreateSock ==
    IF open \/ dangling THEN UNCHANGED <<open, state>>
    ELSE state' = "DISCONNECTED" /\ open' \in BOOLEAN

\* Mutant: the new SockEvent overtakes those that wait.
PushFront(type) ==
    /\ mutex = Nobody
    /\ issued' = issued + 1
    /\ Todo' = <<[id |-> issued + 1, type |-> type, res |-> "none"]>> \o Todo

\* A new SockEvent at the end of Todo, under the mutex.
Push(type) ==
    /\ mutex = Nobody
    /\ issued' = issued + 1
    /\ Todo' = Append(Todo, [id |-> issued + 1, type |-> type, res |-> "none"])

\* An operation that a script runs itself, on the Sock the wrapper has now.
RunNow(type, res) ==
    IF dangling THEN UNCHANGED <<open, state>> ELSE Operation(type, res, open)

\* SOCK_Create and SOCK_Bind
LuaCreate(t) ==
    /\ Script(t, "Create")
    /\ CreateSock
    /\ UNCHANGED <<mutex, queue, pool, dangling, DidDisconnectCallback, engine,
                   thread>>

\* SOCK_Connect up to CreateWorkers; LuaConnectRest is what follows.
LuaConnect(t) ==
    /\ Script(t, "Connect") /\ issued < MaxEvents
    /\ CreateSock
    /\ Call(t, "create", <<"connect", "lua">>)
    /\ UNCHANGED <<mutex, queue, pool, dangling, DidDisconnectCallback, engine,
                   cur, using>>

LuaConnectRest(t) ==
    /\ pc[t] = "connect"
    /\ IF "Connect" \in Registered
       THEN Push("Connect") /\ UNCHANGED <<open, state>>
       ELSE (\E res \in Outcomes("Connect") : RunNow("Connect", res))
            /\ UNCHANGED <<Todo, issued>>
    /\ Return(t)
    /\ UNCHANGED <<mutex, Callbacks, delivered, pool, dangling,
                   DidDisconnectCallback, engine, cur, using>>

\* SOCK_Listen with a port: only if bind and listen succeed it has workers.
\* Without one it calls listen alone.
LuaListen(t) ==
    /\ Script(t, "Listen")
    /\ \/ CreateSock /\ UNCHANGED <<pc, stack>>
       \/ /\ ~dangling /\ open' = TRUE /\ state' = "LISTENING"
          /\ Call(t, "create", <<"lua">>)
       \/ /\ open /\ ~dangling /\ state' = "LISTENING" /\ UNCHANGED open
          /\ UNCHANGED <<pc, stack>>
    /\ UNCHANGED <<mutex, queue, pool, dangling, DidDisconnectCallback, engine,
                   cur, using>>

\* A call that only queues a request, since its callback is set.
LuaRequest(t, type) ==
    /\ Script(t, type) /\ type \in Registered /\ issued < MaxEvents
    /\ Push(type)
    /\ UNCHANGED <<mutex, Callbacks, delivered, pool, ezsock, engine, thread>>

\* A call without a callback: it blocks its thread and returns true, a packet or
\* false.  The error it throws on a "big" length is an error of the script,
\* which Unwind has.
LuaBlocking(t, type) ==
    /\ Script(t, type) /\ type \notin Registered
    /\ \E res \in Outcomes(type) : RunNow(type, res)
    /\ UNCHANGED <<mutex, queue, pool, dangling, DidDisconnectCallback, engine,
                   thread>>

\* SOCK_Send
LuaSend(t) == LuaRequest(t, "Send") \/ LuaBlocking(t, "Send")

\* SOCK_Receive, and SOCK_ReceiveUntil, whose requests have the same type.
LuaReceive(t) == LuaRequest(t, "Receive") \/ LuaBlocking(t, "Receive")

\* An accept in the call itself that fails: the SockWrapper made for the client
\* is deleted, and its destructor calls Engine::Think.
LuaAcceptFails(t) ==
    /\ Script(t, "Accept") /\ "Accept" \notin Registered
    /\ Len(stack[t]) <= MaxNest
    /\ Call(t, "think", <<"lua">>)
    /\ tick' = TRUE
    /\ UNCHANGED <<mutex, queue, pool, ezsock, shut, cur, using>>

\* SOCK_Accept; an accept in the call itself that succeeds leaves this wrapper
\* as it is.
LuaAccept(t) == LuaRequest(t, "Accept") \/ LuaAcceptFails(t)

\* Workers are made only if the unlocked CurrentWorkers is zero.
EnsureWorkers(t) ==
    IF CurrentWorkers = 0 THEN Call(t, "create", <<"lua">>)
                          ELSE UNCHANGED <<pc, stack>>

\* SOCK_SendTo, with or without a callback
LuaSendTo(t) ==
    /\ Script(t, "SendTo") /\ issued < MaxEvents
    /\ CreateSock
    /\ Push("SendTo")
    /\ EnsureWorkers(t)
    /\ UNCHANGED <<mutex, Callbacks, delivered, pool, dangling,
                   DidDisconnectCallback, engine, cur, using>>

\* SOCK_ReceiveFrom, which needs a callback and makes no descriptor
LuaReceiveFrom(t) ==
    /\ Script(t, "ReceiveFrom") /\ "ReceiveFrom" \in Registered
    /\ issued < MaxEvents
    /\ Push("ReceiveFrom")
    /\ EnsureWorkers(t)
    /\ UNCHANGED <<mutex, Callbacks, delivered, pool, ezsock, engine, cur,
                   using>>

\* SOCK_AddWorker: one pthread_create, without the mutex.
LuaAddWorker(t) ==
    /\ Script(t, "AddWorker")
    /\ \E w \in Unborn :
          /\ pc' = [pc EXCEPT ![w] = "new"]
          /\ orphans' = IF t \in orphans THEN orphans \union {w} ELSE orphans
    /\ UNCHANGED <<mutex, queue, CurrentWorkers, DestoryWorkers, old, ezsock,
                   engine, stack, cur, using>>

\* SOCK_Disconnect, which Lua also knows as Close: SockWrapper::Reset.
LuaClose(t) ==
    /\ Script(t, "Close")
    /\ Len(stack[t]) <= MaxNest
    /\ CallDisconnect(t, "kill", <<"lua">>)
    /\ UNCHANGED <<mutex, queue, pool, open, dangling, engine, cur, using>>

\* A script that the module called returns.
LuaReturn(t) ==
    /\ pc[t] = "lua" /\ stack[t] # <<>>
    /\ Return(t)
    /\ UNCHANGED <<mutex, queue, pool, ezsock, engine, cur, using>>

\* An error, of a script or from LUA->ThrowError in Think, skips every frame up
\* to a script that called the module under pcall, or up to the game.  A worker
\* has no such caller: the process is lost there.
Unwind(t) ==
    /\ \/ pc[t] = "throw"
       \/ pc[t] = "lua" /\ stack[t] # <<>> /\ "Error" \in Calls
    /\ \/ \E k \in 1..Len(stack[t]) :
             /\ stack[t][k] = "lua"
             /\ pc' = [pc EXCEPT ![t] = "lua"]
             /\ stack' = [stack EXCEPT ![t] = SubSeq(@, k + 1, Len(@))]
       \/ /\ t \in Workers
          /\ Go(t, "panic")
    /\ UNCHANGED <<mutex, queue, pool, ezsock, engine, cur, using>>

\* The game calls the Tick hook, between two scripts of its own.
Tick ==
    /\ pc[LuaThread] = "lua" /\ stack[LuaThread] = <<>> /\ ~shut
    /\ Call(LuaThread, "think", <<"lua">>)
    /\ tick' = TRUE
    /\ UNCHANGED <<mutex, queue, pool, ezsock, shut, cur, using>>

\* ShutdownHook for this wrapper: Reset, then Think; the game ticks no more.
ShutDown ==
    /\ Script(LuaThread, "ShutDown") /\ stack[LuaThread] = <<>>
    /\ CallDisconnect(LuaThread, "kill", <<"hook", "lua">>)
    /\ shut' = TRUE
    /\ UNCHANGED <<mutex, queue, pool, open, dangling, tick, cur, using>>

ShutDownThink(t) ==
    /\ pc[t] = "hook"
    /\ Go(t, "think")
    /\ tick' = TRUE
    /\ UNCHANGED <<mutex, queue, pool, ezsock, shut, cur, using>>

LuaCall(t) ==
    \/ LuaCreate(t)
    \/ LuaConnect(t)
    \/ LuaListen(t)
    \/ LuaSend(t)
    \/ LuaReceive(t)
    \/ LuaAccept(t)
    \/ LuaSendTo(t)
    \/ LuaReceiveFrom(t)
    \/ LuaAddWorker(t)
    \/ LuaClose(t)

\* What goes on inside a call, without a choice of the script.
LuaInside(t) ==
    \/ CreateBegin(t)
    \/ CreateEnd(t)
    \/ LuaConnectRest(t)
    \/ KillClose(t)
    \/ KillRaise(t)
    \/ KillWait(t)
    \/ KillLower(t)
    \/ ResetDrop(t)
    \/ ResetRenew(t)
    \/ ThinkDeliver(t)
    \/ ThinkDone(t)
    \/ ShutDownThink(t)

Next ==
    \/ \E w \in Workers : Worker(w)
    \/ \E t \in Threads :
          \/ LuaCall(t)
          \/ LuaInside(t)
          \/ LuaReturn(t)
          \/ Unwind(t)
    \/ Tick
    \/ ShutDown

Spec == Init /\ [][Next]_vars

\* Every thread is scheduled, a socket call on a closed socket returns, a call
\* on an open one need not; callbacks return, and the game goes on ticking.
Fairness ==
    /\ \A w \in Workers :
          /\ WF_vars(WorkerStart(w)) /\ WF_vars(WorkerTop(w))
          /\ WF_vars(WorkerTake(w)) /\ WF_vars(WorkerLoad(w))
          /\ WF_vars(~(using[w] = "live" /\ open) /\ WorkerIO(w))
          /\ WF_vars(WorkerPost(w)) /\ WF_vars(WorkerExit(w))
    /\ WF_vars(LuaInside(LuaThread))
    /\ WF_vars(pc[LuaThread] = "throw" /\ Unwind(LuaThread))
    /\ SF_vars(LuaReturn(LuaThread))
    /\ SF_vars(Tick)

FairSpec == Spec /\ Fairness

-----------------------------------------------------------------------------
(* Types                                                                    *)

QueueTypes ==
    /\ Todo \in Seq(SockEvent) /\ Callbacks \in Seq(SockEvent)
    /\ issued \in Nat /\ delivered \subseteq Nat
PoolTypes ==
    /\ mutex \in Threads \union {Nobody}
    /\ CurrentWorkers \in Int
    /\ DestoryWorkers \in BOOLEAN /\ old \in BOOLEAN
    /\ orphans \subseteq Workers
SockTypes ==
    /\ open \in BOOLEAN /\ state \in SockStates
    /\ dangling \in BOOLEAN /\ DidDisconnectCallback \in BOOLEAN
EngineTypes == tick \in BOOLEAN /\ shut \in BOOLEAN
ThreadTypes ==
    /\ pc \in [Threads -> WorkerLabels \union LuaLabels]
    /\ stack \in [Threads -> Seq(Frames)]
    /\ cur \in [Workers -> SockEvent \union {NoEvent}]
    /\ using \in [Workers -> {"none", "live", "shut", "freed"}]

\* Every variable has the type that its declaration in SockWrapper.h, Engine.h
\* or BSEzSock.h gives it.
TypeOK == QueueTypes /\ PoolTypes /\ SockTypes /\ EngineTypes /\ ThreadTypes

\* A worker has an event in hand from when it takes it to when it has posted
\* the result, whatever scripts it runs in between.
HandOK == \A w \in Workers : cur[w] = NoEvent <=> pc[w] \in Idle

-----------------------------------------------------------------------------
(* The worker count                                                         *)

\* CurrentWorkers, which KillWorkers and SOCK__GC trust, is the number of
\* threads between their increment and their decrement.
CountExact == CurrentWorkers = Cardinality(Counted)

-----------------------------------------------------------------------------
(* The queues                                                               *)

Ids(events) == {events[i].id : i \in 1..Len(events)}
Held == {w \in Workers : cur[w] # NoEvent}

\* Each request is at exactly one place at any time: in Todo, in issue order;
\* in the hands of one worker; among the results; or delivered.  None is lost
\* when workers are told to stop and none is handed out twice.
EventOnce ==
    /\ \A i \in 1..Len(Todo) : Todo[i].id = issued - Len(Todo) + i
    /\ \A i, j \in 1..Len(Callbacks) :
          Callbacks[i].id = Callbacks[j].id => i = j
    /\ \A v, w \in Held : cur[v].id = cur[w].id => v = w
    /\ LET held == {cur[w].id : w \in Held}
       IN /\ held \intersect Ids(Callbacks) = {}
          /\ (held \union Ids(Callbacks)) \intersect delivered = {}
          /\ held \union Ids(Callbacks) \union delivered
                = 1..(issued - Len(Todo))

RQ == INSTANCE RequestQueue WITH
         waiting <- [i \in 1..Len(Todo) |-> Todo[i].id],
         inHand <- {cur[w].id : w \in Held},
         posted <- [i \in 1..Len(Callbacks) |-> Callbacks[i].id]

\* The queues with their threads and locks implement the promise of
\* RequestQueue: first in first out on both sides, each result exactly once.
ImplementsRequestQueue == RQ!Spec

-----------------------------------------------------------------------------
(* Closing                                                                  *)

\* Only threads that KillWorkers could not see touch a deleted EzSock: one
\* that was created and had not yet counted itself.
NoStaleUse ==
    /\ \A w \in Workers : using[w] = "freed" => w \in orphans
    /\ dangling => Counted \subseteq orphans

\* Once KillWorkers has seen a count of zero, the threads that exist are
\* those it could not see, until the new EzSock is in place.
Resetting == pc[LuaThread] \in {"lower", "drop", "renew"}
ResetAlone == Resetting => Counted \union Uncounted \subseteq orphans

\* A worker never gets past the wait of KillWorkers, since it is counted
\* itself: a script that closes the socket from a callback on a worker hangs.
OnlyLuaThreadResets ==
    \A w \in Workers : pc[w] \notin {"lower", "drop", "renew"}

\* As long as no thread has slipped past a KillWorkers, the order to stop
\* stands only while a KillWorkers is under way.
FlagJustified ==
    /\ orphans = {}
    /\ DestoryWorkers \/ (mutex # Nobody /\ old)
    => \E t \in Threads : pc[t] \in {"wait", "lower"}

-----------------------------------------------------------------------------
(* Progress                                                                 *)

\* Close and ShutDown come back: KillWorkers ends its wait, once every worker
\* has been woken by the closed socket and has seen the order to stop.
KillTerminates ==
    pc[LuaThread] = "wait" /\ orphans = {} ~> pc[LuaThread] # "wait"

\* The result of every finished request reaches Think, unless the game shuts
\* down, however scripts close the socket and throw errors in between.
ResultDelivered ==
    \A id \in 1..MaxEvents :
       id \in Ids(Callbacks) ~> id \in delivered \/ shut \/ orphans # {}

-----------------------------------------------------------------------------
(* What the documentation says                                              *)

\* Engine.cpp:174: the ShutDown hook resets all sockets, "so no chance of
\* networking stuff" when it has returned: no worker is in a socket call with
\* an open descriptor.
ShutDownIsQuiet ==
    shut /\ pc[LuaThread] = "lua" /\ stack[LuaThread] = <<>>
       => \A w \in Workers : ~(pc[w] = "io" /\ using[w] = "live" /\ open)
=============================================================================
