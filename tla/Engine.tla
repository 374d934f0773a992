------------------------------- MODULE Engine -------------------------------
(***************************************************************************)
(* The sockets of one Lua state: the list Engine::Sockets that Think and    *)
(* the ShutDown hook walk, the SockWrappers in it, and the userdata by      *)
(* which Lua holds them.  A wrapper is deleted by the __gc of its last      *)
(* userdata, and Lua's collector may run __gc wherever Lua allocates: in    *)
(* any script, and in the NewUserdata of PushToStack.  So a callback that   *)
(* Think makes can add sockets to the list that Think is walking, and the   *)
(* collector can take some away.                                            *)
(*                                                                         *)
(* What workers do is SockWrapper's business: here they only count          *)
(* themselves, turn requests into results, and leave when they are told to. *)
(* A Receive stands for every request whose result is given to a callback   *)
(* with the wrapper alone.  Scripts set every callback of a socket when they *)
(* get it, but Accept is called with a callback or without.                *)
(***************************************************************************)
EXTENDS Integers, Sequences, FiniteSets, SequencesExt

CONSTANTS
    Wrappers,       \* every SockWrapper that may ever be allocated
    None,           \* no wrapper
    Crew,           \* how many threads CreateWorkers makes
    MaxCrew,        \* bound: threads that scripts have made at a time
    MaxUserdata,    \* bound: userdata of sockets at a time
    MaxRequests,    \* bound: requests queued
    MaxNest         \* bound: destructors and Resets within each other

ASSUME WrapperAssumption == IsFiniteSet(Wrappers) /\ None \notin Wrappers
ASSUME EngineBoundAssumption ==
    {Crew, MaxCrew, MaxUserdata, MaxRequests, MaxNest} \subseteq Nat

VARIABLES
    life,           \* "none", "live", "dying" (in its destructor), "deleted"
    Sockets,        \* Engine::Sockets
    RefCount,       \* SockWrapper::RefCount
    userdata,       \* the userdata of the wrapper that Lua has not finalised
    DidDisconnectCallback,
    Todo,           \* SockWrapper::Todo, the types of the requests
    Callbacks,      \* SockWrapper::Callbacks
    CurrentWorkers, \* SockWrapper::CurrentWorkers
    started,        \* threads made for the wrapper that do not count yet
    locked,         \* its destructor holds the Mutex
    stack,          \* the frames of the Lua thread, innermost first; a script
                    \* that the game runs is below them all
    tick,           \* Engine::IntialTickHappend
    shut,           \* history: the game has called the ShutDown hook
    requests,       \* history: requests queued
    leaked,         \* history: see NoLeak
    stranded,       \* history: wrappers whose destructor an error has cut short
    late,           \* history: wrappers with threads that their destructor's
                    \* KillWorkers did not see
    lost            \* history: a deleted wrapper was used

wrapper == <<life, RefCount, userdata, locked>>
pool    == <<CurrentWorkers, started>>
queue   == <<Todo, Callbacks, requests>>
flags   == <<DidDisconnectCallback>>
game    == <<tick, shut>>
past    == <<leaked, stranded, late, lost>>
vars    == <<wrapper, Sockets, pool, queue, flags, stack, game, past>>

Requests == {"Accept", "Receive"}
Results == {"accepted", "result", "fail", "big"}
SockEvent == [type : Results, sock : Wrappers \union {None}]

\* The frames.  `lua' is a callback, `push', `both' and `client' a PushToStack,
\* `list' the push_back at the end of SOCK_Accept, `think' and `hook' the walks,
\* `reset' and `close' the KillWorkers of a Reset, the latter of a socket that
\* is on the Lua stack, and `throw' is ThrowError.  The destructor is `destroy',
\* the wait of its KillWorkers; `lower', where DestoryWorkers still stands;
\* `lock', before it takes the Mutex; and `free', after its Think.
Destructor == {"destroy", "lower", "lock", "free"}
Ops == {"lua", "push", "both", "client", "list", "think", "hook", "reset",
        "close", "throw"} \union Destructor
Walks == {"think", "hook"}

\* w is the wrapper a frame works on, o another one; of a walk, i is the index
\* it has come to, done the sockets it has come to, and shifted whether a socket
\* up to that index was erased.
Frame == [op : Ops, w : Wrappers \union {None}, o : Wrappers \union {None},
          i : Nat, done : SUBSET Wrappers, shifted : BOOLEAN]

F(op, w) == [op |-> op, w |-> w, o |-> None, i |-> 0, done |-> {},
             shifted |-> FALSE]
Lua == F("lua", None)
Listed == ToSet(Sockets)

\* A wrapper that is dying has its Mutex held by the Lua thread itself, but for
\* the steps of its destructor before that.  When the Lua thread comes to lock
\* it again it hangs, as a pthread mutex does: Live stands in the guard of what
\* locks the Mutex.
Live(w) == life[w] = "live"

\* The frame that runs; below all of them is the game, which runs scripts too.
Top == IF stack = <<>> THEN F("game", None) ELSE Head(stack)
At(op) == Top.op = op

\* A script runs: a callback, or what the game calls.
InScript == At("lua") \/ (At("game") /\ ~shut)

Init ==
    /\ life = [w \in Wrappers |-> "none"]
    /\ Sockets = <<>>
    /\ RefCount = [w \in Wrappers |-> 0] /\ userdata = [w \in Wrappers |-> 0]
    /\ DidDisconnectCallback = {}
    /\ Todo = [w \in Wrappers |-> <<>>] /\ Callbacks = [w \in Wrappers |-> <<>>]
    /\ CurrentWorkers = [w \in Wrappers |-> 0]
    /\ started = [w \in Wrappers |-> 0]
    /\ locked = {}
    /\ stack = <<>>
    /\ tick = FALSE /\ shut = FALSE /\ requests = 0
    /\ leaked = {} /\ stranded = {} /\ late = {} /\ lost = FALSE

-----------------------------------------------------------------------------
(* The frames of the Lua thread.                                            *)

\* The running frame gives way to the frames fs, or is taken off.
Become(fs) == stack' = fs \o Tail(stack)

\* The script that runs calls the frames fs, and goes on after them.
Run(fs) == stack' = fs \o stack

\* CallDisconnect of w: the frames it runs.  The callback it calls holds w.
Disconnect(w) ==
    IF w \in DidDisconnectCallback THEN <<>> ELSE <<F("push", w), Lua>>

\* What it does to the wrapper.
Disconnected(w) == DidDisconnectCallback' = DidDisconnectCallback \union {w}

CanNest ==
    Cardinality({k \in DOMAIN stack :
                   stack[k].op \in Destructor \union {"close"}}) < MaxNest

-----------------------------------------------------------------------------
(* PushToStack: NewUserdata, in which the collector may run (see Collect),  *)
(* and then the count.                                                      *)

Userdata == MapThenSumSet(LAMBDA v : userdata[v], Wrappers)

\* Mutant: an object that is pushed a second time is not counted again.
PushOnce(w) ==
    /\ Userdata < MaxUserdata
    /\ userdata' = [userdata EXCEPT ![w] = @ + 1]
    /\ RefCount' = [RefCount EXCEPT ![w] = 1]

\* Mutant: its callers count it as well.
PushTwice(w) ==
    /\ Userdata < MaxUserdata
    /\ userdata' = [userdata EXCEPT ![w] = @ + 1]
    /\ RefCount' = [RefCount EXCEPT ![w] = @ + 2]

Push(w) ==
    /\ Userdata < MaxUserdata
    /\ userdata' = [userdata EXCEPT ![w] = @ + 1]
    /\ RefCount' = [RefCount EXCEPT ![w] = @ + 1]

PushToStack ==
    /\ \/ At("push") /\ Become(<<>>)
       \/ At("both") /\ Become(<<[F("client", Top.o) EXCEPT !.o = Top.w]>>)
       \/ At("client") /\ Become(<<>>)
    /\ life[Top.w] # "deleted" /\ Push(Top.w)
    /\ UNCHANGED <<life, locked, Sockets, pool, queue, flags, game, past>>

-----------------------------------------------------------------------------
(* SOCK__GC and ~SockWrapper.                                               *)

\* The userdata of w that C functions in progress keep on the Lua stack.
Pinned(w) ==
    Cardinality({k \in DOMAIN stack :
        \/ stack[k].op \in {"close", "list"} /\ stack[k].w = w
        \/ stack[k].op = "client" /\ stack[k].o = w})

\* The collector runs: in a script, in NewUserdata, or when the state closes.
Collecting == Top.op \in {"lua", "game", "push", "both", "client"}

\* The walks in progress, when w is erased at the index k.
Shift(w, k) ==
    [j \in DOMAIN stack |->
        IF stack[j].op \in Walks
        THEN [stack[j] EXCEPT !.shifted = @ \/ k \in 1..stack[j].i,
                              !.done = @ \ {w}]
        ELSE stack[j]]

\* Mutant: the erase is forgotten.
DeleteListed(w) ==
    /\ CanNest
    /\ stack' = <<F("destroy", w)>> \o stack
    /\ life' = [life EXCEPT ![w] = "dying"]
    /\ UNCHANGED Sockets

\* Erase w from Sockets and run the destructor.
Delete(w) ==
    /\ CanNest
    /\ Sockets' = RemoveFirst(Sockets, w)
    /\ LET k == SelectInSeq(Sockets, LAMBDA v : v = w)
       IN stack' = <<F("destroy", w)>> \o Shift(w, k)
    /\ life' = [life EXCEPT ![w] = "dying"]

\* The collector finalises a userdata of w that no script holds any more.  For
\* the last one, __gc locks the Mutex and looks for workers.
Collect(w) ==
    /\ Collecting
    /\ userdata[w] > Pinned(w)
    /\ RefCount[w] = 1 => Live(w)
    /\ userdata' = [userdata EXCEPT ![w] = @ - 1]
    /\ RefCount' = [RefCount EXCEPT ![w] = @ - 1]
    /\ IF RefCount'[w] = 0 /\ CurrentWorkers[w] = 0
       THEN Delete(w) /\ UNCHANGED leaked
       ELSE /\ UNCHANGED <<Sockets, stack, life>>
            /\ leaked' = IF RefCount'[w] = 0 THEN leaked \union {w} ELSE leaked
    /\ UNCHANGED <<locked, pool, queue, flags, game, stranded, late, lost>>

\* KillWorkers is through: nobody is counted.
Killed(w) == CurrentWorkers[w] = 0

\* The last look of ~SockWrapper's KillWorkers.  The threads that exist and have
\* not counted themselves by now are not waited for.
Destroy ==
    /\ At("destroy") /\ Killed(Top.w)
    /\ late' = IF started[Top.w] > 0 THEN late \union {Top.w} ELSE late
    /\ Become(<<F("lower", Top.w)>>)
    /\ UNCHANGED <<wrapper, Sockets, pool, queue, flags, game, leaked, stranded,
                   lost>>

\* KillWorkers lowers DestoryWorkers.
DestroyLower ==
    /\ At("lower")
    /\ Become(<<F("lock", Top.w)>>)
    /\ UNCHANGED <<wrapper, Sockets, pool, queue, flags, game, past>>

\* The rest of ~SockWrapper up to its Think: the Mutex is taken, the requests go,
\* the results stay.
DestroyLock ==
    /\ At("lock")
    /\ locked' = locked \union {Top.w}
    /\ Todo' = [Todo EXCEPT ![Top.w] = <<>>]
    /\ tick' = TRUE
    /\ Become(<<F("think", None), F("free", Top.w)>>)
    /\ UNCHANGED <<life, RefCount, userdata, Sockets, pool, Callbacks, requests,
                   flags, shut, past>>

\* The sockets that the results of w hold and nobody else knows.
Waiting(w) == {Callbacks[w][k].sock : k \in DOMAIN Callbacks[w]} \ {None}

\* The Mutex is given back and the wrapper freed: a thread that waits for the
\* Mutex gets it here, and goes on with a wrapper that is deleted (see Lose).
Free ==
    /\ At("free")
    /\ locked' = locked \ {Top.w}
    /\ life' = [life EXCEPT ![Top.w] = "deleted"]
    /\ Callbacks' = [Callbacks EXCEPT ![Top.w] = <<>>]
    /\ leaked' = leaked \union Waiting(Top.w)
    /\ Become(<<>>)
    /\ UNCHANGED <<RefCount, userdata, Sockets, pool, Todo, requests, flags,
                   game, stranded, late, lost>>

-----------------------------------------------------------------------------
(* Engine::Think and ShutdownHook.                                          *)

\* Move on to the next socket, with the frames fs before it is done.
Step(fs) ==
    LET n == Top.i + 1
    IN Become(fs \o <<[Top EXCEPT !.i = n, !.w = Sockets[n],
                                  !.done = @ \union {Sockets[n]}]>>)

\* Where Think finds no more results, of the socket it is at.
Drained == Top.w # None => Live(Top.w) /\ Callbacks[Top.w] = <<>>

ThinkNext ==
    /\ At("think") /\ Drained
    /\ IF Top.i < Len(Sockets) THEN Step(<<>>) ELSE Become(<<>>)
    /\ UNCHANGED <<wrapper, Sockets, pool, queue, flags, game, past>>

\* What a result e of w leads to.  A Connect that succeeded lowers the flag.
Handle(w, e) ==
    \/ /\ e.type = "result"
       /\ DidDisconnectCallback' \in
             {DidDisconnectCallback, DidDisconnectCallback \ {w}}
       /\ Run(<<F("push", w), Lua>>)
       /\ UNCHANGED <<Sockets, started>>
    \/ /\ e.type = "accepted"
       /\ started' = [started EXCEPT ![e.sock] = @ + Crew]
       /\ Sockets' = Append(Sockets, e.sock)
       /\ Run(<<[F("both", w) EXCEPT !.o = e.sock], Lua>>)
       /\ UNCHANGED DidDisconnectCallback
    \/ /\ e.type = "fail"
       /\ Disconnected(w) /\ Run(Disconnect(w))
       /\ UNCHANGED <<Sockets, started>>
    \/ /\ e.type = "big"
       /\ Disconnected(w) /\ Run(Disconnect(w) \o <<F("throw", w)>>)
       /\ UNCHANGED <<Sockets, started>>

ThinkHandle ==
    /\ At("think") /\ Top.w # None /\ Live(Top.w)
    /\ Callbacks[Top.w] # <<>>
    /\ Callbacks' = [Callbacks EXCEPT ![Top.w] = Tail(@)]
    /\ Handle(Top.w, Head(Callbacks[Top.w]))
    /\ UNCHANGED <<wrapper, CurrentWorkers, Todo, requests, game,
                   past>>

Tick ==
    /\ At("game") /\ ~shut
    /\ tick' = TRUE
    /\ Run(<<F("think", None)>>)
    /\ UNCHANGED <<wrapper, Sockets, pool, queue, flags, shut, past>>

ShutdownHook ==
    /\ At("game") /\ ~shut
    /\ shut' = TRUE
    /\ Run(<<F("hook", None)>>)
    /\ UNCHANGED <<wrapper, Sockets, pool, queue, flags, tick, past>>

\* Sockets[i]->Reset() for the next i, and Think after the last.
HookNext ==
    /\ At("hook")
    /\ IF Top.i < Len(Sockets)
       THEN LET w == Sockets[Top.i + 1]
            IN Disconnected(w) /\ Step(Disconnect(w) \o <<F("reset", w)>>)
       ELSE Become(<<F("think", None)>>) /\ UNCHANGED DidDisconnectCallback
    /\ tick' = (tick \/ Top.i >= Len(Sockets))
    /\ UNCHANGED <<wrapper, Sockets, pool, queue, shut, past>>

\* The end of Reset, after KillWorkers.
Reset ==
    /\ Top.op \in {"reset", "close"}
    /\ Live(Top.w) /\ Killed(Top.w)
    /\ DidDisconnectCallback' = DidDisconnectCallback \ {Top.w}
    /\ Become(<<>>)
    /\ UNCHANGED <<wrapper, Sockets, pool, queue, game, past>>

-----------------------------------------------------------------------------
(* What scripts call.  A script can use every socket it has a userdata of.  *)

Allocate(w) == life[w] = "none" /\ life' = [life EXCEPT ![w] = "live"]

\* Mutant: it is listed in front.
LuaBromSockFront(w) ==
    /\ InScript /\ Allocate(w)
    /\ Sockets' = <<w>> \o Sockets
    /\ Run(<<F("push", w)>>)
    /\ UNCHANGED <<RefCount, userdata, locked, pool, queue, flags, game, past>>

\* CreateSocket
LuaBromSock(w) ==
    /\ InScript /\ Allocate(w)
    /\ Sockets' = Append(Sockets, w)
    /\ Run(<<F("push", w)>>)
    /\ UNCHANGED <<RefCount, userdata, locked, pool, queue, flags, game, past>>

Uses(w) == InScript /\ userdata[w] > 0

Threads == MapThenSumSet(LAMBDA v : started[v] + CurrentWorkers[v], Wrappers)

\* SOCK_Connect, Listen, SendTo, ReceiveFrom: CreateWorkers.
LuaStart(w) ==
    /\ Uses(w) /\ Live(w) /\ Threads + Crew <= MaxCrew
    /\ started' = [started EXCEPT ![w] = @ + Crew]
    /\ UNCHANGED <<wrapper, Sockets, CurrentWorkers, queue, flags, stack, game,
                   past>>

\* A call with a callback queues a request.
LuaRequest(w, type) ==
    /\ Uses(w) /\ Live(w) /\ requests < MaxRequests
    /\ Todo' = [Todo EXCEPT ![w] = Append(@, type)]
    /\ requests' = requests + 1
    /\ UNCHANGED <<wrapper, Sockets, pool, Callbacks, flags, stack, game, past>>

\* SOCK_Accept without a callback, when a client comes: the wrapper c made for
\* it is pushed before it is listed.
LuaAccept(w, c) ==
    /\ Uses(w) /\ Allocate(c)
    /\ Run(<<F("push", c), F("list", c)>>)
    /\ UNCHANGED <<RefCount, userdata, locked, Sockets, pool, queue, flags,
                   game, past>>

\* When none comes: delete csw, which has never been listed.
LuaAcceptFails(w, c) ==
    /\ Uses(w) /\ CanNest
    /\ life[c] = "none" /\ life' = [life EXCEPT ![c] = "dying"]
    /\ Run(<<F("destroy", c)>>)
    /\ UNCHANGED <<RefCount, userdata, locked, Sockets, pool, queue, flags,
                   game, past>>

\* engine->Sockets.push_back(csw)
AcceptList ==
    /\ At("list")
    /\ Sockets' = Append(Sockets, Top.w)
    /\ Become(<<>>)
    /\ UNCHANGED <<wrapper, pool, queue, flags, game, past>>

\* SOCK_Disconnect: Reset.
LuaClose(w) ==
    /\ Uses(w) /\ CanNest
    /\ Disconnected(w)
    /\ Run(Disconnect(w) \o <<F("close", w)>>)
    /\ UNCHANGED <<wrapper, Sockets, pool, queue, game, past>>

LuaReturn ==
    /\ At("lua")
    /\ Become(<<>>)
    /\ UNCHANGED <<wrapper, Sockets, pool, queue, flags, game, past>>

\* The wrappers that a frame of f has not handed to Lua yet.
Making(f) ==
    IF f.op \in {"push", "client", "list"} THEN {f.w}
    ELSE IF f.op = "both" THEN {f.o} ELSE {}

\* The wrappers in whose destructors an error goes through the first k frames.
Cut(k) == {stack[j].w : j \in {i \in 1..k : stack[i].op \in Destructor}}

\* An error skips every frame up to a script that catches it, or to the game.  A
\* destructor it leaves, from its Think, keeps the Mutex and deletes nothing:
\* neither the wrapper, nor the results that wait in it.
Unwind ==
    /\ At("lua") \/ At("throw")
    /\ \E k \in 1..Len(stack) :
          /\ k < Len(stack) => stack[k + 1].op = "lua"
          /\ stack' = SubSeq(stack, k + 1, Len(stack))
          /\ stranded' = stranded \union Cut(k)
          /\ leaked' = leaked \union Cut(k)
                              \union (UNION {Waiting(w) : w \in Cut(k)})
                              \union UNION {Making(stack[j]) : j \in 1..k}
    /\ UNCHANGED <<wrapper, Sockets, pool, queue, flags, game, late, lost>>

-----------------------------------------------------------------------------
(* The workers of a wrapper.                                                *)

\* A thread takes the Mutex and counts itself.
WorkerStart(w) ==
    /\ started[w] > 0 /\ life[w] \in {"live", "dying"} /\ w \notin locked
    /\ started' = [started EXCEPT ![w] = @ - 1]
    /\ CurrentWorkers' = [CurrentWorkers EXCEPT ![w] = @ + 1]
    /\ UNCHANGED <<wrapper, Sockets, queue, flags, stack, game, past>>

Post(w, e) ==
    /\ Todo' = [Todo EXCEPT ![w] = Tail(@)]
    /\ Callbacks' = [Callbacks EXCEPT ![w] = Append(@, e)]

\* A worker carries out the oldest request.  The wrapper of a client that it
\* accepts is known to the result only.
WorkerRun(w) ==
    /\ CurrentWorkers[w] > 0 /\ tick /\ Todo[w] # <<>> /\ w \notin locked
    /\ \/ /\ Head(Todo[w]) = "Accept"
          /\ \E c \in Wrappers :
                Allocate(c) /\ Post(w, [type |-> "accepted", sock |-> c])
       \/ /\ Head(Todo[w]) = "Receive"
          /\ \E t \in {"result", "fail", "big"} :
                Post(w, [type |-> t, sock |-> None])
          /\ UNCHANGED life
    /\ UNCHANGED <<RefCount, userdata, locked, Sockets, pool, requests, flags,
                   stack, game, past>>

\* Mutant: a thread that sees the order before it has counted itself.
WorkerStopEarly(w) ==
    /\ CurrentWorkers[w] + started[w] > 0 /\ w \notin locked
    /\ Top.op \in {"reset", "close", "destroy", "lower"} /\ Top.w = w
    /\ CurrentWorkers' = [CurrentWorkers EXCEPT ![w] = @ - 1]
    /\ UNCHANGED <<wrapper, Sockets, started, queue, flags, stack, game, past>>

\* While KillWorkers waits, workers see the order to stop.
WorkerStop(w) ==
    /\ CurrentWorkers[w] > 0 /\ w \notin locked
    /\ Top.op \in {"reset", "close", "destroy", "lower"} /\ Top.w = w
    /\ CurrentWorkers' = [CurrentWorkers EXCEPT ![w] = @ - 1]
    /\ UNCHANGED <<wrapper, Sockets, started, queue, flags, stack, game, past>>

Worker(w) == WorkerStart(w) \/ WorkerRun(w) \/ WorkerStop(w)

-----------------------------------------------------------------------------

Script ==
    \/ \E w \in Wrappers :
          \/ LuaBromSock(w) \/ LuaStart(w) \/ LuaClose(w)
          \/ \E type \in Requests : LuaRequest(w, type)
          \/ \E c \in Wrappers : LuaAccept(w, c) \/ LuaAcceptFails(w, c)
    \/ LuaReturn \/ Unwind

LuaThread ==
    \/ Tick \/ ThinkNext \/ ThinkHandle
    \/ ShutdownHook \/ HookNext \/ Reset
    \/ PushToStack \/ AcceptList
    \/ \E w \in Wrappers : Collect(w)
    \/ Destroy \/ DestroyLower \/ DestroyLock \/ Free
    \/ Script

\* A walk, a Reset, a PushToStack, the text of an error or a thread goes on with
\* a wrapper that has been deleted: undefined, and the process is lost.
UseDeleted ==
    \/ /\ Top.op \in {"think", "reset", "close", "push", "both", "client",
                       "throw"}
       /\ Top.w # None /\ life[Top.w] = "deleted"
    \/ \E w \in Wrappers :
          life[w] = "deleted" /\ started[w] + CurrentWorkers[w] > 0

Lose ==
    /\ UseDeleted
    /\ lost' = TRUE
    /\ UNCHANGED <<wrapper, Sockets, pool, queue, flags, stack,
                   game, leaked, stranded, late>>

Next ==
    /\ ~lost
    /\ LuaThread \/ (\E w \in Wrappers : Worker(w)) \/ Lose

Spec == Init /\ [][Next]_vars

-----------------------------------------------------------------------------
(* Properties.                                                              *)

TypeOK ==
    /\ life \in [Wrappers -> {"none", "live", "dying", "deleted"}]
    /\ Sockets \in Seq(Wrappers)
    /\ RefCount \in [Wrappers -> Nat] /\ userdata \in [Wrappers -> Nat]
    /\ DidDisconnectCallback \subseteq Wrappers
    /\ Todo \in [Wrappers -> Seq(Requests)]
    /\ Callbacks \in [Wrappers -> Seq(SockEvent)]
    /\ CurrentWorkers \in [Wrappers -> Nat] /\ started \in [Wrappers -> Nat]
    /\ stack \in Seq(Frame)
    /\ requests \in Nat
    /\ {tick, shut, lost} \subseteq BOOLEAN
    /\ {leaked, stranded, late, locked} \subseteq SUBSET Wrappers

\* Sockets has every wrapper once and only wrappers that live, so that the Think
\* in a destructor never meets the wrapper whose Mutex it holds; and every
\* wrapper that a script can reach is in it, so that its results are delivered
\* and the ShutDown hook finds it, unless SOCK_Accept is about to add it or an
\* error has left it in its destructor.
ListOK ==
    /\ IsInjective(Sockets)
    /\ \A w \in Listed : Live(w)
    /\ \A w \in Wrappers :
          userdata[w] > 0 =>
             \/ w \in Listed
             \/ Contains(stack, F("list", w))
             \/ w \in stranded

\* Whoever uses a wrapper by right finds it alive: a script that has a userdata
\* of it, and a C function that was called with one.  __gc deletes at the last
\* userdata, however callbacks, collections and errors nest.  Only a wrapper
\* that an error has left in its destructor can come to a script again, by a
\* PushToStack that had begun before; nothing deletes it any more.  The
\* destructor waits for the threads: one that comes to a deleted wrapper had not
\* counted itself when KillWorkers looked for the last time.
HeldAlive ==
    /\ \A w \in Wrappers : userdata[w] > 0 => Live(w) \/ w \in stranded
    /\ \A k \in DOMAIN stack :
          /\ stack[k].op = "list" => Live(stack[k].w)
          /\ stack[k].op = "close" => Live(stack[k].w) \/ stack[k].w \in stranded
          /\ stack[k].op = "client" => Live(stack[k].o) \/ stack[k].o \in stranded
    /\ \A w \in stranded : life[w] = "dying"
    /\ \A w \in Wrappers :
          life[w] = "deleted" /\ started[w] + CurrentWorkers[w] > 0 => w \in late

\* What runs within the destructor of a wrapper, the Think and the callbacks it
\* makes, never comes to that wrapper, whose Mutex the destructor holds: no walk
\* reaches it, and no script has it to call a function with.
DestructorAlone ==
    \A k \in DOMAIN stack : stack[k].op \in Destructor =>
       /\ life[stack[k].w] = "dying"
       /\ \A j \in 1..(k - 1) : stack[k].w \notin {stack[j].w, stack[j].o}

\* A wrapper that no script can reach any more is deleted.  It stays in four
\* cases only (leaked): __gc found workers and left it to nobody; an error cut
\* short the call that was to push it; an error in a callback cut short its
\* destructor; or it was the client in a result that such a wrapper, or a deleted
\* one, had not delivered.  Else it is on its way to a script or to its end.
NoLeak ==
    \A w \in Wrappers :
       life[w] \in {"live", "dying"} /\ userdata[w] = 0 =>
          \/ w \in leaked
          \/ \E k \in DOMAIN stack :
                \/ w \in Making(stack[k])
                \/ stack[k].op \in Destructor /\ stack[k].w = w
          \/ \E v \in Wrappers \ stranded : w \in Waiting(v)

\* A walk over Sockets by index leaves out a socket only if one at or before the
\* index has been erased since it began: sockets that callbacks add, and those
\* that are erased behind the index, make it miss none.  And it comes to no
\* socket twice, whatever is erased.
WalkComplete ==
    \A k \in DOMAIN stack :
       LET f == stack[k]
       IN f.op \in Walks =>
             /\ ~f.shifted => ToSet(SubSeq(Sockets, 1, f.i)) \subseteq f.done
             /\ f.done \intersect
                   ToSet(SubSeq(Sockets, f.i + 1, Len(Sockets))) = {}
=============================================================================
