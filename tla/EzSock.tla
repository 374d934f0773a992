------------------------------- MODULE EzSock -------------------------------
(***************************************************************************)
(* The descriptors of a process whose sockets all come from EzSock.  The    *)
(* kernel gives any number that is free, and one that was closed is free at *)
(* once.  EzSock::close is three steps, the last of which forgets the       *)
(* number; a socket call reads the number before it enters the kernel; and  *)
(* an SSL session keeps the number it was made for.                         *)
(*                                                                         *)
(* A wrapper has one EzSock at a time: Reset deletes it when the workers    *)
(* are gone, and makes a new one.  Threads that KillWorkers cannot see, the *)
(* orphans of SockWrapper, are not here.                                    *)
(***************************************************************************)
EXTENDS Integers, Sequences, FiniteSets, FiniteSetsExt

CONSTANTS
    Wrappers,       \* the wrappers, each with the EzSock it points to
    Workers,        \* the worker threads of all wrappers
    Home,           \* the wrapper of each worker
    LuaThread,      \* the thread that runs the scripts
    None,           \* no wrapper, no EzSock
    Numbers,        \* the descriptors that the process may have free
    MaxSockets,     \* bound: sockets made by ::socket and ::accept
    MaxResets,      \* bound: Resets
    MaxSessions     \* bound: SSL sessions

ASSUME NumbersAssumption == Numbers \subseteq Nat
ASSUME ThreadAssumption ==
    /\ LuaThread \notin Workers /\ Home \in [Workers -> Wrappers]
    /\ None \notin Wrappers \union (Wrappers \X Nat)
ASSUME LimitAssumption == {MaxSockets, MaxResets, MaxSessions} \subseteq Nat

Threads == Workers \union {LuaThread}

VARIABLES
    table,          \* the kernel's: the EzSock that opened each descriptor
    sockets,        \* how many sockets have been made
    made,           \* the wrappers that exist
    gen,            \* numbers the EzSocks of a wrapper
    sock,           \* EzSock::sock
    state,          \* EzSock::state
    crew,           \* the wrappers whose workers run
    DestoryWorkers, \* the wrappers whose flag is set
    ssl,            \* SockWrapper::ssl, 0 if it is null
    sessions,       \* each SSL session: its EzSock, its number, who freed it
    at,             \* what each thread does
    raced,          \* history: see StateTruthful
    clashed         \* history: two threads are changing sock of one EzSock

kernel  == <<table, sockets>>
ezsock  == <<made, gen, sock, state>>
pool    == <<crew, DestoryWorkers>>
tls     == <<ssl, sessions>>
history == <<raced, clashed>>
vars    == <<kernel, ezsock, pool, tls, at, history>>

INVALID_SOCKET == -1
SockStates == {"DISCONNECTED", "LISTENING", "CONNECTED", "ERROR"}
\* `transfer' is a send or a recv, and SSL_write or SSL_read in its place.
Calls == {"connect", "listen", "accept", "transfer", "handshake"}

\* The EzSock of w, by which the kernel's table names it.
Now(w) == <<w, gen[w]>>

\* What a thread does.  pc: `enter' is before the kernel has looked up num, and
\* `inside' after; `shutdown', `close' and `clear' are the steps of
\* EzSock::close; `raise', `wait' and `renew' are KillWorkers and Reset behind
\* it.  ses is the session a call goes through, and stale, a history, whether
\* its EzSock has closed num.
PCs == {"idle", "enter", "inside", "shutdown", "close", "clear", "raise",
        "wait", "renew"}
Activity == [pc : PCs, w : Wrappers \union {None}, call : Calls \union {"reset"},
             num : Numbers \union {INVALID_SOCKET}, ses : Nat, stale : BOOLEAN]

Rest == [pc |-> "idle", w |-> None, call |-> "reset", num |-> INVALID_SOCKET,
         ses |-> 0, stale |-> FALSE]

W(t) == at[t].w
In(t, pc) == at[t].pc = pc
Go(t, pc) == at' = [at EXCEPT ![t].pc = pc]
Stop(t) == at' = [at EXCEPT ![t] = Rest]

Init ==
    /\ table = [n \in Numbers |-> None] /\ sockets = 0
    /\ made = {}
    /\ gen = [w \in Wrappers |-> 0]
    /\ sock = [w \in Wrappers |-> INVALID_SOCKET]
    /\ state = [w \in Wrappers |-> "DISCONNECTED"]
    /\ crew = {} /\ DestoryWorkers = {}
    /\ ssl = [w \in Wrappers |-> 0] /\ sessions = <<>>
    /\ at = [t \in Threads |-> Rest]
    /\ raced = {} /\ clashed = FALSE

\* EzSock::check
check(w) == sock[w] > 0

\* The descriptor n is open.
IsOpen(n) == n \in Numbers /\ table[n] # None

\* The EzSock of w has a descriptor, and it is its own.
Owned(w) == sock[w] \in Numbers /\ table[sock[w]] = Now(w)

\* The threads in the middle of EzSock::close.
Closers(w) == {t \in Threads : W(t) = w /\ at[t].pc \in {"close", "clear"}}
Cleared(w) == \A t \in Threads : ~(In(t, "clear") /\ W(t) = w)

\* A new socket for the EzSock e of w, with the number n.
NewSocket(w, e, n) ==
    /\ sockets < MaxSockets /\ sockets' = sockets + 1
    /\ n \in Numbers /\ table[n] = None
    /\ table' = [table EXCEPT ![n] = e]
    /\ sock' = [sock EXCEPT ![w] = n]

-----------------------------------------------------------------------------
(* EzSock::close, by a worker or the Lua thread.                            *)

\* Mutant: the state is left to Reset.
CloseShutdownOnly(t) ==
    /\ In(t, "shutdown") /\ Go(t, "close")
    /\ clashed' = (clashed \/ Closers(W(t)) # {})
    /\ UNCHANGED <<kernel, ezsock, pool, tls, raced>>

CloseShutdown(t) ==
    /\ In(t, "shutdown") /\ Go(t, "close")
    /\ state' = [state EXCEPT ![W(t)] = "DISCONNECTED"]
    /\ clashed' = (clashed \/ Closers(W(t)) # {})
    /\ UNCHANGED <<kernel, made, gen, sock, pool, tls, raced>>

\* ::close of whatever has the number by now.
CloseNumber(t) ==
    /\ In(t, "close")
    /\ table' = [n \in Numbers |-> IF n = sock[W(t)] THEN None ELSE table[n]]
    /\ at' = [u \in Threads |->
                IF u = t THEN [at[u] EXCEPT !.pc = "clear"]
                ELSE IF W(u) = W(t) /\ In(u, "enter")
                     THEN [at[u] EXCEPT !.stale = TRUE] ELSE at[u]]
    /\ UNCHANGED <<sockets, ezsock, pool, tls, history>>

\* Mutant: the number is kept.
CloseClearNot(t) ==
    /\ In(t, "clear")
    /\ IF at[t].call = "reset" THEN Go(t, "raise") ELSE Stop(t)
    /\ UNCHANGED <<kernel, ezsock, pool, tls, history>>

CloseClear(t) ==
    /\ In(t, "clear")
    /\ sock' = [sock EXCEPT ![W(t)] = INVALID_SOCKET]
    /\ IF at[t].call = "reset" THEN Go(t, "raise") ELSE Stop(t)
    /\ UNCHANGED <<kernel, made, gen, state, pool, tls, history>>

Close(t) == CloseShutdown(t) \/ CloseNumber(t) \/ CloseClear(t)

-----------------------------------------------------------------------------
(* A socket call: of a script without a callback, or of a worker.           *)

MayCall(t, w) ==
    \/ t = LuaThread /\ w \in made
    \/ t \in Workers /\ Home[t] = w /\ w \in crew \ DestoryWorkers

\* The call reads its number.  EzSock::connect looks at sock first.  A transfer
\* goes through the session of the wrapper, but that of the length in front of a
\* packet, and those of UDP, go past it.
Call(t, w, call) ==
    /\ In(t, "idle") /\ MayCall(t, w)
    /\ call = "connect" => check(w)
    /\ call = "listen" => t = LuaThread
    /\ \E ses \in IF call = "transfer" THEN {0, ssl[w]} ELSE {0} :
          LET num == IF ses = 0 THEN sock[w] ELSE sessions[ses].num
          IN at' = [at EXCEPT ![t] =
                      [pc |-> "enter", w |-> w, call |-> call, num |-> num,
                       ses |-> ses, stale |-> num # sock[w] \/ ~Cleared(w)]]
    /\ UNCHANGED <<kernel, ezsock, pool, tls, history>>

\* SOCK_StartSSLClient, up to SSL_connect.
StartSSLClient(w) ==
    /\ In(LuaThread, "idle") /\ w \in made /\ Len(sessions) < MaxSessions
    /\ sessions' =
          Append(sessions, [of |-> Now(w), num |-> sock[w], freed |-> "no"])
    /\ ssl' = [ssl EXCEPT ![w] = Len(sessions')]
    /\ at' = [at EXCEPT ![LuaThread] =
                [pc |-> "enter", w |-> w, call |-> "handshake", num |-> sock[w],
                 ses |-> Len(sessions'), stale |-> ~Cleared(w)]]
    /\ UNCHANGED <<kernel, ezsock, pool, history>>

\* The kernel finds the socket.  What the number was matters no more, but for
\* raced.
Enter(t) ==
    /\ In(t, "enter") /\ IsOpen(at[t].num)
    /\ at' = [at EXCEPT ![t].pc = "inside", ![t].stale = FALSE,
                        ![t].num = IF at[t].call \in {"connect", "listen"}
                                   THEN @ ELSE INVALID_SOCKET]
    /\ UNCHANGED <<kernel, ezsock, pool, tls, history>>

\* A call that sets the state of its EzSock, which may have been closed since
\* the number was read.
Establish(t, to) ==
    /\ state' = [state EXCEPT ![W(t)] = to]
    /\ raced' = IF Closers(W(t)) # {} \/ at[t].num # sock[W(t)]
                THEN raced \union {W(t)} ELSE raced
    /\ UNCHANGED <<kernel, made, sock>>

\* accept makes a wrapper for the client.
Accepted(c) ==
    /\ c \notin made /\ made' = made \union {c}
    /\ \E n \in Numbers : NewSocket(c, Now(c), n)
    /\ state' = [state EXCEPT ![c] = "CONNECTED"]
    /\ UNCHANGED raced

Succeed(t) ==
    /\ In(t, "inside")
    /\ \/ at[t].call = "connect" /\ Establish(t, "CONNECTED")
       \/ at[t].call = "listen" /\ Establish(t, "LISTENING")
       \/ at[t].call = "accept" /\ \E c \in Wrappers : Accepted(c)
       \/ /\ at[t].call \in {"transfer", "handshake"}
          /\ UNCHANGED <<kernel, made, sock, state, raced>>
    /\ Stop(t)
    /\ UNCHANGED <<gen, pool, tls, clashed>>

\* A failed read leaves skERROR, ...
ReadFails(t) ==
    /\ at[t].call = "transfer"
    /\ state' = [state EXCEPT ![W(t)] = "ERROR"]
    /\ Stop(t) /\ UNCHANGED tls

\* ... a failed raw write closes the EzSock, ...
RawSendFails(t) ==
    /\ at[t].call = "transfer"
    /\ at' = [at EXCEPT ![t] = [Rest EXCEPT !.pc = "shutdown", !.w = W(t),
                                            !.call = "transfer"]]
    /\ UNCHANGED <<state, tls>>

\* ... a failed handshake frees the session, ...
HandshakeFails(t) ==
    /\ at[t].call = "handshake"
    /\ sessions' = [sessions EXCEPT ![at[t].ses].freed = "failed"]
    /\ ssl' = [ssl EXCEPT ![W(t)] = 0]
    /\ Stop(t) /\ UNCHANGED state

\* ... and other failures, that of a framed write too, change nothing.
Fail(t) ==
    /\ In(t, "inside") \/ (In(t, "enter") /\ ~IsOpen(at[t].num))
    /\ \/ ReadFails(t) \/ RawSendFails(t) \/ HandshakeFails(t)
       \/ at[t].call # "handshake" /\ Stop(t) /\ UNCHANGED <<state, tls>>
    /\ UNCHANGED <<kernel, made, gen, sock, pool, history>>

-----------------------------------------------------------------------------
(* The life of an EzSock, on the Lua thread.                                *)

\* CreateSocket
BromSock(w) ==
    /\ In(LuaThread, "idle") /\ w \notin made
    /\ made' = made \union {w}
    /\ UNCHANGED <<kernel, gen, sock, state, pool, tls, at, history>>

\* Mutant: create does not look whether there is a socket.
CreateUnchecked(w) ==
    /\ In(LuaThread, "idle") /\ w \in made
    /\ state' = [state EXCEPT ![w] = "DISCONNECTED"]
    /\ clashed' = (clashed \/ Closers(w) # {})
    /\ \E n \in Numbers : NewSocket(w, Now(w), n)
    /\ UNCHANGED <<made, gen, pool, tls, at, raced>>

\* EzSock::create, for an EzSock that check finds without a descriptor; 0 is
\* none for it.  ::socket may fail.
Create(w) ==
    /\ In(LuaThread, "idle") /\ w \in made /\ ~check(w)
    /\ state' = [state EXCEPT ![w] = "DISCONNECTED"]
    /\ clashed' = (clashed \/ Closers(w) # {})
    /\ \/ \E n \in Numbers : NewSocket(w, Now(w), n)
       \/ sock' = [sock EXCEPT ![w] = INVALID_SOCKET] /\ UNCHANGED kernel
    /\ UNCHANGED <<made, gen, pool, tls, at, raced>>

\* Mutant: the threads of a client are made before there is one.
CreateWorkersEarly(w) ==
    /\ In(LuaThread, "idle") /\ w \notin crew
    /\ crew' = crew \union {w}
    /\ UNCHANGED <<kernel, ezsock, DestoryWorkers, tls, at, history>>

\* CreateWorkers, in SOCK_Connect, Listen, SendTo and ReceiveFrom
CreateWorkers(w) ==
    /\ In(LuaThread, "idle") /\ w \in made \ crew
    /\ crew' = crew \union {w}
    /\ UNCHANGED <<kernel, ezsock, DestoryWorkers, tls, at, history>>

\* Reset: KillWorkers closes the EzSock, ...
Reset(w) ==
    /\ In(LuaThread, "idle") /\ w \in made
    /\ MapThenSumSet(LAMBDA v : gen[v], Wrappers) < MaxResets
    /\ at' = [at EXCEPT ![LuaThread] = [Rest EXCEPT !.pc = "shutdown", !.w = w]]
    /\ UNCHANGED <<kernel, ezsock, pool, tls, history>>

\* ... tells the workers to stop, ...
KillRaise ==
    /\ In(LuaThread, "raise") /\ Go(LuaThread, "wait")
    /\ DestoryWorkers' = DestoryWorkers \union {W(LuaThread)}
    /\ UNCHANGED <<kernel, ezsock, crew, tls, history>>

\* ... waits until they have, and frees the session.
SessionKilled(w) ==
    /\ sessions' = [s \in DOMAIN sessions |->
                      IF s = ssl[w] THEN [sessions[s] EXCEPT !.freed = "kill"]
                      ELSE sessions[s]]
    /\ ssl' = [ssl EXCEPT ![w] = 0]

\* Mutant: the session is freed without waiting.
KillImpatient ==
    LET w == W(LuaThread)
    IN /\ In(LuaThread, "wait") /\ Go(LuaThread, "renew")
       /\ SessionKilled(w)
       /\ crew' = crew \ {w} /\ DestoryWorkers' = DestoryWorkers \ {w}
       /\ UNCHANGED <<kernel, ezsock, history>>

KillWait ==
    LET w == W(LuaThread)
    IN /\ In(LuaThread, "wait") /\ Go(LuaThread, "renew")
       /\ \A t \in Workers : Home[t] = w => In(t, "idle")
       /\ SessionKilled(w)
       /\ crew' = crew \ {w} /\ DestoryWorkers' = DestoryWorkers \ {w}
       /\ UNCHANGED <<kernel, ezsock, history>>

\* ~EzSock closes a descriptor that is left.
Destroyed(w) ==
    table' = [n \in Numbers |->
                IF check(w) /\ n = sock[w] THEN None ELSE table[n]]

\* The old EzSock goes, and there is a new one.
Renew ==
    LET w == W(LuaThread)
    IN /\ In(LuaThread, "renew") /\ Stop(LuaThread)
       /\ Destroyed(w)
       /\ gen' = [gen EXCEPT ![w] = @ + 1]
       /\ sock' = [sock EXCEPT ![w] = INVALID_SOCKET]
       /\ state' = [state EXCEPT ![w] = "DISCONNECTED"]
       /\ raced' = raced \ {w}
       /\ UNCHANGED <<sockets, made, pool, tls, clashed>>

-----------------------------------------------------------------------------

SocketCall(t) ==
    \/ \E w \in Wrappers, call \in Calls \ {"handshake"} : Call(t, w, call)
    \/ Enter(t) \/ Succeed(t) \/ Fail(t) \/ Close(t)

Script ==
    \/ \E w \in Wrappers :
          \/ BromSock(w) \/ Create(w) \/ CreateWorkers(w)
          \/ StartSSLClient(w) \/ Reset(w)
    \/ KillRaise \/ KillWait \/ Renew

\* When two threads change sock at once, the last to write it decides: the other
\* one's descriptor may be lost, or that of another socket closed.  Nothing is
\* claimed of what follows.
Next == ~clashed /\ (Script \/ \E t \in Threads : SocketCall(t))

Spec == Init /\ [][Next]_vars

-----------------------------------------------------------------------------
(* Properties.                                                              *)

Session == [of : Wrappers \X Nat, num : Numbers \union {INVALID_SOCKET},
            freed : {"no", "kill", "failed"}]

TypeOK ==
    /\ table \in [Numbers -> (Wrappers \X Nat) \union {None}]
    /\ sockets \in Nat
    /\ made \subseteq Wrappers
    /\ gen \in [Wrappers -> Nat]
    /\ sock \in [Wrappers -> Numbers \union {INVALID_SOCKET}]
    /\ state \in [Wrappers -> SockStates]
    /\ crew \subseteq made /\ DestoryWorkers \subseteq made
    /\ sessions \in Seq(Session)
    /\ ssl \in [Wrappers -> 0..Len(sessions)]
    /\ at \in [Threads -> Activity]
    /\ raced \subseteq made /\ clashed \in BOOLEAN

\* Whenever no thread is between ::close and the end of EzSock::close, the
\* number in sock is that of a descriptor which this EzSock has opened, and never
\* one that the kernel has given to another socket since; until two threads
\* change sock at once (see Next).
OwnDescriptor ==
    \A w \in Wrappers : sock[w] # INVALID_SOCKET /\ Cleared(w) => Owned(w)

\* No descriptor is forgotten: each that is open is in the sock of the EzSock
\* that opened it, which its wrapper still has; unless the number is 0, which
\* check takes for none.
NoLeakedDescriptor ==
    \A n \in Numbers \ {0} :
       table[n] # None =>
          \E w \in Wrappers : table[n] = Now(w) /\ sock[w] = n

\* A socket call that enters the kernel works on a socket of its own EzSock,
\* although it is only a number that goes from the one to the other, unless that
\* EzSock has closed the number since it was read, or since the SSL session was
\* made.
CallsOwn ==
    \A t \in Threads :
       In(t, "enter") /\ IsOpen(at[t].num) /\ ~at[t].stale =>
          table[at[t].num] = Now(W(t))

\* An EzSock that says it is connected or listening has a descriptor of its own,
\* unless connect or listen came back as another thread closed it (raced); and
\* Reset ends that.
StateTruthful ==
    \A w \in Wrappers \ raced :
       state[w] \in {"CONNECTED", "LISTENING"} => Owned(w)

\* The session of a wrapper is of the EzSock it has now, and a thread never works
\* with a session that KillWorkers has freed.
SessionSafe ==
    /\ \A w \in Wrappers :
          ssl[w] # 0 => /\ sessions[ssl[w]].of = Now(w)
                        /\ sessions[ssl[w]].freed = "no"
    /\ \A t \in Threads : at[t].ses # 0 => sessions[at[t].ses].freed # "kill"
=============================================================================
