# gm_bromsock in TLA+

`gm_bromsock` is a native module that gives Garry's Mod scripts TCP and UDP
sockets. A script calls `SOCK_*` functions on the one thread that owns the
`lua_State`; blocking work is queued and done by worker threads; results are
queued back and delivered to Lua callbacks by `Engine::Think`, a hook the game
calls on every tick. This directory models that machinery in TLA+, checks the
models with TLC on small instances and proves the main safety properties with
TLAPS for all instances. Paths below are relative to `src/Source/gm_bromsock/`.

## The system

| part | state | operations |
| --- | --- | --- |
| `SockWrapper` (`Objects/SockWrapper.cpp`) | `Todo`, `Callbacks`, `Mutex`, `CurrentWorkers`, `DestoryWorkers`, `Sock`, `DidDisconnectCallback`, `RefCount`, `ssl` | `SockWorkerFunction` (one per thread), `CreateWorkers`, `KillWorkers`, `Reset`, `CallDisconnect`, `PushToStack`, destructor |
| Lua functions of a socket (`LuaWrappers/BromSock.cpp`) | none of their own | `SOCK_Connect`, `Listen`, `Send`, `SendTo`, `Receive`, `ReceiveFrom`, `ReceiveUntil`, `Accept`, `AddWorker`, `Disconnect`, `Create`, `Bind`, options, `__gc` |
| `Engine` (`Objects/Engine.cpp`) | `Sockets`, `IntialTickHappend` | `Think`, `ShutdownHook`, `Init`, `Shutdown` |
| engine registry (`Objects/Engine.cpp`, `main.cpp`) | `S_States`, `S_Engines`, `S_Lock` | `GetEngineByState`, module open and close |
| `EzSock` (`Objects/BSEzSock.cpp`) | `sock`, `state`, `blocking` | `create`, `bind`, `listen`, `accept`, `connect`, `close`, raw reads and writes |
| `Packet` (`Objects/BSPacket.cpp`, `LuaWrappers/BromPacket.cpp`) | `InBuffer`, `InPos`, `InSize`, `OutBuffer`, `OutPos`, `OutSize`, `EndianType` | `Read*`, `Write*`, `CanRead`, `CheckSpace*`, `Send`, `Clear`, `Copy` |
| `LockObject` | a mutex, `CurrentLocks` | `Lock`, `Unlock` |

How they interact. A script call with a callback pushes a `SockEvent` on `Todo`
under `Mutex`. A worker polls: it tests `DestoryWorkers` and
`IntialTickHappend` without a lock, takes the oldest event under the lock, reads
`Sock` without it, blocks in the socket call, and pushes a result on
`Callbacks` under the lock. `Think` walks `Sockets`, pops results one by one and
calls Lua, and the script calls back into the module from there. `Close` and
the ShutDown hook run `Reset`: the Disconnect callback, then `KillWorkers`
(close, raise `DestoryWorkers`, wait until `CurrentWorkers` is 0, lower the
flag), then the old `EzSock` is deleted and a new one made.

What is hard about it:

* Threads count themselves in `CurrentWorkers` only when they start to run, so
  a thread that `pthread_create` has just made is invisible to `KillWorkers`.
* Everything but the two queues and the count is read and written unlocked.
* Callbacks nest: `Think` -> callback -> `Close` -> Disconnect callback ->
  `Connect` ..., and a Lua error in any of them skips the C++ frames in between.
* A failed accept deletes the `SockWrapper` made for the client, and
  `~SockWrapper` runs `Engine::Think`: in a worker this runs Lua callbacks on a
  second thread.
* Blocking calls, partial reads and writes, descriptors that the kernel uses
  again, reference counts that Lua's collector lowers.

`hazards` in `PROJECT.json` lists each at its line with the properties that
cover it; those without a property say why.

## Modules

| module | what it is |
| --- | --- |
| `RequestQueue` | the promise of the queues, without threads or locks: requests are handed out in the order of issue, results delivered in the order of posting, each once |
| `SockWrapper` | one wrapper, its threads, the Lua thread, `Think`, `Reset`, and the `EzSock` it points to; implements `RequestQueue` |
| `Engine` | the list of all wrappers of a Lua state, their userdata and reference counts, the collector, `Think` and the ShutDown hook walking the list, destructors |
| `EngineRegistry` | the engines of several Lua states in the two static vectors |
| `EzSock` | descriptors that the kernel gives again, the steps of `close`, socket calls by number, SSL sessions |
| `PacketOut` | the out buffers of packets, the Write functions, and the threads that send packets on one stream |
| `PacketIn` | the in buffers, the threads that receive packets from one stream, and the Read functions, which receive too |
| `PacketCodec` | what the bytes say: widths, signs and byte order of numbers, lengths and ends of strings, from the script that writes to the script that reads |
| `MC...` | the instances for TLC (symmetry, the home of each worker, the sizes of frames) |
| `SockWrapperProofs`, `PacketOutProofs`, `PacketInProofs`, `PacketCodecProofs`, `EngineRegistryProofs`, `EngineProofs`, `EzSockProofs` | theorems of the modules they are named after |
| `SharedLemmas` | lemmas of several of them: least numbers, what erasing an element leaves of a vector, induction and recursion over the numbers |

`PacketOut` and `PacketIn` look at one connection of one wrapper and take from
`SockWrapper` only that requests queue in `Todo` in the order of the calls, that
each is taken once by some worker, and that results queue in `Callbacks`; the
rest of the wrapper (stopping workers, `Reset`, errors) is not in them.

`SockWrapper`, `Engine` and `EzSock` look at the same code from three sides, since
their product is out of reach. `SockWrapper` has every step of one wrapper's
threads and takes the wrapper itself for granted. `Engine` has the life of all
wrappers on the Lua thread, and takes from `SockWrapper` that `KillWorkers` returns
when the count is 0 (`KillTerminates`), that a request becomes one result
(`EventOnce`), and that results are popped first in first out. `EzSock` has what
numbers of descriptors do between `EzSock::close`, a new `socket` and a call that
read the number before, and takes from `SockWrapper` that `Reset` is alone with
the socket but for orphans (`ResetAlone`), which are not in it.

### SockWrapper

A thread has a label `pc[t]` and a stack of frames. A worker outside scripts has
an empty stack and goes through `new` (created, not counted), `top` (the tests at
the head of the loop), `take`, `load` (about to read `Sock`), `io` (in the socket
call), `post`, and `exit`, `done`. A thread that runs scripts is in a script
(`lua`), in `Think`, in `Reset` (`kill`, `raise`, `wait`, `lower`, `drop`,
`renew`), in `CreateWorkers` (`create`, `spawn`), or throwing; its stack holds
where it returns to. The game itself is the frame `lua` below an empty stack of
the Lua thread.

Each unlocked read or write of shared state and each critical section is a step
of its own. `mutex` is a lock that `CreateWorkers` holds over two steps; the
other critical sections are one step that needs it free. `SOCK_SendTo` and
`SOCK_ReceiveFrom` are one step: what they read after the unlock, the count, can
only go from 0 to more in between, which the order of the steps already has.

`open` and `state` stand for the `EzSock`. When a socket call ends is left
open, and so is its result among those the call can have; `Operation` says what
each result does to `open` and `state`. `dangling` holds between `delete Sock`
and the assignment of the new one. `using[w]` says what a worker found when it
loaded the pointer and entered its call (`Entering`): an `EzSock` with a descriptor,
one without (`shut`), or one that has been deleted. A call succeeds only if it had a
descriptor when it entered, but may do so after another thread has closed that: then
`connect` still says that the socket is connected. On a deleted `EzSock` any result
may come out.

`Registered` is the set of events the script has set a callback for, `Calls` the
functions it calls, in any order, from the game and from any callback. An error
of a script, and the error `Think` throws for a frame length out of bounds
(`"big"`), unwind the stack to some script below (a `pcall` or the game). On a
worker nothing catches it: the label is then `panic`.

`orphans` is a history variable: the threads that existed, not counted, when a
`KillWorkers` saw a count of 0, and the threads they create. The code cannot see
them; the safety properties say that they are the only exception.

Abstractions: payloads, addresses and lengths are left out (a frame length is ok,
failing or out of bounds); `Bind` acts as `Create`; `SetBlocking`, `SetTimeout`
and `SetOption` only narrow results that are left open; the SSL session is in
`EzSock`; the wrapper outlives the behaviour (`__gc` is in `Engine`), and the wrapper that an
accept returns is another instance. Of the destructors only the one that matters
to this wrapper is here: the wrapper made for a client that did not come is
deleted, and its destructor runs `Think` on the thread that accepted. The
assignment of `skCONNECTED` is one step with the end of `connect`. The socket calls
that a script makes itself, without a callback, are one step here; `EzSock` has them
in steps.

### Engine

`Sockets`, `RefCount`, `Todo`, `Callbacks`, `CurrentWorkers`,
`DidDisconnectCallback` and `tick` are the code's. `life` says whether the memory of
a wrapper is allocated, in its destructor, or freed; `userdata` counts the userdata
with which Lua holds it. The Lua thread is a `stack` of frames, each with the rest
of a C++ function: a walk with its index, a `PushToStack`, the `KillWorkers` of a
`Reset`, the steps of a destructor, a script. `Become` and `Run` take the
running frame off or put others on it.

`Collect` runs `__gc` of any userdata that no C function has on its Lua stack
(`Pinned`), wherever Lua allocates: in scripts, and in the `NewUserdata` of
`PushToStack` before `RefCount++`. A script may use a socket as long as it has a
userdata of it.

The destructor is a frame with four labels: `destroy`, while its `KillWorkers`
waits; `lower`, between the last look at the count and the lowering of
`DestoryWorkers`; `lock`, before it takes the Mutex; `free`, below the Think it runs.
`DestroyLock` takes the Mutex, erases the requests and calls `Think`; `Free` drops the
results that are left and frees the wrapper. A thread counts itself whenever the
Mutex is free, so also between those steps, and one that waits for the Mutex gets it when
the wrapper is freed. `late` records the wrappers whose threads had not counted
themselves at the last look, and `HeldAlive` says that only their threads come to a
wrapper that has been deleted. A wrapper that a failed accept made is deleted by
`LuaAcceptFails`, without ever having been listed.

An error (`Unwind`) skips all frames up to a script that catches it. One in a callback
of a destructor's Think leaves that destructor for good: the wrapper is `stranded`,
with its Mutex locked, its `EzSock` and its results never deleted. A `PushToStack` that
had begun before may even hand such a wrapper to a script.

`Live` in a guard stands for the Mutex of a wrapper that its destructor holds on the
same thread: a default pthread mutex hangs when its owner locks it again, so the walk
or the call stops there. (A Windows critical section would let it through; that build
is not modelled.) `DestructorAlone` says that nothing within a destructor comes there; what
can is a walk further out, or a script with a stranded wrapper.

`lost` marks that `Think`, the hook, a `Reset`, `PushToStack` or a thread has gone on with
a wrapper that has been deleted. The code does nothing against that: the only pointer
is a local variable. The behaviour ends there, and no property speaks of what
follows. `leaked` is history too: it has the wrappers lost in one of the four ways that
`NoLeak` lists, which a later callback may still hand to a script. So is `shifted`,
see `WalkComplete`.

Abstractions: a `Receive` stands for every request whose result goes to a callback
with the wrapper alone, and the userdata of packets are left out; scripts set
every callback when they get a socket, but for Accept, which may be called with
one or without; the accept of a worker that fails, with its `Think` on the worker,
is `SockWrapper`'s; the engine that a state finds is `EngineRegistry`'s; closing the Lua
state with its last collection is left out.

### EngineRegistry

`S_States` and `S_Engines` are the vectors, an engine is the number of its opening
and a state is its address, which a later state may have again. `Open` is
`GMOD_MODULE_OPEN` with `Engine::Init`, `Close` is `GMOD_MODULE_CLOSE` with
`Engine::Shutdown`: it erases the engine found from `S_Engines` and leaves the state
in `S_States`, so that the vectors shift. `GetEngineByState` uses the index in the one
for the other without a look at its size. `behind` is what the memory of the vector
holds behind its end: an erase moves the engines up and leaves the last pointer in
its old place too, until `push_back` writes over it. So a lookup may return the
engine of another state, one that has been deleted, or what no engine was ever put in
(`Unknown`); TLC finds each of these for an open state when the order of life is free.
`orderly` is history: it holds as long as states close in the reverse order of opening
and come back in the order of the first ones (a server and its client states that
are restarted), and `OwnEngine` says that this is enough for every state that is open. A
state that has closed is still in `S_States`, and a thread of its sockets that looks it
up gets a deleted engine in any order. When closing finds no engine, or a deleted one, it
is undefined and has no step.

### EzSock

`table` is the kernel's: which `EzSock` has opened each number. `sock` and `state` are
the members, an `EzSock` is its wrapper and how often that was reset (`gen`).
`EzSock::close` is three steps: `CloseShutdown` sets the state, `CloseNumber` gives
the number back to the kernel, `CloseClear` forgets it. A socket call is `Call`, which
reads the number, `Enter`, where the kernel looks it up, and `Succeed` or `Fail`.
A `transfer` on a wrapper with a session goes through the session, or past it: the
length in front of a frame (`Objects/SockWrapper.cpp:110`) and datagrams use the plain
socket. `Reset` is `close`, `KillRaise`, `KillWait`, `Renew`; an SSL session keeps the number
it was made for, and `freed` says who has freed it.

`stale`, `raced` and `clashed` are history. `stale` marks a call whose number its
own `EzSock` has closed since it was read, so that the kernel may have given it to
another socket: the code does nothing against that, and `CallsOwn` says that it is
the only way for a call to reach a socket of another. `raced` is a wrapper whose
`connect` or `listen` came back while another thread closed it and that says it is
connected without a descriptor. `clashed` is two threads that change `sock` of one
`EzSock` at once (a raw Send that fails on a worker closes it, while the Lua thread
closes or creates): nothing is claimed of what follows.

Abstractions: `transfer` is any read or write, framed or raw or through SSL; `bind`,
`blocking`, addresses and the text of errors are left out, and every call may fail;
the worker's own queue is `SockWrapper`'s.

### PacketOut

`out[p]` is a packet's `OutBuffer` (`set` iff it is not null; its length is
`OutSize`) and `OutPos`. A byte is its number in the order in which the script
writes, so that the order and the loss of bytes can be told, and their values
cannot; new memory holds `Garbage`. A Write function is given a size, reserves
what its source reserves (`Extra`, `Reserve`, and for `WriteString` once more in
`WriteShort`) and stores as many bytes. `WritePacket` of a packet to itself is an
action of its own: `CheckSpaceOut` frees the array that is then copied, and the
copy holds the old bytes or anything else. `Copy` replaces a packet, since a
packet that the script drops is collected.

`SOCK_Send` hands the buffer to `Todo` when a callback is set; a worker takes it
and sends from a packet of its own. Without a callback the Lua thread is the
sender, and does nothing else until it has sent. A framed send (`Packet::Send`)
is two steps, one for the length and one for the bytes, each of which ignores how
much the kernel takes; a raw send is a step for each turn of its loop. `swap`
stands for an `EndianType` that is not the system's, chosen at the send. `wire`
is what went out, `meant` what should have in the order of the calls.
`overlap`, `short`, `swapped` and `freed` record that one of the things happened
that `StreamAsMeant` and `WrittenKept` except.

### PacketIn

The peer sends `Frames`. The bytes of the stream are numbered, and a buffer
holds these numbers; what `ReadInt` makes of four of them is the length of a
frame if they are the length of one, and any of `Garbled` else. `Wrap` is 2^32,
the modulus of the unsigned `InSize - InPos`. A thread in `CanRead` is at a
stage: `prefix` and `body` of a received packet, `until` for `ReceiveUntil`,
`read` and `scan` when a Read function of the script has too little; `tmp` is
what has come so far. Each `recv` is a step that returns some bytes, or ends.
The loops of `ReadUntil` and `ReadStringNT` are at `seek` between their turns.
`frame` and `short` in a packet are history: the frame that was next when it
was asked for, and whether a `recv` for it ended early.

Abstractions of both: what bytes spell (`PacketCodec`), and so `EndianType` but for the
length in front of a frame; SSL in place of the socket calls; `SendTo`, which empties its
packet as `SendLater` does, and datagrams; `Valid` and the state of the
socket after a failed `recv`; `ReadString` as a Read of two bytes and a Read of
the length. A negative size given to `ReadString` and a `ReadStringAll` behind
the end throw or change nothing and are left out. `Copy` is in `PacketOut`; of an
in buffer it makes a second packet that is read like the first.

### PacketCodec

`Base` is the number of values of a byte, `Power[n]` that of `n` bytes, and `Size` and
`Signed` give each format of numbers its width and its range. `Encode` gives the bytes
of a number; `Decode` adds them up from the highest to the lowest (`High`). A number
that its format does not have is not written, since C++ leaves the conversion open.
Memory holds a number in the order `Order` of its packet: that of the machine unless
`EndianType` is set to something else, as `swap_2`, `swap_4` and `swap_8` do; history
records the order that the `EndianType` stands for (`Meant`). `bytes` is the out
buffer up to `OutPos`. Strings come with any bytes: `CString` is what `strlen` leaves
of them. A line is two values for the reader, since `ReadUntil` stops in front of the
line end. `Send` puts the bytes into a new packet on another machine (`in`), with
nothing behind them, so that a `CanRead` that wants more returns false. The reader
calls the function for the format of the next value and sets its `EndianType` as it
likes. Where a negative length reaches `new`, or `ReadString(len)` returns `len` bytes
of an array of one, the behaviour ends (`undefined`).

`RoundTrip` says that the reader gets what was written, up to the first value that
its format does not carry (`Carries`): a number in another byte order, a C string
with a zero in it, a `WriteString` of 2^15 bytes or more, a line with a line end in it;
and that only then something undefined happens. Floats are numbers of 4 and 8
bytes; their rounding, and that of a Lua number to 64 bits, is not modelled.

## Runs

| run | instance | what it shows |
| --- | --- | --- |
| `stream` | 4 workers, 2 requests, `Connect`, `Send`, `Receive`, `Close`, errors, shutdown, callbacks for all | `TypeOK`; `HandOK`, `EventOnce`: no request is lost or doubled when workers are stopped; `NoStaleUse`: only orphans use a deleted `EzSock`; `ImplementsRequestQueue` |
| `server` | 3 workers, 2 requests, accepts that fail, so that `Think` and callbacks run on workers; `AddWorker`, errors, shutdown | `EventOnce`, here with Think on two threads that pop the same results; `CountExact`; `ResetAlone`; `OnlyLuaThreadResets`; `FlagJustified`: the order to stop never outlives a `Reset` |
| `live` | 2 workers, a datagram socket and blocking stream calls, under `FairSpec` | `KillTerminates`: Close comes back; `ResultDelivered` |
| `packet_out` | 2 packets, strings and numbers of 0 and 1 bytes, 2 sends by 2 workers or the Lua thread, framed or raw; the script uses one packet once it sends | `TypeOK`; `OutFits`; `WrittenKept`: a buffer that grew, was copied or appended holds what was written; `StreamAsMeant` |
| `packet_codec` | 2 packets with 3 values, bytes of 2 bits, shorts of 2 bytes, a writer on a little endian and a reader on a big endian machine | `TypeOK`: a number read is one its format has; `RoundTrip` |
| `packet_in` | frames of 0 and 2 bytes, one worker and the Lua thread, 2 calls of `Receive` or `ReceiveUntil`, reads of 1 and 2 bytes | `TypeOK`; `InsideBuffer`; `InStreamOrder`; `FrameReceived` |
| `engine` | 3 wrappers, 2 userdata, one request, one worker thread, two destructors or Closes within each other | `TypeOK`; `ListOK`: `Sockets` has every socket a script can reach, once and alive; `HeldAlive`: whoever holds a socket finds it alive; `DestructorAlone`: what runs in a destructor never comes to its wrapper; `NoLeak`: four ways to leak a wrapper, and no other; `WalkComplete`: a walk by index leaves out a socket only when one before its index was erased |
| `registry` | 3 states, 6 openings | `OwnEngine`: in the order of life that keeps the vectors in step, each open state finds its own engine |
| `ezsock` | 2 sockets, one with a worker, 2 descriptors with the number 0 among them, 2 sockets made, 1 Reset, 1 session | `TypeOK`; `OwnDescriptor`, `NoLeakedDescriptor`, `CallsOwn`: numbers stand for what they stood for; `StateTruthful`; `SessionSafe` |
| `doc_shutdown_is_quiet` | `SendTo`, then ShutDown | violated: `Objects/Engine.cpp:174` says nothing does networking after it; a callback of the hook's own Think calls `SendTo` once more, and a thread that was not counted is in that call, with an open descriptor, when the hook has returned |
| `doc_frames_whole` | 1 packet sent twice, by 2 workers | violated: `README.md:135` has the length in front of its packet; two workers put the length of another packet between. Only sends of data count whose own length went out whole |
| `doc_received_as_announced` | `packet_in`'s instance, frames only | violated: `README.md:126` has `Receive` return the announced frame or false; when `recv` ends early it returns a part, or an empty packet |

Bounds. `MaxEvents` = 2 requests are enough for two to overtake each other, for
one to wait while another is in hand, and for one to survive a `Reset`. Four
workers are two pairs: an old one and the one a reconnect makes. Three workers
are a pair and one more from `AddWorker`, which a callback on a worker can call.
`MaxNest` = 2 bounds the frames below a call that runs scripts again, enough for
Close inside a callback inside the Think of a Close. When `Workers` is used up,
`pthread_create` fails, which the code does not notice either. Deadlock is not
checked for `SockWrapper`: a thread that closes the socket from a callback on a worker waits for
its own count, a `panic` ends the process, and a shut down game is at rest.

For packets, `Chunk` = 1 (128 in the code) makes a buffer grow at the first and the
second byte, so that a write meets a buffer with too little, just
enough and more room; a `PrefixSize` of 2 (4 in the code; 1 in `packet_out`, where a length
that is cut is excepted) is the least that `recv` can cut. Two bytes (`MaxWritten`,
`MaxPos`) are the length of an empty string, or one that ends with a zero, and can
be sent in two parts; more bytes and larger growth are left to the proofs. Two
packets are enough for `WritePacket` and `Copy`; `OnePacketSends`, a constraint, does not
go on from states in which one packet has been sent and two are in use. Two sends
are enough to interleave, and two calls of `Receive` to meet the second frame at,
before and behind its start. `Garbled` has numbers below 0, at 0, within and above
`MaxReceiveSize` = 3, and all sizes stay far below `Wrap` = 64. For `packet_codec`, bytes
of two bits make a short -8..7, so that a string of 7 bytes is the longest that it
counts and one of 8 is the first it does not; three values are one to get wrong, one
behind it, and one from another packet. Deadlock is not checked
here either: a script that has used up its bounds is at rest.

For `engine`, three sockets are a walk with one before its index, one at it and one
behind it; two userdata let a socket be held twice, or two be held at a time;
`MaxNest` = 2 is a destructor, with its Think, whose callback starts another, or a
Close in either. These bounds reach a destructor with threads it did not count, one that an
error cuts short, a walk that then comes to the stranded wrapper, and a thread that
comes to a deleted one. They do not reach a userdata of a stranded wrapper, nor a client
that waits in one: there the exceptions in `HeldAlive` and `NoLeak` rest on the proofs.
Six openings of three states close and open all of them twice. For `ezsock`,
two sockets made are enough for the number of one to pass to the other while a
call, a close or a session still has it. Deadlock is not checked for the three:
a game that has shut down and scripts that have used up the bounds are at rest.

Fairness (`FairSpec`). Weak fairness of each worker step and of the steps inside
a call on the Lua thread is the scheduler's. A socket call need not return, but
one on a socket that has been closed does: `EzSock::close` calls `shutdown`
first, which wakes a blocked call. Strong fairness of `LuaReturn` says that
callbacks return, whatever functions they call in between, and of `Tick` that
the game goes on ticking. No script is required to call anything. Both liveness
properties except runs with orphans: an orphan that creates workers can restore
an order to stop that has been withdrawn.

## Proofs

`SockWrapperProofs` proves, for any finite set of workers, any script
(`Registered`, `Calls`) and any bounds (`WorkersAssumption`,
`ScriptAssumption`, `BoundAssumption`):

| theorem | property |
| --- | --- |
| `TypeInvariant` | `TypeOK` |
| `HandInvariant` | `HandOK` |
| `CountInvariant` | `CountExact` |
| `ResetterInvariant` | `OnlyLuaThreadResets` |
| `ResetInvariant` | `ResetAlone` |
| `UseInvariant` | `NoStaleUse` |
| `EventInvariant` | `EventOnce` |
| `QueueRefinement` | `ImplementsRequestQueue` |
| `FlagInvariant` | `FlagJustified` |

The argument goes in five layers, of which the fourth needs only the second.

1. *Control.* `ControlOK` types `pc` and `stack` and contains `StackOK`: every thread
   has a frame of its own kind to return to. That is a help to the proofs and no
   property. Four lemmas say that `ThreadOK` survives a change of label, a call, a return and an
   unwinding; four more lift them to the actions `Go`, `Call`, `Return`,
   `CallDisconnect`; each action then cites one of them.
2. *Data.* `TypeInv` adds the types of the data and `HandOK`. `HandOK` is needed
   for the types: `WorkerPost` appends `cur[w]` to `Callbacks`, which is an
   event only because a worker at `post` holds one. Its own proof needs only
   what a step looks like from outside: `LuaMove` says that a thread running
   scripts stays in the scripts or comes back at `post`, and that others stay or
   are born.
3. *KillWorkers.* `KillInv` adds `CountExact`, `OnlyLuaThreadResets`,
   `ResetAlone`, `UsingOK` (a worker has a loaded pointer only at `io`, and a
   deleted one only if it is an orphan) and `DanglingOK` (`Sock` dangles only at
   `renew`). No conjunct is inductive alone. A worker cannot pass the wait,
   since one that runs scripts is counted and the count is exact; so it is the
   Lua thread that passes, with nobody counted, and all threads left are made
   orphans; until `renew` only orphans run, and their children are orphans.
   Steps that do not touch the reset are `Quiet`, and one lemma serves all.
4. *Queues.* `OnceInv` adds to `EventOnce` that no more requests wait than were
   issued, without which their numbers would not be naturals and a new one could
   meet an old one. `QueueStep` says what a step is for the queues: nothing, one
   request issued, one taken from the front, one result posted, or one delivered
   (`StaysPut`, `Issues`, `Takes`, `Posts`, `Delivers`). Both the invariant
   (`OnceStep`) and the simulation of `RequestQueue` (`ImplementsStep`) go by
   these five cases. `Finish` of the abstract queue takes one number out of the set
   in hand, so it needs `OnceInv`: no other worker has the same one.
5. *The order to stop.* `FlagInv` adds to `FlagJustified` what `CreateWorkers` will
   restore: without orphans, if it has read the order (`old`), a thread still waits.
   That thread cannot see the count under the mutex, so it is still waiting when the
   order is restored. `FlagStill` steps leave all this alone.

`PacketOutProofs` proves, for any packets, workers, formats, sizes, growth and
bounds (`PacketAssumption`, `SenderAssumption`, `LimitAssumption`),
`PacketOutTypes` (`TypeOK`), `PacketOutFits` (`OutFits`) and `PacketOutKeeps`
(`WrittenKept`). The lemmas `SpaceMade`, `BytesPut` and `Reserves` say what
`CheckSpaceOut`, a store and the space checks of the formats leave of a buffer;
`HoldsMore` puts them together: a packet that holds a log holds the longer log
after a Write. The invariant is `Sound` and `Holds` for each packet
(`BufferInv`) and the types of the rest (`SocketInv`). `WrittenKept` alone is
not inductive, since it says nothing of the room behind the position, nor
`OutFits`, since a store into a buffer that is too short has no bytes to speak
of.

`PacketOutStream` proves `StreamAsMeant` for the same constants. `meant` runs ahead
of `wire` by the requests that wait, so the two alone have no invariant. `StreamInv`
says, while nothing has disturbed the stream (`Clean`), that there is a function
`q` with `q[i]` what will have gone out after the first `i` of the waiting requests
and `q` at their number equal to `meant`; and that the stream holds `q[0]` but for what
the one busy sender still has to send (`Left`). A Send puts one more value at the
end of `q`, a worker that takes a request drops its first, a call of `send` takes
from what is left.

`PacketInProofs` proves, for any frames, threads, requests and sizes below `Wrap`
(`StreamAssumption`, `ReaderAssumption`), `PacketInTypes` (`TypeOK`) and
`PacketInInside` (`InsideBuffer`). The invariant types every packet as `Good`
(its position is in the buffer unless a recv ended early) and every job as
`GoodJob`: one that wants a length wants `PrefixSize` bytes, one that looks for
something looks for one of `ReadSizes`. `EnoughIsAhead` is the arithmetic of the
unsigned difference, `FillGoesAhead` says that a fill puts what was wanted behind
the position, and a lemma per way to go on (`WantSound`, `DeliverSound`, ...)
serves all actions. Two more invariants have the same outline:

1. `PacketInOrder` (`InStreamOrder`), for streams no longer than `Wrap`, which in the
   code is 2^32 bytes for one connection. `OrderInv` says that every buffer is `Rising`:
   bytes of the stream before the next one, in order. For a thread in a CanRead it
   adds that its buffer up to the position with what has come in `tmp` behind it is
   rising too, and that what lies behind the position is no more than what it waits for, so
   that the fill covers all of it. The latter is what the unsigned test tells
   (`NotEnough`), and needs the length of the stream: at `Wrap` bytes and more the
   difference wraps.
2. `PacketInFrames` (`FrameReceived`), for any frames. While no two threads have
   received at once, the thread in a CanRead is `Alone`, so that the bytes that come
   are all its own. `WholeInv` says how much of a frame it has: in the length, the
   bytes from the start of the frame on; in the body, a buffer that holds the length
   and `tmp` the bytes behind it. `LengthFound` says that the length read is that of
   this frame, since no two frames start at one byte.

Both need `Start`, a recursive function. That it is what its definition says, and
that it grows (`StartIs`, `StartNat`, `StartLater`, `StartOnce`), is proved from the
least number for which it is not, which `WFMin` of `WellFoundedInduction` gives
(`LeastNatural` of `SharedLemmas`).

`PacketCodecProofs` proves both properties of the run `packet_codec`, for any even
number of values of a byte, any sizes of the formats, any orders of the two machines
and any packets, values and strings (`ByteAssumption`, `FormatAssumption`,
`EndianAssumption`, `ScriptAssumption`; 256, the C++ types and the formats of the Lua
functions are one instance): `PacketCodecTypes` (`TypeOK`) and
`PacketCodecRoundTrip` (`RoundTrip`).

`RoundTrip` is not inductive: that the values so far are right says nothing of the
bytes that come next, nor of where the position is among them. `Inv` adds

1. `WriterOK`: every out buffer is `Coded`, the bytes of the values in `wrote` one
   after the other (`Spelled`, with `Cuts` for the places where they end), and a line is
   followed by the bytes of its end. `CodedJoin` says that this survives when one is put
   behind the other, which is all that `Put` does, for `WritePacket` too;
2. `ArrivedOK`: so is the buffer that was received, of the values that were sent;
3. `ReaderOK`: as long as the formats have carried what was read (`Carried`), the
   position is at the cut in front of the next value, so that its bytes are ahead
   (`ExpectedHere`), and values read are those written. Afterwards only the position in the
   buffer and the ranges of the numbers are known, and `ReturnSound` asks for no more;
4. `StageOK`: undefined reads come after a value that was not carried.

Below are the numbers. `Splits` is what a division leaves, said once and only once
(`SplitExists`, `SplitOnce`), so that dividing by a power is dividing again and again
(`Shifts`). The bytes of a number, added up from the highest, are the number without
its lower bytes (`HighDigits`), so all of them are the number modulo what they hold
(`UnsignedEncode`), and for a number that its format has `Decode` gives it back, with a
sign and without (`DecodeEncode`, `DecodeFits`). `Power` and `High` are recursive functions;
that there is a function that keeps such a definition is `Recursion` in `SharedLemmas`,
by induction (`AllNumbers`) over how far one goes.

`EngineRegistryProofs` proves, for any set of states and any number of openings
(`OpensAssumption`), `OwnEngineFound` (`OwnEngine`). Lemmas say what the loops find and
erase: `FindFirst` (the first occurrence), and in `SharedLemmas` `FirstExists` (from the
least number of a set of naturals), `RemoveFirstIs`, `RemoveFirstDistinct`. `Sound` says
that `S_Engines` has exactly the engines that are alive, each once. `Ordered` adds, while
`orderly` holds, that the open states are the first entries of `S_States`, in step
with `S_Engines` (`InStep`), so that no lookup of an open state reads behind the end;
entries behind them may repeat, and do no harm since a lookup stops at the first.

`EngineProofs` proves every property of the run `engine`, for any wrappers, any sizes
of a crew and any bounds (`WrapperAssumption`, `EngineBoundAssumption`):
`TypeInvariant`, `HeldWrappersLive` (`HeldAlive`), `DestructorsAlone`
(`DestructorAlone`), `ListInvariant` (`ListOK`), `WalksMissNone` (`WalkComplete`) and
`LeaksAreKnown` (`NoLeak`). The first three parts below are one invariant: what a walk may
come to depends on the list, the list on what frames know, and both on what a
destructor in progress cannot meet.

1. `Held`: every frame of the stack works on wrappers as its call demands
   (`StackOK`), clients in results exist (`ClientsOK`), and the count is that of the
   userdata (`CountOK`). `HeldAlive` is not inductive: what a frame will still push has to
   be there when the frames above it return, a wrapper is stranded while frames
   further out still know it, and userdata of a stranded one are exempted with it.
2. `Lists`: `ListOK` is not inductive, since a wrapper that a script cannot reach
   today may be pushed tomorrow. `KnownOK` says that all live wrappers that a frame knows
   are listed or about to be; `ListingOK` that the wrapper `SOCK_Accept` is about to
   list is known to nobody else, so that it is never listed twice; `WaitingOK` that a
   client in a result is there once, unlisted and unknown. So the listed wrappers
   stay distinct.
3. `Alone`: `FramesAlone` says of each destructor that no frame above it knows its
   wrapper, that nothing at all is above it before it holds the Mutex, and that after its
   last look it has only the threads that `late` records (`Seen`); `LivesAlone` that a
   wrapper that dies has its destructor in the stack, or is stranded with its Mutex
   locked.
4. `WalksOK`: for each walk, what is in front of the index was served and what is
   behind it was not, or something in front was erased (`WalkIn`). A step makes the
   list `Longer` at its end or takes one out (`Erased`).
5. `WaysOK`: a live wrapper without userdata is on its way to a script by the stack
   (`Made`) or by a result of a wrapper that still delivers (`Waited`), or is in `leaked`.
   `NoLeak` is this with `LivesAlone` for the wrappers that die and `StrandedOK`, and
   `WaysKept` shows it for any step from what the step adds and takes off.

`EzSockProofs` proves every property of the run `ezsock`, for any wrappers, workers,
descriptors and bounds (`NumbersAssumption`, `ThreadAssumption`): `TypeInvariant`,
`OwnInvariant` (`OwnDescriptor`), `LeakInvariant` (`NoLeakedDescriptor`),
`CallInvariant` (`CallsOwn`), `StateInvariant` (`StateTruthful`) and
`SessionInvariant` (`SessionSafe`). The invariant has four layers, each proved with
the help of those before it.

1. `Control`: the types, what a thread may do at each `pc` (`ThreadOK`), and that a
   wrapper that does not exist has nothing (`Unmade`). It says who is alone:
   in `renew` the wrapper has no crew, so `AloneInRenew`.
2. `Descriptors`: `OwnDescriptor` is not inductive, since `::close` of a number would
   free that of another socket if a second thread were closing too. Until two
   threads change `sock` at once there is one closer (`OneCloser`), so the number
   it frees is its own (`CloserOwns`), the one that `CloseClear` forgets is not
   (`ForgetsNothing`), and a call whose number was not closed keeps it
   (`CallOwned`).
3. `Truthful`: `StateTruthful` with `ClosingSaysSo`, since between `CloseShutdown` and
   `CloseClear` the descriptor goes while the state stays.
4. `Safe`: `SessionSafe` with `SessionOwned`: a session that a thread goes through is of
   its own wrapper, so that neither `KillWait` nor a handshake that fails frees that
   of another.

Only model-checked: what the prover does not reach, liveness under fairness
(`KillTerminates`, `ResultDelivered`) and `ENABLED`.

## Seen, without a run

Claims of the documentation that the code does not keep and that are steps of the
model, too plain to need a run: `Connect` and `Listen` make two more workers on every call,
though `README.md:30` says that every socket has two; and a failed `Accept` before
the first tick runs `Think`, which lets the workers start, though
`Objects/Engine.cpp:250` wants them to wait for the Tick hook. A third is in `PacketCodec`: `ReadUntil` and
`ReadLine` return what is in front of the end and stay there, though `README.md:62` says
that "the return value includes str at the end", so that a second `ReadLine` returns
nothing.

## Not modelled

A packet keeps the pointer to its `EzSock` (`Objects/SockWrapper.cpp:100`), which `Reset`
and the destructor of the wrapper delete, and nothing in the code ties one to the
other: the first Read afterwards that lacks bytes is undefined. `PacketIn` looks at one
connection and leaves that out, since a model of it would say no more than that.

`SetBlocking`, `SetTimeout`, `SetOption` and `SetMaxReceiveSize` only narrow results
that are left open. `GetIP`, `GetPort`, `GetState`, `IsValid`, `__tostring`, `__eq` and
`GetLastError` change nothing. The Gmod headers are third-party, and OpenSSL and
the kernel are libraries; they appear as far as the code uses them. Build files,
project files, the binaries in `Builds` and the examples have no state to model.
