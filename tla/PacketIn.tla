------------------------------ MODULE PacketIn ------------------------------
(***************************************************************************)
(* The incoming half of gm_bromsock's packets: the threads that receive     *)
(* packets from the stream of one connection, the in buffer they fill, and  *)
(* the Read functions of the script, which receive more when the buffer     *)
(* has too little.                                                          *)
(*                                                                         *)
(* The peer sends Frames: bodies of the given lengths, each with its length *)
(* in front.  The bytes of the stream are numbered from 1, and a buffer     *)
(* holds these numbers.                                                     *)
(***************************************************************************)
EXTENDS Integers, Sequences, SequencesExt

CONSTANTS
    Workers,        \* the worker threads of the socket
    LuaThread,      \* the thread that runs the script
    NoPacket,       \* in place of a packet where there is none
    PrefixSize,     \* the bytes of a length in front of a frame (4)
    Frames,         \* the lengths of the frames the peer sends
    Garbled,        \* what four bytes that are not a length may spell
    MaxReceiveSize,
    Wrap,           \* the numbers of an unsigned int (2^32)
    Requests,       \* the calls of Receive and ReceiveUntil the script makes
    ReadSizes,      \* the sizes it reads from a packet
    MaxPos,         \* bound: the position in a packet
    MaxReceives     \* bound: calls of Receive

\* A Receive without a length, one with a length, and a ReceiveUntil, whose n
\* is the size of what it looks for.
Request == [kind : {"framed", "count", "until"}, n : Nat]

ASSUME StreamAssumption ==
    /\ PrefixSize \in Nat \ {0} /\ Frames \in Seq(Nat)
    /\ Garbled \subseteq Int /\ Wrap \in Nat /\ MaxReceiveSize \in 0..Wrap - 1
ASSUME ReaderAssumption ==
    /\ LuaThread \notin Workers
    /\ Requests \subseteq Request /\ ReadSizes \subseteq 1..Wrap - 1
    /\ MaxPos \in Nat /\ MaxReceives \in Nat

Threads == Workers \union {LuaThread}

VARIABLES
    next,       \* the stream byte that recv returns next
    callback,   \* Callback_Receive is set
    todo,       \* SockWrapper::Todo, the receives not yet taken by a worker
    job,        \* what each thread is receiving
    results,    \* SockWrapper::Callbacks: packets, or NoPacket for a failure
    held,       \* the packet the script reads
    receives,   \* history: calls of Receive
    overlap     \* history: two threads were receiving at the same time

vars == <<next, callback, todo, job, results, held, receives, overlap>>

\* Where the length of frame f starts, and where the stream ends.
Start[f \in 1..Len(Frames) + 1] ==
    IF f = 1 THEN 1 ELSE Start[f - 1] + PrefixSize + Frames[f - 1]
End == Start[Len(Frames) + 1]

FrameBytes(f) == [i \in 1..PrefixSize + Frames[f] |-> Start[f] + i - 1]

\* A packet: InBuffer, whose size is InSize, and InPos.  Its history: the frame
\* that was next when a Receive without a length began to fill it, 0 if there
\* is none or the packet holds more; and whether a recv for it ended early.
Packet == [buf : Seq(Nat), pos : Nat, frame : Nat, short : BOOLEAN]
NewPacket == [buf |-> <<>>, pos |-> 0, frame |-> 0, short |-> FALSE]

\* A thread is in a CanRead that wants n bytes and has got tmp: for the length
\* or the body of a received packet, for a ReceiveUntil, for a Read function of
\* the script, or for one that looks for an end ("seek" is its loop, "scan"
\* its CanRead).
Job == [stage : {"idle", "prefix", "body", "until", "read", "seek", "scan"},
        pkt : Packet \union {NoPacket}, n : Nat, tmp : Seq(Nat)]
NoJob == [stage |-> "idle", pkt |-> NoPacket, n |-> 0, tmp |-> <<>>]

Init ==
    /\ next = 1
    /\ callback = FALSE
    /\ todo = <<>> /\ job = [t \in Threads |-> NoJob]
    /\ results = <<>> /\ held = NoPacket
    /\ receives = 0 /\ overlap = FALSE

-----------------------------------------------------------------------------
(* The in buffer.                                                           *)

\* InSize - InPos, as unsigned numbers, is enough for n bytes.
Enough(p, n) == (Len(p.buf) - p.pos) % Wrap >= n % Wrap

Larger(a, b) == IF a >= b THEN a ELSE b

\* What new memory holds: no byte of the stream.
Garbage == 0

\* An array of the given size that starts as p's, with the bytes s at InPos.
Refilled(p, s, size) ==
    [i \in 1..size |-> IF i \in p.pos + 1 .. p.pos + Len(s) THEN s[i - p.pos]
                       ELSE IF i <= Len(p.buf) THEN p.buf[i] ELSE Garbage]

\* Mutant: the space is checked from the start of the buffer, not from InPos.
FillFromStart(p, s) ==
    [p EXCEPT !.buf = Refilled(p, s, Larger(Len(s), Len(p.buf)))]

\* CheckSpaceIn and the copy of the bytes s to InBuffer + InPos.
Fill(p, s) ==
    [p EXCEPT !.buf = Refilled(p, s, Larger(p.pos + Len(s), Len(p.buf)))]

-----------------------------------------------------------------------------
(* A thread that receives.                                                  *)

Receiving == {t \in Threads : job[t].stage \notin {"idle", "seek"}}

\* Mutant: the bytes of the last CanRead are still in tmp.
WantMore(t, stage, p, n) ==
    /\ job' = [job EXCEPT ![t] = [@ EXCEPT !.stage = stage, !.pkt = p, !.n = n]]
    /\ overlap' = (overlap \/ Receiving \ {t} # {})

\* Thread t enters the recv loop of CanRead for n bytes.
Want(t, stage, p, n) ==
    /\ job' = [job EXCEPT ![t] = [stage |-> stage, pkt |-> p, n |-> n,
                                  tmp |-> <<>>]]
    /\ overlap' = (overlap \/ Receiving \ {t} # {})

Leave(t) == job' = [job EXCEPT ![t] = NoJob] /\ UNCHANGED overlap

\* The thread has its packet: a worker posts it, the Lua thread returns it.
Deliver(t, p) ==
    /\ Leave(t)
    /\ held' = IF t = LuaThread THEN p ELSE held
    /\ results' = IF t = LuaThread THEN results ELSE Append(results, p)

\* It has failed: a worker posts that, the Lua thread returns false or throws.
Fail(t) ==
    /\ Leave(t)
    /\ results' = IF t = LuaThread THEN results ELSE Append(results, NoPacket)
    /\ UNCHANGED held

\* Mutant: a negative length is not turned down.
ReceiveBodySigned(t, p, n) ==
    \/ /\ n > MaxReceiveSize
       /\ Fail(t)
    \/ /\ n = 0
       /\ IF t = LuaThread THEN Deliver(t, p) ELSE Fail(t)
    \/ /\ n # 0 /\ n <= MaxReceiveSize
       /\ IF Enough(p, n) THEN Deliver(t, p)
          ELSE Want(t, "body", p, n) /\ UNCHANGED <<results, held>>

\* The tests of the length n, and the CanRead of the body.
ReceiveBody(t, p, n) ==
    \/ /\ n > MaxReceiveSize \/ n < 0
       /\ Fail(t)
    \/ /\ n = 0
       /\ IF t = LuaThread THEN Deliver(t, p) ELSE Fail(t)
    \/ /\ n \in 1..MaxReceiveSize
       /\ IF Enough(p, n) THEN Deliver(t, p)
          ELSE Want(t, "body", p, n) /\ UNCHANGED <<results, held>>

\* What ReadInt makes of the front of the buffer: the length of a frame, or
\* whatever the bytes spell.
Lengths(p) ==
    LET found == {f \in 1..Len(Frames) :
                    IsPrefix(SubSeq(FrameBytes(f), 1, PrefixSize), p.buf)}
    IN  IF found = {} THEN Garbled ELSE {Frames[f] : f \in found}

\* Mutant: ReadInt looks at the length without going past it.
ReceiveLengthPeeks(t, p) == \E n \in Lengths(p) : ReceiveBody(t, p, n)

ReceiveLength(t, p) ==
    \E n \in Lengths(p) :
      ReceiveBody(t, [p EXCEPT !.pos = @ + PrefixSize], n)

\* The CanRead of thread t returns true, and its packet is p.
Succeed(t, p) ==
    \/ /\ job[t].stage = "prefix"
       /\ ReceiveLength(t, p)
    \/ /\ job[t].stage = "body"
       /\ Deliver(t, p)
    \/ /\ job[t].stage = "read"
       /\ Deliver(t, [p EXCEPT !.pos = @ + job[t].n])
    \/ /\ job[t].stage = "scan"
       /\ job' = [job EXCEPT ![t] = [stage |-> "seek", pkt |-> p, n |-> @.n,
                                     tmp |-> <<>>]]
       /\ UNCHANGED <<results, held, overlap>>

\* It returns false: a length is then 0, and a Read function leaves the packet
\* as it is.
GiveUp(t) ==
    LET p == job[t].pkt IN
    \/ job[t].stage = "prefix" /\ ReceiveBody(t, [p EXCEPT !.short = TRUE], 0)
    \/ job[t].stage \in {"body", "until"} /\ Fail(t)
    \/ job[t].stage \in {"read", "scan"} /\ Deliver(t, p)

\* recv returns the next k bytes.
Recv(t, k) ==
    LET got == job[t].tmp \o [i \in 1..k |-> next + i - 1] IN
    /\ job[t].stage \in {"prefix", "body", "read", "scan"}
    /\ k \in 1..job[t].n - Len(job[t].tmp)
    /\ next + k <= End
    /\ next' = next + k
    /\ IF Len(got) = job[t].n THEN Succeed(t, Fill(job[t].pkt, got))
       ELSE /\ job' = [job EXCEPT ![t].tmp = got]
            /\ UNCHANGED <<results, held, overlap>>
    /\ UNCHANGED <<callback, todo, receives>>

\* recv ends or fails: what has come so far is taken for what was wanted.
RecvEnd(t) ==
    /\ job[t].stage \in {"prefix", "body", "read", "scan"}
    /\ IF job[t].tmp = <<>> THEN GiveUp(t)
       ELSE Succeed(t, [Fill(job[t].pkt, job[t].tmp) EXCEPT !.short = TRUE])
    /\ UNCHANGED <<next, callback, todo, receives>>

\* ReceiveUntil takes byte by byte until its end has come.
RecvByte(t, found) ==
    LET got == Append(job[t].tmp, next) IN
    /\ job[t].stage = "until"
    /\ next < End
    /\ next' = next + 1
    /\ found => Len(got) >= job[t].n
    /\ IF found THEN Deliver(t, Fill(job[t].pkt, got))
       ELSE /\ job' = [job EXCEPT ![t].tmp = got]
            /\ UNCHANGED <<results, held, overlap>>
    /\ UNCHANGED <<callback, todo, receives>>

UntilEnd(t) ==
    /\ job[t].stage = "until"
    /\ GiveUp(t)
    /\ UNCHANGED <<next, callback, todo, receives>>

\* A worker, or the Lua thread, begins with a request.
NextFrame == LET at == {f \in 1..Len(Frames) : Start[f] = next}
             IN  IF at = {} THEN 0 ELSE CHOOSE f \in at : TRUE

Receive(t, req) ==
    \/ /\ req.kind = "framed"
       /\ Want(t, "prefix", [NewPacket EXCEPT !.frame = NextFrame], PrefixSize)
       /\ UNCHANGED <<results, held>>
    \/ /\ req.kind = "count"
       /\ ReceiveBody(t, NewPacket, req.n)
    \/ /\ req.kind = "until"
       /\ Want(t, "until", NewPacket, req.n)
       /\ UNCHANGED <<results, held>>

WorkerTake(w) ==
    /\ job[w].stage = "idle"
    /\ todo # <<>>
    /\ todo' = Tail(todo)
    /\ Receive(w, Head(todo))
    /\ UNCHANGED <<next, callback, receives>>

-----------------------------------------------------------------------------
(* The script.                                                              *)

Idle == job[LuaThread].stage = "idle"
Reading == Idle /\ held # NoPacket

SetCallbackReceive ==
    /\ Idle
    /\ callback' = TRUE
    /\ UNCHANGED <<next, todo, job, results, held, receives, overlap>>

LuaReceive(req) ==
    /\ Idle
    /\ receives < MaxReceives
    /\ receives' = receives + 1
    /\ IF callback
       THEN todo' = Append(todo, req) /\ UNCHANGED <<job, results, held, overlap>>
       ELSE Receive(LuaThread, req) /\ UNCHANGED todo
    /\ UNCHANGED <<next, callback>>

\* Think hands over the oldest result; the Receive callback gets a packet.
Think ==
    /\ Idle
    /\ results # <<>>
    /\ held' = IF Head(results) = NoPacket THEN held ELSE Head(results)
    /\ results' = Tail(results)
    /\ UNCHANGED <<next, callback, todo, job, receives, overlap>>

\* BromPacket(socket), a packet that streams.
CreatePacket ==
    /\ Idle
    /\ held' = NewPacket
    /\ UNCHANGED <<next, callback, todo, job, results, receives, overlap>>

Clear ==
    /\ Reading
    /\ held' = NewPacket
    /\ UNCHANGED <<next, callback, todo, job, results, receives, overlap>>

Script == UNCHANGED <<next, callback, todo, receives>>

\* A Read function of n bytes.
Read(n) ==
    /\ Reading
    /\ held.pos + n <= MaxPos
    /\ IF Enough(held, n) THEN Deliver(LuaThread, [held EXCEPT !.pos = @ + n])
       ELSE /\ Want(LuaThread, "read", [held EXCEPT !.frame = 0], n)
            /\ UNCHANGED <<results, held>>
    /\ Script

ReadStringAll ==
    /\ Reading
    /\ held.pos < Len(held.buf)
    /\ Deliver(LuaThread, [held EXCEPT !.pos = Len(held.buf)])
    /\ Script

\* ReadUntil looks for n bytes, ReadStringNT for one.
Seek(n) ==
    /\ Reading
    /\ job' = [job EXCEPT ![LuaThread] = [stage |-> "seek", pkt |-> held,
                                          n |-> n, tmp |-> <<>>]]
    /\ UNCHANGED <<results, held, overlap>>
    /\ Script

\* One turn of its loop: they are not at InPos, or they are; ReadStringNT goes
\* past the byte it looks for, ReadUntil does not.
SeekTurn ==
    LET p == job[LuaThread].pkt
        n == job[LuaThread].n
        past == [p EXCEPT !.pos = @ + 1] IN
    /\ job[LuaThread].stage = "seek"
    /\ IF Enough(p, n)
       THEN \/ Deliver(LuaThread, p)
            \/ /\ p.pos < MaxPos
               /\ \/ n = 1 /\ Deliver(LuaThread, past)
                  \/ /\ job' = [job EXCEPT ![LuaThread].pkt = past]
                     /\ UNCHANGED <<results, held, overlap>>
       ELSE /\ Want(LuaThread, "scan", [p EXCEPT !.frame = 0], n)
            /\ UNCHANGED <<results, held>>
    /\ Script

-----------------------------------------------------------------------------
Lua ==
    \/ SetCallbackReceive
    \/ \E req \in Requests : LuaReceive(req)
    \/ Think
    \/ CreatePacket
    \/ Clear
    \/ \E n \in ReadSizes : Read(n) \/ Seek(n)
    \/ ReadStringAll
    \/ SeekTurn

Thread(t) ==
    \/ \E k \in 1..job[t].n : Recv(t, k)
    \/ RecvEnd(t)
    \/ \E found \in BOOLEAN : RecvByte(t, found)
    \/ UntilEnd(t)

Next ==
    \/ Lua
    \/ \E w \in Workers : WorkerTake(w)
    \/ \E t \in Threads : Thread(t)

Spec == Init /\ [][Next]_vars

-----------------------------------------------------------------------------
(* Properties.                                                              *)

\* Every variable has its type: whatever length a Receive reads or is given, a
\* thread wants a number of bytes that is not negative, for a packet it has.
TypeOK ==
    /\ next \in Nat
    /\ callback \in BOOLEAN
    /\ todo \in Seq(Request)
    /\ job \in [Threads -> Job]
    /\ \A t \in Threads : job[t].stage # "idle" => job[t].pkt \in Packet
    /\ results \in Seq(Packet \union {NoPacket})
    /\ held \in Packet \union {NoPacket}
    /\ receives \in Nat
    /\ overlap \in BOOLEAN

\* Every packet there is: being filled, waiting for Think, read by the script.
\* While the Lua thread reads a packet, the one in its job is newer.
Busy == {t \in Threads : job[t].stage # "idle"}
LuaReads == job[LuaThread].stage \in {"read", "seek", "scan"}
Alive ==
    ({job[t].pkt : t \in Busy} \union {results[i] : i \in 1..Len(results)}
       \union (IF LuaReads THEN {} ELSE {held})) \ {NoPacket}

\* A position never leaves the buffer, although CanRead subtracts it from the
\* size as an unsigned number, unless a recv for the packet ended early.
InsideBuffer == \A p \in Alive : ~p.short => p.pos <= Len(p.buf)

\* A packet holds bytes of the stream in the order in which they came, each
\* once, however the buffer was filled and filled up while it was read, unless
\* a recv for it ended early.
InStreamOrder ==
    \A p \in Alive : ~p.short =>
      \A i, j \in 1..Len(p.buf) : i < j => p.buf[i] < p.buf[j]

\* Whole frames: what a Receive without a length returned, if it began where a
\* frame begins and nothing was read into the packet since.
Delivered == ({results[i] : i \in 1..Len(results)} \union {held}) \ {NoPacket}
IsFrame(p) == p.frame # 0 => p.buf = FrameBytes(p.frame)

\* A Receive without a length that starts where a frame starts returns that
\* frame, all of it and nothing else, however recv cuts the stream, unless
\* another thread was receiving too or recv ended early.
FrameReceived == ~overlap => \A p \in Delivered : ~p.short => IsFrame(p)

\* README.md:126 on Receive: "it will internally call receive(4), read an int
\* from that, and then receive the result of that int".  The same without the
\* second exception; violated when the stream ends in the middle of a frame.
ReceivedAsAnnounced == ~overlap => \A p \in Delivered : IsFrame(p)
=============================================================================
