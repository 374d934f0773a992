----------------------------- MODULE PacketOut -----------------------------
(***************************************************************************)
(* The outgoing half of gm_bromsock's packets: the out buffer that the      *)
(* Write functions fill, the packet that SOCK_Send empties, and the threads *)
(* that put its bytes on the stream of one connection, with or without a    *)
(* length in front.                                                         *)
(*                                                                         *)
(* The value of a byte does not matter here, only which byte it is: the     *)
(* script's bytes are numbered in the order in which they are written, and  *)
(* memory that was never written, or has been freed, holds Garbage.         *)
(***************************************************************************)
EXTENDS Integers, Sequences, SequencesExt

CONSTANTS
    Packets,        \* the packets the script holds
    Workers,        \* the worker threads of the socket
    LuaThread,      \* the thread that runs the script
    Chunk,          \* the least growth of an out buffer (128 in the code)
    PrefixSize,     \* the bytes of a length in front of a frame (4)
    Formats,        \* the Write functions the script calls
    Sizes,          \* the sizes of what the script writes
    MaxPos,         \* bound: bytes in a packet
    MaxWritten,     \* bound: bytes the script writes
    MaxSends        \* bound: packets the script sends

ASSUME PacketAssumption ==
    /\ Chunk \in Nat \ {0} /\ PrefixSize \in Nat \ {0}
    /\ Formats \subseteq {"fixed", "string", "line", "ntstring", "raw"}
    /\ Sizes \subseteq Nat
ASSUME SenderAssumption == LuaThread \notin Workers \union Packets
ASSUME LimitAssumption ==
    MaxPos \in Nat /\ MaxWritten \in Nat /\ MaxSends \in Nat

Senders == Workers \union {LuaThread}

VARIABLES
    out,        \* of each packet: OutBuffer (set iff it is not null), OutPos
    log,        \* history: what the script wrote to it since it was emptied
    written,    \* history: bytes the script has written, to number them
    callback,   \* Callback_Send is set
    todo,       \* SockWrapper::Todo, the sends not yet taken by a worker
    job,        \* the send each thread is at
    open,       \* the socket is connected
    wire,       \* the bytes that went out
    meant,      \* history: what should have gone out, in the order of Send
    sends,      \* history: calls of Send
    overlap,    \* history: two threads were sending at the same time
    short,      \* history: a send did not take all it was given
    swapped,    \* history: a length went out in the other byte order
    freed       \* history: a packet was written to itself as its buffer moved

script  == <<out, log, written>>
history == <<meant, sends, overlap, short, swapped, freed>>
socket  == <<todo, job, open, wire>>
vars    == <<script, callback, socket, history>>

Garbage == 0
Cells(kind, s) == [i \in 1..Len(s) |-> <<kind, s[i]>>]
Cell == {"data", "length", "swapped"} \X Nat

\* The length in front of a frame.
Prefix(kind, n) == [i \in 1..PrefixSize |-> <<kind, n>>]

Frame(framed, s) ==
    IF framed THEN Prefix("length", Len(s)) \o Cells("data", s)
              ELSE Cells("data", s)

Packet == [set : BOOLEAN, buf : Seq(Nat), pos : Nat]
Event == [data : Seq(Nat), framed : BOOLEAN, swap : BOOLEAN]
Job == [stage : {"idle", "prefix", "body", "sent"}, ev : Event,
        curpos : Nat, packet : Packets \union {LuaThread}]

\* Mutant: the buffer is given away, its size stays.
EmptiedKeepsSize(p) == [p EXCEPT !.set = FALSE, !.pos = 0]

\* A packet whose buffer has been given away or deleted.
Emptied(p) == [p EXCEPT !.set = FALSE, !.buf = <<>>, !.pos = 0]

NoJob == [stage |-> "idle",
          ev |-> [data |-> <<>>, framed |-> FALSE, swap |-> FALSE],
          curpos |-> 0, packet |-> LuaThread]

Init ==
    /\ out = [p \in Packets |->
                [set |-> FALSE, buf |-> <<>>, pos |-> 0]]
    /\ log = [p \in Packets |-> <<>>]
    /\ written = 0
    /\ callback = FALSE
    /\ todo = <<>> /\ job = [s \in Senders |-> NoJob] /\ open = TRUE
    /\ wire = <<>> /\ meant = <<>> /\ sends = 0
    /\ overlap = FALSE /\ short = FALSE /\ swapped = FALSE /\ freed = FALSE

-----------------------------------------------------------------------------
(* The Write functions.                                                     *)

Full(p, needed) == p.pos + needed >= Len(p.buf)

Larger(a, b) == IF a >= b THEN a ELSE b

\* Mutant: the new array is not given what the old one held.
AllocateMoreSpaceOutNoCopy(p, addsize) ==
    [p EXCEPT !.set = TRUE,
              !.buf = [i \in 1..Len(p.buf) + addsize |-> Garbage]]

\* A new array, the old one copied into its front.
AllocateMoreSpaceOut(p, addsize) ==
    [p EXCEPT !.set = TRUE,
              !.buf = p.buf \o [i \in 1..addsize |-> Garbage]]

CheckSpaceOut(p, needed) ==
    IF Full(p, needed) THEN AllocateMoreSpaceOut(p, Larger(needed, Chunk))
                       ELSE p

\* OutBuffer + OutPos onwards takes the bytes s, if they fit.
Put(p, s) ==
    [p EXCEPT !.buf = [i \in 1..Len(p.buf) |->
                         IF i \in p.pos + 1 .. p.pos + Len(s)
                         THEN s[i - p.pos] ELSE p.buf[i]],
              !.pos = p.pos + Len(s)]

\* What each format adds to the size it is given, as its function reserves it.
Extra(format) == CASE format \in {"string", "line"} -> 2
                   [] format = "ntstring" -> 1
                   [] OTHER -> 0

\* Mutant: only the string itself is reserved.
ReserveTooLittle(p, format, n) == CheckSpaceOut(p, n)

Reserve(p, format, n) == CheckSpaceOut(p, n + Extra(format))

\* WriteString checks the space for its length again.
Reserved(p, format, n) ==
    IF format = "string" THEN CheckSpaceOut(Reserve(p, format, n), 2)
                         ELSE Reserve(p, format, n)

Idle == job[LuaThread].stage = "idle"

Fresh(n) == [i \in 1..n |-> written + i]

Write(p, format, n) ==
    LET s == Fresh(n + Extra(format)) IN
    /\ Idle
    /\ written + Len(s) <= MaxWritten
    /\ out' = [out EXCEPT ![p] = Put(Reserved(@, format, n), s)]
    /\ log' = [log EXCEPT ![p] = @ \o s]
    /\ written' = written + Len(s)
    /\ UNCHANGED <<callback, socket, history>>

\* WritePacket(q) takes the bytes of another packet.
WritePacket(p, q) ==
    /\ Idle
    /\ p # q
    /\ out[q].set
    /\ out[p].pos + out[q].pos <= MaxPos
    /\ out' = [out EXCEPT ![p] = Put(CheckSpaceOut(@, out[q].pos),
                                     SubSeq(out[q].buf, 1, out[q].pos))]
    /\ log' = [log EXCEPT ![p] = @ \o log[q]]
    /\ UNCHANGED <<written, callback, socket, history>>

\* A packet written to itself: CheckSpaceOut may free the array that is then
\* copied, which holds what it held or anything else.
WriteItself(p) ==
    LET n == out[p].pos IN
    /\ Idle
    /\ out[p].set
    /\ 2 * n <= MaxPos
    /\ \E lost \in {FALSE, Full(out[p], n)} :
         /\ out' = [out EXCEPT ![p] =
                      Put(CheckSpaceOut(@, n),
                          [i \in 1..n |-> IF lost THEN Garbage
                                                  ELSE out[p].buf[i]])]
         /\ freed' = (freed \/ (lost /\ n > 0))
    /\ log' = [log EXCEPT ![p] = @ \o @]
    /\ UNCHANGED <<written, callback, socket, meant, sends, overlap, short,
                   swapped>>

Clear(p) ==
    /\ Idle
    /\ out' = [out EXCEPT ![p] = Emptied(@)]
    /\ log' = [log EXCEPT ![p] = <<>>]
    /\ UNCHANGED <<written, callback, socket, history>>

\* The script drops packet q and puts a copy of p in its place.
Copy(p, q) ==
    LET bytes == IF out[p].set THEN SubSeq(out[p].buf, 1, out[p].pos)
                               ELSE <<>> IN
    /\ Idle
    /\ p # q
    /\ out' = [out EXCEPT ![q] = [set |-> out[p].set, buf |-> bytes,
                                  pos |-> Len(bytes)]]
    /\ log' = [log EXCEPT ![q] = log[p]]
    /\ UNCHANGED <<written, callback, socket, history>>

-----------------------------------------------------------------------------
(* Sending.                                                                 *)

Sending == {s \in Senders : job[s].stage \in {"prefix", "body"}}

\* Thread s starts on event ev; packet is the one to empty at the end.
Begin(s, ev, packet) ==
    /\ job' = [job EXCEPT ![s] =
                 [stage |-> IF ev.framed THEN "prefix"
                            ELSE IF ev.data = <<>> THEN "sent" ELSE "body",
                  ev |-> ev, curpos |-> 0, packet |-> packet]]
    /\ overlap' = (overlap \/ Sending # {})

SetCallbackSend ==
    /\ Idle
    /\ callback' = TRUE
    /\ UNCHANGED <<script, socket, history>>

\* SOCK_Send with a callback hands the buffer to the workers, who send it from
\* a packet of their own, which has the byte order of the system.
SendLater(p, framed) ==
    /\ callback
    /\ todo' = Append(todo, [data |-> SubSeq(out[p].buf, 1, out[p].pos),
                             framed |-> framed, swap |-> FALSE])
    /\ out' = [out EXCEPT ![p] = Emptied(@)]
    /\ log' = [log EXCEPT ![p] = <<>>]
    /\ UNCHANGED <<job, overlap>>

\* Without one the Lua thread sends it itself, from the packet of the script,
\* whose EndianType may ask for the other byte order (swap).
SendNow(p, framed) ==
    /\ ~callback
    /\ \E swap \in BOOLEAN :
         Begin(LuaThread, [data |-> SubSeq(out[p].buf, 1, out[p].pos),
                           framed |-> framed, swap |-> framed /\ swap], p)
    /\ UNCHANGED <<todo, out, log>>

LuaSend(p, framed) ==
    /\ Idle
    /\ sends < MaxSends
    /\ SendLater(p, framed) \/ SendNow(p, framed)
    /\ sends' = sends + 1
    /\ meant' = meant \o Frame(framed, log[p])
    /\ UNCHANGED <<written, callback, open, wire, short, swapped, freed>>

WorkerTake(w) ==
    /\ job[w].stage = "idle"
    /\ todo # <<>>
    /\ Begin(w, Head(todo), LuaThread)
    /\ todo' = Tail(todo)
    /\ UNCHANGED <<script, callback, open, wire, meant, sends, short, swapped,
                   freed>>

\* One call of send for the bytes s: the kernel takes the first k of them.
\* On a socket that has been closed it takes none.
Transmit(s, k) ==
    /\ k \in 0..Len(s)
    /\ open \/ k = 0
    /\ wire' = wire \o SubSeq(s, 1, k)
    /\ short' = (short \/ k < Len(s))

\* Packet::Send, first call.
SendPrefix(s, k) ==
    LET ev == job[s].ev IN
    /\ job[s].stage = "prefix"
    /\ Transmit(Prefix(IF ev.swap THEN "swapped" ELSE "length", Len(ev.data)),
                k)
    /\ job' = [job EXCEPT ![s].stage = "body"]
    /\ swapped' = (swapped \/ ev.swap)
    /\ UNCHANGED <<script, callback, todo, open, meant, sends, overlap, freed>>

\* Packet::Send, second call: whatever it takes, that was it.
SendFrame(s, k) ==
    /\ job[s].stage = "body"
    /\ job[s].ev.framed
    /\ Transmit(Cells("data", job[s].ev.data), k)
    /\ job' = [job EXCEPT ![s].stage = "sent"]
    /\ UNCHANGED <<script, callback, todo, open, meant, sends, overlap, swapped,
                   freed>>

\* Mutant: after a partial send, the next one starts over.
SendRawAgain(s, k) ==
    LET ev == job[s].ev
        rest == SubSeq(ev.data, 1, Len(ev.data) - job[s].curpos) IN
    /\ job[s].stage = "body"
    /\ ~ev.framed
    /\ k \in 0..Len(rest)
    /\ open \/ k = 0
    /\ wire' = wire \o Cells("data", SubSeq(rest, 1, k))
    /\ job' = [job EXCEPT ![s].curpos = @ + k,
                          ![s].stage = IF k \in {0, Len(rest)} THEN "sent"
                                                               ELSE "body"]
    /\ open' = (open /\ k # 0)
    /\ short' = (short \/ k = 0)
    /\ UNCHANGED <<script, callback, todo, meant, sends, overlap, swapped, freed>>

\* Without a length in front: send until all is gone or a call fails.
SendRaw(s, k) ==
    LET ev == job[s].ev
        rest == SubSeq(ev.data, job[s].curpos + 1, Len(ev.data)) IN
    /\ job[s].stage = "body"
    /\ ~ev.framed
    /\ k \in 0..Len(rest)
    /\ open \/ k = 0
    /\ wire' = wire \o Cells("data", SubSeq(rest, 1, k))
    /\ job' = [job EXCEPT ![s].curpos = @ + k,
                          ![s].stage = IF k \in {0, Len(rest)} THEN "sent"
                                                               ELSE "body"]
    /\ open' = (open /\ k # 0)
    /\ short' = (short \/ k = 0)
    /\ UNCHANGED <<script, callback, todo, meant, sends, overlap, swapped, freed>>

\* The sender posts its result; the Lua thread empties the packet.
Finish(s) ==
    /\ job[s].stage = "sent"
    /\ job' = [job EXCEPT ![s] = NoJob]
    /\ IF s = LuaThread
       THEN LET p == job[s].packet IN
            /\ out' = [out EXCEPT ![p] = Emptied(@)]
            /\ log' = [log EXCEPT ![p] = <<>>]
       ELSE UNCHANGED <<out, log>>
    /\ UNCHANGED <<written, callback, todo, open, wire, history>>

-----------------------------------------------------------------------------
Lua ==
    \E p \in Packets :
      \/ \E f \in Formats, n \in Sizes : Write(p, f, n)
      \/ \E q \in Packets : WritePacket(p, q) \/ Copy(p, q)
      \/ WriteItself(p)
      \/ Clear(p)
      \/ \E framed \in BOOLEAN : LuaSend(p, framed)

Send(s) ==
    \/ \E k \in 0..Larger(PrefixSize, Len(job[s].ev.data)) :
         SendPrefix(s, k) \/ SendFrame(s, k) \/ SendRaw(s, k)
    \/ Finish(s)

Next ==
    \/ Lua
    \/ SetCallbackSend
    \/ \E w \in Workers : WorkerTake(w)
    \/ \E s \in Senders : Send(s)

Spec == Init /\ [][Next]_vars

-----------------------------------------------------------------------------
(* Properties.                                                              *)

\* Every variable has its type, a packet without a buffer has no size, and the
\* Lua thread sends one of the packets.
TypeOK ==
    /\ out \in [Packets -> Packet]
    /\ \A p \in Packets : ~out[p].set => out[p].buf = <<>>
    /\ log \in [Packets -> Seq(Nat)]
    /\ written \in Nat
    /\ callback \in BOOLEAN
    /\ todo \in Seq(Event)
    /\ job \in [Senders -> Job]
    /\ ~Idle => job[LuaThread].packet \in Packets
    /\ open \in BOOLEAN
    /\ wire \in Seq(Cell) /\ meant \in Seq(Cell)
    /\ sends \in Nat
    /\ {overlap, short, swapped, freed} \subseteq BOOLEAN

\* Whatever is written, appended, copied and sent in whatever order, OutPos
\* stays inside the out buffer: each Write function reserves what it stores.
OutFits == \A p \in Packets : out[p].pos <= Len(out[p].buf)

\* The bytes before OutPos are those the script wrote since the packet was
\* last emptied, in order, however often the buffer grew, unless a packet was
\* written to itself while its buffer moved.
WrittenKept ==
    ~freed => \A p \in Packets :
                SubSeq(out[p].buf, 1, out[p].pos) = log[p]

\* The stream carries the packets in the order of Send, each once, whole, and
\* with its own length in front, as long as no two threads send at a time, no
\* send is cut short, and no length goes out in the other byte order.
StreamAsMeant ==
    ~overlap /\ ~short /\ ~swapped /\ ~freed => IsPrefix(wire, meant)

\* README.md:135 on Send: "an int in front of the packet to indicate how large
\* the incoming data is".  Once that int has gone out whole and until the packet
\* follows it, nothing else goes out, for the other end would take it for the
\* packet.  Violated when two workers each send, which README.md:31 allows: "you
\* can call 2 functions at the same time".
FramesWhole ==
    [][\A s \in Senders :
         LET ev == job[s].ev
         IN ev.framed /\ ev.data # <<>> /\ job[s].stage = "body"
            /\ job'[s] = job[s] /\ ~short => wire' = wire]_vars
=============================================================================
