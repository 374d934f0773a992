-------------------------- MODULE PacketOutProofs --------------------------
(***************************************************************************)
(* Proofs about PacketOut, for any packets, sizes and growth: the types,    *)
(* that a position stays inside its out buffer, that the bytes before it    *)
(* are those the script wrote, and that the stream carries the packets in   *)
(* the order of Send.                                                       *)
(***************************************************************************)
EXTENDS PacketOut, SequenceTheorems, TLAPS

-----------------------------------------------------------------------------
(* The space check and the copy, for one packet.                            *)

\* What is always so of a packet.
Sound(p) ==
    /\ p \in Packet
    /\ ~p.set => p.buf = <<>>
    /\ p.pos <= Len(p.buf)

\* The bytes of p before its position are those of l.
Holds(p, l) ==
    /\ p.pos = Len(l)
    /\ \A i \in 1..p.pos : p.buf[i] = l[i]

LEMMA GarbageSeq ==
    ASSUME NEW n \in Nat
    PROVE  LET g == [i \in 1..n |-> Garbage]
           IN  g \in Seq(Nat) /\ Len(g) = n
BY DEF Garbage

\* The bytes s in place of those of b from n + 1 on.
Overwrite(b, n, s) ==
    [i \in 1..Len(b) |-> IF i \in n + 1 .. n + Len(s) THEN s[i - n] ELSE b[i]]

LEMMA Overwritten ==
    ASSUME NEW b \in Seq(Nat), NEW n \in Nat, NEW s \in Seq(Nat),
           n + Len(s) <= Len(b)
    PROVE  LET c == Overwrite(b, n, s)
           IN  /\ c \in Seq(Nat) /\ Len(c) = Len(b)
               /\ \A i \in 1..n : c[i] = b[i]
               /\ \A i \in 1..Len(s) : c[n + i] = s[i]
<1> DEFINE c == [i \in 1..Len(b) |-> IF i \in n + 1 .. n + Len(s)
                                    THEN s[i - n] ELSE b[i]]
<1>1. Len(b) \in Nat /\ Len(s) \in Nat
  OBVIOUS
<1>2. \A i \in 1..Len(b) : b[i] \in Nat
  BY ElementOfSeq
<1>3. \A i \in 1..Len(s) : s[i] \in Nat
  BY ElementOfSeq
<1>4. ASSUME NEW i \in 1..Len(b)
      PROVE  (IF i \in n + 1 .. n + Len(s) THEN s[i - n] ELSE b[i]) \in Nat
  <2>1. CASE i \in n + 1 .. n + Len(s)
    <3>1. i - n \in 1..Len(s)
      BY <1>1, <2>1
    <3>2. QED
      BY <1>3, <2>1, <3>1
  <2>2. CASE i \notin n + 1 .. n + Len(s)
    BY <1>2, <2>2
  <2>3. QED
    BY <2>1, <2>2
<1>5. c \in [1..Len(b) -> Nat]
  BY <1>4
<1>6. c \in Seq(Nat) /\ Len(c) = Len(b)
  BY <1>1, <1>5
<1>7. \A i \in 1..n : c[i] = b[i]
  BY <1>1
<1>8. \A i \in 1..Len(s) : c[n + i] = s[i]
  BY <1>1
<1>9. QED
  BY <1>6, <1>7, <1>8 DEF Overwrite

LEMMA SpaceMade ==
    ASSUME NEW p, Sound(p), NEW needed \in Nat
    PROVE  LET r == CheckSpaceOut(p, needed) IN
           /\ Sound(r)
           /\ r.pos = p.pos
           /\ p.pos + needed <= Len(r.buf)
           /\ Len(p.buf) <= Len(r.buf)
           /\ r.set
           /\ \A i \in 1..p.pos : r.buf[i] = p.buf[i]
<1>1. p.buf \in Seq(Nat) /\ p.pos \in Nat /\ p.set \in BOOLEAN /\ p \in Packet
      /\ Len(p.buf) \in Nat /\ p.pos <= Len(p.buf)
  BY DEF Sound, Packet
<1>2. CASE Full(p, needed)
  <2> DEFINE add == Larger(needed, Chunk)
             g == [i \in 1..add |-> Garbage]
             buf == p.buf \o g
  <2>1. add \in Nat /\ add >= needed
    BY PacketAssumption DEF Larger
  <2>2. g \in Seq(Nat) /\ Len(g) = add
    BY <2>1, GarbageSeq
  <2> HIDE DEF g, add
  <2>3. /\ buf \in Seq(Nat) /\ Len(buf) = Len(p.buf) + Len(g)
        /\ \A i \in 1 .. Len(p.buf) + Len(g) :
             buf[i] = IF i <= Len(p.buf) THEN p.buf[i] ELSE g[i - Len(p.buf)]
    BY <1>1, <2>2, ConcatProperties
  <2> HIDE DEF buf
  <2> DEFINE r == [p EXCEPT !.set = TRUE, !.buf = buf]
  <2>4. CheckSpaceOut(p, needed) = r
    BY <1>2 DEF CheckSpaceOut, AllocateMoreSpaceOut, buf, g, add
  <2>5. r \in Packet /\ r.set = TRUE /\ r.buf = buf /\ r.pos = p.pos
    BY <1>1, <2>3 DEF Packet
  <2> HIDE DEF r
  <2>6. p.pos <= Len(buf) /\ p.pos + needed <= Len(buf) /\ Len(p.buf) <= Len(buf)
    BY <1>1, <2>1, <2>2, <2>3
  <2>7. ASSUME NEW i \in 1..p.pos
        PROVE  r.buf[i] = p.buf[i]
    <3>1. i \in 1 .. Len(p.buf) + Len(g) /\ i <= Len(p.buf)
      BY <1>1, <2>1, <2>2
    <3>2. buf[i] = p.buf[i]
      BY <2>3, <3>1
    <3>3. QED
      BY <2>5, <3>2
  <2>8. Sound(r) /\ r.set
    BY <2>5, <2>6 DEF Sound
  <2>9. QED
    BY <2>4, <2>5, <2>6, <2>7, <2>8
<1>3. CASE ~Full(p, needed)
  <2>1. CheckSpaceOut(p, needed) = p
    BY <1>3 DEF CheckSpaceOut
  <2>2. p.pos + needed < Len(p.buf)
    BY <1>1, <1>3 DEF Full
  <2>3. p.set
    BY <1>1, <2>2 DEF Sound
  <2>4. QED
    BY <1>1, <2>1, <2>2, <2>3
<1>4. QED
  BY <1>2, <1>3

LEMMA BytesPut ==
    ASSUME NEW p, Sound(p), NEW s \in Seq(Nat), p.pos + Len(s) <= Len(p.buf)
    PROVE  LET r == Put(p, s) IN
           /\ Sound(r)
           /\ r.pos = p.pos + Len(s)
           /\ \A i \in 1..p.pos : r.buf[i] = p.buf[i]
           /\ \A i \in 1..Len(s) : r.buf[p.pos + i] = s[i]
<1> DEFINE b == p.buf
           n == p.pos
           buf == Overwrite(b, n, s)
           r == [p EXCEPT !.buf = buf, !.pos = n + Len(s)]
<1>1. b \in Seq(Nat) /\ n \in Nat /\ p \in Packet /\ Len(b) \in Nat
      /\ Len(s) \in Nat
  BY DEF Sound, Packet
<1>2. n + Len(s) <= Len(b) /\ n + Len(s) \in Nat
  BY <1>1
<1>3. Put(p, s) = r
  BY DEF Put, Overwrite
<1>4. ~p.set => b = <<>>
  BY DEF Sound
<1>5. p.buf = b /\ p.pos = n
  OBVIOUS
<1> HIDE DEF b, n
<1>6. /\ buf \in Seq(Nat) /\ Len(buf) = Len(b)
      /\ \A i \in 1..n : buf[i] = b[i]
      /\ \A i \in 1..Len(s) : buf[n + i] = s[i]
  BY <1>1, <1>2, Overwritten
<1> HIDE DEF buf
<1>7. r \in Packet /\ r.buf = buf /\ r.pos = n + Len(s) /\ r.set = p.set
  BY <1>1, <1>2, <1>6 DEF Packet
<1>8. ~p.set => buf = <<>>
  <2>1. ~p.set => Len(buf) = 0
    BY <1>4, <1>6
  <2>2. QED
    BY <1>6, <2>1, EmptySeq
<1> HIDE DEF r
<1>9. Sound(r)
  BY <1>2, <1>6, <1>7, <1>8 DEF Sound
<1>10. QED
  BY <1>3, <1>5, <1>6, <1>7, <1>9

\* What a Write function reserves is enough for what it stores.
LEMMA Reserves ==
    ASSUME NEW p, Sound(p), NEW format \in Formats, NEW n \in Nat
    PROVE  LET r == Reserved(p, format, n) IN
           /\ Sound(r)
           /\ r.pos = p.pos
           /\ r.pos + (n + Extra(format)) <= Len(r.buf)
           /\ \A i \in 1..p.pos : r.buf[i] = p.buf[i]
<1> DEFINE need == n + Extra(format)
           q == Reserve(p, format, n)
           r == CheckSpaceOut(q, 2)
<1>1. Extra(format) \in Nat /\ need \in Nat
  BY DEF Extra
<1>2. q = CheckSpaceOut(p, need)
  BY DEF Reserve
<1> HIDE DEF need, q
<1>3. /\ Sound(q) /\ q.pos = p.pos /\ p.pos + need <= Len(q.buf)
      /\ \A i \in 1..p.pos : q.buf[i] = p.buf[i]
  BY <1>1, <1>2, SpaceMade
<1> HIDE DEF r
<1>4. /\ Sound(r) /\ r.pos = q.pos /\ Len(q.buf) <= Len(r.buf)
      /\ \A i \in 1..q.pos : r.buf[i] = q.buf[i]
  BY <1>3, SpaceMade DEF r
<1>5. /\ p.pos \in Nat /\ Len(q.buf) \in Nat /\ Len(r.buf) \in Nat
  BY <1>3, <1>4 DEF Sound, Packet
<1>6. p.pos + need <= Len(r.buf)
  BY <1>1, <1>3, <1>4, <1>5
<1>7. \A i \in 1..p.pos : r.buf[i] = p.buf[i]
  BY <1>3, <1>4
<1>8. Reserved(p, format, n) = IF format = "string" THEN r ELSE q
  BY DEF Reserved, q, r
<1>9. QED
  BY <1>3, <1>4, <1>6, <1>7, <1>8 DEF need

\* Bytes are appended to the log, and to a packet with room for them.
LEMMA HoldsMore ==
    ASSUME NEW p, Sound(p), NEW q, Sound(q), q.pos = p.pos,
           \A i \in 1..p.pos : q.buf[i] = p.buf[i],
           NEW l \in Seq(Nat), NEW s \in Seq(Nat),
           q.pos + Len(s) <= Len(q.buf)
    PROVE  /\ Sound(Put(q, s))
           /\ Holds(p, l) => Holds(Put(q, s), l \o s)
<1> DEFINE r == Put(q, s)
<1>1. /\ Sound(r) /\ r.pos = q.pos + Len(s)
      /\ \A i \in 1..q.pos : r.buf[i] = q.buf[i]
      /\ \A i \in 1..Len(s) : r.buf[q.pos + i] = s[i]
  BY BytesPut
<1> HIDE DEF r
<1>2. p.pos \in Nat /\ Len(s) \in Nat /\ Len(l) \in Nat
  BY DEF Sound, Packet
<1>3. /\ Len(l \o s) = Len(l) + Len(s)
      /\ \A i \in 1 .. Len(l) + Len(s) :
           (l \o s)[i] = IF i <= Len(l) THEN l[i] ELSE s[i - Len(l)]
  BY ConcatProperties
<1>4. ASSUME Holds(p, l) PROVE Holds(r, l \o s)
  <2>1. r.pos = Len(l \o s) /\ p.pos = Len(l)
    BY <1>1, <1>2, <1>3, <1>4 DEF Holds
  <2>2. ASSUME NEW i \in 1..r.pos PROVE r.buf[i] = (l \o s)[i]
    <3>1. i \in 1 .. Len(l) + Len(s)
      BY <1>3, <2>1
    <3>2. CASE i <= Len(l)
      <4>1. i \in 1..p.pos
        BY <1>2, <2>1, <3>1, <3>2
      <4>2. r.buf[i] = l[i]
        BY <1>1, <1>4, <4>1 DEF Holds
      <4>3. QED
        BY <1>3, <3>1, <3>2, <4>2
    <3>3. CASE i > Len(l)
      <4> DEFINE j == i - Len(l)
      <4>1. j \in 1..Len(s) /\ q.pos + j = i
        BY <1>2, <2>1, <3>1, <3>3
      <4>2. r.buf[q.pos + j] = s[j]
        BY <1>1, <4>1
      <4>3. (l \o s)[i] = s[j]
        BY <1>2, <1>3, <3>1, <3>3
      <4>4. QED
        BY <4>1, <4>2, <4>3
    <3>4. QED
      BY <1>2, <3>1, <3>2, <3>3
  <2>3. QED
    BY <2>1, <2>2 DEF Holds
<1>5. QED
  BY <1>1, <1>4 DEF r

\* The bytes before the position of a packet.
LEMMA Content ==
    ASSUME NEW p, Sound(p)
    PROVE  LET s == SubSeq(p.buf, 1, p.pos) IN
           /\ s \in Seq(Nat) /\ Len(s) = p.pos
           /\ \A i \in 1..p.pos : s[i] = p.buf[i]
           /\ \A l \in Seq(Nat) : Holds(p, l) => s = l
<1> DEFINE s == SubSeq(p.buf, 1, p.pos)
<1>1. p.buf \in Seq(Nat) /\ p.pos \in Nat /\ Len(p.buf) \in Nat
      /\ p.pos <= Len(p.buf)
  BY DEF Sound, Packet
<1>2. \A i \in 1..p.pos : p.buf[i] \in Nat
  BY <1>1, ElementOfSeq
<1>3. /\ s \in Seq(Nat)
      /\ Len(s) = IF 1 <= p.pos THEN p.pos - 1 + 1 ELSE 0
      /\ \A i \in 1 .. p.pos - 1 + 1 : s[i] = p.buf[1 + i - 1]
  BY <1>1, <1>2, SubSeqProperties
<1> HIDE DEF s
<1>4. Len(s) = p.pos /\ \A i \in 1..p.pos : s[i] = p.buf[i]
  BY <1>1, <1>3
<1>5. ASSUME NEW l \in Seq(Nat), Holds(p, l) PROVE s = l
  <2>1. Len(s) = Len(l)
    BY <1>4, <1>5 DEF Holds
  <2>2. \A i \in 1..Len(s) : s[i] = l[i]
    BY <1>4, <1>5 DEF Holds
  <2>3. QED
    BY <1>3, <2>1, <2>2, SeqEqual
<1>6. QED
  BY <1>3, <1>4, <1>5 DEF s

LEMMA EmptiedHolds ==
    ASSUME NEW p, Sound(p)
    PROVE  Sound(Emptied(p)) /\ Holds(Emptied(p), <<>>)
<1>1. <<>> \in Seq(Nat) /\ Len(<<>>) = 0
  OBVIOUS
<1>2. Emptied(p) \in Packet /\ Emptied(p).pos = 0 /\ Emptied(p).buf = <<>>
  BY <1>1 DEF Sound, Packet, Emptied
<1>3. QED
  BY <1>1, <1>2 DEF Sound, Holds

-----------------------------------------------------------------------------
(* The invariant: what is so of the buffers, and of the rest.               *)

BufferInv ==
    /\ out \in [Packets -> Packet]
    /\ log \in [Packets -> Seq(Nat)]
    /\ written \in Nat /\ freed \in BOOLEAN
    /\ \A p \in Packets : Sound(out[p])
    /\ ~freed => \A p \in Packets : Holds(out[p], log[p])

SocketInv ==
    /\ callback \in BOOLEAN
    /\ todo \in Seq(Event)
    /\ job \in [Senders -> Job]
    /\ ~Idle => job[LuaThread].packet \in Packets
    /\ open \in BOOLEAN
    /\ wire \in Seq(Cell) /\ meant \in Seq(Cell)
    /\ sends \in Nat
    /\ {overlap, short, swapped} \subseteq BOOLEAN

Inv == BufferInv /\ SocketInv

LEMMA InvGives == Inv => TypeOK /\ OutFits /\ WrittenKept
<1> SUFFICES ASSUME Inv PROVE TypeOK /\ OutFits /\ WrittenKept
  OBVIOUS
<1>1. TypeOK
  BY DEF Inv, BufferInv, SocketInv, Sound, TypeOK
<1>2. OutFits
  BY DEF Inv, BufferInv, Sound, OutFits
<1>3. WrittenKept
  BY Content DEF Inv, BufferInv, WrittenKept
<1>4. QED
  BY <1>1, <1>2, <1>3

LEMMA InitInv == Init => Inv
<1> SUFFICES ASSUME Init PROVE Inv
  OBVIOUS
<1>1. <<>> \in Seq(Nat) /\ Len(<<>>) = 0 /\ <<>> \in Seq(Event)
      /\ <<>> \in Seq(Cell)
  OBVIOUS
<1> DEFINE new == [set |-> FALSE, buf |-> <<>>, pos |-> 0]
<1>2. Sound(new) /\ Holds(new, <<>>)
  BY <1>1 DEF Sound, Packet, Holds
<1>3. \A p \in Packets : out[p] = new /\ log[p] = <<>>
  BY DEF Init
<1>4. BufferInv
  BY <1>1, <1>2, <1>3 DEF Init, BufferInv, Sound
<1>5. NoJob \in Job
  BY <1>1 DEF NoJob, Job, Event
<1>6. job \in [Senders -> Job] /\ Idle
  BY <1>5 DEF Init, Idle, Senders, NoJob
<1>7. SocketInv
  BY <1>1, <1>6 DEF Init, SocketInv
<1>8. QED
  BY <1>4, <1>7 DEF Inv

\* One packet p gets the record r and the log l.
LEMMA OnePacket ==
    ASSUME BufferInv, NEW p \in Packets, NEW r, NEW l \in Seq(Nat), Sound(r),
           freed' \in BOOLEAN, written' \in Nat, ~freed' => ~freed,
           ~freed' => Holds(r, l),
           out' = [out EXCEPT ![p] = r], log' = [log EXCEPT ![p] = l]
    PROVE  BufferInv'
<1>1. r \in Packet
  BY DEF Sound
<1>2. out' \in [Packets -> Packet] /\ log' \in [Packets -> Seq(Nat)]
  BY <1>1 DEF BufferInv
<1>3. \A q \in Packets : out'[q] = IF q = p THEN r ELSE out[q]
  BY DEF BufferInv
<1>4. \A q \in Packets : log'[q] = IF q = p THEN l ELSE log[q]
  BY DEF BufferInv
<1>5. \A q \in Packets : Sound(out'[q])
  BY <1>3 DEF BufferInv
<1>6. ASSUME ~freed', NEW q \in Packets PROVE Holds(out'[q], log'[q])
  <2>1. ~freed
    BY <1>6
  <2>2. CASE q = p
    BY <1>3, <1>4, <1>6, <2>2
  <2>3. CASE q # p
    BY <1>3, <1>4, <2>1, <2>3 DEF BufferInv
  <2>4. QED
    BY <2>2, <2>3
<1>7. QED
  BY <1>2, <1>5, <1>6 DEF BufferInv

LEMMA SameBuffers ==
    ASSUME BufferInv, UNCHANGED <<out, log, written, freed>>
    PROVE  BufferInv'
BY DEF BufferInv

LEMMA SameSocket ==
    ASSUME SocketInv, UNCHANGED <<callback, todo, job, open, wire, meant,
                                  sends, overlap, short, swapped>>
    PROVE  SocketInv'
BY DEF SocketInv, Idle

-----------------------------------------------------------------------------
(* The script writes.                                                       *)

LEMMA WriteStep ==
    ASSUME Inv, NEW p \in Packets, NEW f \in Formats, NEW n \in Sizes,
           Write(p, f, n)
    PROVE  Inv'
<1> DEFINE s == Fresh(n + Extra(f))
           q == Reserved(out[p], f, n)
<1>1. n \in Nat /\ Extra(f) \in Nat /\ written \in Nat
  BY PacketAssumption DEF Extra, Inv, BufferInv
<1>2. s \in Seq(Nat) /\ Len(s) = n + Extra(f)
  BY <1>1 DEF Fresh
<1>3. /\ out' = [out EXCEPT ![p] = Put(q, s)]
      /\ log' = [log EXCEPT ![p] = log[p] \o s]
      /\ written' = written + Len(s)
      /\ UNCHANGED <<callback, socket, history>>
  BY DEF Write, Inv, BufferInv
<1> HIDE DEF s
<1>4. Sound(out[p]) /\ log[p] \in Seq(Nat)
  BY DEF Inv, BufferInv
<1>5. /\ Sound(q) /\ q.pos = out[p].pos /\ q.pos + Len(s) <= Len(q.buf)
      /\ \A i \in 1..out[p].pos : q.buf[i] = out[p].buf[i]
  BY <1>1, <1>2, <1>4, Reserves
<1> HIDE DEF q
<1>6. /\ Sound(Put(q, s))
      /\ Holds(out[p], log[p]) => Holds(Put(q, s), log[p] \o s)
  BY <1>2, <1>4, <1>5, HoldsMore
<1>7. log[p] \o s \in Seq(Nat) /\ written' \in Nat
  BY <1>1, <1>2, <1>3, <1>4
<1>8. freed' = freed /\ freed \in BOOLEAN
  BY <1>3 DEF history, Inv, BufferInv
<1>9. ~freed' => Holds(Put(q, s), log[p] \o s)
  BY <1>6, <1>8 DEF Inv, BufferInv
<1>10. BufferInv'
  BY <1>3, <1>6, <1>7, <1>8, <1>9, OnePacket DEF Inv
<1>11. SocketInv'
  BY <1>3, SameSocket DEF Inv, socket, history
<1>12. QED
  BY <1>10, <1>11 DEF Inv

LEMMA WritePacketStep ==
    ASSUME Inv, NEW p \in Packets, NEW q \in Packets, WritePacket(p, q)
    PROVE  Inv'
<1> DEFINE s == SubSeq(out[q].buf, 1, out[q].pos)
           r == CheckSpaceOut(out[p], out[q].pos)
<1>1. /\ Sound(out[p]) /\ log[p] \in Seq(Nat)
      /\ Sound(out[q]) /\ log[q] \in Seq(Nat) /\ out[q].pos \in Nat
  BY DEF Inv, BufferInv, Sound, Packet
<1>2. /\ s \in Seq(Nat) /\ Len(s) = out[q].pos
      /\ Holds(out[q], log[q]) => s = log[q]
  BY <1>1, Content
<1>3. /\ out' = [out EXCEPT ![p] = Put(r, s)]
      /\ log' = [log EXCEPT ![p] = log[p] \o log[q]]
      /\ UNCHANGED <<written, callback, socket, history>>
  BY DEF WritePacket, Inv, BufferInv
<1> HIDE DEF s
<1>4. /\ Sound(r) /\ r.pos = out[p].pos /\ r.pos + Len(s) <= Len(r.buf)
      /\ \A i \in 1..out[p].pos : r.buf[i] = out[p].buf[i]
  BY <1>1, <1>2, SpaceMade
<1> HIDE DEF r
<1>5. /\ Sound(Put(r, s))
      /\ Holds(out[p], log[p]) => Holds(Put(r, s), log[p] \o s)
  BY <1>1, <1>2, <1>4, HoldsMore
<1>6. freed' = freed /\ written' = written
  BY <1>3 DEF history
<1>7. ASSUME ~freed' PROVE Holds(Put(r, s), log[p] \o log[q])
  BY <1>2, <1>5, <1>6, <1>7 DEF Inv, BufferInv
<1>8. log[p] \o log[q] \in Seq(Nat)
  BY <1>1
<1>9. freed' \in BOOLEAN /\ written' \in Nat
  BY <1>6 DEF Inv, BufferInv
<1>10. BufferInv'
  BY <1>3, <1>5, <1>6, <1>7, <1>8, <1>9, OnePacket DEF Inv
<1>11. SocketInv'
  BY <1>3, SameSocket DEF Inv, socket, history
<1>12. QED
  BY <1>10, <1>11 DEF Inv

\* Only a packet of some bytes that is written to itself can lose them.
LEMMA WriteItselfStep ==
    ASSUME Inv, NEW p \in Packets, WriteItself(p)
    PROVE  Inv'
<1> DEFINE n == out[p].pos
           r == CheckSpaceOut(out[p], n)
<1>1. Sound(out[p]) /\ log[p] \in Seq(Nat) /\ n \in Nat
  BY DEF Inv, BufferInv, Sound, Packet
<1>2. PICK lost \in {FALSE, Full(out[p], n)} :
        /\ out' = [out EXCEPT ![p] =
                     Put(r, [i \in 1..n |-> IF lost THEN Garbage
                                                    ELSE out[p].buf[i]])]
        /\ freed' = (freed \/ (lost /\ n > 0))
  BY DEF WriteItself, Inv, BufferInv
<1> DEFINE s == [i \in 1..n |-> IF lost THEN Garbage ELSE out[p].buf[i]]
<1>3. /\ log' = [log EXCEPT ![p] = log[p] \o log[p]]
      /\ UNCHANGED <<written, callback, socket, meant, sends, overlap, short,
                     swapped>>
  BY DEF WriteItself, Inv, BufferInv
<1>4. \A i \in 1..n : out[p].buf[i] \in Nat
  <2>1. out[p].buf \in Seq(Nat) /\ n <= Len(out[p].buf)
        /\ Len(out[p].buf) \in Nat
    BY DEF Inv, BufferInv, Sound, Packet
  <2>2. \A i \in 1..Len(out[p].buf) : out[p].buf[i] \in Nat
    BY <2>1, ElementOfSeq
  <2>3. QED
    BY <1>1, <2>1, <2>2
<1>5. s \in Seq(Nat) /\ Len(s) = n
  BY <1>1, <1>4 DEF Garbage
<1>6. ASSUME ~freed' PROVE s = log[p]
  <2>1. ~freed /\ ~(lost /\ n > 0)
    BY <1>2, <1>6
  <2>2. Holds(out[p], log[p])
    BY <2>1 DEF Inv, BufferInv
  <2>3. Len(s) = Len(log[p])
    BY <1>5, <2>2 DEF Holds
  <2>4. ASSUME NEW i \in 1..Len(s) PROVE s[i] = log[p][i]
    <3>1. i \in 1..n /\ n > 0
      BY <1>1, <1>5
    <3>2. s[i] = out[p].buf[i]
      BY <2>1, <3>1
    <3>3. QED
      BY <2>2, <3>1, <3>2 DEF Holds
  <2>5. QED
    BY <1>1, <1>5, <2>3, <2>4, SeqEqual
<1>7. out' = [out EXCEPT ![p] = Put(r, s)]
  BY <1>2
<1> HIDE DEF s
<1>8. /\ Sound(r) /\ r.pos = out[p].pos /\ r.pos + Len(s) <= Len(r.buf)
      /\ \A i \in 1..out[p].pos : r.buf[i] = out[p].buf[i]
  BY <1>1, <1>5, SpaceMade
<1> HIDE DEF r
<1>9. /\ Sound(Put(r, s))
      /\ Holds(out[p], log[p]) => Holds(Put(r, s), log[p] \o s)
  BY <1>1, <1>5, <1>8, HoldsMore
<1>10. freed' \in BOOLEAN /\ written' \in Nat /\ (~freed' => ~freed)
  <2>1. lost \in BOOLEAN
    <3>1. Len(out[p].buf) \in Nat
      BY DEF Inv, BufferInv, Sound, Packet
    <3>2. Full(out[p], n) \in BOOLEAN
      BY <1>1, <3>1 DEF Full
    <3>3. QED
      BY <3>2
  <2>2. freed \in BOOLEAN /\ written \in Nat
    BY DEF Inv, BufferInv
  <2>3. QED
    BY <1>2, <1>3, <2>1, <2>2
<1>11. ASSUME ~freed' PROVE Holds(Put(r, s), log[p] \o log[p])
  BY <1>6, <1>9, <1>10, <1>11 DEF Inv, BufferInv
<1>12. log[p] \o log[p] \in Seq(Nat)
  BY <1>1
<1>13. BufferInv'
  BY <1>3, <1>7, <1>9, <1>10, <1>11, <1>12, OnePacket DEF Inv
<1>14. SocketInv'
  BY <1>3, SameSocket DEF Inv, socket
<1>15. QED
  BY <1>13, <1>14 DEF Inv

LEMMA EmptyOne ==
    ASSUME BufferInv, NEW p \in Packets,
           out' = [out EXCEPT ![p] = Emptied(@)], log' = [log EXCEPT ![p] = <<>>],
           UNCHANGED <<written, freed>>
    PROVE  BufferInv'
<1>1. Sound(out[p])
  BY DEF BufferInv
<1>2. Sound(Emptied(out[p])) /\ Holds(Emptied(out[p]), <<>>)
  BY <1>1, EmptiedHolds
<1>3. out' = [out EXCEPT ![p] = Emptied(out[p])]
  BY DEF BufferInv
<1>4. <<>> \in Seq(Nat) /\ freed' \in BOOLEAN /\ written' \in Nat
  BY DEF BufferInv
<1>5. QED
  BY <1>2, <1>3, <1>4, OnePacket

LEMMA ClearStep ==
    ASSUME Inv, NEW p \in Packets, Clear(p)
    PROVE  Inv'
<1>1. BufferInv'
  BY EmptyOne DEF Inv, Clear, history
<1>2. SocketInv'
  BY SameSocket DEF Inv, Clear, socket, history
<1>3. QED
  BY <1>1, <1>2 DEF Inv

LEMMA CopyStep ==
    ASSUME Inv, NEW p \in Packets, NEW q \in Packets, Copy(p, q)
    PROVE  Inv'
<1> DEFINE s == SubSeq(out[p].buf, 1, out[p].pos)
           b == IF out[p].set THEN s ELSE <<>>
           r == [set |-> out[p].set, buf |-> b, pos |-> Len(b)]
<1>1. /\ Sound(out[p]) /\ log[p] \in Seq(Nat) /\ out[p].set \in BOOLEAN
      /\ out[p].pos \in Nat
  BY DEF Inv, BufferInv, Sound, Packet
<1>2. /\ s \in Seq(Nat) /\ Len(s) = out[p].pos
      /\ Holds(out[p], log[p]) => s = log[p]
  BY <1>1, Content
<1>3. out' = [out EXCEPT ![q] = r] /\ log' = [log EXCEPT ![q] = log[p]]
      /\ UNCHANGED <<written, callback, socket, history>>
  BY DEF Copy
<1> HIDE DEF s
<1>4. b = s
  <2>1. ~out[p].set => out[p].pos = 0
    BY <1>1 DEF Sound
  <2>2. QED
    BY <1>2, <2>1, EmptySeq
<1> HIDE DEF b
<1>5. r \in Packet /\ r.buf = s /\ r.pos = Len(s) /\ r.set = out[p].set
  BY <1>1, <1>2, <1>4 DEF Packet
<1> HIDE DEF r
<1>6. Sound(r)
  <2>1. ~out[p].set => s = <<>>
    <3>1. ~out[p].set => out[p].pos = 0
      BY <1>1 DEF Sound
    <3>2. QED
      BY <1>2, <3>1, EmptySeq
  <2>2. QED
    BY <1>2, <1>5, <2>1 DEF Sound
<1>7. freed' = freed /\ written' = written
  BY <1>3 DEF history
<1>8. ASSUME ~freed' PROVE Holds(r, log[p])
  BY <1>2, <1>5, <1>7, <1>8 DEF Inv, BufferInv, Holds
<1>9. freed' \in BOOLEAN /\ written' \in Nat
  BY <1>7 DEF Inv, BufferInv
<1>10. BufferInv'
  BY <1>1, <1>3, <1>6, <1>7, <1>8, <1>9, OnePacket DEF Inv
<1>11. SocketInv'
  BY <1>3, SameSocket DEF Inv, socket, history
<1>12. QED
  BY <1>10, <1>11 DEF Inv

-----------------------------------------------------------------------------
(* The threads send.                                                        *)

LEMMA PrefixSeq ==
    ASSUME NEW kind \in {"data", "length", "swapped"}, NEW n \in Nat
    PROVE  Prefix(kind, n) \in Seq(Cell)
<1>1. <<kind, n>> \in Cell /\ PrefixSize \in Nat
  BY PacketAssumption DEF Cell
<1>2. Prefix(kind, n) \in [1..PrefixSize -> Cell]
  BY <1>1 DEF Prefix
<1>3. QED
  BY <1>1, <1>2

LEMMA CellsSeq ==
    ASSUME NEW s \in Seq(Nat)
    PROVE  Cells("data", s) \in Seq(Cell)
<1>1. \A i \in 1..Len(s) : <<"data", s[i]>> \in Cell
  BY ElementOfSeq DEF Cell
<1>2. Cells("data", s) \in [1..Len(s) -> Cell] /\ Len(s) \in Nat
  BY <1>1 DEF Cells
<1>3. QED
  BY <1>2

LEMMA FrameSeq ==
    ASSUME NEW s \in Seq(Nat), NEW framed \in BOOLEAN
    PROVE  Frame(framed, s) \in Seq(Cell)
<1>1. Len(s) \in Nat
  OBVIOUS
<1>2. Cells("data", s) \in Seq(Cell) /\ Prefix("length", Len(s)) \in Seq(Cell)
  BY <1>1, CellsSeq, PrefixSeq
<1>3. QED
  BY <1>2, ConcatProperties DEF Frame

LEMMA SubCells ==
    ASSUME NEW S, NEW s \in Seq(S), NEW a \in Nat \ {0}, NEW b \in Nat,
           b <= Len(s)
    PROVE  SubSeq(s, a, b) \in Seq(S)
<1>1. Len(s) \in Nat /\ a \in Int /\ b \in Int /\ a..b \subseteq 1..Len(s)
  OBVIOUS
<1>2. \A i \in a..b : s[i] \in S
  BY <1>1, ElementOfSeq
<1>3. QED
  BY <1>1, <1>2, SubSeqProperties

\* The jobs, of all threads.
JobsOK(j) ==
    /\ j \in [Senders -> Job]
    /\ j[LuaThread].stage # "idle" => j[LuaThread].packet \in Packets

LEMMA JobsKept ==
    ASSUME SocketInv, NEW s \in Senders, NEW j \in Job,
           s = LuaThread => \/ j.stage = "idle"
                            \/ j.packet \in Packets,
           job' = [job EXCEPT ![s] = j]
    PROVE  JobsOK(job')
BY DEF SocketInv, JobsOK, Idle, Senders

LEMMA BeginJob ==
    ASSUME SocketInv, NEW s \in Senders, NEW ev \in Event,
           NEW packet \in Packets \union {LuaThread},
           s = LuaThread => packet \in Packets,
           Begin(s, ev, packet)
    PROVE  JobsOK(job') /\ overlap' \in BOOLEAN
<1> DEFINE j == [stage |-> IF ev.framed THEN "prefix"
                          ELSE IF ev.data = <<>> THEN "sent" ELSE "body",
                 ev |-> ev, curpos |-> 0, packet |-> packet]
<1>1. j \in Job /\ j.packet = packet
  BY DEF Job
<1>2. job' = [job EXCEPT ![s] = j]
  BY DEF Begin
<1> HIDE DEF j
<1>3. JobsOK(job')
  BY <1>1, <1>2, JobsKept
<1>4. overlap' \in BOOLEAN
  BY DEF Begin, SocketInv
<1>5. QED
  BY <1>3, <1>4

\* What a thread at work knows of its job.
LEMMA JobTyped ==
    ASSUME SocketInv, NEW s \in Senders
    PROVE  /\ job[s] \in Job
           /\ job[s].ev \in Event /\ job[s].ev.data \in Seq(Nat)
           /\ job[s].curpos \in Nat
           /\ s = LuaThread => \/ job[s].stage = "idle"
                              \/ job[s].packet \in Packets
BY DEF SocketInv, Job, Event, Idle

LEMMA LuaSendStep ==
    ASSUME Inv, NEW p \in Packets, NEW framed \in BOOLEAN, LuaSend(p, framed)
    PROVE  Inv'
<1> DEFINE bytes == SubSeq(out[p].buf, 1, out[p].pos)
<1>1. Sound(out[p]) /\ log[p] \in Seq(Nat)
  BY DEF Inv, BufferInv
<1>2. bytes \in Seq(Nat)
  BY <1>1, Content
<1>3. meant' = meant \o Frame(framed, log[p]) /\ sends' = sends + 1
      /\ UNCHANGED <<written, callback, open, wire, short, swapped, freed>>
  BY DEF LuaSend
<1>4. meant' \in Seq(Cell) /\ sends' \in Nat
  <2>1. Frame(framed, log[p]) \in Seq(Cell)
    BY <1>1, FrameSeq
  <2>2. QED
    BY <1>3, <2>1, ConcatProperties DEF Inv, SocketInv
<1>5. CASE SendLater(p, framed)
  <2> DEFINE ev == [data |-> bytes, framed |-> framed, swap |-> FALSE]
  <2>1. ev \in Event
    BY <1>2 DEF Event
  <2>2. todo' = Append(todo, ev)
        /\ out' = [out EXCEPT ![p] = Emptied(@)]
        /\ log' = [log EXCEPT ![p] = <<>>]
        /\ UNCHANGED <<job, overlap>>
    BY <1>5 DEF SendLater
  <2> HIDE DEF ev
  <2>3. todo' \in Seq(Event)
    BY <2>1, <2>2 DEF Inv, SocketInv
  <2>4. BufferInv'
    BY <1>3, <2>2, EmptyOne DEF Inv
  <2>5. SocketInv'
    BY <1>3, <1>4, <2>2, <2>3 DEF Inv, SocketInv, Idle
  <2>6. QED
    BY <2>4, <2>5 DEF Inv
<1>6. CASE SendNow(p, framed)
  <2>1. PICK swap \in BOOLEAN :
          Begin(LuaThread, [data |-> bytes, framed |-> framed,
                            swap |-> framed /\ swap], p)
    BY <1>6 DEF SendNow
  <2> DEFINE ev == [data |-> bytes, framed |-> framed, swap |-> framed /\ swap]
  <2>2. ev \in Event
    BY <1>2 DEF Event
  <2>3. Begin(LuaThread, ev, p)
    BY <2>1
  <2> HIDE DEF ev
  <2>4. JobsOK(job') /\ overlap' \in BOOLEAN
    BY <2>2, <2>3, BeginJob DEF Inv, Senders
  <2>5. UNCHANGED <<todo, out, log>>
    BY <1>6 DEF SendNow
  <2>6. BufferInv'
    BY <1>3, <2>5, SameBuffers DEF Inv
  <2>7. SocketInv'
    BY <1>3, <1>4, <2>4, <2>5 DEF Inv, SocketInv, Idle, JobsOK
  <2>8. QED
    BY <2>6, <2>7 DEF Inv
<1>7. QED
  BY <1>5, <1>6 DEF LuaSend

LEMMA WorkerTakeStep ==
    ASSUME Inv, NEW w \in Workers, WorkerTake(w)
    PROVE  Inv'
<1>1. /\ todo # <<>> /\ Begin(w, Head(todo), LuaThread) /\ todo' = Tail(todo)
      /\ UNCHANGED <<script, callback, open, wire, meant, sends, short, swapped,
                     freed>>
  BY DEF WorkerTake
<1>2. Head(todo) \in Event /\ todo' \in Seq(Event)
  BY <1>1, HeadTailProperties DEF Inv, SocketInv
<1>3. w \in Senders /\ w # LuaThread
  BY SenderAssumption DEF Senders
<1>4. JobsOK(job') /\ overlap' \in BOOLEAN
  BY <1>1, <1>2, <1>3, BeginJob DEF Inv
<1>5. BufferInv'
  BY <1>1, SameBuffers DEF Inv, script
<1>6. SocketInv'
  BY <1>1, <1>2, <1>4 DEF Inv, SocketInv, Idle, JobsOK
<1>7. QED
  BY <1>5, <1>6 DEF Inv

LEMMA TransmitSeq ==
    ASSUME SocketInv, NEW s \in Seq(Cell), NEW k \in Nat, Transmit(s, k)
    PROVE  wire' \in Seq(Cell) /\ short' \in BOOLEAN
<1>1. k <= Len(s) /\ 1 \in Nat \ {0}
  BY DEF Transmit
<1>2. SubSeq(s, 1, k) \in Seq(Cell)
  BY <1>1, SubCells
<1>3. wire' \in Seq(Cell)
  BY <1>2, ConcatProperties DEF Transmit, SocketInv
<1>4. short' \in BOOLEAN
  <2>1. (k < Len(s)) \in BOOLEAN
    OBVIOUS
  <2>2. QED
    BY <2>1 DEF Transmit, SocketInv
<1>5. QED
  BY <1>3, <1>4

LEMMA SendPrefixStep ==
    ASSUME Inv, NEW s \in Senders, NEW k \in Nat, SendPrefix(s, k)
    PROVE  Inv'
<1> DEFINE ev == job[s].ev
           j == [job[s] EXCEPT !.stage = "body"]
<1>1. /\ job[s] \in Job /\ ev.swap \in BOOLEAN /\ ev.data \in Seq(Nat)
      /\ job[s].stage = "prefix"
      /\ s = LuaThread => job[s].packet \in Packets
  BY JobTyped DEF Inv, Event, SendPrefix
<1>2. Prefix(IF ev.swap THEN "swapped" ELSE "length", Len(ev.data)) \in Seq(Cell)
  <2>1. Len(ev.data) \in Nat
    BY <1>1
  <2>2. QED
    BY <1>1, <2>1, PrefixSeq
<1>3. wire' \in Seq(Cell) /\ short' \in BOOLEAN
  BY <1>2, TransmitSeq DEF Inv, SendPrefix
<1>4. j \in Job /\ j.packet = job[s].packet
  BY <1>1 DEF Job
<1>5. job' = [job EXCEPT ![s] = j]
  BY DEF SendPrefix, Inv, SocketInv
<1>6. JobsOK(job')
  BY <1>1, <1>4, <1>5, JobsKept DEF Inv
<1>7. swapped' \in BOOLEAN
  BY <1>1 DEF SendPrefix, Inv, SocketInv
<1>8. UNCHANGED <<script, callback, todo, open, meant, sends, overlap, freed>>
  BY DEF SendPrefix
<1>9. BufferInv'
  BY <1>8, SameBuffers DEF Inv, script
<1>10. SocketInv'
  BY <1>3, <1>6, <1>7, <1>8 DEF Inv, SocketInv, Idle, JobsOK
<1>11. QED
  BY <1>9, <1>10 DEF Inv

LEMMA SendFrameStep ==
    ASSUME Inv, NEW s \in Senders, NEW k \in Nat, SendFrame(s, k)
    PROVE  Inv'
<1> DEFINE j == [job[s] EXCEPT !.stage = "sent"]
<1>1. /\ job[s] \in Job /\ job[s].ev.data \in Seq(Nat)
      /\ s = LuaThread => job[s].packet \in Packets
  BY JobTyped DEF Inv, SendFrame
<1>2. Cells("data", job[s].ev.data) \in Seq(Cell)
  BY <1>1, CellsSeq
<1>3. wire' \in Seq(Cell) /\ short' \in BOOLEAN
  BY <1>2, TransmitSeq DEF Inv, SendFrame
<1>4. j \in Job /\ j.packet = job[s].packet
  BY <1>1 DEF Job
<1>5. job' = [job EXCEPT ![s] = j]
  BY DEF SendFrame, Inv, SocketInv
<1>6. JobsOK(job')
  BY <1>1, <1>4, <1>5, JobsKept DEF Inv
<1>7. UNCHANGED <<script, callback, todo, open, meant, sends, overlap, swapped,
                  freed>>
  BY DEF SendFrame
<1>8. BufferInv'
  BY <1>7, SameBuffers DEF Inv, script
<1>9. SocketInv'
  BY <1>3, <1>6, <1>7 DEF Inv, SocketInv, Idle, JobsOK
<1>10. QED
  BY <1>8, <1>9 DEF Inv

LEMMA SendRawStep ==
    ASSUME Inv, NEW s \in Senders, NEW k \in Nat, SendRaw(s, k)
    PROVE  Inv'
<1> DEFINE data == job[s].ev.data
           rest == SubSeq(data, job[s].curpos + 1, Len(data))
           stage == IF k \in {0, Len(rest)} THEN "sent" ELSE "body"
           j == [job[s] EXCEPT !.curpos = @ + k, !.stage = stage]
<1>1. /\ job[s] \in Job /\ data \in Seq(Nat) /\ job[s].curpos \in Nat
      /\ s = LuaThread => job[s].packet \in Packets
  BY JobTyped DEF Inv, SendRaw
<1>2. rest \in Seq(Nat)
  <2> DEFINE a == job[s].curpos + 1
             d == Len(data)
  <2>1. a \in Nat \ {0} /\ d \in Nat /\ d <= Len(data)
    BY <1>1
  <2> HIDE DEF a, d
  <2>2. SubSeq(data, a, d) \in Seq(Nat)
    BY <1>1, <2>1, SubCells
  <2>3. QED
    BY <2>2 DEF a, d
<1>3. /\ k \in 0..Len(rest)
      /\ wire' = wire \o Cells("data", SubSeq(rest, 1, k))
      /\ job' = [job EXCEPT ![s].curpos = @ + k, ![s].stage = stage]
      /\ open' = (open /\ k # 0) /\ short' = (short \/ k = 0)
      /\ UNCHANGED <<script, callback, todo, meant, sends, overlap, swapped,
                     freed>>
  BY DEF SendRaw
<1>4. stage \in {"sent", "body"}
  OBVIOUS
<1> HIDE DEF rest, stage
<1>5. wire' \in Seq(Cell)
  <2>1. k <= Len(rest) /\ 1 \in Nat \ {0}
    BY <1>3
  <2>2. SubSeq(rest, 1, k) \in Seq(Nat)
    BY <1>2, <2>1, SubCells
  <2>3. Cells("data", SubSeq(rest, 1, k)) \in Seq(Cell)
    BY <2>2, CellsSeq
  <2>4. QED
    BY <1>3, <2>3, ConcatProperties DEF Inv, SocketInv
<1>6. j \in Job /\ j.packet = job[s].packet
  <2> DEFINE n == job[s].curpos + k
  <2>1. n \in Nat
    BY <1>1
  <2> HIDE DEF n
  <2>2. [job[s] EXCEPT !.curpos = n, !.stage = stage] \in Job
    BY <1>1, <1>4, <2>1 DEF Job
  <2>3. QED
    BY <1>1, <2>2 DEF n, Job
<1>7. job' = [job EXCEPT ![s] = j]
  BY <1>1, <1>3 DEF Inv, SocketInv, Job
<1>8. JobsOK(job')
  BY <1>1, <1>6, <1>7, JobsKept DEF Inv
<1>9. open' \in BOOLEAN /\ short' \in BOOLEAN
  BY <1>3 DEF Inv, SocketInv
<1>10. BufferInv'
  BY <1>3, SameBuffers DEF Inv, script
<1>11. SocketInv'
  BY <1>3, <1>5, <1>8, <1>9 DEF Inv, SocketInv, Idle, JobsOK
<1>12. QED
  BY <1>10, <1>11 DEF Inv

LEMMA FinishStep ==
    ASSUME Inv, NEW s \in Senders, Finish(s)
    PROVE  Inv'
<1>1. /\ job' = [job EXCEPT ![s] = NoJob]
      /\ UNCHANGED <<written, callback, todo, open, wire, history>>
      /\ job[s].stage = "sent"
  BY DEF Finish
<1>2. NoJob \in Job /\ NoJob.stage = "idle"
  BY EmptySeq DEF NoJob, Job, Event
<1>3. JobsOK(job')
  BY <1>1, <1>2, JobsKept DEF Inv
<1>4. SocketInv'
  BY <1>1, <1>3 DEF Inv, SocketInv, Idle, JobsOK, history
<1>5. BufferInv'
  <2>1. CASE s = LuaThread
    <3>1. job[s].packet \in Packets
      BY <1>1, <2>1, JobTyped DEF Inv
    <3>2. QED
      BY <1>1, <2>1, <3>1, EmptyOne DEF Inv, Finish, history
  <2>2. CASE s # LuaThread
    BY <1>1, <2>2, SameBuffers DEF Inv, Finish, history
  <2>3. QED
    BY <2>1, <2>2
<1>6. QED
  BY <1>4, <1>5 DEF Inv

-----------------------------------------------------------------------------
(* The theorems.                                                            *)

LEMMA NextInv == Inv /\ [Next]_vars => Inv'
<1> SUFFICES ASSUME Inv, [Next]_vars PROVE Inv'
  OBVIOUS
<1>1. ASSUME NEW p \in Packets, NEW f \in Formats, NEW n \in Sizes,
             Write(p, f, n)
      PROVE  Inv'
  BY <1>1, WriteStep
<1>2. ASSUME NEW p \in Packets, NEW q \in Packets, WritePacket(p, q)
      PROVE  Inv'
  BY <1>2, WritePacketStep
<1>3. ASSUME NEW p \in Packets, NEW q \in Packets, Copy(p, q)
      PROVE  Inv'
  BY <1>3, CopyStep
<1>4. ASSUME NEW p \in Packets, WriteItself(p)
      PROVE  Inv'
  BY <1>4, WriteItselfStep
<1>5. ASSUME NEW p \in Packets, Clear(p)
      PROVE  Inv'
  BY <1>5, ClearStep
<1>6. ASSUME NEW p \in Packets, NEW framed \in BOOLEAN, LuaSend(p, framed)
      PROVE  Inv'
  BY <1>6, LuaSendStep
<1>7. CASE SetCallbackSend
  <2>1. callback' = TRUE /\ UNCHANGED <<script, socket, history>>
    BY <1>7 DEF SetCallbackSend
  <2>2. BufferInv'
    BY <2>1, SameBuffers DEF Inv, script, history
  <2>3. SocketInv'
    BY <2>1 DEF Inv, SocketInv, Idle, socket, history
  <2>4. QED
    BY <2>2, <2>3 DEF Inv
<1>8. ASSUME NEW w \in Workers, WorkerTake(w)
      PROVE  Inv'
  BY <1>8, WorkerTakeStep
<1>9. ASSUME NEW s \in Senders, Send(s)
      PROVE  Inv'
  <2>1. job[s].ev.data \in Seq(Nat)
    BY JobTyped DEF Inv
  <2>2. 0..Larger(PrefixSize, Len(job[s].ev.data)) \subseteq Nat
    BY <2>1, PacketAssumption DEF Larger
  <2>3. ASSUME NEW k \in Nat, SendPrefix(s, k) \/ SendFrame(s, k) \/ SendRaw(s, k)
        PROVE  Inv'
    BY <2>3, SendPrefixStep, SendFrameStep, SendRawStep
  <2>4. QED
    BY <1>9, <2>2, <2>3, FinishStep DEF Send
<1>10. CASE UNCHANGED vars
  <2>1. BufferInv'
    BY <1>10, SameBuffers DEF Inv, vars, script, history
  <2>2. SocketInv'
    BY <1>10, SameSocket DEF Inv, vars, socket, history
  <2>3. QED
    BY <2>1, <2>2 DEF Inv
<1>11. QED
  BY <1>1, <1>2, <1>3, <1>4, <1>5, <1>6, <1>7, <1>8, <1>9, <1>10 DEF Next, Lua

LEMMA InvInvariant == Spec => []Inv
<1>1. Init => Inv
  BY InitInv
<1>2. Inv /\ [Next]_vars => Inv'
  BY NextInv
<1>3. QED
  BY <1>1, <1>2, PTL DEF Spec

\* Every variable keeps its type, for any packets, workers, sizes and growth.
THEOREM PacketOutTypes == Spec => []TypeOK
BY InvInvariant, InvGives, PTL

\* However the Write functions, WritePacket, Copy, Clear and Send follow each
\* other, OutPos stays inside the out buffer.
THEOREM PacketOutFits == Spec => []OutFits
BY InvInvariant, InvGives, PTL

\* A packet holds what the script wrote, in order, however often it grew,
\* unless it was written to itself while its buffer moved.
THEOREM PacketOutKeeps == Spec => []WrittenKept
BY InvInvariant, InvGives, PTL

-----------------------------------------------------------------------------
(* The stream.                                                              *)

\* b is a and something after it.
Begins(a, b) == \E r \in Seq(Cell) : b = a \o r

\* A thread with job j is in its send calls.
Busy(j) == j.stage \in {"prefix", "body"}

\* What the thread with job j still has to put on the stream.
Left(j) ==
    IF j.stage = "prefix" THEN Frame(TRUE, j.ev.data)
    ELSE IF j.stage = "body"
    THEN Cells("data", SubSeq(j.ev.data, j.curpos + 1, Len(j.ev.data)))
    ELSE <<>>

Shape(j) ==
    /\ j.stage = "prefix" => j.ev.framed
    /\ j.ev.framed => j.curpos = 0
    /\ j.curpos <= Len(j.ev.data)

\* q[i] is what will have gone out when the first i requests of td have: each
\* adds its frame, and all of them are what was meant.
Queued(q, td, mt) ==
    /\ q \in [0..Len(td) -> Seq(Cell)]
    /\ \A i \in 1..Len(td) : q[i] = q[i - 1] \o Frame(td[i].framed, td[i].data)
    /\ q[Len(td)] = mt
    /\ \A i \in 0..Len(td) : Begins(q[i], mt)

\* The wire w is q0 but for what the one thread that sends has left.
SentSoFar(w, j, q0) ==
    /\ (\A s \in Senders : ~Busy(j[s])) => w = q0
    /\ \A s \in Senders : Busy(j[s]) =>
         /\ w \o Left(j[s]) = q0
         /\ \A t \in Senders \ {s} : ~Busy(j[t])

Clean == ~overlap /\ ~short /\ ~swapped /\ ~freed

StreamInv ==
    /\ Inv
    /\ \A s \in Senders : Shape(job[s])
    /\ ~callback => todo = <<>>
    /\ Clean => \E q : Queued(q, todo, meant) /\ SentSoFar(wire, job, q[0])

LEMMA JoinedCells ==
    ASSUME NEW a \in Seq(Cell), NEW b \in Seq(Cell), NEW c \in Seq(Cell)
    PROVE  (a \o b) \o c = a \o (b \o c)
BY ConcatAssociative

\* A begun sequence is a prefix.
LEMMA BeginsPrefix ==
    ASSUME NEW a \in Seq(Cell), NEW b \in Seq(Cell), Begins(a, b)
    PROVE  IsPrefix(a, b)
<1>1. PICK r \in Seq(Cell) : b = a \o r
  BY DEF Begins
<1>2. Len(b) = Len(a) + Len(r) /\ Len(a) \in Nat /\ Len(r) \in Nat
  BY <1>1, ConcatProperties
<1>3. CASE a = <<>>
  <2>1. SubSeq(a, 1, Len(a)) = <<>> /\ SubSeq(b, 1, Len(a)) = <<>>
    BY <1>3, SubSeqEmpty
  <2>2. QED
    BY <1>2, <2>1 DEF IsPrefix
<1>4. CASE a # <<>>
  <2>1. 1 \in 1..Len(a) /\ Len(a) \in 1..Len(a)
    BY <1>2, <1>4, EmptySeq
  <2>2. SubSeq(a \o r, 1, Len(a)) = SubSeq(a, 1, Len(a))
    BY <2>1, SubSeqOfConcat1
  <2>3. QED
    BY <1>1, <1>2, <2>2 DEF IsPrefix
<1>5. QED
  BY <1>3, <1>4

\* What is left is a sequence of cells.
LEMMA LeftSeq ==
    ASSUME NEW j \in Job, Shape(j)
    PROVE  Left(j) \in Seq(Cell)
<1>1. j.ev.data \in Seq(Nat) /\ j.curpos \in Nat
  BY DEF Job, Event
<1>2. Len(j.ev.data) \in Nat
  BY <1>1
<1>3. Frame(TRUE, j.ev.data) \in Seq(Cell)
  BY <1>1, FrameSeq
<1>4. SubSeq(j.ev.data, j.curpos + 1, Len(j.ev.data)) \in Seq(Nat)
  BY <1>1, <1>2, SubCells
<1>5. Cells("data", SubSeq(j.ev.data, j.curpos + 1, Len(j.ev.data))) \in Seq(Cell)
  BY <1>4, CellsSeq
<1>6. CASE j.stage = "prefix"
  <2>1. Left(j) = Frame(TRUE, j.ev.data)
    BY <1>6 DEF Left
  <2>2. QED
    BY <1>3, <2>1
<1>7. CASE j.stage = "body"
  <2>1. Left(j) = Cells("data", SubSeq(j.ev.data, j.curpos + 1,
                                       Len(j.ev.data)))
    BY <1>7 DEF Left
  <2>2. QED
    BY <1>5, <2>1
<1>8. CASE ~Busy(j)
  <2>1. Left(j) = <<>>
    BY <1>8 DEF Left, Busy
  <2>2. QED
    BY <2>1
<1>9. QED
  BY <1>6, <1>7, <1>8 DEF Busy

\* StreamAsMeant is a part of the invariant.
LEMMA StreamGives == StreamInv => StreamAsMeant
<1> SUFFICES ASSUME StreamInv, Clean PROVE IsPrefix(wire, meant)
  BY DEF StreamAsMeant, Clean
<1>1. PICK q : Queued(q, todo, meant) /\ SentSoFar(wire, job, q[0])
  BY DEF StreamInv
<1>2. wire \in Seq(Cell) /\ meant \in Seq(Cell) /\ todo \in Seq(Event)
      /\ job \in [Senders -> Job]
  BY DEF StreamInv, Inv, SocketInv
<1>3. Len(todo) \in Nat /\ 0 \in 0..Len(todo)
  BY <1>2
<1>4. Begins(q[0], meant) /\ q[0] \in Seq(Cell)
  BY <1>1, <1>3 DEF Queued
<1>5. CASE \A s \in Senders : ~Busy(job[s])
  <2>1. wire = q[0]
    BY <1>1, <1>5 DEF SentSoFar
  <2>2. QED
    BY <1>2, <1>4, <2>1, BeginsPrefix
<1>6. CASE ~\A s \in Senders : ~Busy(job[s])
  <2>1. PICK s \in Senders : Busy(job[s])
    BY <1>6
  <2> DEFINE l == Left(job[s])
  <2>2. wire \o l = q[0]
    BY <1>1, <2>1 DEF SentSoFar
  <2>3. l \in Seq(Cell)
    BY <1>2, LeftSeq DEF StreamInv
  <2>4. PICK r \in Seq(Cell) : meant = q[0] \o r
    BY <1>4 DEF Begins
  <2> HIDE DEF l
  <2>5. meant = wire \o (l \o r)
    <3>1. (wire \o l) \o r = wire \o (l \o r)
      <4>1. wire \in Seq(Cell) /\ l \in Seq(Cell) /\ r \in Seq(Cell)
        BY <1>2, <2>3
      <4>2. QED
        BY <4>1, JoinedCells
    <3>2. QED
      BY <2>2, <2>4, <3>1
  <2>6. l \o r \in Seq(Cell)
    BY <2>3, ConcatProperties
  <2>7. Begins(wire, meant)
    BY <2>5, <2>6 DEF Begins
  <2>8. QED
    BY <1>2, <2>7, BeginsPrefix
<1>7. QED
  BY <1>5, <1>6

LEMMA StreamInit == Init => StreamInv
<1> SUFFICES ASSUME Init PROVE StreamInv
  OBVIOUS
<1>1. Inv
  BY InitInv
<1>2. \A s \in Senders : job[s] = NoJob
  BY DEF Init
<1>3. Shape(NoJob) /\ ~Busy(NoJob)
  BY DEF Shape, NoJob, Busy
<1>4. todo = <<>> /\ meant = <<>> /\ wire = <<>> /\ open
  BY DEF Init
<1> DEFINE q == [i \in 0..0 |-> <<>>]
<1>5. <<>> \in Seq(Cell) /\ Len(<<>>) = 0 /\ <<>> = <<>> \o <<>>
  OBVIOUS
<1>6. Begins(<<>>, <<>>)
  BY <1>5 DEF Begins
<1>7. q \in [0..Len(todo) -> Seq(Cell)] /\ q[0] = <<>>
  BY <1>4, <1>5
<1> HIDE DEF q
<1>8. Queued(q, todo, meant)
  BY <1>4, <1>5, <1>6, <1>7 DEF Queued
<1>9. SentSoFar(wire, job, q[0])
  BY <1>2, <1>3, <1>4, <1>7 DEF SentSoFar
<1>10. QED
  BY <1>1, <1>2, <1>3, <1>4, <1>8, <1>9 DEF StreamInv

-----------------------------------------------------------------------------
(* What is queued.                                                          *)

LEMMA QueuedTail ==
    ASSUME NEW q, NEW td \in Seq(Event), NEW mt \in Seq(Cell), td # <<>>,
           Queued(q, td, mt)
    PROVE  LET r == [i \in 0..Len(td) - 1 |-> q[i + 1]]
           IN  /\ Queued(r, Tail(td), mt)
               /\ r[0] = q[0] \o Frame(Head(td).framed, Head(td).data)
               /\ q[0] \in Seq(Cell)
<1> DEFINE r == [i \in 0..Len(td) - 1 |-> q[i + 1]]
<1>1. Len(td) \in Nat /\ Len(td) > 0 /\ Head(td) = td[1]
  BY EmptySeq
<1>2. Len(Tail(td)) = Len(td) - 1
      /\ \A i \in 1..Len(Tail(td)) : Tail(td)[i] = td[i + 1]
  BY HeadTailProperties
<1>3. \A i \in 0..Len(td) - 1 : r[i] = q[i + 1] /\ i + 1 \in 0..Len(td)
  BY <1>1
<1>4. r \in [0..Len(Tail(td)) -> Seq(Cell)]
  BY <1>1, <1>2 DEF Queued
<1> HIDE DEF r
<1>5. ASSUME NEW i \in 1..Len(Tail(td))
      PROVE  r[i] = r[i - 1] \o Frame(Tail(td)[i].framed, Tail(td)[i].data)
  <2> DEFINE n == i + 1
  <2>1. r[i] = q[n] /\ r[i - 1] = q[n - 1] /\ n \in 1..Len(td)
    <3>1. i - 1 \in 0..Len(td) - 1 /\ i - 1 + 1 = i /\ n - 1 = i
      BY <1>1, <1>2
    <3>2. i \in 0..Len(td) - 1 /\ n \in 1..Len(td)
      BY <1>1, <1>2
    <3>3. QED
      BY <1>3, <3>1, <3>2
  <2>2. Tail(td)[i] = td[n]
    BY <1>2
  <2> HIDE DEF n
  <2>3. q[n] = q[n - 1] \o Frame(td[n].framed, td[n].data)
    BY <2>1 DEF Queued
  <2>4. QED
    BY <2>1, <2>2, <2>3
<1>6. r[Len(Tail(td))] = mt
  <2>1. Len(td) - 1 \in 0..Len(td) - 1 /\ Len(td) - 1 + 1 = Len(td)
    BY <1>1
  <2>2. QED
    BY <1>2, <1>3, <2>1 DEF Queued
<1>7. \A i \in 0..Len(Tail(td)) : Begins(r[i], mt)
  BY <1>2, <1>3 DEF Queued
<1>8. r[0] = q[0] \o Frame(Head(td).framed, Head(td).data) /\ q[0] \in Seq(Cell)
  <2>1. 0 \in 0..Len(td) - 1 /\ 1 \in 1..Len(td) /\ 0 + 1 = 1 /\ 1 - 1 = 0
        /\ 0 \in 0..Len(td)
    BY <1>1
  <2>2. q[1] = q[1 - 1] \o Frame(td[1].framed, td[1].data)
    BY <2>1 DEF Queued
  <2>3. q[0] \in Seq(Cell)
    BY <2>1 DEF Queued
  <2>4. QED
    BY <1>1, <1>3, <2>1, <2>2, <2>3
<1>9. Queued(r, Tail(td), mt)
  BY <1>4, <1>5, <1>6, <1>7 DEF Queued
<1>10. QED
  BY <1>8, <1>9 DEF r

LEMMA BeginsLonger ==
    ASSUME NEW a \in Seq(Cell), NEW b \in Seq(Cell), NEW f \in Seq(Cell),
           Begins(a, b)
    PROVE  Begins(a, b \o f)
<1>1. PICK r \in Seq(Cell) : b = a \o r
  BY DEF Begins
<1>2. (a \o r) \o f = a \o (r \o f)
  BY JoinedCells
<1>3. r \o f \in Seq(Cell)
  BY ConcatProperties
<1>4. QED
  BY <1>1, <1>2, <1>3 DEF Begins

LEMMA BeginsItself ==
    ASSUME NEW a \in Seq(Cell)
    PROVE  Begins(a, a)
<1>1. a = a \o <<>> /\ <<>> \in Seq(Cell)
  BY ConcatEmptySeq
<1>2. QED
  BY <1>1 DEF Begins

LEMMA QueuedAppend ==
    ASSUME NEW q, NEW td \in Seq(Event), NEW mt \in Seq(Cell), NEW ev \in Event,
           Queued(q, td, mt)
    PROVE  LET f == Frame(ev.framed, ev.data)
               r == [i \in 0..Len(td) + 1 |->
                       IF i = Len(td) + 1 THEN mt \o f ELSE q[i]]
           IN  /\ Queued(r, Append(td, ev), mt \o f)
               /\ r[0] = q[0]
<1> DEFINE f == Frame(ev.framed, ev.data)
           n == Len(td) + 1
           r == [i \in 0..n |-> IF i = n THEN mt \o f ELSE q[i]]
           d == Append(td, ev)
<1>1. Len(td) \in Nat /\ n \in Nat
  OBVIOUS
<1>2. Len(d) = n /\ d[n] = ev /\ \A i \in 1..Len(td) : d[i] = td[i]
  BY AppendProperties
<1>3. f \in Seq(Cell)
  BY FrameSeq DEF Event
<1>4. mt \o f \in Seq(Cell)
  BY <1>3, ConcatProperties
<1>5. q \in [0..Len(td) -> Seq(Cell)] /\ q[Len(td)] = mt
  BY DEF Queued
<1>6. r[n] = mt \o f /\ \A i \in 0..Len(td) : r[i] = q[i]
  BY <1>1
<1>7. r \in [0..n -> Seq(Cell)]
  <2>1. \A i \in 0..n : i = n \/ i \in 0..Len(td)
    BY <1>1
  <2>2. QED
    BY <1>4, <1>5, <2>1
<1> HIDE DEF r, d, f
<1>8. ASSUME NEW i \in 1..n
      PROVE  r[i] = r[i - 1] \o Frame(d[i].framed, d[i].data)
  <2>1. CASE i = n
    <3>1. r[i - 1] = mt
      BY <1>1, <1>5, <1>6, <2>1
    <3>2. QED
      BY <1>2, <1>6, <2>1, <3>1 DEF f
  <2>2. CASE i # n
    <3>1. i \in 1..Len(td) /\ i \in 0..Len(td) /\ i - 1 \in 0..Len(td)
      BY <1>1, <2>2
    <3>2. q[i] = q[i - 1] \o Frame(td[i].framed, td[i].data)
      BY <3>1 DEF Queued
    <3>3. QED
      BY <1>2, <1>6, <3>1, <3>2
  <2>3. QED
    BY <2>1, <2>2
<1>9. ASSUME NEW i \in 0..n
      PROVE  Begins(r[i], mt \o f)
  <2>1. CASE i = n
    BY <1>4, <1>6, <2>1, BeginsItself
  <2>2. CASE i # n
    <3>1. i \in 0..Len(td)
      BY <1>1, <2>2
    <3>2. Begins(q[i], mt) /\ q[i] \in Seq(Cell)
      BY <3>1 DEF Queued
    <3>3. QED
      BY <1>3, <1>6, <3>1, <3>2, BeginsLonger
  <2>3. QED
    BY <2>1, <2>2
<1>10. Queued(r, d, mt \o f)
  BY <1>2, <1>6, <1>7, <1>8, <1>9 DEF Queued
<1>11. r[0] = q[0]
  BY <1>1, <1>6
<1>12. QED
  BY <1>10, <1>11 DEF r, d, f

LEMMA QueuedAlone ==
    ASSUME NEW mt \in Seq(Cell)
    PROVE  LET r == [i \in 0..0 |-> mt]
           IN  Queued(r, <<>>, mt) /\ r[0] = mt
<1> DEFINE r == [i \in 0..0 |-> mt]
<1>1. Len(<<>>) = 0 /\ r \in [0..0 -> Seq(Cell)] /\ r[0] = mt
  OBVIOUS
<1>2. Begins(mt, mt)
  BY BeginsItself
<1> HIDE DEF r
<1>3. Queued(r, <<>>, mt)
  BY <1>1, <1>2 DEF Queued
<1>4. QED
  BY <1>1, <1>3 DEF r

-----------------------------------------------------------------------------
(* What is left to a thread.                                                *)

LEMMA Starts ==
    ASSUME NEW j \in [Senders -> Job], NEW s \in Senders, NEW k \in Job,
           NEW w \in Seq(Cell), NEW q0, \A t \in Senders : ~Busy(j[t]),
           SentSoFar(w, j, q0)
    PROVE  SentSoFar(w, [j EXCEPT ![s] = k], q0 \o Left(k))
<1> DEFINE j2 == [j EXCEPT ![s] = k]
<1>1. w = q0
  BY DEF SentSoFar
<1>2. j2[s] = k /\ \A t \in Senders \ {s} : j2[t] = j[t]
  OBVIOUS
<1> HIDE DEF j2
<1>3. ASSUME \A t \in Senders : ~Busy(j2[t])
      PROVE  w = q0 \o Left(k)
  <2>1. Left(k) = <<>>
    BY <1>2, <1>3 DEF Busy, Left
  <2>2. QED
    BY <1>1, <2>1, ConcatEmptySeq
<1>4. ASSUME NEW t \in Senders, Busy(j2[t])
      PROVE  /\ w \o Left(j2[t]) = q0 \o Left(k)
             /\ \A u \in Senders \ {t} : ~Busy(j2[u])
  <2>1. t = s
    BY <1>2, <1>4
  <2>2. QED
    BY <1>1, <1>2, <2>1
<1>5. SentSoFar(w, j2, q0 \o Left(k))
  BY <1>3, <1>4 DEF SentSoFar
<1>6. QED
  BY <1>5 DEF j2

LEMMA Continues ==
    ASSUME NEW j \in [Senders -> Job], NEW s \in Senders, NEW k \in Job,
           NEW w, NEW w2 \in Seq(Cell), NEW q0, Busy(j[s]),
           SentSoFar(w, j, q0), w2 \o Left(k) = w \o Left(j[s])
    PROVE  SentSoFar(w2, [j EXCEPT ![s] = k], q0)
<1> DEFINE j2 == [j EXCEPT ![s] = k]
<1>1. w \o Left(j[s]) = q0 /\ \A t \in Senders \ {s} : ~Busy(j[t])
  BY DEF SentSoFar
<1>2. j2[s] = k /\ \A t \in Senders \ {s} : j2[t] = j[t]
  OBVIOUS
<1> HIDE DEF j2
<1>3. ASSUME \A t \in Senders : ~Busy(j2[t])
      PROVE  w2 = q0
  <2>1. Left(k) = <<>>
    BY <1>2, <1>3 DEF Busy, Left
  <2>2. QED
    BY <1>1, <2>1, ConcatEmptySeq
<1>4. ASSUME NEW t \in Senders, Busy(j2[t])
      PROVE  /\ w2 \o Left(j2[t]) = q0
             /\ \A u \in Senders \ {t} : ~Busy(j2[u])
  <2>1. t = s
    BY <1>1, <1>2, <1>4
  <2>2. QED
    BY <1>1, <1>2, <2>1
<1>5. SentSoFar(w2, j2, q0)
  BY <1>3, <1>4 DEF SentSoFar
<1>6. QED
  BY <1>5 DEF j2

\* A thread that is not on the stream may change without it.
LEMMA Rests ==
    ASSUME NEW j \in [Senders -> Job], NEW s \in Senders, NEW k \in Job,
           NEW w, NEW q0, ~Busy(j[s]), ~Busy(k), SentSoFar(w, j, q0)
    PROVE  SentSoFar(w, [j EXCEPT ![s] = k], q0)
<1> DEFINE j2 == [j EXCEPT ![s] = k]
<1>1. j2[s] = k /\ \A t \in Senders \ {s} : j2[t] = j[t]
  OBVIOUS
<1> HIDE DEF j2
<1>2. \A t \in Senders : Busy(j2[t]) <=> Busy(j[t])
  BY <1>1
<1>3. \A t \in Senders : Busy(j2[t]) => j2[t] = j[t]
  BY <1>1
<1>4. SentSoFar(w, j2, q0)
  BY <1>2, <1>3 DEF SentSoFar
<1>5. QED
  BY <1>4 DEF j2

\* A thread begins with all of its frame.
LEMMA BeginLeft ==
    ASSUME NEW ev \in Event, NEW packet
    PROVE  LET k == [stage |-> IF ev.framed THEN "prefix"
                               ELSE IF ev.data = <<>> THEN "sent" ELSE "body",
                     ev |-> ev, curpos |-> 0, packet |-> packet]
           IN  Left(k) = Frame(ev.framed, ev.data) /\ Shape(k)
<1> DEFINE k == [stage |-> IF ev.framed THEN "prefix"
                           ELSE IF ev.data = <<>> THEN "sent" ELSE "body",
                 ev |-> ev, curpos |-> 0, packet |-> packet]
<1>1. ev.data \in Seq(Nat) /\ Len(ev.data) \in Nat /\ ev.framed \in BOOLEAN
  BY DEF Event
<1>2. k.ev = ev /\ k.curpos = 0 /\ 0 + 1 = 1
      /\ k.stage = IF ev.framed THEN "prefix"
                   ELSE IF ev.data = <<>> THEN "sent" ELSE "body"
  OBVIOUS
<1> HIDE DEF k
<1>3. Shape(k)
  BY <1>1, <1>2 DEF Shape
<1>4. Left(k) = Frame(ev.framed, ev.data)
  <2>1. CASE ev.framed
    <3>1. k.stage = "prefix"
      BY <1>2, <2>1
    <3>2. Left(k) = Frame(TRUE, ev.data)
      BY <1>2, <3>1 DEF Left
    <3>3. ev.framed = TRUE
      BY <1>1, <2>1
    <3>4. QED
      BY <3>2, <3>3
  <2>2. CASE ~ev.framed /\ ev.data = <<>>
    <3>1. k.stage = "sent"
      BY <1>2, <2>2
    <3>2. Left(k) = <<>>
      BY <3>1 DEF Left
    <3>3. Cells("data", <<>>) = <<>>
      BY DEF Cells
    <3>4. Frame(ev.framed, ev.data) = Cells("data", <<>>)
      BY <2>2 DEF Frame
    <3>5. QED
      BY <3>2, <3>3, <3>4
  <2>3. CASE ~ev.framed /\ ev.data # <<>>
    <3>1. k.stage = "body"
      BY <1>2, <2>3
    <3>2. SubSeq(ev.data, 1, Len(ev.data)) = ev.data
      BY <1>1, SubSeqFull
    <3>3. Left(k) = Cells("data", SubSeq(ev.data, 1, Len(ev.data)))
      BY <1>2, <3>1 DEF Left
    <3>4. Frame(ev.framed, ev.data) = Cells("data", ev.data)
      BY <2>3 DEF Frame
    <3>5. QED
      BY <3>2, <3>3, <3>4
  <2>4. QED
    BY <2>1, <2>2, <2>3
<1>5. QED
  BY <1>3, <1>4 DEF k

\* The cells of a part of d.
LEMMA CellsPart ==
    ASSUME NEW d \in Seq(Nat), NEW m \in Nat, NEW n \in Nat, m <= n,
           n <= Len(d)
    PROVE  LET p == Cells("data", SubSeq(d, m + 1, n)) IN
           /\ p \in Seq(Cell) /\ Len(p) = n - m
           /\ \A i \in 1 .. n - m : p[i] = <<"data", d[m + i]>>
<1> DEFINE e == SubSeq(d, m + 1, n)
           p == Cells("data", e)
<1>1. Len(d) \in Nat /\ m + 1 \in Nat \ {0}
  OBVIOUS
<1>2. e \in Seq(Nat)
  BY <1>1, SubCells
<1>3. \A i \in m + 1 .. n : d[i] \in Nat
  BY <1>1, ElementOfSeq
<1>4. /\ Len(e) = IF m + 1 <= n THEN n - (m + 1) + 1 ELSE 0
      /\ \A i \in 1 .. n - (m + 1) + 1 : e[i] = d[m + 1 + i - 1]
  BY <1>1, <1>3, SubSeqProperties
<1> HIDE DEF e
<1>5. Len(e) = n - m /\ \A i \in 1 .. n - m : e[i] = d[m + i]
  BY <1>4
<1>6. p \in Seq(Cell)
  BY <1>2, CellsSeq
<1>7. Len(p) = n - m /\ \A i \in 1 .. n - m : p[i] = <<"data", e[i]>>
  BY <1>5 DEF Cells
<1> HIDE DEF p
<1>8. \A i \in 1 .. n - m : p[i] = <<"data", d[m + i]>>
  BY <1>5, <1>7
<1>9. QED
  BY <1>6, <1>7, <1>8 DEF p, e

\* A part that goes out and the part after it are the whole.
LEMMA CellsSplit ==
    ASSUME NEW d \in Seq(Nat), NEW c \in Nat, NEW k \in Nat,
           c + k <= Len(d)
    PROVE  LET rest == SubSeq(d, c + 1, Len(d)) IN
           /\ rest \in Seq(Nat) /\ Len(rest) = Len(d) - c
           /\ Cells("data", SubSeq(rest, 1, k)) \in Seq(Cell)
           /\ Cells("data", SubSeq(d, c + k + 1, Len(d))) \in Seq(Cell)
           /\ Cells("data", SubSeq(rest, 1, k))
                \o Cells("data", SubSeq(d, c + k + 1, Len(d)))
              = Cells("data", rest)
<1> DEFINE n == Len(d)
           rest == SubSeq(d, c + 1, n)
           all == Cells("data", rest)
           a == Cells("data", SubSeq(rest, 0 + 1, k))
           b == Cells("data", SubSeq(d, c + k + 1, n))
<1>1. n \in Nat /\ c + k \in Nat /\ c <= n /\ c + k <= n /\ n <= Len(d)
      /\ c + 1 \in Nat \ {0}
  OBVIOUS
<1>2. rest \in Seq(Nat)
  BY <1>1, SubCells
<1>3. \A i \in 1..Len(rest) : all[i] = <<"data", rest[i]>>
  BY DEF Cells
<1>4. Len(all) = Len(rest)
  BY <1>2 DEF Cells
<1> HIDE DEF n
<1>5. all \in Seq(Cell) /\ Len(all) = n - c
  BY <1>1, CellsPart
<1>6. \A i \in 1 .. n - c : all[i] = <<"data", d[c + i]>>
  BY <1>1, CellsPart
<1> DEFINE m == c + k
<1>7. m \in Nat /\ m <= n
  BY <1>1
<1> HIDE DEF m
<1> DEFINE bm == Cells("data", SubSeq(d, m + 1, n))
<1>8. bm \in Seq(Cell) /\ Len(bm) = n - m
  BY <1>1, <1>7, CellsPart
<1>9. \A i \in 1 .. n - m : bm[i] = <<"data", d[m + i]>>
  BY <1>1, <1>7, CellsPart
<1>10. b = bm
  BY DEF m
<1> HIDE DEF rest, all, b, bm
<1>11. Len(rest) = n - c
  BY <1>4, <1>5
<1>12. k <= Len(rest) /\ 0 <= k
  BY <1>1, <1>11
<1>13. a \in Seq(Cell) /\ Len(a) = k - 0
  BY <1>2, <1>12, CellsPart
<1>14. \A i \in 1 .. k - 0 : a[i] = <<"data", rest[0 + i]>>
  BY <1>2, <1>12, CellsPart
<1>15. a = Cells("data", SubSeq(rest, 1, k))
  OBVIOUS
<1> HIDE DEF a
<1>16. Len(a) = k /\ \A i \in 1..k : i \in 1..Len(rest)
  BY <1>12, <1>13
<1>17. \A i \in 1..k : a[i] = all[i]
  <2>1. ASSUME NEW i \in 1..k
        PROVE  a[i] = all[i]
    <3>1. i \in 1 .. k - 0 /\ 0 + i = i /\ i \in 1..Len(rest)
      BY <1>16
    <3>2. a[i] = <<"data", rest[0 + i]>>
      BY <1>14, <3>1
    <3>3. QED
      BY <1>3, <3>1, <3>2
  <2>2. QED
    BY <2>1
<1> DEFINE ab == a \o b
<1>18. ab \in Seq(Cell) /\ Len(ab) = Len(a) + Len(b)
       /\ \A i \in 1 .. Len(a) + Len(b) :
            ab[i] = IF i <= Len(a) THEN a[i] ELSE b[i - Len(a)]
  <2>1. a \in Seq(Cell) /\ b \in Seq(Cell)
    BY <1>8, <1>10, <1>13
  <2>2. QED
    BY <2>1, ConcatProperties
<1> HIDE DEF ab
<1>19. Len(b) = n - m /\ k + Len(b) = n - c
  BY <1>1, <1>8, <1>10 DEF m
<1>20. Len(ab) = Len(all)
  BY <1>5, <1>16, <1>18, <1>19
<1>21. ASSUME NEW i \in 1..Len(ab)
       PROVE  ab[i] = all[i]
  <2>1. i \in 1 .. k + Len(b) /\ i \in 1 .. n - c
    BY <1>16, <1>18, <1>19
  <2>2. ab[i] = IF i <= k THEN a[i] ELSE b[i - k]
    BY <1>16, <1>18, <2>1
  <2>3. CASE i <= k
    <3>1. i \in 1..k
      BY <2>1, <2>3
    <3>2. QED
      BY <1>17, <2>2, <2>3, <3>1
  <2>4. CASE ~(i <= k)
    <3> DEFINE h == i - k
    <3>1. h \in 1 .. n - m /\ m + h = c + i
      BY <1>1, <1>19, <2>1, <2>4 DEF m
    <3>2. ab[i] = b[h]
      BY <2>2, <2>4
    <3> HIDE DEF h
    <3>3. b[h] = <<"data", d[m + h]>>
      BY <1>9, <1>10, <3>1
    <3>4. all[i] = <<"data", d[c + i]>>
      BY <1>6, <2>1
    <3>5. QED
      BY <3>1, <3>2, <3>3, <3>4
  <2>5. QED
    BY <2>3, <2>4
<1>22. ab = all
  BY <1>5, <1>18, <1>20, <1>21, SeqEqual
<1>23. QED
  BY <1>2, <1>8, <1>10, <1>11, <1>13, <1>15, <1>22 DEF ab, all, b, rest, n

-----------------------------------------------------------------------------
(* The steps.                                                               *)

\* What a step needs to keep the invariant.
LEMMA StreamKept ==
    ASSUME StreamInv, Inv', callback' \/ (~callback /\ todo' = <<>>),
           \A s \in Senders : Shape(job'[s]),
           Clean' => \E q : Queued(q, todo', meant')
                            /\ SentSoFar(wire', job', q[0])
    PROVE  StreamInv'
BY DEF StreamInv

\* Steps of the script that neither send nor change what is queued.
LEMMA StillStep ==
    ASSUME StreamInv, Inv', callback => callback', Clean' => Clean,
           UNCHANGED <<todo, job, wire, meant>>
    PROVE  StreamInv'
<1>1. callback' \/ todo' = <<>>
  BY DEF StreamInv
<1>2. \A s \in Senders : Shape(job'[s])
  BY DEF StreamInv
<1>3. ASSUME Clean'
      PROVE  \E q : Queued(q, todo', meant') /\ SentSoFar(wire', job', q[0])
  <2>1. PICK q : Queued(q, todo, meant) /\ SentSoFar(wire, job, q[0])
    BY <1>3 DEF StreamInv
  <2>2. QED
    BY <2>1
<1>4. QED
  BY <1>1, <1>2, <1>3 DEF StreamInv

LEMMA SendLaterStream ==
    ASSUME StreamInv, Inv', NEW p \in Packets, NEW framed \in BOOLEAN,
           LuaSend(p, framed), SendLater(p, framed)
    PROVE  StreamInv'
<1> DEFINE bytes == SubSeq(out[p].buf, 1, out[p].pos)
           ev == [data |-> bytes, framed |-> framed, swap |-> FALSE]
<1>1. Sound(out[p]) /\ log[p] \in Seq(Nat) /\ todo \in Seq(Event)
      /\ meant \in Seq(Cell)
  BY DEF StreamInv, Inv, BufferInv, SocketInv
<1>2. bytes \in Seq(Nat)
  BY <1>1, Content
<1>3. ~freed => bytes = log[p]
  BY <1>1, Content DEF StreamInv, Inv, BufferInv
<1> HIDE DEF bytes
<1>4. ev \in Event /\ ev.framed = framed /\ ev.data = bytes
  BY <1>2 DEF Event
<1>5. callback /\ todo' = Append(todo, ev) /\ UNCHANGED <<job, overlap>>
  BY DEF SendLater, bytes
<1>6. meant' = meant \o Frame(framed, log[p])
      /\ UNCHANGED <<callback, wire, short, swapped, freed>>
  BY DEF LuaSend
<1> HIDE DEF ev
<1>7. ASSUME Clean'
      PROVE  \E q : Queued(q, todo', meant') /\ SentSoFar(wire', job', q[0])
  <2>1. Clean
    BY <1>5, <1>6, <1>7 DEF Clean
  <2>2. PICK q : Queued(q, todo, meant) /\ SentSoFar(wire, job, q[0])
    BY <2>1 DEF StreamInv
  <2> DEFINE f == Frame(ev.framed, ev.data)
             r == [i \in 0..Len(todo) + 1 |->
                     IF i = Len(todo) + 1 THEN meant \o f ELSE q[i]]
  <2>3. Queued(r, Append(todo, ev), meant \o f) /\ r[0] = q[0]
    BY <1>1, <1>4, <2>2, QueuedAppend
  <2>4. meant \o f = meant'
    BY <1>3, <1>4, <1>6, <2>1 DEF Clean
  <2> HIDE DEF r, f
  <2>5. Queued(r, todo', meant')
    BY <1>5, <2>3, <2>4
  <2>6. SentSoFar(wire', job', r[0])
    BY <1>5, <1>6, <2>2, <2>3
  <2>7. QED
    BY <2>5, <2>6
<1>8. callback'
  BY <1>5, <1>6
<1>9. \A s \in Senders : Shape(job'[s])
  BY <1>5 DEF StreamInv
<1>10. QED
  BY <1>7, <1>8, <1>9, StreamKept

\* A thread begins with the packet at the head of what is queued, or with one
\* of its own when nothing is.
LEMMA BeginStream ==
    ASSUME SocketInv, NEW s \in Senders, NEW ev \in Event, NEW packet,
           packet \in Packets \union {LuaThread}, Begin(s, ev, packet),
           \A t \in Senders : Shape(job[t])
    PROVE  /\ \A t \in Senders : Shape(job'[t])
           /\ \A q0 \in Seq(Cell) : ~overlap' /\ SentSoFar(wire, job, q0) =>
                SentSoFar(wire, job', q0 \o Frame(ev.framed, ev.data))
           /\ ~overlap' => ~overlap
<1> DEFINE k == [stage |-> IF ev.framed THEN "prefix"
                           ELSE IF ev.data = <<>> THEN "sent" ELSE "body",
                 ev |-> ev, curpos |-> 0, packet |-> packet]
<1>1. k \in Job
  BY DEF Job
<1>2. Left(k) = Frame(ev.framed, ev.data) /\ Shape(k)
  BY BeginLeft
<1>3. job' = [job EXCEPT ![s] = k] /\ overlap' = (overlap \/ Sending # {})
  BY DEF Begin
<1> HIDE DEF k
<1>4. job \in [Senders -> Job] /\ wire \in Seq(Cell)
  BY DEF SocketInv
<1>5. \A t \in Senders : Shape(job'[t])
  BY <1>2, <1>3, <1>4
<1>6. ASSUME NEW q0 \in Seq(Cell), ~overlap', SentSoFar(wire, job, q0)
      PROVE  SentSoFar(wire, job', q0 \o Frame(ev.framed, ev.data))
  <2>1. \A t \in Senders : ~Busy(job[t])
    BY <1>3, <1>6 DEF Sending, Busy
  <2>2. SentSoFar(wire, [job EXCEPT ![s] = k], q0 \o Left(k))
    BY <1>1, <1>4, <1>6, <2>1, Starts
  <2>3. QED
    BY <1>2, <1>3, <2>2
<1>7. QED
  BY <1>3, <1>5, <1>6

LEMMA SendNowStream ==
    ASSUME StreamInv, Inv', NEW p \in Packets, NEW framed \in BOOLEAN,
           LuaSend(p, framed), SendNow(p, framed)
    PROVE  StreamInv'
<1> DEFINE bytes == SubSeq(out[p].buf, 1, out[p].pos)
<1>1. Sound(out[p]) /\ log[p] \in Seq(Nat) /\ meant \in Seq(Cell)
  BY DEF StreamInv, Inv, BufferInv, SocketInv
<1>2. bytes \in Seq(Nat)
  BY <1>1, Content
<1>3. ~freed => bytes = log[p]
  BY <1>1, Content DEF StreamInv, Inv, BufferInv
<1>4. PICK swap \in BOOLEAN :
        Begin(LuaThread, [data |-> bytes, framed |-> framed,
                          swap |-> framed /\ swap], p)
  BY DEF SendNow
<1> DEFINE ev == [data |-> bytes, framed |-> framed, swap |-> framed /\ swap]
<1> HIDE DEF bytes
<1>5. ev \in Event /\ ev.framed = framed /\ ev.data = bytes
  BY <1>2 DEF Event
<1>6. Begin(LuaThread, ev, p)
  BY <1>4
<1> HIDE DEF ev
<1>7. ~callback /\ todo' = todo /\ todo = <<>>
  BY DEF SendNow, StreamInv
<1>8. meant' = meant \o Frame(framed, log[p])
      /\ UNCHANGED <<callback, wire, short, swapped, freed>>
  BY DEF LuaSend
<1>9. SocketInv /\ LuaThread \in Senders /\ \A t \in Senders : Shape(job[t])
  BY DEF StreamInv, Inv, Senders
<1>10. /\ \A t \in Senders : Shape(job'[t])
       /\ \A q0 \in Seq(Cell) : ~overlap' /\ SentSoFar(wire, job, q0) =>
            SentSoFar(wire, job', q0 \o Frame(ev.framed, ev.data))
       /\ ~overlap' => ~overlap
  BY <1>5, <1>6, <1>9, BeginStream
<1>11. ASSUME Clean'
       PROVE  \E q : Queued(q, todo', meant') /\ SentSoFar(wire', job', q[0])
  <2>1. Clean /\ ~overlap'
    BY <1>8, <1>10, <1>11 DEF Clean
  <2>2. PICK q : Queued(q, todo, meant) /\ SentSoFar(wire, job, q[0])
    BY <2>1 DEF StreamInv
  <2>3. q[0] = meant
    <3>1. Len(todo) = 0
      BY <1>7
    <3>2. QED
      BY <2>2, <3>1 DEF Queued
  <2>4. SentSoFar(wire, job', meant \o Frame(ev.framed, ev.data))
    BY <1>1, <1>10, <2>1, <2>2, <2>3
  <2>5. meant' = meant \o Frame(ev.framed, ev.data)
    BY <1>3, <1>5, <1>8, <2>1 DEF Clean
  <2>6. meant' \in Seq(Cell)
    BY DEF Inv, SocketInv
  <2> DEFINE mt == meant'
             r == [i \in 0..0 |-> mt]
  <2>7. mt \in Seq(Cell)
    BY <2>6
  <2> HIDE DEF mt
  <2>8. Queued(r, <<>>, mt) /\ r[0] = mt
    BY <2>7, QueuedAlone
  <2> HIDE DEF r
  <2>9. QED
    BY <1>7, <1>8, <2>4, <2>5, <2>8 DEF mt
<1>12. QED
  BY <1>7, <1>8, <1>10, <1>11, StreamKept

LEMMA WorkerTakeStream ==
    ASSUME StreamInv, Inv', NEW w \in Workers, WorkerTake(w)
    PROVE  StreamInv'
<1> DEFINE ev == Head(todo)
<1>1. /\ todo # <<>> /\ Begin(w, ev, LuaThread) /\ todo' = Tail(todo)
      /\ UNCHANGED <<callback, wire, meant, short, swapped, freed>>
  BY DEF WorkerTake
<1>2. todo \in Seq(Event) /\ meant \in Seq(Cell) /\ SocketInv
      /\ w \in Senders /\ \A t \in Senders : Shape(job[t])
  BY DEF StreamInv, Inv, SocketInv, Senders
<1>3. ev \in Event
  BY <1>1, <1>2, HeadTailProperties
<1> HIDE DEF ev
<1>4. /\ \A t \in Senders : Shape(job'[t])
      /\ \A q0 \in Seq(Cell) : ~overlap' /\ SentSoFar(wire, job, q0) =>
           SentSoFar(wire, job', q0 \o Frame(ev.framed, ev.data))
      /\ ~overlap' => ~overlap
  BY <1>1, <1>2, <1>3, BeginStream
<1>5. ASSUME Clean'
      PROVE  \E q : Queued(q, todo', meant') /\ SentSoFar(wire', job', q[0])
  <2>1. Clean /\ ~overlap'
    BY <1>1, <1>4, <1>5 DEF Clean
  <2>2. PICK q : Queued(q, todo, meant) /\ SentSoFar(wire, job, q[0])
    BY <2>1 DEF StreamInv
  <2> DEFINE r == [i \in 0..Len(todo) - 1 |-> q[i + 1]]
  <2>3. /\ Queued(r, Tail(todo), meant)
        /\ r[0] = q[0] \o Frame(Head(todo).framed, Head(todo).data)
        /\ q[0] \in Seq(Cell)
    BY <1>1, <1>2, <2>2, QueuedTail
  <2> HIDE DEF r
  <2>4. SentSoFar(wire, job', q[0] \o Frame(ev.framed, ev.data))
    BY <1>4, <2>1, <2>2, <2>3
  <2>5. r[0] = q[0] \o Frame(ev.framed, ev.data)
    BY <2>3 DEF ev
  <2>6. QED
    BY <1>1, <2>3, <2>4, <2>5
<1>6. callback'
  BY <1>1 DEF StreamInv
<1>7. QED
  BY <1>4, <1>5, <1>6, StreamKept

\* A sender goes on: its bytes move from what is left to the wire.
LEMMA SenderStep ==
    ASSUME StreamInv, Inv', NEW s \in Senders, NEW k \in Job, Busy(job[s]),
           Shape(k), job' = [job EXCEPT ![s] = k],
           UNCHANGED <<callback, todo, meant>>, Clean' => Clean,
           Clean' => wire' \o Left(k) = wire \o Left(job[s])
    PROVE  StreamInv'
<1>1. job \in [Senders -> Job] /\ wire' \in Seq(Cell)
  BY DEF StreamInv, Inv, SocketInv
<1>2. \A t \in Senders : Shape(job'[t])
  BY <1>1 DEF StreamInv
<1>3. callback' \/ todo' = <<>>
  BY DEF StreamInv
<1>4. ASSUME Clean'
      PROVE  \E q : Queued(q, todo', meant') /\ SentSoFar(wire', job', q[0])
  <2>1. PICK q : Queued(q, todo, meant) /\ SentSoFar(wire, job, q[0])
    BY <1>4 DEF StreamInv
  <2> DEFINE w2 == wire'
  <2>2. w2 \in Seq(Cell) /\ w2 \o Left(k) = wire \o Left(job[s])
    BY <1>1, <1>4
  <2> HIDE DEF w2
  <2>3. SentSoFar(w2, [job EXCEPT ![s] = k], q[0])
    BY <1>1, <2>1, <2>2, Continues
  <2>4. QED
    BY <2>1, <2>3 DEF w2
<1>5. QED
  BY <1>2, <1>3, <1>4 DEF StreamInv

LEMMA SendPrefixStream ==
    ASSUME StreamInv, Inv', NEW s \in Senders, NEW k \in Nat, SendPrefix(s, k)
    PROVE  StreamInv'
<1> DEFINE ev == job[s].ev
           kind == IF ev.swap THEN "swapped" ELSE "length"
           px == Prefix(kind, Len(ev.data))
           j == [job[s] EXCEPT !.stage = "body"]
           c == Cells("data", ev.data)
<1>1. /\ job[s] \in Job /\ ev.data \in Seq(Nat) /\ Len(ev.data) \in Nat
      /\ ev.swap \in BOOLEAN /\ Shape(job[s])
      /\ wire \in Seq(Cell) /\ job \in [Senders -> Job]
  BY JobTyped DEF StreamInv, Inv, SocketInv, Event
<1>2. job[s].stage = "prefix" /\ Transmit(px, k)
      /\ swapped' = (swapped \/ ev.swap)
      /\ UNCHANGED <<callback, todo, meant, overlap, freed>>
  BY DEF SendPrefix
<1>3. job' = [job EXCEPT ![s] = j]
  BY <1>1 DEF SendPrefix
<1>4. job[s].curpos = 0 /\ Busy(job[s])
  BY <1>1, <1>2 DEF Shape, Busy
<1>5. /\ j \in Job /\ j.stage = "body" /\ j.ev = ev /\ j.curpos = 0
  BY <1>1, <1>4 DEF Job
<1>6. px \in Seq(Cell) /\ c \in Seq(Cell)
  BY <1>1, PrefixSeq, CellsSeq
<1>7. Left(job[s]) = Frame(TRUE, ev.data)
  BY <1>2 DEF Left
<1> HIDE DEF j, px
<1>8. Shape(j)
  BY <1>1, <1>5 DEF Shape
<1>9. Left(j) = c
  <2>1. SubSeq(ev.data, 1, Len(ev.data)) = ev.data
    BY <1>1, SubSeqFull
  <2>2. Left(j) = Cells("data", SubSeq(ev.data, j.curpos + 1, Len(ev.data)))
    BY <1>5 DEF Left
  <2>3. j.curpos + 1 = 1
    BY <1>5
  <2>4. QED
    BY <2>1, <2>2, <2>3
<1>10. Clean' => Clean
  BY <1>2 DEF Clean, Transmit
<1>11. ASSUME Clean'
       PROVE  wire' \o Left(j) = wire \o Left(job[s])
  <2>1. ~ev.swap /\ ~short' /\ k \in 0..Len(px)
    BY <1>2, <1>11 DEF Clean, Transmit
  <2>2. k = Len(px)
    <3>1. ~(k < Len(px))
      BY <1>2, <2>1 DEF Transmit
    <3>2. QED
      BY <1>6, <2>1, <3>1
  <2>3. SubSeq(px, 1, k) = px
    BY <1>6, <2>2, SubSeqFull
  <2>4. wire' = wire \o px
    BY <1>2, <2>3 DEF Transmit
  <2>5. Left(job[s]) = px \o c
    BY <1>7, <2>1 DEF Frame, px
  <2> HIDE DEF c
  <2>6. (wire \o px) \o c = wire \o (px \o c)
    <3>1. wire \in Seq(Cell) /\ px \in Seq(Cell) /\ c \in Seq(Cell)
      BY <1>1, <1>6
    <3>2. QED
      BY <3>1, JoinedCells
  <2>7. QED
    BY <1>9, <2>4, <2>5, <2>6
<1>12. QED
  BY <1>2, <1>3, <1>4, <1>5, <1>8, <1>10, <1>11, SenderStep

LEMMA SendFrameStream ==
    ASSUME StreamInv, Inv', NEW s \in Senders, NEW k \in Nat, SendFrame(s, k)
    PROVE  StreamInv'
<1> DEFINE ev == job[s].ev
           j == [job[s] EXCEPT !.stage = "sent"]
           c == Cells("data", ev.data)
<1>1. /\ job[s] \in Job /\ ev.data \in Seq(Nat) /\ Len(ev.data) \in Nat
      /\ Shape(job[s]) /\ wire \in Seq(Cell) /\ job \in [Senders -> Job]
  BY JobTyped DEF StreamInv, Inv, SocketInv
<1>2. job[s].stage = "body" /\ ev.framed /\ Transmit(c, k)
      /\ UNCHANGED <<callback, todo, meant, overlap, swapped, freed>>
  BY DEF SendFrame
<1>3. job' = [job EXCEPT ![s] = j]
  BY <1>1 DEF SendFrame
<1>4. job[s].curpos = 0 /\ Busy(job[s])
  BY <1>1, <1>2 DEF Shape, Busy
<1>5. j \in Job /\ j.stage = "sent" /\ j.ev = ev /\ j.curpos = 0
  BY <1>1, <1>4 DEF Job
<1>6. c \in Seq(Cell)
  BY <1>1, CellsSeq
<1>7. Left(job[s]) = c
  <2>1. SubSeq(ev.data, 1, Len(ev.data)) = ev.data
    BY <1>1, SubSeqFull
  <2>2. Left(job[s]) = Cells("data", SubSeq(ev.data, job[s].curpos + 1,
                                            Len(ev.data)))
    BY <1>2 DEF Left
  <2>3. job[s].curpos + 1 = 1
    BY <1>4
  <2>4. QED
    BY <2>1, <2>2, <2>3
<1> HIDE DEF j, c
<1>8. Shape(j) /\ Left(j) = <<>>
  BY <1>1, <1>5 DEF Shape, Left
<1>9. Clean' => Clean
  BY <1>2 DEF Clean, Transmit
<1>10. ASSUME Clean'
       PROVE  wire' \o Left(j) = wire \o Left(job[s])
  <2>1. k = Len(c)
    <3>1. ~(k < Len(c)) /\ k \in 0..Len(c)
      BY <1>2, <1>10 DEF Clean, Transmit
    <3>2. QED
      BY <1>6, <3>1
  <2>2. SubSeq(c, 1, k) = c
    BY <1>6, <2>1, SubSeqFull
  <2>3. wire' = wire \o c
    BY <1>2, <2>2 DEF Transmit
  <2>4. wire \o c \in Seq(Cell)
    BY <1>1, <1>6, ConcatProperties
  <2>5. (wire \o c) \o <<>> = wire \o c
    BY <2>4, ConcatEmptySeq
  <2>6. QED
    BY <1>7, <1>8, <2>3, <2>5
<1>11. QED
  BY <1>2, <1>3, <1>4, <1>5, <1>8, <1>9, <1>10, SenderStep

LEMMA SendRawStream ==
    ASSUME StreamInv, Inv', NEW s \in Senders, NEW k \in Nat, SendRaw(s, k)
    PROVE  StreamInv'
<1> DEFINE ev == job[s].ev
           d == ev.data
           n == job[s].curpos
           rest == SubSeq(d, n + 1, Len(d))
           gone == Cells("data", SubSeq(rest, 1, k))
           stage == IF k \in {0, Len(rest)} THEN "sent" ELSE "body"
           j == [job[s] EXCEPT !.curpos = @ + k, !.stage = stage]
<1>1. /\ job[s] \in Job /\ d \in Seq(Nat) /\ Len(d) \in Nat
      /\ n \in Nat /\ Shape(job[s]) /\ n <= Len(d)
      /\ wire \in Seq(Cell) /\ job \in [Senders -> Job]
  BY JobTyped DEF StreamInv, Inv, SocketInv, Shape
<1>2. job[s].stage = "body" /\ ~ev.framed /\ k \in 0..Len(rest)
      /\ wire' = wire \o gone
      /\ short' = (short \/ k = 0)
      /\ UNCHANGED <<callback, todo, meant, overlap, swapped, freed>>
  BY DEF SendRaw
<1>3. job' = [job EXCEPT ![s].curpos = @ + k, ![s].stage = stage]
  BY DEF SendRaw
<1>4. job' = [job EXCEPT ![s] = j]
  BY <1>1, <1>3 DEF Job
<1>5. Busy(job[s])
  BY <1>2 DEF Busy
<1>6. Left(job[s]) = Cells("data", rest)
  BY <1>2 DEF Left
<1>7. stage \in {"sent", "body"} /\ (stage = "sent" <=> k \in {0, Len(rest)})
  OBVIOUS
<1> HIDE DEF stage
<1>8. n + k \in Nat
  BY <1>1
<1>9. j \in Job /\ j.stage = stage /\ j.ev = ev /\ j.curpos = n + k
  <2> DEFINE m == n + k
  <2> HIDE DEF m
  <2>1. m \in Nat
    BY <1>8 DEF m
  <2> DEFINE jm == [job[s] EXCEPT !.curpos = m, !.stage = stage]
  <2>2. jm \in Job /\ jm.stage = stage /\ jm.ev = ev /\ jm.curpos = m
    BY <1>1, <1>7, <2>1 DEF Job
  <2>3. jm = j
    BY <1>1 DEF m, Job
  <2>4. QED
    BY <2>2, <2>3 DEF m
<1>10. Len(rest) = Len(d) - n /\ n + k <= Len(d)
  <2>1. n + 0 <= Len(d) /\ 0 \in Nat
    BY <1>1
  <2>2. Len(rest) = Len(d) - n
    BY <1>1, <2>1, CellsSplit
  <2>3. QED
    BY <1>1, <1>2, <2>2
<1>11. /\ rest \in Seq(Nat) /\ gone \in Seq(Cell)
       /\ Cells("data", SubSeq(d, n + k + 1, Len(d))) \in Seq(Cell)
       /\ gone \o Cells("data", SubSeq(d, n + k + 1, Len(d)))
            = Cells("data", rest)
  BY <1>1, <1>10, CellsSplit
<1> HIDE DEF j, gone, rest
<1>12. Shape(j)
  BY <1>2, <1>7, <1>9, <1>10 DEF Shape
<1>13. Clean' => Clean
  BY <1>2 DEF Clean
<1>14. ASSUME Clean'
       PROVE  wire' \o Left(j) = wire \o Left(job[s])
  <2> DEFINE last == Cells("data", SubSeq(d, n + k + 1, Len(d)))
  <2>1. k # 0
    BY <1>2, <1>14 DEF Clean
  <2>2. Left(j) = last
    <3>1. CASE stage = "body"
      BY <1>9, <3>1 DEF Left
    <3>2. CASE stage = "sent"
      <4>1. k = Len(rest)
        BY <1>7, <2>1, <3>2
      <4>2. Len(d) < n + k + 1 /\ n + k + 1 \in Int /\ Len(d) \in Int
        BY <1>1, <1>10, <4>1
      <4>3. SubSeq(d, n + k + 1, Len(d)) = <<>>
        BY <4>2, SubSeqEmpty
      <4>4. Cells("data", <<>>) = <<>>
        BY DEF Cells
      <4>5. Left(j) = <<>>
        BY <1>9, <3>2 DEF Left
      <4>6. QED
        BY <4>3, <4>4, <4>5
    <3>3. QED
      BY <1>7, <3>1, <3>2
  <2> HIDE DEF last
  <2>3. last \in Seq(Cell) /\ gone \o last = Cells("data", rest)
    BY <1>11 DEF last
  <2>4. (wire \o gone) \o last = wire \o (gone \o last)
    <3>1. wire \in Seq(Cell) /\ gone \in Seq(Cell) /\ last \in Seq(Cell)
      BY <1>1, <1>11, <2>3
    <3>2. QED
      BY <3>1, JoinedCells
  <2>5. QED
    BY <1>2, <1>6, <2>2, <2>3, <2>4
<1>15. QED
  BY <1>2, <1>4, <1>5, <1>9, <1>12, <1>13, <1>14, SenderStep

LEMMA FinishStream ==
    ASSUME StreamInv, Inv', NEW s \in Senders, Finish(s)
    PROVE  StreamInv'
<1>1. /\ job[s].stage = "sent" /\ job' = [job EXCEPT ![s] = NoJob]
      /\ UNCHANGED <<callback, todo, wire, meant, overlap, short, swapped,
                     freed>>
  BY DEF Finish, history
<1>2. job \in [Senders -> Job]
  BY DEF StreamInv, Inv, SocketInv
<1>3. NoJob \in Job /\ NoJob.stage = "idle" /\ NoJob.ev.framed = FALSE
      /\ NoJob.curpos = 0 /\ NoJob.ev.data = <<>>
  BY EmptySeq DEF NoJob, Job, Event
<1>4. Shape(NoJob) /\ ~Busy(NoJob) /\ ~Busy(job[s])
  BY <1>1, <1>3 DEF Shape, Busy
<1>5. \A t \in Senders : Shape(job'[t])
  BY <1>1, <1>2, <1>4 DEF StreamInv
<1>6. callback' \/ todo' = <<>>
  BY <1>1 DEF StreamInv
<1>7. ASSUME Clean'
      PROVE  \E q : Queued(q, todo', meant') /\ SentSoFar(wire', job', q[0])
  <2>1. Clean
    BY <1>1, <1>7 DEF Clean
  <2>2. PICK q : Queued(q, todo, meant) /\ SentSoFar(wire, job, q[0])
    BY <2>1 DEF StreamInv
  <2>3. SentSoFar(wire, [job EXCEPT ![s] = NoJob], q[0])
    BY <1>2, <1>3, <1>4, <2>2, Rests
  <2>4. QED
    BY <1>1, <2>2, <2>3
<1>8. QED
  BY <1>5, <1>6, <1>7 DEF StreamInv

LEMMA NextStream == StreamInv /\ [Next]_vars => StreamInv'
<1> SUFFICES ASSUME StreamInv, [Next]_vars PROVE StreamInv'
  OBVIOUS
<1>1. Inv'
  BY NextInv DEF StreamInv
<1>2. ASSUME UNCHANGED <<callback, socket, history>> PROVE StreamInv'
  BY <1>1, <1>2, StillStep DEF socket, history, Clean
<1>3. ASSUME NEW p \in Packets, NEW f \in Formats, NEW n \in Sizes,
             Write(p, f, n)
      PROVE  StreamInv'
  BY <1>2, <1>3 DEF Write
<1>4. ASSUME NEW p \in Packets, NEW q \in Packets,
             WritePacket(p, q) \/ Copy(p, q)
      PROVE  StreamInv'
  BY <1>2, <1>4 DEF WritePacket, Copy
<1>5. ASSUME NEW p \in Packets, WriteItself(p)
      PROVE  StreamInv'
  <2>1. UNCHANGED <<callback, socket, meant, overlap, short, swapped>>
        /\ (freed => freed')
    BY <1>5 DEF WriteItself
  <2>2. QED
    BY <1>1, <2>1, StillStep DEF socket, Clean
<1>6. ASSUME NEW p \in Packets, Clear(p)
      PROVE  StreamInv'
  BY <1>2, <1>6 DEF Clear
<1>7. ASSUME NEW p \in Packets, NEW framed \in BOOLEAN, LuaSend(p, framed)
      PROVE  StreamInv'
  <2>1. SendLater(p, framed) \/ SendNow(p, framed)
    BY <1>7 DEF LuaSend
  <2>2. QED
    BY <1>1, <1>7, <2>1, SendLaterStream, SendNowStream
<1>8. CASE SetCallbackSend
  BY <1>1, <1>8, StillStep DEF SetCallbackSend, socket, history, Clean
<1>9. ASSUME NEW w \in Workers, WorkerTake(w)
      PROVE  StreamInv'
  BY <1>1, <1>9, WorkerTakeStream
<1>10. ASSUME NEW s \in Senders, Send(s)
       PROVE  StreamInv'
  <2>1. job[s].ev.data \in Seq(Nat)
    BY JobTyped DEF StreamInv, Inv
  <2>2. 0..Larger(PrefixSize, Len(job[s].ev.data)) \subseteq Nat
    BY <2>1, PacketAssumption DEF Larger
  <2>3. ASSUME NEW k \in Nat, SendPrefix(s, k) \/ SendFrame(s, k) \/ SendRaw(s, k)
        PROVE  StreamInv'
    BY <1>1, <2>3, SendPrefixStream, SendFrameStream, SendRawStream
  <2>4. QED
    BY <1>1, <1>10, <2>2, <2>3, FinishStream DEF Send
<1>11. CASE UNCHANGED vars
  BY <1>2, <1>11 DEF vars
<1>12. QED
  BY <1>3, <1>4, <1>5, <1>6, <1>7, <1>8, <1>9, <1>10, <1>11 DEF Next, Lua

\* The bytes that went out are a beginning of what Send was asked for, in its
\* order, unless two threads sent at a time, a send was cut short, a length
\* went out in the other byte order or a packet was written to itself.
THEOREM PacketOutStream == Spec => []StreamAsMeant
<1>1. Init => StreamInv
  BY StreamInit
<1>2. StreamInv /\ [Next]_vars => StreamInv'
  BY NextStream
<1>3. StreamInv => StreamAsMeant
  BY StreamGives
<1>4. QED
  BY <1>1, <1>2, <1>3, PTL DEF Spec
=============================================================================
