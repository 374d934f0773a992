--------------------------- MODULE PacketInProofs ---------------------------
(***************************************************************************)
(* Proofs about PacketIn, for any frames, requests, sizes and threads.      *)
(*                                                                         *)
(* The types, and that the position of a packet stays inside its in buffer: *)
(* Inv is inductive.                                                        *)
(*                                                                         *)
(* That a packet holds the bytes of the stream in order: OrderInv adds what *)
(* a thread in a CanRead has in front of it, the buffer up to the position  *)
(* and the bytes that have come, and that the fill leaves none behind them. *)
(*                                                                         *)
(* That a framed Receive returns its frame: WholeInv adds how much of the   *)
(* frame has come to the one thread that is in a CanRead.                   *)
(***************************************************************************)
EXTENDS PacketIn, SharedLemmas, SequenceTheorems, TLAPS

\* Packets whose position is in the buffer, unless a recv ended early.
Good == {p \in Packet : ~p.short => p.pos <= Len(p.buf)}

\* Those with n more bytes behind the position.
Ahead(n) == {p \in Packet : ~p.short => p.pos + n <= Len(p.buf)}

\* Jobs on good packets; what is wanted for a length is the size of a length.
GoodJob ==
    {j \in Job : /\ j.stage # "idle" => j.pkt \in Good
                 /\ j.stage = "prefix" => j.n = PrefixSize
                 /\ j.stage \in {"seek", "scan"} => j.n \in ReadSizes}

\* The parts of the state that a receive changes.
Sound ==
    /\ job \in [Threads -> GoodJob]
    /\ results \in Seq(Good \union {NoPacket})
    /\ held \in Good \union {NoPacket}
    /\ overlap \in BOOLEAN

Inv ==
    /\ Sound
    /\ next \in Nat /\ callback \in BOOLEAN
    /\ todo \in Seq(Request) /\ receives \in Nat

LEMMA InvGives == Inv => TypeOK /\ InsideBuffer
<1> SUFFICES ASSUME Inv PROVE TypeOK /\ InsideBuffer
  OBVIOUS
<1>1. Good \subseteq Packet
  BY DEF Good
<1>2. results \in Seq(Packet \union {NoPacket})
  <2>1. Good \union {NoPacket} \subseteq Packet \union {NoPacket}
    BY <1>1
  <2>2. QED
    BY <2>1, SeqMonotonic DEF Inv, Sound
<1>3. \A t \in Threads : /\ job[t] \in Job
                         /\ job[t].stage # "idle" => job[t].pkt \in Good
  BY DEF Inv, Sound, GoodJob
<1>4. job \in [Threads -> Job]
  BY <1>3 DEF Inv, Sound
<1>5. TypeOK
  BY <1>1, <1>2, <1>3, <1>4 DEF Inv, Sound, TypeOK
<1>6. ASSUME NEW p \in Alive PROVE p \in Good
  <2>1. ASSUME NEW i \in 1..Len(results) PROVE results[i] \in Good \union {NoPacket}
    BY ElementOfSeq DEF Inv, Sound
  <2>2. QED
    BY <1>3, <2>1 DEF Alive, Busy, Inv, Sound
<1>7. QED
  BY <1>5, <1>6 DEF InsideBuffer, Good

-----------------------------------------------------------------------------
(* The in buffer.                                                           *)

\* The subtraction of unsigned numbers does no harm inside the buffer.
LEMMA EnoughIsAhead ==
    ASSUME NEW p \in Good, NEW n \in Nat, n < Wrap, Enough(p, n)
    PROVE  p \in Ahead(n)
<1> SUFFICES ASSUME ~p.short PROVE p.pos + n <= Len(p.buf)
  BY DEF Good, Ahead
<1> DEFINE left == Len(p.buf) - p.pos
<1>1. p.pos \in Nat /\ Len(p.buf) \in Nat /\ left \in Nat
  BY DEF Good, Packet
<1>2. Wrap \in Nat \ {0}
  BY StreamAssumption
<1>3. left % Wrap <= left
  <2> HIDE DEF left
  <2>1. QED
    BY <1>1, <1>2
<1>4. n % Wrap = n
  BY <1>2
<1>5. left % Wrap >= n
  BY <1>4 DEF Enough
<1>6. left % Wrap \in Nat
  <2> HIDE DEF left
  <2>1. QED
    BY <1>1, <1>2
<1>7. left >= n
  <2> HIDE DEF left
  <2>1. QED
    BY <1>1, <1>3, <1>5, <1>6
<1>8. QED
  BY <1>1, <1>7

LEMMA RefilledSeq ==
    ASSUME NEW p \in Packet, NEW s \in Seq(Nat), NEW size \in Nat
    PROVE  /\ Refilled(p, s, size) \in Seq(Nat)
           /\ Len(Refilled(p, s, size)) = size
<1>1. p.buf \in Seq(Nat) /\ p.pos \in Nat /\ Len(s) \in Nat
      /\ Len(p.buf) \in Nat
  BY DEF Packet
<1>2. ASSUME NEW i \in 1..size
      PROVE  (IF i \in p.pos + 1 .. p.pos + Len(s) THEN s[i - p.pos]
              ELSE IF i <= Len(p.buf) THEN p.buf[i] ELSE Garbage) \in Nat
  <2>1. CASE i \in p.pos + 1 .. p.pos + Len(s)
    <3>1. i - p.pos \in 1..Len(s)
      BY <1>1, <2>1
    <3>2. QED
      BY <2>1, <3>1, ElementOfSeq
  <2>2. CASE i \notin p.pos + 1 .. p.pos + Len(s) /\ i <= Len(p.buf)
    <3>1. i \in 1..Len(p.buf)
      BY <1>1, <2>2
    <3>2. p.buf[i] \in Nat
      BY <1>1, <3>1, ElementOfSeq
    <3>3. QED
      BY <2>2, <3>2
  <2>3. CASE i \notin p.pos + 1 .. p.pos + Len(s) /\ ~(i <= Len(p.buf))
    BY <2>3 DEF Garbage
  <2>4. QED
    BY <2>1, <2>2, <2>3
<1>3. Refilled(p, s, size) \in [1..size -> Nat]
  BY <1>2 DEF Refilled
<1>4. QED
  BY <1>3

LEMMA FillGoesAhead ==
    ASSUME NEW p \in Packet, NEW s \in Seq(Nat)
    PROVE  /\ Fill(p, s) \in Ahead(Len(s))
           /\ [Fill(p, s) EXCEPT !.short = TRUE] \in Packet
<1> DEFINE size == Larger(p.pos + Len(s), Len(p.buf))
           b == Refilled(p, s, size)
<1>1. p.pos \in Nat /\ Len(s) \in Nat /\ Len(p.buf) \in Nat
  BY DEF Packet
<1>2. size \in Nat /\ p.pos + Len(s) <= size
  BY <1>1 DEF Larger
<1> HIDE DEF size
<1>3. b \in Seq(Nat) /\ Len(b) = size
  BY <1>2, RefilledSeq
<1> HIDE DEF b
<1>4. Fill(p, s) = [p EXCEPT !.buf = b]
  BY DEF Fill, b, size
<1>5. /\ [p EXCEPT !.buf = b] \in Packet
      /\ [p EXCEPT !.buf = b].pos = p.pos /\ [p EXCEPT !.buf = b].buf = b
  BY <1>3 DEF Packet
<1>6. Fill(p, s) \in Packet /\ Fill(p, s).pos = p.pos /\ Fill(p, s).buf = b
  BY <1>4, <1>5
<1>7. Fill(p, s) \in Ahead(Len(s))
  BY <1>2, <1>3, <1>6 DEF Ahead
<1>8. [Fill(p, s) EXCEPT !.short = TRUE] \in Packet
  BY <1>6 DEF Packet
<1>9. QED
  BY <1>7, <1>8

LEMMA AheadIsGood ==
    ASSUME NEW n \in Nat, NEW p \in Ahead(n)
    PROVE  p \in Good /\ [p EXCEPT !.pos = @ + n] \in Good
<1>1. p \in Packet /\ p.pos \in Nat /\ p.buf \in Seq(Nat) /\ Len(p.buf) \in Nat
  BY DEF Ahead, Packet
<1>2. p \in Good
  BY <1>1 DEF Ahead, Good
<1> DEFINE m == p.pos + n
           r == [p EXCEPT !.pos = m]
<1>3. m \in Nat
  BY <1>1
<1>4. ~p.short => m <= Len(p.buf)
  BY DEF Ahead
<1> HIDE DEF m
<1>5. r \in Packet /\ r.pos = m /\ r.buf = p.buf /\ r.short = p.short
  BY <1>1, <1>3 DEF Packet
<1>6. r \in Good
  BY <1>4, <1>5 DEF Good
<1>7. QED
  BY <1>2, <1>6 DEF m

LEMMA ShortIsAhead ==
    ASSUME NEW p \in Packet, p.short, NEW n \in Nat
    PROVE  p \in Ahead(n) /\ p \in Good
BY DEF Ahead, Good

LEMMA NewIsGood ==
    NewPacket \in Good
    /\ \A f \in Nat : [NewPacket EXCEPT !.frame = f] \in Good
<1>1. <<>> \in Seq(Nat) /\ Len(<<>>) = 0
  OBVIOUS
<1>2. /\ NewPacket \in Packet /\ NewPacket.pos = 0 /\ NewPacket.buf = <<>>
      /\ NewPacket.short = FALSE
  BY <1>1 DEF NewPacket, Packet
<1>3. NewPacket \in Good
  BY <1>1, <1>2 DEF Good
<1>4. ASSUME NEW f \in Nat PROVE [NewPacket EXCEPT !.frame = f] \in Good
  <2> DEFINE p == [NewPacket EXCEPT !.frame = f]
  <2>1. p \in Packet /\ p.pos = 0 /\ p.buf = <<>>
    BY <1>2 DEF Packet
  <2> HIDE DEF p
  <2>2. p \in Good
    BY <1>1, <2>1 DEF Good
  <2>3. QED
    BY <2>2 DEF p
<1>5. QED
  BY <1>3, <1>4

LEMMA UnframedIsGood ==
    ASSUME NEW p \in Good
    PROVE  [p EXCEPT !.frame = 0] \in Good
BY DEF Good, Packet

-----------------------------------------------------------------------------
(* How a thread goes on.                                                    *)

LEMMA WantSound ==
    ASSUME Sound, NEW t \in Threads, NEW p \in Good, NEW n \in Nat,
           NEW stage \in {"prefix", "body", "until", "read", "seek", "scan"},
           stage = "prefix" => n = PrefixSize,
           stage \in {"seek", "scan"} => n \in ReadSizes,
           Want(t, stage, p, n), UNCHANGED <<results, held>>
    PROVE  Sound'
<1> DEFINE j == [stage |-> stage, pkt |-> p, n |-> n, tmp |-> <<>>]
<1>1. <<>> \in Seq(Nat) /\ p \in Packet
  BY DEF Good
<1>2. j \in Job
  BY <1>1 DEF Job
<1>3. j.stage = stage /\ j.pkt = p /\ j.n = n
  OBVIOUS
<1>4. job' = [job EXCEPT ![t] = j]
  BY DEF Want
<1> HIDE DEF j
<1>5. j \in GoodJob
  BY <1>2, <1>3 DEF GoodJob
<1>6. job' \in [Threads -> GoodJob]
  BY <1>4, <1>5 DEF Sound
<1>7. overlap' \in BOOLEAN
  BY DEF Want, Sound
<1>8. QED
  BY <1>6, <1>7 DEF Sound

LEMMA NoJobGood == NoJob \in GoodJob
BY EmptySeq DEF NoJob, GoodJob, Job

LEMMA DeliverSound ==
    ASSUME Sound, NEW t \in Threads, NEW p \in Good, Deliver(t, p)
    PROVE  Sound'
<1>1. job' \in [Threads -> GoodJob] /\ overlap' \in BOOLEAN
  BY NoJobGood DEF Deliver, Leave, Sound
<1>2. held' \in Good \union {NoPacket}
  BY DEF Deliver, Sound
<1>3. results' \in Seq(Good \union {NoPacket})
  <2>1. Append(results, p) \in Seq(Good \union {NoPacket})
    BY DEF Sound
  <2>2. QED
    BY <2>1 DEF Deliver, Sound
<1>4. QED
  BY <1>1, <1>2, <1>3 DEF Sound

LEMMA FailSound ==
    ASSUME Sound, NEW t \in Threads, Fail(t)
    PROVE  Sound'
<1>1. job' \in [Threads -> GoodJob] /\ overlap' \in BOOLEAN /\ held' = held
  BY NoJobGood DEF Fail, Leave, Sound
<1>2. results' \in Seq(Good \union {NoPacket})
  <2>1. Append(results, NoPacket) \in Seq(Good \union {NoPacket})
    BY DEF Sound
  <2>2. QED
    BY <2>1 DEF Fail, Sound
<1>3. QED
  BY <1>1, <1>2 DEF Sound

LEMMA ReceiveBodySound ==
    ASSUME Sound, NEW t \in Threads, NEW p \in Good, NEW n \in Int,
           ReceiveBody(t, p, n)
    PROVE  Sound'
<1>1. CASE (n > MaxReceiveSize \/ n < 0) /\ Fail(t)
  BY <1>1, FailSound
<1>2. CASE n = 0 /\ (IF t = LuaThread THEN Deliver(t, p) ELSE Fail(t))
  BY <1>2, FailSound, DeliverSound
<1>3. CASE n \in 1..MaxReceiveSize /\ Deliver(t, p)
  BY <1>3, DeliverSound
<1>4. CASE /\ n \in 1..MaxReceiveSize
           /\ Want(t, "body", p, n) /\ UNCHANGED <<results, held>>
  <2>1. n \in Nat
    BY <1>4, StreamAssumption
  <2>2. QED
    BY <1>4, <2>1, WantSound
<1>5. QED
  BY <1>1, <1>2, <1>3, <1>4 DEF ReceiveBody

LEMMA ReceiveLengthSound ==
    ASSUME Sound, NEW t \in Threads, NEW p \in Ahead(PrefixSize),
           ReceiveLength(t, p)
    PROVE  Sound'
<1>1. PrefixSize \in Nat
  BY StreamAssumption
<1>2. [p EXCEPT !.pos = @ + PrefixSize] \in Good
  BY <1>1, AheadIsGood
<1>3. Lengths(p) \subseteq Int
  <2>1. \A f \in 1..Len(Frames) : Frames[f] \in Int
    BY ElementOfSeq, StreamAssumption
  <2>2. QED
    BY <2>1, StreamAssumption DEF Lengths
<1> DEFINE q == [p EXCEPT !.pos = @ + PrefixSize]
<1>4. PICK n \in Lengths(p) : ReceiveBody(t, q, n)
  BY DEF ReceiveLength
<1> HIDE DEF q
<1>5. n \in Int /\ q \in Good
  BY <1>2, <1>3 DEF q
<1>6. QED
  BY <1>4, <1>5, ReceiveBodySound

\* What a thread knows of its job.
LEMMA JobGood ==
    ASSUME Sound, NEW t \in Threads
    PROVE  /\ job[t] \in GoodJob /\ job[t] \in Job
           /\ job[t].n \in Nat /\ job[t].tmp \in Seq(Nat)
           /\ job[t].stage # "idle" => job[t].pkt \in Good
           /\ job[t].stage = "prefix" => job[t].n = PrefixSize
           /\ job[t].stage \in {"seek", "scan"} => job[t].n \in ReadSizes
BY DEF Sound, GoodJob, Job

LEMMA SucceedSound ==
    ASSUME Sound, NEW t \in Threads, NEW p \in Ahead(job[t].n), Succeed(t, p)
    PROVE  Sound'
<1>1. job[t].n \in Nat
  BY JobGood
<1>2. p \in Good /\ [p EXCEPT !.pos = @ + job[t].n] \in Good
  BY <1>1, AheadIsGood
<1>3. CASE job[t].stage = "prefix" /\ ReceiveLength(t, p)
  BY <1>3, JobGood, ReceiveLengthSound
<1>4. CASE job[t].stage = "body" /\ Deliver(t, p)
  BY <1>2, <1>4, DeliverSound
<1>5. CASE job[t].stage = "read" /\ Deliver(t, [p EXCEPT !.pos = @ + job[t].n])
  BY <1>2, <1>5, DeliverSound
<1>6. CASE /\ job[t].stage = "scan"
           /\ job' = [job EXCEPT ![t] = [stage |-> "seek", pkt |-> p, n |-> @.n,
                                         tmp |-> <<>>]]
           /\ UNCHANGED <<results, held, overlap>>
  <2> DEFINE j == [stage |-> "seek", pkt |-> p, n |-> job[t].n, tmp |-> <<>>]
  <2>1. job[t].n \in ReadSizes
    BY <1>6, JobGood
  <2>2. <<>> \in Seq(Nat) /\ p \in Packet
    BY <1>2 DEF Good
  <2>3. j \in Job
    BY <1>1, <2>2 DEF Job
  <2>4. j.stage = "seek" /\ j.pkt = p /\ j.n = job[t].n
    OBVIOUS
  <2>5. job' = [job EXCEPT ![t] = j]
    BY <1>6 DEF Sound
  <2> HIDE DEF j
  <2>6. j \in GoodJob
    BY <1>2, <2>1, <2>3, <2>4 DEF GoodJob
  <2>7. QED
    BY <1>6, <2>5, <2>6 DEF Sound
<1>7. QED
  BY <1>3, <1>4, <1>5, <1>6 DEF Succeed

LEMMA GiveUpSound ==
    ASSUME Sound, NEW t \in Threads, GiveUp(t)
    PROVE  Sound'
<1> DEFINE p == job[t].pkt
<1>1. job[t].stage # "idle"
  BY DEF GiveUp
<1>2. p \in Good
  BY <1>1, JobGood
<1>3. CASE ReceiveBody(t, [p EXCEPT !.short = TRUE], 0)
  <2>1. [p EXCEPT !.short = TRUE] \in Good
    BY <1>2 DEF Good, Packet
  <2>2. QED
    BY <1>3, <2>1, ReceiveBodySound
<1>4. CASE Fail(t)
  BY <1>4, FailSound
<1>5. CASE Deliver(t, p)
  BY <1>2, <1>5, DeliverSound
<1>6. QED
  BY <1>3, <1>4, <1>5 DEF GiveUp

-----------------------------------------------------------------------------
(* The steps of a thread.                                                   *)

\* The parts of the state that only the stream and the script change.
Rest == next \in Nat /\ callback \in BOOLEAN /\ todo \in Seq(Request)
        /\ receives \in Nat

LEMMA InvParts == Inv <=> Sound /\ Rest
BY DEF Inv, Rest

LEMMA TmpSound ==
    ASSUME Sound, NEW t \in Threads, NEW s \in Seq(Nat),
           job' = [job EXCEPT ![t].tmp = s], UNCHANGED <<results, held, overlap>>
    PROVE  Sound'
<1> DEFINE j == [job[t] EXCEPT !.tmp = s]
<1>1. j \in GoodJob
  BY JobGood DEF GoodJob, Job
<1>2. job' = [job EXCEPT ![t] = j]
  BY DEF Sound
<1>3. QED
  BY <1>1, <1>2 DEF Sound

LEMMA RecvStep ==
    ASSUME Inv, NEW t \in Threads, NEW k \in Nat, Recv(t, k)
    PROVE  Inv'
<1> DEFINE new == [i \in 1..k |-> next + i - 1]
           got == job[t].tmp \o new
<1>1. Sound /\ next \in Nat
  BY DEF Inv
<1>2. job[t].tmp \in Seq(Nat)
  BY <1>1, JobGood
<1>3. new \in Seq(Nat)
  BY <1>1
<1>4. got \in Seq(Nat)
  BY <1>2, <1>3, ConcatProperties
<1>5. /\ job[t].stage \in {"prefix", "body", "read", "scan"}
      /\ next' = next + k
      /\ \/ Len(got) = job[t].n /\ Succeed(t, Fill(job[t].pkt, got))
         \/ /\ job' = [job EXCEPT ![t].tmp = got]
            /\ UNCHANGED <<results, held, overlap>>
      /\ UNCHANGED <<callback, todo, receives>>
  BY DEF Recv
<1> HIDE DEF got
<1>6. job[t].pkt \in Packet
  BY <1>1, <1>5, JobGood DEF Good
<1>7. ASSUME Len(got) = job[t].n, Succeed(t, Fill(job[t].pkt, got))
      PROVE  Sound'
  <2>1. Fill(job[t].pkt, got) \in Ahead(job[t].n)
    BY <1>4, <1>6, <1>7, FillGoesAhead
  <2>2. QED
    BY <1>1, <1>7, <2>1, SucceedSound
<1>8. ASSUME job' = [job EXCEPT ![t].tmp = got],
             UNCHANGED <<results, held, overlap>>
      PROVE  Sound'
  BY <1>1, <1>4, <1>8, TmpSound
<1>9. Sound'
  BY <1>5, <1>7, <1>8
<1>10. QED
  BY <1>1, <1>5, <1>9 DEF Inv

LEMMA RecvEndStep ==
    ASSUME Inv, NEW t \in Threads, RecvEnd(t)
    PROVE  Inv'
<1> DEFINE p == job[t].pkt
           q == [Fill(p, job[t].tmp) EXCEPT !.short = TRUE]
<1>1. /\ job[t].stage \in {"prefix", "body", "read", "scan"}
      /\ GiveUp(t) \/ Succeed(t, q)
      /\ UNCHANGED <<next, callback, todo, receives>>
  BY DEF RecvEnd
<1>2. Sound
  BY DEF Inv
<1>3. p \in Packet /\ job[t].tmp \in Seq(Nat) /\ job[t].n \in Nat
  BY <1>1, <1>2, JobGood DEF Good
<1>4. q \in Packet /\ q.short
  <2>1. Fill(p, job[t].tmp) \in Packet
    BY <1>3, FillGoesAhead DEF Ahead
  <2>2. QED
    BY <2>1 DEF Packet
<1>5. q \in Ahead(job[t].n)
  BY <1>3, <1>4, ShortIsAhead
<1> HIDE DEF q
<1>6. Sound'
  BY <1>1, <1>2, <1>5, GiveUpSound, SucceedSound
<1>7. QED
  BY <1>1, <1>6 DEF Inv

LEMMA RecvByteStep ==
    ASSUME Inv, NEW t \in Threads, NEW found \in BOOLEAN, RecvByte(t, found)
    PROVE  Inv'
<1> DEFINE got == Append(job[t].tmp, next)
           q == Fill(job[t].pkt, got)
<1>1. Sound /\ next \in Nat
  BY DEF Inv
<1>2. got \in Seq(Nat)
  BY <1>1, JobGood
<1>3. /\ job[t].stage = "until" /\ next' = next + 1
      /\ \/ Deliver(t, q)
         \/ /\ job' = [job EXCEPT ![t].tmp = got]
            /\ UNCHANGED <<results, held, overlap>>
      /\ UNCHANGED <<callback, todo, receives>>
  BY DEF RecvByte
<1> HIDE DEF got
<1>4. job[t].pkt \in Packet
  BY <1>1, <1>3, JobGood DEF Good
<1>5. q \in Good
  <2>1. Len(got) \in Nat
    BY <1>2
  <2>2. q \in Ahead(Len(got))
    BY <1>2, <1>4, FillGoesAhead
  <2>3. QED
    BY <2>1, <2>2, AheadIsGood
<1> HIDE DEF q
<1>6. Sound'
  BY <1>1, <1>2, <1>3, <1>5, DeliverSound, TmpSound
<1>7. QED
  BY <1>1, <1>3, <1>6 DEF Inv

LEMMA UntilEndStep ==
    ASSUME Inv, NEW t \in Threads, UntilEnd(t)
    PROVE  Inv'
<1>1. Sound'
  BY GiveUpSound DEF Inv, UntilEnd
<1>2. QED
  BY <1>1 DEF Inv, UntilEnd

LEMMA ReceiveSound ==
    ASSUME Sound, NEW t \in Threads, NEW req \in Request, Receive(t, req)
    PROVE  Sound'
<1>1. req.n \in Nat /\ PrefixSize \in Nat
  BY StreamAssumption DEF Request
<1>2. NextFrame \in Nat
  BY DEF NextFrame
<1>3. NewPacket \in Good /\ [NewPacket EXCEPT !.frame = NextFrame] \in Good
  BY <1>2, NewIsGood
<1> DEFINE p == [NewPacket EXCEPT !.frame = NextFrame]
<1>4. CASE Want(t, "prefix", p, PrefixSize) /\ UNCHANGED <<results, held>>
  <2> HIDE DEF p
  <2>1. p \in Good
    BY <1>3 DEF p
  <2>2. QED
    BY <1>1, <1>4, <2>1, WantSound
<1>5. CASE ReceiveBody(t, NewPacket, req.n)
  <2>1. req.n \in Int
    BY <1>1
  <2>2. QED
    BY <1>3, <1>5, <2>1, ReceiveBodySound
<1>6. CASE Want(t, "until", NewPacket, req.n) /\ UNCHANGED <<results, held>>
  BY <1>1, <1>3, <1>6, WantSound
<1>7. QED
  BY <1>4, <1>5, <1>6 DEF Receive

LEMMA WorkerTakeStep ==
    ASSUME Inv, NEW w \in Workers, WorkerTake(w)
    PROVE  Inv'
<1>1. /\ todo # <<>> /\ todo' = Tail(todo) /\ Receive(w, Head(todo))
      /\ UNCHANGED <<next, callback, receives>>
  BY DEF WorkerTake
<1>2. Head(todo) \in Request /\ todo' \in Seq(Request)
  BY <1>1, HeadTailProperties DEF Inv
<1>3. w \in Threads
  BY DEF Threads
<1>4. Sound'
  BY <1>1, <1>2, <1>3, ReceiveSound DEF Inv
<1>5. QED
  BY <1>1, <1>2, <1>4 DEF Inv

-----------------------------------------------------------------------------
(* The steps of the script.                                                 *)

LEMMA LuaIsThread == LuaThread \in Threads
BY DEF Threads

LEMMA ReadSizesSmall ==
    ASSUME NEW n \in ReadSizes
    PROVE  n \in Nat \ {0} /\ n < Wrap
BY ReaderAssumption, StreamAssumption

LEMMA LuaReceiveStep ==
    ASSUME Inv, NEW req \in Requests, LuaReceive(req)
    PROVE  Inv'
<1>1. req \in Request
  BY ReaderAssumption
<1>2. receives' \in Nat /\ UNCHANGED <<next, callback>>
  BY DEF LuaReceive, Inv
<1>3. CASE todo' = Append(todo, req) /\ UNCHANGED <<job, results, held, overlap>>
  <2>1. todo' \in Seq(Request)
    BY <1>1, <1>3 DEF Inv
  <2>2. Sound'
    BY <1>3 DEF Inv, Sound
  <2>3. QED
    BY <1>2, <2>1, <2>2 DEF Inv
<1>4. CASE Receive(LuaThread, req) /\ UNCHANGED todo
  <2>1. Sound'
    BY <1>1, <1>4, LuaIsThread, ReceiveSound DEF Inv
  <2>2. QED
    BY <1>2, <1>4, <2>1 DEF Inv
<1>5. QED
  BY <1>3, <1>4 DEF LuaReceive

LEMMA ThinkStep ==
    ASSUME Inv, Think
    PROVE  Inv'
<1>1. results \in Seq(Good \union {NoPacket}) /\ results # <<>>
  BY DEF Inv, Sound, Think
<1>2. /\ Head(results) \in Good \union {NoPacket}
      /\ Tail(results) \in Seq(Good \union {NoPacket})
  BY <1>1, HeadTailProperties
<1>3. Sound'
  BY <1>2 DEF Inv, Sound, Think
<1>4. QED
  BY <1>3 DEF Inv, Think

LEMMA ReadStep ==
    ASSUME Inv, NEW n \in ReadSizes, Read(n)
    PROVE  Inv'
<1>1. held \in Good /\ Sound
  BY DEF Inv, Sound, Read, Reading
<1>2. n \in Nat /\ n < Wrap
  BY ReadSizesSmall
<1>3. Script
  BY DEF Read
<1>4. ASSUME Enough(held, n), Deliver(LuaThread, [held EXCEPT !.pos = @ + n])
      PROVE  Sound'
  <2>1. held \in Ahead(n)
    BY <1>1, <1>2, <1>4, EnoughIsAhead
  <2>2. [held EXCEPT !.pos = @ + n] \in Good
    BY <1>2, <2>1, AheadIsGood
  <2>3. QED
    BY <1>1, <1>4, <2>2, LuaIsThread, DeliverSound
<1>5. ASSUME Want(LuaThread, "read", [held EXCEPT !.frame = 0], n),
             UNCHANGED <<results, held>>
      PROVE  Sound'
  <2> DEFINE p == [held EXCEPT !.frame = 0]
  <2>1. p \in Good
    BY <1>1, UnframedIsGood
  <2>2. Want(LuaThread, "read", p, n)
    BY <1>5
  <2> HIDE DEF p
  <2>3. QED
    BY <1>1, <1>2, <1>5, <2>1, <2>2, LuaIsThread, WantSound
<1>6. Sound'
  BY <1>4, <1>5 DEF Read
<1>7. QED
  BY <1>3, <1>6 DEF Inv, Script

LEMMA ReadStringAllStep ==
    ASSUME Inv, ReadStringAll
    PROVE  Inv'
<1> DEFINE p == [held EXCEPT !.pos = Len(held.buf)]
<1>1. held \in Good /\ Sound
  BY DEF Inv, Sound, ReadStringAll, Reading
<1>2. Len(held.buf) \in Nat /\ held \in Packet
  BY <1>1 DEF Good, Packet
<1>3. p \in Packet /\ p.pos = Len(held.buf) /\ p.buf = held.buf
  BY <1>2 DEF Packet
<1>4. p \in Good
  <2> HIDE DEF p
  <2>1. QED
    BY <1>2, <1>3 DEF Good
<1>5. Sound'
  BY <1>1, <1>4, LuaIsThread, DeliverSound DEF ReadStringAll
<1>6. QED
  BY <1>5 DEF Inv, ReadStringAll, Script

LEMMA SeekJob ==
    ASSUME Sound, NEW p \in Good, NEW n \in ReadSizes
    PROVE  [stage |-> "seek", pkt |-> p, n |-> n, tmp |-> <<>>] \in GoodJob
<1> DEFINE j == [stage |-> "seek", pkt |-> p, n |-> n, tmp |-> <<>>]
<1>1. <<>> \in Seq(Nat) /\ p \in Packet /\ n \in Nat
  BY ReadSizesSmall DEF Good
<1>2. j \in Job
  BY <1>1 DEF Job
<1>3. j.stage = "seek" /\ j.pkt = p /\ j.n = n
  OBVIOUS
<1> HIDE DEF j
<1>4. j \in GoodJob
  BY <1>2, <1>3 DEF GoodJob
<1>5. QED
  BY <1>4 DEF j

LEMMA SeekStep ==
    ASSUME Inv, NEW n \in ReadSizes, Seek(n)
    PROVE  Inv'
<1>1. held \in Good /\ Sound
  BY DEF Inv, Sound, Seek, Reading
<1> DEFINE j == [stage |-> "seek", pkt |-> held, n |-> n, tmp |-> <<>>]
<1>2. j \in GoodJob
  BY <1>1, SeekJob
<1>3. job' = [job EXCEPT ![LuaThread] = j] /\ UNCHANGED <<results, held, overlap>>
      /\ Script
  BY DEF Seek
<1> HIDE DEF j
<1>4. Sound'
  BY <1>1, <1>2, <1>3 DEF Sound
<1>5. QED
  BY <1>3, <1>4 DEF Inv, Script

LEMMA SeekTurnStep ==
    ASSUME Inv, SeekTurn
    PROVE  Inv'
<1> DEFINE p == job[LuaThread].pkt
           n == job[LuaThread].n
           past == [p EXCEPT !.pos = @ + 1]
           j == [job[LuaThread] EXCEPT !.pkt = past]
<1>1. Sound /\ Script /\ job[LuaThread].stage = "seek"
  BY DEF Inv, SeekTurn
<1>2. p \in Good /\ n \in ReadSizes /\ job[LuaThread] \in GoodJob
  BY <1>1, LuaIsThread, JobGood
<1>3. n \in Nat \ {0} /\ n < Wrap
  BY <1>2, ReadSizesSmall
<1>4. ASSUME Enough(p, n) PROVE past \in Good
  <2>1. p \in Ahead(n)
    BY <1>2, <1>3, <1>4, EnoughIsAhead
  <2>2. p.pos \in Nat /\ Len(p.buf) \in Nat
    BY <1>2 DEF Good, Packet
  <2>3. p \in Ahead(1)
    BY <1>3, <2>1, <2>2 DEF Ahead
  <2>4. QED
    BY <2>3, AheadIsGood
<1>5. ASSUME Deliver(LuaThread, p) PROVE Sound'
  BY <1>1, <1>2, <1>5, LuaIsThread, DeliverSound
<1>6. ASSUME Enough(p, n), Deliver(LuaThread, past) PROVE Sound'
  BY <1>1, <1>4, <1>6, LuaIsThread, DeliverSound
<1>7. ASSUME Enough(p, n), job' = [job EXCEPT ![LuaThread].pkt = past],
             UNCHANGED <<results, held, overlap>>
      PROVE  Sound'
  <2>1. past \in Good /\ past \in Packet
    BY <1>4, <1>7 DEF Good
  <2> HIDE DEF past
  <2>2. j \in GoodJob
    BY <1>1, <1>2, <2>1 DEF GoodJob, Job
  <2>3. job' = [job EXCEPT ![LuaThread] = j]
    BY <1>1, <1>7, LuaIsThread DEF Sound
  <2> HIDE DEF j
  <2>4. QED
    BY <1>1, <1>7, <2>2, <2>3 DEF Sound
<1>8. ASSUME Want(LuaThread, "scan", [p EXCEPT !.frame = 0], n),
             UNCHANGED <<results, held>>
      PROVE  Sound'
  <2> DEFINE q == [p EXCEPT !.frame = 0]
  <2>1. q \in Good
    BY <1>2, UnframedIsGood
  <2>2. Want(LuaThread, "scan", q, n)
    BY <1>8
  <2> HIDE DEF q, p
  <2>3. QED
    BY <1>1, <1>2, <1>3, <1>8, <2>1, <2>2, LuaIsThread, WantSound
<1>9. Sound'
  BY <1>5, <1>6, <1>7, <1>8 DEF SeekTurn
<1>10. QED
  BY <1>1, <1>9 DEF Inv, Script

-----------------------------------------------------------------------------
(* The theorems.                                                            *)

LEMMA InitInv == Init => Inv
<1> SUFFICES ASSUME Init PROVE Inv
  OBVIOUS
<1>1. Sound
  BY NoJobGood, EmptySeq DEF Init, Sound
<1>2. QED
  BY <1>1, EmptySeq DEF Init, Inv

LEMMA NextInv == Inv /\ [Next]_vars => Inv'
<1> SUFFICES ASSUME Inv, [Next]_vars PROVE Inv'
  OBVIOUS
<1>1. CASE SetCallbackReceive
  BY <1>1 DEF Inv, Sound, SetCallbackReceive
<1>2. ASSUME NEW req \in Requests, LuaReceive(req) PROVE Inv'
  BY <1>2, LuaReceiveStep
<1>3. CASE Think
  BY <1>3, ThinkStep
<1>4. CASE CreatePacket
  BY <1>4, NewIsGood DEF Inv, Sound, CreatePacket
<1>5. CASE Clear
  BY <1>5, NewIsGood DEF Inv, Sound, Clear
<1>6. ASSUME NEW n \in ReadSizes, Read(n) \/ Seek(n) PROVE Inv'
  BY <1>6, ReadStep, SeekStep
<1>7. CASE ReadStringAll
  BY <1>7, ReadStringAllStep
<1>8. CASE SeekTurn
  BY <1>8, SeekTurnStep
<1>9. ASSUME NEW w \in Workers, WorkerTake(w) PROVE Inv'
  BY <1>9, WorkerTakeStep
<1>10. ASSUME NEW t \in Threads, Thread(t) PROVE Inv'
  <2>1. 1..job[t].n \subseteq Nat
    BY JobGood DEF Inv
  <2>2. QED
    BY <1>10, <2>1, RecvStep, RecvEndStep, RecvByteStep, UntilEndStep DEF Thread
<1>11. CASE UNCHANGED vars
  BY <1>11 DEF Inv, Sound, vars
<1>12. QED
  BY <1>1, <1>2, <1>3, <1>4, <1>5, <1>6, <1>7, <1>8, <1>9, <1>10, <1>11
     DEF Next, Lua

LEMMA InvInvariant == Spec => []Inv
<1>1. Init => Inv
  BY InitInv
<1>2. Inv /\ [Next]_vars => Inv'
  BY NextInv
<1>3. QED
  BY <1>1, <1>2, PTL DEF Spec

\* Every variable keeps its type, for any frames, requests and threads: no
\* length that is read makes a thread want a negative number of bytes.
THEOREM PacketInTypes == Spec => []TypeOK
BY InvInvariant, InvGives, PTL

\* The position of a packet stays inside its in buffer, unless a recv for it
\* ended early, for every width of the unsigned numbers that read sizes fit in.
THEOREM PacketInInside == Spec => []InsideBuffer
BY InvInvariant, InvGives, PTL

-----------------------------------------------------------------------------
(* Where the frames start.  A recursive function is what its definition     *)
(* says once there is such a function; the least number for which there is  *)
(* none leads to a contradiction, and so do the least exceptions below.     *)

\* What defines the starts of the frames up to n.
Starts(s, n) ==
    /\ s \in [1..n -> Nat]
    /\ \A f \in 1..n : s[f] = IF f = 1 THEN 1
                              ELSE s[f - 1] + PrefixSize + Frames[f - 1]

\* By the least n that has no starts.
LEMMA StartsExist ==
    \A n \in 1..Len(Frames) + 1 : \E s : Starts(s, n)
<1> DEFINE N == Len(Frames) + 1
           T == {n \in 1..N : ~\E s : Starts(s, n)}
<1>1. N \in Nat /\ Len(Frames) \in Nat /\ PrefixSize \in Nat
  BY StreamAssumption
<1>2. \A f \in 1..Len(Frames) : Frames[f] \in Nat
  BY StreamAssumption, ElementOfSeq
<1> SUFFICES ASSUME T # {} PROVE FALSE
  OBVIOUS
<1>3. T \in SUBSET Nat
  BY <1>1
<1>4. PICK n \in T : \A m \in T : n <= m
  BY <1>3, LeastNatural
<1>5. n \in 1..N /\ ~\E s : Starts(s, n)
  BY <1>4
<1>6. CASE n = 1
  <2> DEFINE s == [f \in 1..1 |-> 1]
  <2>1. s \in [1..1 -> Nat] /\ \A f \in 1..1 : f = 1 /\ s[f] = 1
    OBVIOUS
  <2>2. Starts(s, 1)
    BY <2>1 DEF Starts
  <2>3. QED
    BY <1>5, <1>6, <2>2
<1>7. CASE n # 1
  <2>1. n - 1 \in 1..Len(Frames) /\ n - 1 \in 1..N /\ n \in Nat
    BY <1>1, <1>5, <1>7
  <2>2. n - 1 \notin T
    BY <1>4, <2>1
  <2>3. PICK r : Starts(r, n - 1)
    BY <2>1, <2>2
  <2> DEFINE x == r[n - 1] + PrefixSize + Frames[n - 1]
             s == [f \in 1..n |-> IF f = n THEN x ELSE r[f]]
  <2>4. r \in [1..n - 1 -> Nat] /\ n - 1 \in 1..n - 1
    BY <2>1, <2>3 DEF Starts
  <2>5. x \in Nat
    <3>1. r[n - 1] \in Nat /\ Frames[n - 1] \in Nat
      BY <1>2, <2>1, <2>4
    <3>2. QED
      BY <1>1, <3>1
  <2>6. \A f \in 1..n : f = n \/ f \in 1..n - 1
    BY <2>1
  <2> HIDE DEF x
  <2>7. s \in [1..n -> Nat]
    BY <2>4, <2>5, <2>6
  <2>8. s[n] = x /\ \A f \in 1..n - 1 : s[f] = r[f]
    BY <2>1
  <2> HIDE DEF s
  <2>9. ASSUME NEW f \in 1..n
        PROVE  s[f] = IF f = 1 THEN 1 ELSE s[f - 1] + PrefixSize + Frames[f - 1]
    <3>1. CASE f = n
      <4>1. s[f - 1] = r[n - 1]
        BY <2>4, <2>8, <3>1
      <4>2. s[f] = s[f - 1] + PrefixSize + Frames[f - 1]
        BY <2>8, <3>1, <4>1 DEF x
      <4>3. QED
        BY <1>7, <3>1, <4>2
    <3>2. CASE f # n
      <4>1. f \in 1..n - 1 /\ s[f] = r[f]
        BY <2>6, <2>8, <3>2
      <4>2. r[f] = IF f = 1 THEN 1 ELSE r[f - 1] + PrefixSize + Frames[f - 1]
        BY <2>3, <4>1 DEF Starts
      <4>3. CASE f = 1
        BY <4>1, <4>2, <4>3
      <4>4. CASE f # 1
        <5>1. f - 1 \in 1..n - 1
          BY <2>1, <4>1, <4>4
        <5>2. QED
          BY <2>8, <4>1, <4>2, <4>4, <5>1
      <4>5. QED
        BY <4>3, <4>4
    <3>3. QED
      BY <3>1, <3>2
  <2>10. Starts(s, n)
    BY <2>7, <2>9 DEF Starts
  <2>11. QED
    BY <1>5, <2>10
<1>8. QED
  BY <1>6, <1>7

\* The recursive definition defines what it says.
LEMMA StartIs ==
    Start = [f \in 1..Len(Frames) + 1 |->
               IF f = 1 THEN 1 ELSE Start[f - 1] + PrefixSize + Frames[f - 1]]
<1> DEFINE N == Len(Frames) + 1
           Step(s) == [f \in 1..N |-> IF f = 1 THEN 1
                                      ELSE s[f - 1] + PrefixSize + Frames[f - 1]]
<1>1. N \in 1..N
  BY StreamAssumption
<1>2. PICK s : Starts(s, N)
  BY <1>1, StartsExist
<1>3. s = Step(s)
  BY <1>2 DEF Starts
<1>4. Start = CHOOSE s1 : s1 = Step(s1)
  BY DEF Start
<1>5. Start = Step(Start)
  BY <1>3, <1>4
<1>6. QED
  BY <1>5

\* By the least frame whose start is no number.
LEMMA StartNat ==
    \A f \in 1..Len(Frames) + 1 : Start[f] \in Nat \ {0}
<1> DEFINE N == Len(Frames) + 1
           T == {f \in 1..N : Start[f] \notin Nat \ {0}}
<1>1. N \in Nat /\ Len(Frames) \in Nat /\ PrefixSize \in Nat
  BY StreamAssumption
<1> SUFFICES ASSUME T # {} PROVE FALSE
  OBVIOUS
<1>2. T \in SUBSET Nat
  BY <1>1
<1>3. PICK f \in T : \A g \in T : f <= g
  BY <1>2, LeastNatural
<1>4. f \in 1..N /\ Start[f] \notin Nat \ {0}
  BY <1>3
<1>5. Start[f] = IF f = 1 THEN 1 ELSE Start[f - 1] + PrefixSize + Frames[f - 1]
  BY <1>4, StartIs
<1>6. CASE f = 1
  BY <1>4, <1>5, <1>6
<1>7. CASE f # 1
  <2>1. f - 1 \in 1..Len(Frames) /\ f - 1 \in 1..N /\ f \in Nat
    BY <1>1, <1>4, <1>7
  <2>2. f - 1 \notin T
    BY <1>3, <2>1
  <2> DEFINE a == Start[f - 1]
             b == Frames[f - 1]
  <2>3. a \in Nat \ {0} /\ b \in Nat
    <3>1. Start[f - 1] \in Nat \ {0}
      BY <2>1, <2>2
    <3>2. Frames[f - 1] \in Nat
      BY <2>1, StreamAssumption, ElementOfSeq
    <3>3. QED
      BY <3>1, <3>2
  <2> HIDE DEF a, b
  <2>4. a + PrefixSize + b \in Nat \ {0}
    BY <1>1, <2>3
  <2> USE DEF a, b
  <2>5. QED
    BY <1>4, <1>5, <1>7, <2>4
<1>8. QED
  BY <1>6, <1>7

\* By the least later frame that does not start later.
LEMMA StartLater ==
    ASSUME NEW f \in 1..Len(Frames) + 1
    PROVE  \A g \in 1..Len(Frames) + 1 : f < g => Start[f] < Start[g]
<1> DEFINE N == Len(Frames) + 1
           T == {g \in 1..N : f < g /\ ~(Start[f] < Start[g])}
<1>1. N \in Nat /\ Len(Frames) \in Nat /\ PrefixSize \in Nat \ {0}
  BY StreamAssumption
<1> SUFFICES ASSUME T # {} PROVE FALSE
  OBVIOUS
<1>2. T \in SUBSET Nat
  BY <1>1
<1>3. PICK g \in T : \A h \in T : g <= h
  BY <1>2, LeastNatural
<1>4. g \in 1..N /\ f < g /\ ~(Start[f] < Start[g])
  BY <1>3
<1>5. Start[g] = IF g = 1 THEN 1 ELSE Start[g - 1] + PrefixSize + Frames[g - 1]
  BY <1>4, StartIs
<1>6. g # 1 /\ g - 1 \in 1..Len(Frames) /\ g - 1 \in 1..N /\ g \in Nat
      /\ f \in Nat /\ f <= g - 1
  BY <1>1, <1>4
<1>7. Start[f] \in Nat /\ Start[g - 1] \in Nat /\ Frames[g - 1] \in Nat
  BY <1>6, StartNat, StreamAssumption, ElementOfSeq
<1>8. g - 1 \notin T
  BY <1>3, <1>6
<1>9. Start[f] <= Start[g - 1]
  <2>1. CASE f = g - 1
    BY <1>7, <2>1
  <2>2. CASE f < g - 1
    BY <1>6, <1>7, <1>8, <2>2
  <2>3. QED
    BY <1>6, <2>1, <2>2
<1>10. Start[g - 1] < Start[g]
  BY <1>1, <1>5, <1>6, <1>7
<1>11. QED
  BY <1>1, <1>4, <1>5, <1>6, <1>7, <1>9

\* No two frames start at one byte.
LEMMA StartOnce ==
    ASSUME NEW f \in 1..Len(Frames), NEW g \in 1..Len(Frames),
           Start[f] = Start[g]
    PROVE  f = g
<1>1. f \in 1..Len(Frames) + 1 /\ g \in 1..Len(Frames) + 1
      /\ f \in Nat /\ g \in Nat
  BY StreamAssumption
<1>2. Start[f] \in Nat /\ Start[g] \in Nat
  BY <1>1, StartNat
<1>3. ~(f < g) /\ ~(g < f)
  BY <1>1, <1>2, StartLater
<1>4. QED
  BY <1>1, <1>3

\* There is a stream, if an empty one.
LEMMA EndPositive == End \in Nat \ {0}
<1>1. Len(Frames) + 1 \in 1..Len(Frames) + 1
  BY StreamAssumption
<1>2. QED
  BY <1>1, StartNat DEF End

-----------------------------------------------------------------------------
(* The bytes of the stream.                                                 *)

\* b holds bytes of the stream before byte m, in their order, each once.
Rising(b, m) ==
    /\ b \in Seq(Nat)
    /\ Len(b) < m
    /\ \A i \in 1..Len(b) : b[i] < m
    /\ \A i, j \in 1..Len(b) : i < j => b[i] < b[j]

Bytes(k, m) == [i \in 1..k |-> m + i - 1]

LEMMA BytesSeq ==
    ASSUME NEW k \in Nat, NEW m \in Nat
    PROVE  /\ Bytes(k, m) \in Seq(Nat) /\ Len(Bytes(k, m)) = k
           /\ \A i \in 1..k : Bytes(k, m)[i] = m + i - 1
<1>1. \A i \in 1..k : m + i - 1 \in Nat
  OBVIOUS
<1>2. Bytes(k, m) \in [1..k -> Nat]
  BY <1>1 DEF Bytes
<1>3. Bytes(k, m) \in Seq(Nat) /\ Len(Bytes(k, m)) = k
  BY <1>2
<1>4. QED
  BY <1>3 DEF Bytes

LEMMA RisingMore ==
    ASSUME NEW g, NEW m \in Nat, NEW k \in Nat, Rising(g, m)
    PROVE  Rising(g \o Bytes(k, m), m + k)
<1> DEFINE s == Bytes(k, m)
           h == g \o s
<1>1. g \in Seq(Nat) /\ Len(g) \in Nat /\ Len(g) < m
  BY DEF Rising
<1>2. s \in Seq(Nat) /\ Len(s) = k /\ \A i \in 1..k : s[i] = m + i - 1
  BY BytesSeq
<1> HIDE DEF s
<1>3. h \in Seq(Nat) /\ Len(h) = Len(g) + Len(s)
      /\ \A i \in 1 .. Len(g) + Len(s) :
           h[i] = IF i <= Len(g) THEN g[i] ELSE s[i - Len(g)]
  BY <1>1, <1>2, ConcatProperties
<1> HIDE DEF h
<1>4. Len(h) = Len(g) + k /\ Len(h) < m + k
  BY <1>1, <1>2, <1>3
<1>5. ASSUME NEW i \in 1..Len(h), i <= Len(g)
      PROVE  i \in 1..Len(g) /\ h[i] = g[i] /\ h[i] \in Nat /\ h[i] < m
  <2>1. i \in 1..Len(g) /\ i \in 1 .. Len(g) + Len(s)
    BY <1>1, <1>3, <1>5
  <2>2. g[i] \in Nat /\ g[i] < m
    BY <1>1, <2>1, ElementOfSeq DEF Rising
  <2>3. h[i] = g[i]
    BY <1>3, <1>5, <2>1
  <2>4. QED
    BY <2>1, <2>2, <2>3
<1>6. ASSUME NEW i \in 1..Len(h), ~(i <= Len(g))
      PROVE  h[i] = m + (i - Len(g)) - 1 /\ i - Len(g) \in 1..k
  <2>1. i - Len(g) \in 1..k /\ i \in 1 .. Len(g) + Len(s)
    BY <1>1, <1>2, <1>4, <1>6
  <2>2. h[i] = s[i - Len(g)]
    BY <1>3, <1>6, <2>1
  <2>3. QED
    BY <1>2, <2>1, <2>2
<1>7. ASSUME NEW i \in 1..Len(h)
      PROVE  h[i] < m + k
  <2>1. CASE i <= Len(g)
    <3>1. h[i] \in Nat /\ h[i] < m
      BY <1>5, <2>1
    <3>2. QED
      BY <3>1
  <2>2. CASE ~(i <= Len(g))
    <3>1. h[i] = m + (i - Len(g)) - 1 /\ i - Len(g) \in 1..k
      BY <1>6, <2>2
    <3>2. QED
      BY <1>1, <3>1
  <2>3. QED
    BY <2>1, <2>2
<1>8. ASSUME NEW i \in 1..Len(h), NEW j \in 1..Len(h), i < j
      PROVE  h[i] < h[j]
  <2>1. CASE j <= Len(g)
    <3>1. i <= Len(g)
      BY <1>1, <1>4, <1>8, <2>1
    <3>2. i \in 1..Len(g) /\ h[i] = g[i] /\ j \in 1..Len(g) /\ h[j] = g[j]
      BY <1>5, <2>1, <3>1
    <3>3. g[i] < g[j]
      BY <1>8, <3>2 DEF Rising
    <3>4. QED
      BY <3>2, <3>3
  <2>2. CASE ~(j <= Len(g)) /\ i <= Len(g)
    <3>1. h[i] \in Nat /\ h[i] < m
      BY <1>5, <2>2
    <3>2. h[j] = m + (j - Len(g)) - 1 /\ j - Len(g) \in 1..k
      BY <1>6, <2>2
    <3>3. QED
      BY <1>1, <3>1, <3>2
  <2>3. CASE ~(j <= Len(g)) /\ ~(i <= Len(g))
    <3>1. h[j] = m + (j - Len(g)) - 1
      BY <1>6, <2>3
    <3>2. h[i] = m + (i - Len(g)) - 1
      BY <1>6, <2>3
    <3>3. QED
      BY <1>1, <1>4, <1>8, <3>1, <3>2
  <2>4. QED
    BY <2>1, <2>2, <2>3
<1>9. Rising(h, m + k)
  BY <1>3, <1>4, <1>7, <1>8 DEF Rising
<1>10. QED
  BY <1>9 DEF h, s

LEMMA RisingLater ==
    ASSUME NEW b, NEW m \in Nat, NEW k \in Nat, Rising(b, m)
    PROVE  Rising(b, m + k)
<1>1. Len(b) \in Nat /\ Len(b) < m /\ b \in Seq(Nat)
  BY DEF Rising
<1>2. Len(b) < m + k
  BY <1>1
<1>3. ASSUME NEW i \in 1..Len(b)
      PROVE  b[i] < m + k
  <2>1. b[i] \in Nat /\ b[i] < m
    BY <1>1, ElementOfSeq DEF Rising
  <2>2. QED
    BY <2>1
<1>4. QED
  BY <1>1, <1>2, <1>3 DEF Rising

\* The bytes of b before its position n.
LEMMA RisingFront ==
    ASSUME NEW b, NEW m \in Nat, NEW n \in Nat, n <= Len(b), Rising(b, m)
    PROVE  Rising(SubSeq(b, 1, n) \o <<>>, m)
<1> DEFINE s == SubSeq(b, 1, n)
<1>1. b \in Seq(Nat) /\ Len(b) \in Nat /\ Len(b) < m
  BY DEF Rising
<1>2. \A i \in 1..n : i \in 1..Len(b) /\ b[i] \in Nat
  BY <1>1, ElementOfSeq
<1>3. /\ s \in Seq(Nat)
      /\ Len(s) = IF 1 <= n THEN n - 1 + 1 ELSE 0
      /\ \A i \in 1 .. n - 1 + 1 : s[i] = b[1 + i - 1]
  BY <1>2, SubSeqProperties
<1> HIDE DEF s
<1>4. Len(s) = n
  BY <1>3
<1>5. \A i \in 1..n : s[i] = b[i]
  BY <1>3
<1>6. Len(s) < m
  BY <1>1, <1>4
<1>7. \A i \in 1..Len(s) : s[i] < m
  BY <1>2, <1>4, <1>5 DEF Rising
<1>8. \A i, j \in 1..Len(s) : i < j => s[i] < s[j]
  BY <1>2, <1>4, <1>5 DEF Rising
<1>9. s \o <<>> = s
  BY <1>3, ConcatEmptySeq
<1>10. QED
  BY <1>3, <1>6, <1>7, <1>8, <1>9 DEF Rising, s

\* Bytes that leave none of the old ones behind them.
LEMMA FillJoins ==
    ASSUME NEW p \in Packet, NEW s \in Seq(Nat), p.pos <= Len(p.buf),
           Len(p.buf) <= p.pos + Len(s)
    PROVE  Fill(p, s).buf = SubSeq(p.buf, 1, p.pos) \o s
<1> DEFINE n == p.pos
           a == SubSeq(p.buf, 1, n)
           size == Larger(n + Len(s), Len(p.buf))
           b == Refilled(p, s, size)
           c == a \o s
<1>1. p.buf \in Seq(Nat) /\ n \in Nat /\ Len(s) \in Nat /\ Len(p.buf) \in Nat
  BY DEF Packet
<1>2. \A i \in 1..n : i \in 1..Len(p.buf) /\ p.buf[i] \in Nat
  BY <1>1, ElementOfSeq
<1>3. /\ a \in Seq(Nat)
      /\ Len(a) = IF 1 <= n THEN n - 1 + 1 ELSE 0
      /\ \A i \in 1 .. n - 1 + 1 : a[i] = p.buf[1 + i - 1]
  BY <1>1, <1>2, SubSeqProperties
<1>4. size = n + Len(s) /\ size \in Nat
  BY <1>1 DEF Larger
<1>5. Fill(p, s) = [p EXCEPT !.buf = b]
  BY DEF Fill
<1> HIDE DEF size
<1>6. b \in Seq(Nat) /\ Len(b) = size
  BY <1>4, RefilledSeq
<1>7. \A i \in 1..size :
        b[i] = IF i \in n + 1 .. n + Len(s) THEN s[i - n]
               ELSE IF i <= Len(p.buf) THEN p.buf[i] ELSE Garbage
  BY DEF Refilled
<1> HIDE DEF a, b
<1>8. Len(a) = n /\ \A i \in 1..n : a[i] = p.buf[i]
  <2>1. Len(a) = n
    BY <1>1, <1>3
  <2>2. ASSUME NEW i \in 1..n
        PROVE  a[i] = p.buf[i]
    <3>1. i \in 1 .. n - 1 + 1 /\ 1 + i - 1 = i
      BY <1>1
    <3>2. a[i] = p.buf[1 + i - 1]
      BY <1>3, <3>1
    <3>3. QED
      BY <3>1, <3>2
  <2>3. QED
    BY <2>1, <2>2
<1>9. c \in Seq(Nat) /\ Len(c) = Len(a) + Len(s)
      /\ \A i \in 1 .. Len(a) + Len(s) :
           c[i] = IF i <= Len(a) THEN a[i] ELSE s[i - Len(a)]
  BY <1>3, ConcatProperties
<1> HIDE DEF c
<1>10. ASSUME NEW i \in 1..Len(b)
       PROVE  b[i] = c[i]
  <2>1. i \in 1..size /\ i \in 1 .. Len(a) + Len(s)
    BY <1>4, <1>6, <1>8
  <2>2. CASE i <= n
    <3>1. i \notin n + 1 .. n + Len(s) /\ i <= Len(p.buf) /\ i \in 1..n
      BY <1>1, <2>1, <2>2, <1>4
    <3>2. b[i] = p.buf[i]
      BY <1>7, <2>1, <3>1
    <3>3. c[i] = a[i]
      BY <1>8, <1>9, <2>1, <2>2
    <3>4. QED
      BY <1>8, <3>1, <3>2, <3>3
  <2>3. CASE ~(i <= n)
    <3>1. i \in n + 1 .. n + Len(s)
      BY <1>1, <1>4, <2>1, <2>3
    <3>2. b[i] = s[i - n]
      BY <1>7, <2>1, <3>1
    <3>3. c[i] = s[i - n]
      BY <1>8, <1>9, <2>1, <2>3
    <3>4. QED
      BY <3>2, <3>3
  <2>4. QED
    BY <2>2, <2>3
<1>11. Len(b) = Len(c)
  BY <1>4, <1>6, <1>8, <1>9
<1>12. b = c
  BY <1>6, <1>9, <1>10, <1>11, SeqEqual
<1>13. Fill(p, s).buf = b
  BY <1>5 DEF Packet
<1>14. QED
  BY <1>12, <1>13 DEF c, a

-----------------------------------------------------------------------------
(* The order of bytes in packets and jobs.                                  *)

Ordered(p, m) == ~p.short => Rising(p.buf, m)

\* The stages of a thread in a CanRead, or in a ReceiveUntil.
Wanting == {"prefix", "body", "until", "read", "scan"}

\* How far behind its position the buffer of a packet may go on before a thread
\* fills it: what comes then replaces that.
Gap(stage, n) == IF stage = "until" THEN 0 ELSE n

OrderedJob(j, m) ==
    /\ j.stage # "idle" => Ordered(j.pkt, m)
    /\ j.stage \in Wanting /\ ~j.pkt.short =>
         /\ Len(j.pkt.buf) <= j.pkt.pos + Gap(j.stage, j.n)
         /\ Rising(SubSeq(j.pkt.buf, 1, j.pkt.pos) \o j.tmp, m)

OrderedRest(r, h, m) ==
    /\ \A i \in 1..Len(r) : r[i] # NoPacket => Ordered(r[i], m)
    /\ h # NoPacket => Ordered(h, m)

AllOrdered(jobs, r, h, m) ==
    /\ \A t \in Threads : OrderedJob(jobs[t], m)
    /\ OrderedRest(r, h, m)

\* All but the job of thread t.
OrderedBut(t, m) ==
    /\ \A u \in Threads \ {t} : OrderedJob(job[u], m)
    /\ OrderedRest(results, held, m)

OrderInv ==
    /\ Inv
    /\ next \in 1..End
    /\ AllOrdered(job, results, held, next)

LEMMA OrderGives == OrderInv => InStreamOrder
<1> SUFFICES ASSUME OrderInv, NEW p \in Alive, ~p.short,
                    NEW i \in 1..Len(p.buf), NEW j \in 1..Len(p.buf), i < j
             PROVE  p.buf[i] < p.buf[j]
  BY DEF InStreamOrder
<1>1. ASSUME NEW t \in Busy, p = job[t].pkt PROVE Ordered(p, next)
  BY <1>1 DEF Busy, OrderInv, AllOrdered, OrderedJob
<1>2. ASSUME NEW k \in 1..Len(results), p = results[k] PROVE Ordered(p, next)
  BY <1>2 DEF Alive, OrderInv, AllOrdered, OrderedRest
<1>3. ASSUME p = held PROVE Ordered(p, next)
  BY <1>3 DEF Alive, OrderInv, AllOrdered, OrderedRest
<1>4. Ordered(p, next)
  BY <1>1, <1>2, <1>3 DEF Alive
<1>5. QED
  BY <1>4 DEF Ordered, Rising

LEMMA OrderedLater ==
    ASSUME NEW p, NEW m \in Nat, NEW k \in Nat, Ordered(p, m)
    PROVE  Ordered(p, m + k)
BY RisingLater DEF Ordered

LEMMA OrderedButLater ==
    ASSUME NEW t, NEW m \in Nat, NEW k \in Nat, OrderedBut(t, m)
    PROVE  OrderedBut(t, m + k)
<1>1. ASSUME NEW j, OrderedJob(j, m) PROVE OrderedJob(j, m + k)
  BY <1>1, OrderedLater, RisingLater DEF OrderedJob
<1>2. OrderedRest(results, held, m + k)
  BY OrderedLater DEF OrderedBut, OrderedRest
<1>3. QED
  BY <1>1, <1>2 DEF OrderedBut

LEMMA NoJobOrdered ==
    ASSUME NEW m
    PROVE  OrderedJob(NoJob, m)
<1>1. NoJob.stage = "idle"
  BY DEF NoJob
<1>2. QED
  BY <1>1 DEF OrderedJob, Wanting

LEMMA NewOrdered ==
    ASSUME NEW m \in Nat \ {0}
    PROVE  /\ Ordered(NewPacket, m)
           /\ \A f \in Nat : Ordered([NewPacket EXCEPT !.frame = f], m)
<1>1. <<>> \in Seq(Nat) /\ Len(<<>>) = 0
  OBVIOUS
<1>2. Rising(<<>>, m)
  BY <1>1 DEF Rising
<1>3. NewPacket.buf = <<>>
      /\ \A f \in Nat : [NewPacket EXCEPT !.frame = f].buf = <<>>
  BY DEF NewPacket
<1>4. QED
  BY <1>2, <1>3 DEF Ordered

\* What is left behind the position when CanRead wants more: less than n bytes.
LEMMA NotEnough ==
    ASSUME NEW p \in Good, NEW n \in Nat, NEW m \in Nat, m <= Wrap,
           Ordered(p, m), ~p.short, ~Enough(p, n)
    PROVE  Len(p.buf) <= p.pos + n
<1> DEFINE left == Len(p.buf) - p.pos
<1>1. p.pos \in Nat /\ Len(p.buf) \in Nat /\ p.pos <= Len(p.buf)
      /\ Len(p.buf) < m
  BY DEF Good, Packet, Ordered, Rising
<1>2. left \in Nat /\ left < Wrap /\ Wrap \in Nat \ {0}
  BY <1>1, StreamAssumption
<1>3. ~(left % Wrap >= n % Wrap)
  BY DEF Enough
<1> HIDE DEF left
<1>4. left % Wrap = left
  BY <1>2
<1>5. n % Wrap <= n /\ n % Wrap \in Nat
  BY <1>2
<1>6. left <= n
  BY <1>2, <1>3, <1>4, <1>5
<1>7. QED
  BY <1>1, <1>6 DEF left

-----------------------------------------------------------------------------
(* How a thread goes on, and the order of bytes.                            *)

LEMMA JobOrdered ==
    ASSUME Sound, NEW t \in Threads, NEW m, OrderedBut(t, m),
           NEW j, OrderedJob(j, m), job' = [job EXCEPT ![t] = j],
           OrderedRest(results', held', m)
    PROVE  AllOrdered(job', results', held', m)
<1>1. \A u \in Threads : job'[u] = IF u = t THEN j ELSE job[u]
  BY DEF Sound
<1>2. QED
  BY <1>1 DEF AllOrdered, OrderedBut

LEMMA WantOrdered ==
    ASSUME Sound, NEW t \in Threads, NEW m \in Nat, OrderedBut(t, m),
           NEW p \in Good, Ordered(p, m), NEW n \in Nat, NEW stage \in Wanting,
           ~p.short => Len(p.buf) <= p.pos + Gap(stage, n),
           Want(t, stage, p, n), UNCHANGED <<results, held>>
    PROVE  AllOrdered(job', results', held', m)
<1> DEFINE j == [stage |-> stage, pkt |-> p, n |-> n, tmp |-> <<>>]
<1>1. job' = [job EXCEPT ![t] = j]
  BY DEF Want
<1>2. j.stage = stage /\ j.pkt = p /\ j.n = n /\ j.tmp = <<>>
  OBVIOUS
<1> HIDE DEF j
<1>3. ASSUME ~p.short PROVE Rising(SubSeq(p.buf, 1, p.pos) \o <<>>, m)
  <2>1. p.pos \in Nat /\ p.pos <= Len(p.buf) /\ Rising(p.buf, m)
    BY <1>3 DEF Good, Packet, Ordered
  <2>2. QED
    BY <2>1, RisingFront
<1>4. OrderedJob(j, m)
  BY <1>2, <1>3 DEF OrderedJob
<1>5. OrderedRest(results', held', m)
  BY DEF OrderedBut
<1>6. QED
  BY <1>1, <1>4, <1>5, JobOrdered

LEMMA DeliverOrdered ==
    ASSUME Sound, NEW t \in Threads, NEW m, OrderedBut(t, m),
           NEW p, Ordered(p, m), Deliver(t, p)
    PROVE  AllOrdered(job', results', held', m)
<1>1. job' = [job EXCEPT ![t] = NoJob] /\ OrderedJob(NoJob, m)
  BY NoJobOrdered DEF Deliver, Leave
<1>2. held' # NoPacket => Ordered(held', m)
  BY DEF Deliver, OrderedBut, OrderedRest
<1>3. ASSUME NEW i \in 1..Len(results'), results'[i] # NoPacket
      PROVE  Ordered(results'[i], m)
  <2>1. CASE results' = results
    BY <1>3, <2>1 DEF OrderedBut, OrderedRest
  <2>2. CASE results' = Append(results, p)
    <3>1. Len(results) \in Nat
      BY DEF Sound
    <3>2. i \in 1..Len(results) \/ i = Len(results) + 1
      BY <1>3, <2>2, <3>1 DEF Sound
    <3>3. i \in 1..Len(results) => results'[i] = results[i]
      BY <2>2 DEF Sound
    <3>4. i = Len(results) + 1 => results'[i] = p
      BY <2>2 DEF Sound
    <3>5. QED
      BY <1>3, <3>2, <3>3, <3>4 DEF OrderedBut, OrderedRest
  <2>3. QED
    BY <2>1, <2>2 DEF Deliver
<1>4. OrderedRest(results', held', m)
  BY <1>2, <1>3 DEF OrderedRest
<1>5. QED
  BY <1>1, <1>4, JobOrdered

LEMMA FailOrdered ==
    ASSUME Sound, NEW t \in Threads, NEW m, OrderedBut(t, m), Fail(t)
    PROVE  AllOrdered(job', results', held', m)
<1>1. job' = [job EXCEPT ![t] = NoJob] /\ OrderedJob(NoJob, m)
  BY NoJobOrdered DEF Fail, Leave
<1>2. held' = held
  BY DEF Fail
<1>3. ASSUME NEW i \in 1..Len(results'), results'[i] # NoPacket
      PROVE  Ordered(results'[i], m)
  <2>1. CASE results' = results
    BY <1>3, <2>1 DEF OrderedBut, OrderedRest
  <2>2. CASE results' = Append(results, NoPacket)
    <3>1. Len(results) \in Nat
      BY DEF Sound
    <3>2. i \in 1..Len(results) \/ i = Len(results) + 1
      BY <1>3, <2>2, <3>1 DEF Sound
    <3>3. i \in 1..Len(results) => results'[i] = results[i]
      BY <2>2 DEF Sound
    <3>4. i = Len(results) + 1 => results'[i] = NoPacket
      BY <2>2 DEF Sound
    <3>5. QED
      BY <1>3, <3>2, <3>3, <3>4 DEF OrderedBut, OrderedRest
  <2>3. QED
    BY <2>1, <2>2 DEF Fail
<1>4. OrderedRest(results', held', m)
  BY <1>2, <1>3 DEF OrderedRest, OrderedBut
<1>5. QED
  BY <1>1, <1>4, JobOrdered

LEMMA ReceiveBodyOrdered ==
    ASSUME Sound, NEW t \in Threads, NEW m \in Nat, m <= Wrap, OrderedBut(t, m),
           NEW p \in Good, Ordered(p, m), NEW n \in Int, ReceiveBody(t, p, n)
    PROVE  AllOrdered(job', results', held', m)
<1>1. CASE Fail(t)
  BY <1>1, FailOrdered
<1>2. CASE Deliver(t, p)
  BY <1>2, DeliverOrdered
<1>3. CASE /\ n \in 1..MaxReceiveSize /\ ~Enough(p, n)
           /\ Want(t, "body", p, n) /\ UNCHANGED <<results, held>>
  <2>1. n \in Nat /\ "body" \in Wanting /\ Gap("body", n) = n
    BY <1>3, StreamAssumption DEF Wanting, Gap
  <2>2. ~p.short => Len(p.buf) <= p.pos + n
    BY <1>3, <2>1, NotEnough
  <2>3. QED
    BY <1>3, <2>1, <2>2, WantOrdered
<1>4. QED
  BY <1>1, <1>2, <1>3 DEF ReceiveBody

LEMMA ReceiveLengthOrdered ==
    ASSUME Sound, NEW t \in Threads, NEW m \in Nat, m <= Wrap, OrderedBut(t, m),
           NEW p \in Ahead(PrefixSize), Ordered(p, m), ReceiveLength(t, p)
    PROVE  AllOrdered(job', results', held', m)
<1>1. PrefixSize \in Nat
  BY StreamAssumption
<1> DEFINE q == [p EXCEPT !.pos = @ + PrefixSize]
<1>2. q \in Good
  BY <1>1, AheadIsGood
<1>3. Lengths(p) \subseteq Int
  <2>1. \A f \in 1..Len(Frames) : Frames[f] \in Int
    BY ElementOfSeq, StreamAssumption
  <2>2. QED
    BY <2>1, StreamAssumption DEF Lengths
<1>4. PICK n \in Lengths(p) : ReceiveBody(t, q, n)
  BY DEF ReceiveLength
<1>5. q.buf = p.buf /\ q.short = p.short
  BY DEF Ahead, Packet
<1> HIDE DEF q
<1>6. Ordered(q, m) /\ n \in Int
  BY <1>3, <1>5 DEF Ordered
<1>7. QED
  BY <1>2, <1>4, <1>6, ReceiveBodyOrdered

LEMMA SucceedOrdered ==
    ASSUME Sound, NEW t \in Threads, NEW m \in Nat, m <= Wrap, OrderedBut(t, m),
           NEW p \in Ahead(job[t].n), Ordered(p, m), Succeed(t, p)
    PROVE  AllOrdered(job', results', held', m)
<1>1. CASE job[t].stage = "prefix" /\ ReceiveLength(t, p)
  BY <1>1, JobGood, ReceiveLengthOrdered
<1>2. CASE Deliver(t, p)
  BY <1>2, DeliverOrdered
<1>3. CASE Deliver(t, [p EXCEPT !.pos = @ + job[t].n])
  <2> DEFINE q == [p EXCEPT !.pos = @ + job[t].n]
  <2>1. q.buf = p.buf /\ q.short = p.short
    BY DEF Ahead, Packet
  <2>2. Deliver(t, q)
    BY <1>3
  <2> HIDE DEF q
  <2>3. Ordered(q, m)
    BY <2>1 DEF Ordered
  <2>4. QED
    BY <2>2, <2>3, DeliverOrdered
<1>4. CASE /\ job' = [job EXCEPT ![t] = [stage |-> "seek", pkt |-> p, n |-> @.n,
                                         tmp |-> <<>>]]
           /\ UNCHANGED <<results, held, overlap>>
  <2> DEFINE j == [stage |-> "seek", pkt |-> p, n |-> job[t].n, tmp |-> <<>>]
  <2>1. j.stage = "seek" /\ j.pkt = p
    OBVIOUS
  <2>2. job' = [job EXCEPT ![t] = j]
    BY <1>4 DEF Sound
  <2> HIDE DEF j
  <2>3. OrderedJob(j, m)
    BY <2>1 DEF OrderedJob, Wanting
  <2>4. OrderedRest(results', held', m)
    BY <1>4 DEF OrderedBut
  <2>5. QED
    BY <2>2, <2>3, <2>4, JobOrdered
<1>5. QED
  BY <1>1, <1>2, <1>3, <1>4 DEF Succeed

LEMMA GiveUpOrdered ==
    ASSUME Sound, NEW t \in Threads, NEW m \in Nat, m <= Wrap, OrderedBut(t, m),
           OrderedJob(job[t], m), GiveUp(t)
    PROVE  AllOrdered(job', results', held', m)
<1> DEFINE p == job[t].pkt
           q == [p EXCEPT !.short = TRUE]
<1>1. job[t].stage # "idle"
  BY DEF GiveUp
<1>2. p \in Good /\ Ordered(p, m)
  BY <1>1, JobGood DEF OrderedJob
<1>3. CASE ReceiveBody(t, q, 0)
  <2>1. q \in Good /\ q.short
    BY <1>2 DEF Good, Packet
  <2> HIDE DEF q
  <2>2. Ordered(q, m) /\ 0 \in Int
    BY <2>1 DEF Ordered
  <2>3. QED
    BY <1>3, <2>1, <2>2, ReceiveBodyOrdered
<1>4. CASE Fail(t)
  BY <1>4, FailOrdered
<1>5. CASE Deliver(t, p)
  BY <1>2, <1>5, DeliverOrdered
<1>6. QED
  BY <1>3, <1>4, <1>5 DEF GiveUp

-----------------------------------------------------------------------------
(* The steps, and the order of bytes.                                       *)

\* What a step begins with.
LEMMA OrderParts ==
    ASSUME OrderInv, End \in 1..Wrap
    PROVE  /\ Sound /\ next \in Nat \ {0} /\ next <= Wrap
           /\ \A t \in Threads : OrderedBut(t, next) /\ OrderedJob(job[t], next)
<1>1. Sound /\ next \in 1..End /\ Wrap \in Nat
  BY StreamAssumption DEF OrderInv, Inv
<1>2. next \in Nat \ {0} /\ next <= Wrap
  BY <1>1
<1>3. QED
  BY <1>1, <1>2 DEF OrderInv, AllOrdered, OrderedBut

LEMMA Joined ==
    ASSUME NEW a \in Seq(Nat), NEW b \in Seq(Nat), NEW c \in Seq(Nat)
    PROVE  (a \o b) \o c = a \o (b \o c)
BY ConcatAssociative

LEMMA FrontSeq ==
    ASSUME NEW b \in Seq(Nat), NEW n \in Nat, n <= Len(b)
    PROVE  SubSeq(b, 1, n) \in Seq(Nat)
<1>1. \A i \in 1..n : i \in 1..Len(b)
  OBVIOUS
<1>2. \A i \in 1..n : b[i] \in Nat
  BY <1>1, ElementOfSeq
<1>3. QED
  BY <1>2, SubSeqProperties

\* What the job of a thread becomes as k bytes come, and the packet they fill.
LEMMA BytesCome ==
    ASSUME Sound, NEW t \in Threads, NEW m \in Nat, NEW k \in Nat,
           OrderedJob(job[t], m), job[t].stage \in Wanting,
           NEW got, got = job[t].tmp \o Bytes(k, m)
    PROVE  /\ got \in Seq(Nat)
           /\ OrderedJob([job[t] EXCEPT !.tmp = got], m + k)
           /\ Gap(job[t].stage, job[t].n) <= Len(got) =>
                Ordered(Fill(job[t].pkt, got), m + k)
<1> DEFINE p == job[t].pkt
           j == [job[t] EXCEPT !.tmp = got]
           a == SubSeq(p.buf, 1, p.pos)
           tmp == job[t].tmp
           new == Bytes(k, m)
<1>1. tmp \in Seq(Nat) /\ p \in Good /\ p \in Packet /\ job[t] \in Job
      /\ job[t].n \in Nat
  BY JobGood DEF Good, Wanting
<1>2. p.pos \in Nat /\ p.buf \in Seq(Nat) /\ Len(p.buf) \in Nat
  BY <1>1 DEF Packet
<1>3. new \in Seq(Nat)
  BY BytesSeq
<1>4. got \in Seq(Nat)
  BY <1>1, <1>3, ConcatProperties
<1>5. ASSUME ~p.short
      PROVE  /\ Rising(a \o got, m + k)
             /\ Len(p.buf) <= p.pos + Gap(job[t].stage, job[t].n)
             /\ p.pos <= Len(p.buf)
  <2>1. /\ Rising(a \o tmp, m)
        /\ Len(p.buf) <= p.pos + Gap(job[t].stage, job[t].n)
    BY <1>5 DEF OrderedJob
  <2>2. p.pos <= Len(p.buf)
    BY <1>1, <1>5 DEF Good
  <2>3. Rising((a \o tmp) \o new, m + k)
    BY <2>1, RisingMore
  <2>4. a \in Seq(Nat)
    BY <1>2, <2>2, FrontSeq
  <2>5. tmp \in Seq(Nat) /\ new \in Seq(Nat)
    BY <1>1, <1>3
  <2> HIDE DEF a, tmp, new
  <2>6. (a \o tmp) \o new = a \o (tmp \o new)
    BY <2>4, <2>5, Joined
  <2>7. a \o got = a \o (tmp \o new)
    BY DEF tmp, new
  <2>8. QED
    BY <2>1, <2>2, <2>3, <2>6, <2>7
<1>6. j.stage = job[t].stage /\ j.pkt = p /\ j.n = job[t].n /\ j.tmp = got
  BY <1>1 DEF Job
<1> HIDE DEF j
<1>7. Ordered(p, m + k)
  BY OrderedLater DEF OrderedJob, Wanting
<1>8. OrderedJob(j, m + k)
  BY <1>5, <1>6, <1>7 DEF OrderedJob
<1>9. ASSUME Gap(job[t].stage, job[t].n) <= Len(got)
      PROVE  Ordered(Fill(p, got), m + k)
  <2>1. Fill(p, got).short = p.short
    BY <1>1 DEF Fill, Packet
  <2>2. ASSUME ~p.short PROVE Fill(p, got).buf = a \o got
    <3>1. Gap(job[t].stage, job[t].n) \in Nat /\ Len(got) \in Nat
      BY <1>1, <1>4 DEF Gap
    <3>2. Len(p.buf) <= p.pos + Gap(job[t].stage, job[t].n)
          /\ p.pos <= Len(p.buf)
      BY <1>5, <2>2
    <3>3. Len(p.buf) <= p.pos + Len(got)
      BY <1>2, <1>9, <3>1, <3>2
    <3>4. QED
      BY <1>1, <1>4, <3>2, <3>3, FillJoins
  <2>3. QED
    BY <1>5, <2>1, <2>2 DEF Ordered
<1>10. QED
  BY <1>4, <1>8, <1>9 DEF j

LEMMA TmpOrdered ==
    ASSUME Sound, NEW t \in Threads, NEW m, OrderedBut(t, m), NEW got,
           OrderedJob([job[t] EXCEPT !.tmp = got], m),
           job' = [job EXCEPT ![t].tmp = got], UNCHANGED <<results, held>>
    PROVE  AllOrdered(job', results', held', m)
<1> DEFINE j == [job[t] EXCEPT !.tmp = got]
<1>1. job' = [job EXCEPT ![t] = j]
  BY DEF Sound
<1>2. OrderedJob(j, m)
  OBVIOUS
<1> HIDE DEF j
<1>3. OrderedRest(results', held', m)
  BY DEF OrderedBut
<1>4. QED
  BY <1>1, <1>2, <1>3, JobOrdered

LEMMA RecvOrder ==
    ASSUME OrderInv, End \in 1..Wrap, NEW t \in Threads, NEW k \in Nat,
           Recv(t, k)
    PROVE  next' \in 1..End /\ AllOrdered(job', results', held', next')
<1> DEFINE got == job[t].tmp \o Bytes(k, next)
           m == next + k
<1>1. /\ Sound /\ next \in Nat \ {0}
      /\ OrderedBut(t, next) /\ OrderedJob(job[t], next)
  BY OrderParts
<1>2. /\ job[t].stage \in {"prefix", "body", "read", "scan"}
      /\ next' = m /\ m <= End
      /\ \/ Len(got) = job[t].n /\ Succeed(t, Fill(job[t].pkt, got))
         \/ /\ job' = [job EXCEPT ![t].tmp = got]
            /\ UNCHANGED <<results, held, overlap>>
  BY DEF Recv, Bytes
<1> HIDE DEF got
<1>3. job[t].stage \in Wanting
  BY <1>2 DEF Wanting
<1>4. /\ got \in Seq(Nat)
      /\ OrderedJob([job[t] EXCEPT !.tmp = got], m)
      /\ Gap(job[t].stage, job[t].n) <= Len(got) =>
           Ordered(Fill(job[t].pkt, got), m)
  BY <1>1, <1>3, BytesCome DEF got
<1>5. OrderedBut(t, m)
  BY <1>1, OrderedButLater
<1>6. m \in Nat /\ m \in 1..End /\ m <= Wrap
  BY <1>1, <1>2, StreamAssumption
<1> HIDE DEF m
<1>7. ASSUME Len(got) = job[t].n, Succeed(t, Fill(job[t].pkt, got))
      PROVE  AllOrdered(job', results', held', m)
  <2>1. job[t].pkt \in Packet
    BY <1>1, <1>2, JobGood DEF Good
  <2>2. Fill(job[t].pkt, got) \in Ahead(job[t].n)
    BY <1>4, <1>7, <2>1, FillGoesAhead
  <2>3. Gap(job[t].stage, job[t].n) = job[t].n /\ job[t].n \in Nat
    BY <1>1, <1>2, JobGood DEF Gap
  <2>4. Ordered(Fill(job[t].pkt, got), m)
    BY <1>4, <1>7, <2>3
  <2>5. QED
    BY <1>1, <1>5, <1>6, <1>7, <2>2, <2>4, SucceedOrdered
<1>8. ASSUME job' = [job EXCEPT ![t].tmp = got], UNCHANGED <<results, held>>
      PROVE  AllOrdered(job', results', held', m)
  BY <1>1, <1>4, <1>5, <1>8, TmpOrdered
<1>9. QED
  BY <1>2, <1>6, <1>7, <1>8

LEMMA RecvByteOrder ==
    ASSUME OrderInv, End \in 1..Wrap, NEW t \in Threads, NEW found,
           RecvByte(t, found)
    PROVE  next' \in 1..End /\ AllOrdered(job', results', held', next')
<1> DEFINE got == Append(job[t].tmp, next)
           m == next + 1
<1>1. /\ Sound /\ next \in Nat \ {0}
      /\ OrderedBut(t, next) /\ OrderedJob(job[t], next)
      /\ job[t].tmp \in Seq(Nat)
  BY OrderParts, JobGood
<1>2. /\ job[t].stage = "until" /\ next' = m /\ next < End
      /\ \/ Deliver(t, Fill(job[t].pkt, got))
         \/ /\ job' = [job EXCEPT ![t].tmp = got]
            /\ UNCHANGED <<results, held, overlap>>
  BY DEF RecvByte
<1>3. got = job[t].tmp \o Bytes(1, next)
  <2> DEFINE tmp == job[t].tmp
             s == Bytes(1, next)
  <2>1. s \in Seq(Nat) /\ Len(s) = 1
    BY <1>1, BytesSeq
  <2>2. s[1] = next
    <3>1. 1 \in 1..1 /\ next + 1 - 1 = next
      BY <1>1
    <3>2. s[1] = next + 1 - 1
      BY <1>1, <3>1, BytesSeq
    <3>3. QED
      BY <3>1, <3>2
  <2>3. tmp \in Seq(Nat) /\ next \in Nat
    BY <1>1
  <2> HIDE DEF tmp, s
  <2> DEFINE c == tmp \o s
             d == Append(tmp, next)
  <2>4. /\ c \in Seq(Nat) /\ Len(c) = Len(tmp) + Len(s)
        /\ \A i \in 1 .. Len(tmp) + Len(s) :
             c[i] = IF i <= Len(tmp) THEN tmp[i] ELSE s[i - Len(tmp)]
    BY <2>1, <2>3, ConcatProperties
  <2>5. /\ d \in Seq(Nat) /\ Len(d) = Len(tmp) + 1
        /\ \A i \in 1..Len(tmp) : d[i] = tmp[i]
        /\ d[Len(tmp) + 1] = next
    BY <2>3, AppendProperties
  <2>6. Len(tmp) \in Nat
    BY <2>3
  <2> HIDE DEF c, d
  <2>7. Len(d) = Len(c)
    BY <2>1, <2>4, <2>5
  <2>8. ASSUME NEW i \in 1..Len(d)
        PROVE  d[i] = c[i]
    <3>1. i \in 1 .. Len(tmp) + Len(s)
      BY <2>1, <2>5
    <3>2. c[i] = IF i <= Len(tmp) THEN tmp[i] ELSE s[i - Len(tmp)]
      BY <2>4, <3>1
    <3>3. CASE i <= Len(tmp)
      <4>1. i \in 1..Len(tmp)
        BY <2>6, <3>1, <3>3
      <4>2. QED
        BY <2>5, <3>2, <3>3, <4>1
    <3>4. CASE ~(i <= Len(tmp))
      <4>1. i = Len(tmp) + 1 /\ i - Len(tmp) = 1
        BY <2>1, <2>6, <3>1, <3>4
      <4>2. QED
        BY <2>2, <2>5, <3>2, <3>4, <4>1
    <3>5. QED
      BY <3>3, <3>4
  <2>9. d = c
    BY <2>4, <2>5, <2>7, <2>8, SeqEqual
  <2>10. QED
    BY <2>9 DEF c, d, tmp, s
<1> HIDE DEF got
<1>4. job[t].stage \in Wanting /\ Gap(job[t].stage, job[t].n) = 0
  BY <1>2 DEF Wanting, Gap
<1>5. /\ got \in Seq(Nat)
      /\ OrderedJob([job[t] EXCEPT !.tmp = got], m)
      /\ 0 <= Len(got) => Ordered(Fill(job[t].pkt, got), m)
  BY <1>1, <1>3, <1>4, BytesCome
<1>6. OrderedBut(t, m)
  BY <1>1, OrderedButLater
<1>7. m \in Nat /\ m \in 1..End
  BY <1>1, <1>2
<1> HIDE DEF m
<1>8. Ordered(Fill(job[t].pkt, got), m)
  <2>1. 0 <= Len(got)
    BY <1>5
  <2>2. QED
    BY <1>5, <2>1
<1>9. CASE Deliver(t, Fill(job[t].pkt, got))
  BY <1>1, <1>2, <1>6, <1>7, <1>8, <1>9, DeliverOrdered
<1>10. CASE job' = [job EXCEPT ![t].tmp = got] /\ UNCHANGED <<results, held>>
  BY <1>1, <1>2, <1>5, <1>6, <1>7, <1>10, TmpOrdered
<1>11. QED
  BY <1>2, <1>9, <1>10

LEMMA RecvEndOrder ==
    ASSUME OrderInv, End \in 1..Wrap, NEW t \in Threads, RecvEnd(t)
    PROVE  AllOrdered(job', results', held', next)
<1> DEFINE p == job[t].pkt
           q == [Fill(p, job[t].tmp) EXCEPT !.short = TRUE]
<1>1. /\ Sound /\ next \in Nat /\ next <= Wrap
      /\ OrderedBut(t, next) /\ OrderedJob(job[t], next)
  BY OrderParts
<1>2. /\ job[t].stage \in {"prefix", "body", "read", "scan"}
      /\ GiveUp(t) \/ Succeed(t, q)
  BY DEF RecvEnd
<1>3. p \in Packet /\ job[t].tmp \in Seq(Nat) /\ job[t].n \in Nat
  BY <1>1, <1>2, JobGood DEF Good
<1>4. q \in Packet /\ q.short
  <2>1. Fill(p, job[t].tmp) \in Packet
    BY <1>3, FillGoesAhead DEF Ahead
  <2>2. QED
    BY <2>1 DEF Packet
<1> HIDE DEF q
<1>5. q \in Ahead(job[t].n) /\ Ordered(q, next)
  BY <1>3, <1>4, ShortIsAhead DEF Ordered
<1>6. CASE GiveUp(t)
  BY <1>1, <1>6, GiveUpOrdered
<1>7. CASE Succeed(t, q)
  BY <1>1, <1>5, <1>7, SucceedOrdered
<1>8. QED
  BY <1>2, <1>6, <1>7

LEMMA ReceiveOrder ==
    ASSUME OrderInv, End \in 1..Wrap, NEW t \in Threads, NEW req \in Request,
           Receive(t, req)
    PROVE  AllOrdered(job', results', held', next)
<1>1. /\ Sound /\ next \in Nat \ {0} /\ next <= Wrap /\ OrderedBut(t, next)
  BY OrderParts
<1>2. req.n \in Nat /\ PrefixSize \in Nat
  BY StreamAssumption DEF Request
<1>3. NextFrame \in Nat
  BY DEF NextFrame
<1> DEFINE p == [NewPacket EXCEPT !.frame = NextFrame]
<1>4. p \in Good /\ NewPacket \in Good
      /\ Ordered(p, next) /\ Ordered(NewPacket, next)
  BY <1>1, <1>3, NewIsGood, NewOrdered
<1>5. Len(NewPacket.buf) = 0 /\ NewPacket.pos = 0
      /\ Len(p.buf) = 0 /\ p.pos = 0
  BY DEF NewPacket
<1> HIDE DEF p
<1>6. CASE Want(t, "prefix", p, PrefixSize) /\ UNCHANGED <<results, held>>
  <2>1. "prefix" \in Wanting /\ Gap("prefix", PrefixSize) = PrefixSize
    BY DEF Wanting, Gap
  <2>2. Len(p.buf) <= p.pos + Gap("prefix", PrefixSize)
    BY <1>2, <1>5, <2>1
  <2>3. QED
    BY <1>1, <1>2, <1>4, <1>6, <2>1, <2>2, WantOrdered
<1>7. CASE ReceiveBody(t, NewPacket, req.n)
  <2>1. req.n \in Int
    BY <1>2
  <2>2. QED
    BY <1>1, <1>4, <1>7, <2>1, ReceiveBodyOrdered
<1>8. CASE Want(t, "until", NewPacket, req.n) /\ UNCHANGED <<results, held>>
  <2>1. "until" \in Wanting /\ Gap("until", req.n) = 0
    BY DEF Wanting, Gap
  <2>2. Len(NewPacket.buf) <= NewPacket.pos + Gap("until", req.n)
    BY <1>5, <2>1
  <2>3. QED
    BY <1>1, <1>2, <1>4, <1>8, <2>1, <2>2, WantOrdered
<1>9. QED
  BY <1>6, <1>7, <1>8 DEF Receive, p

\* Steps of the script that change nothing of what is received.
LEMMA StillOrder ==
    ASSUME OrderInv, UNCHANGED <<job, results, held>>
    PROVE  AllOrdered(job', results', held', next)
BY DEF OrderInv

\* The script puts an ordered packet in place of the one it has.
LEMMA HeldOrder ==
    ASSUME OrderInv, Ordered(held', next), UNCHANGED <<job, results>>
    PROVE  AllOrdered(job', results', held', next)
BY DEF OrderInv, AllOrdered, OrderedRest

LEMMA ThinkOrder ==
    ASSUME OrderInv, Think
    PROVE  AllOrdered(job', results', held', next)
<1>1. /\ results # <<>> /\ results' = Tail(results) /\ job' = job
      /\ held' = IF Head(results) = NoPacket THEN held ELSE Head(results)
  BY DEF Think
<1>2. results \in Seq(Good \union {NoPacket})
  BY DEF OrderInv, Inv, Sound
<1>3. /\ Head(results) = results[1] /\ 1 \in 1..Len(results)
      /\ Len(results') = Len(results) - 1
      /\ \A i \in 1..Len(results') : results'[i] = results[i + 1]
                                     /\ i + 1 \in 1..Len(results)
  <2>1. Len(results) \in Nat \ {0}
    BY <1>1, <1>2, EmptySeq
  <2>2. Head(results) = results[1] /\ 1 \in 1..Len(results)
    BY <1>1, <1>2, <2>1
  <2>3. Len(Tail(results)) = Len(results) - 1
        /\ \A i \in 1..Len(Tail(results)) : Tail(results)[i] = results[i + 1]
    BY <1>1, <1>2, HeadTailProperties
  <2>4. QED
    BY <1>1, <2>1, <2>2, <2>3
<1>4. \A i \in 1..Len(results) : results[i] # NoPacket =>
        Ordered(results[i], next)
  BY DEF OrderInv, AllOrdered, OrderedRest
<1>5. \A i \in 1..Len(results') : results'[i] # NoPacket =>
        Ordered(results'[i], next)
  BY <1>3, <1>4
<1>6. held' # NoPacket => Ordered(held', next)
  BY <1>1, <1>3, <1>4 DEF OrderInv, AllOrdered, OrderedRest
<1>7. QED
  BY <1>1, <1>5, <1>6 DEF OrderInv, AllOrdered, OrderedRest

LEMMA ReadOrder ==
    ASSUME OrderInv, End \in 1..Wrap, NEW n \in ReadSizes, Read(n)
    PROVE  AllOrdered(job', results', held', next)
<1>1. /\ Sound /\ next \in Nat /\ next <= Wrap /\ LuaThread \in Threads
      /\ OrderedBut(LuaThread, next)
  BY OrderParts, LuaIsThread
<1>2. n \in Nat
  BY ReadSizesSmall
<1>3. held \in Good /\ held \in Packet /\ Ordered(held, next)
  BY DEF OrderInv, Inv, Sound, Read, Reading, Good, AllOrdered, OrderedRest
<1>4. CASE Deliver(LuaThread, [held EXCEPT !.pos = @ + n])
  <2> DEFINE p == [held EXCEPT !.pos = @ + n]
  <2>1. p.buf = held.buf /\ p.short = held.short
    BY <1>3 DEF Packet
  <2>2. Deliver(LuaThread, p)
    BY <1>4
  <2> HIDE DEF p
  <2>3. Ordered(p, next)
    BY <1>3, <2>1 DEF Ordered
  <2>4. QED
    BY <1>1, <2>2, <2>3, DeliverOrdered
<1>5. CASE /\ ~Enough(held, n)
           /\ Want(LuaThread, "read", [held EXCEPT !.frame = 0], n)
           /\ UNCHANGED <<results, held>>
  <2> DEFINE p == [held EXCEPT !.frame = 0]
  <2>1. p \in Good
    BY <1>3, UnframedIsGood
  <2>2. p.buf = held.buf /\ p.pos = held.pos /\ p.short = held.short
    BY <1>3 DEF Packet
  <2>3. Want(LuaThread, "read", p, n)
    BY <1>5
  <2> HIDE DEF p
  <2>4. Ordered(p, next)
    BY <1>3, <2>2 DEF Ordered
  <2>5. "read" \in Wanting /\ Gap("read", n) = n
    BY DEF Wanting, Gap
  <2>6. ~p.short => Len(p.buf) <= p.pos + Gap("read", n)
    BY <1>1, <1>2, <1>3, <1>5, <2>2, <2>5, NotEnough
  <2>7. QED
    BY <1>1, <1>2, <1>5, <2>1, <2>3, <2>4, <2>5, <2>6, WantOrdered
<1>6. QED
  BY <1>4, <1>5 DEF Read

LEMMA ReadStringAllOrder ==
    ASSUME OrderInv, End \in 1..Wrap, ReadStringAll
    PROVE  AllOrdered(job', results', held', next)
<1> DEFINE p == [held EXCEPT !.pos = Len(held.buf)]
<1>1. /\ Sound /\ LuaThread \in Threads /\ OrderedBut(LuaThread, next)
  BY OrderParts, LuaIsThread
<1>2. held \in Packet /\ Ordered(held, next)
  BY DEF OrderInv, Inv, Sound, ReadStringAll, Reading, Good, AllOrdered,
         OrderedRest
<1>3. p.buf = held.buf /\ p.short = held.short
  BY <1>2 DEF Packet
<1>4. Deliver(LuaThread, p)
  BY DEF ReadStringAll
<1> HIDE DEF p
<1>5. Ordered(p, next)
  BY <1>2, <1>3 DEF Ordered
<1>6. QED
  BY <1>1, <1>4, <1>5, DeliverOrdered

\* A job that looks for an end only has its packet.
LEMMA SeekOrdered ==
    ASSUME NEW j, NEW m, j.stage = "seek", Ordered(j.pkt, m)
    PROVE  OrderedJob(j, m)
BY DEF OrderedJob, Wanting

LEMMA SeekOrder ==
    ASSUME OrderInv, End \in 1..Wrap, NEW n \in ReadSizes, Seek(n)
    PROVE  AllOrdered(job', results', held', next)
<1> DEFINE j == [stage |-> "seek", pkt |-> held, n |-> n, tmp |-> <<>>]
<1>1. /\ Sound /\ LuaThread \in Threads /\ OrderedBut(LuaThread, next)
  BY OrderParts, LuaIsThread
<1>2. Ordered(held, next)
  BY DEF OrderInv, Seek, Reading, AllOrdered, OrderedRest
<1>3. job' = [job EXCEPT ![LuaThread] = j] /\ UNCHANGED <<results, held>>
  BY DEF Seek
<1>4. j.stage = "seek" /\ j.pkt = held
  OBVIOUS
<1> HIDE DEF j
<1>5. OrderedJob(j, next)
  BY <1>2, <1>4, SeekOrdered
<1>6. OrderedRest(results', held', next)
  BY <1>1, <1>3 DEF OrderedBut
<1>7. QED
  BY <1>1, <1>3, <1>5, <1>6, JobOrdered

LEMMA SeekTurnOrder ==
    ASSUME OrderInv, End \in 1..Wrap, SeekTurn
    PROVE  AllOrdered(job', results', held', next)
<1> DEFINE p == job[LuaThread].pkt
           n == job[LuaThread].n
           past == [p EXCEPT !.pos = @ + 1]
           j == [job[LuaThread] EXCEPT !.pkt = past]
<1>1. /\ Sound /\ next \in Nat /\ next <= Wrap /\ LuaThread \in Threads
      /\ OrderedBut(LuaThread, next) /\ OrderedJob(job[LuaThread], next)
  BY OrderParts, LuaIsThread
<1>2. job[LuaThread].stage = "seek"
  BY DEF SeekTurn
<1>3. p \in Good /\ p \in Packet /\ n \in ReadSizes /\ n \in Nat
      /\ job[LuaThread] \in Job
  BY <1>1, <1>2, JobGood, ReadSizesSmall DEF Good
<1>4. Ordered(p, next)
  BY <1>1, <1>2 DEF OrderedJob
<1>5. past.buf = p.buf /\ past.short = p.short
  BY <1>3 DEF Packet
<1>6. j.stage = "seek" /\ j.pkt = past
  BY <1>2, <1>3 DEF Job
<1>7. \/ Deliver(LuaThread, p)
      \/ Deliver(LuaThread, past)
      \/ /\ job' = [job EXCEPT ![LuaThread].pkt = past]
         /\ UNCHANGED <<results, held>>
      \/ /\ ~Enough(p, n)
         /\ Want(LuaThread, "scan", [p EXCEPT !.frame = 0], n)
         /\ UNCHANGED <<results, held>>
  BY DEF SeekTurn
<1>8. ASSUME job' = [job EXCEPT ![LuaThread].pkt = past]
      PROVE  job' = [job EXCEPT ![LuaThread] = j]
  BY <1>8 DEF Sound
<1> HIDE DEF past, j
<1>9. Ordered(past, next)
  BY <1>4, <1>5 DEF Ordered
<1>10. CASE Deliver(LuaThread, p)
  BY <1>1, <1>4, <1>10, DeliverOrdered
<1>11. CASE Deliver(LuaThread, past)
  BY <1>1, <1>9, <1>11, DeliverOrdered
<1>12. CASE /\ job' = [job EXCEPT ![LuaThread].pkt = past]
            /\ UNCHANGED <<results, held>>
  <2>1. OrderedJob(j, next)
    BY <1>6, <1>9, SeekOrdered
  <2>2. OrderedRest(results', held', next)
    BY <1>1, <1>12 DEF OrderedBut
  <2>3. QED
    BY <1>1, <1>8, <1>12, <2>1, <2>2, JobOrdered
<1>13. CASE /\ ~Enough(p, n)
            /\ Want(LuaThread, "scan", [p EXCEPT !.frame = 0], n)
            /\ UNCHANGED <<results, held>>
  <2> DEFINE q == [p EXCEPT !.frame = 0]
  <2>1. q \in Good
    BY <1>3, UnframedIsGood
  <2>2. q.buf = p.buf /\ q.pos = p.pos /\ q.short = p.short
    BY <1>3 DEF Packet
  <2>3. Want(LuaThread, "scan", q, n)
    BY <1>13
  <2> HIDE DEF q
  <2>4. Ordered(q, next)
    BY <1>4, <2>2 DEF Ordered
  <2>5. "scan" \in Wanting /\ Gap("scan", n) = n
    BY DEF Wanting, Gap
  <2>6. ~q.short => Len(q.buf) <= q.pos + Gap("scan", n)
    BY <1>1, <1>3, <1>4, <1>13, <2>2, <2>5, NotEnough
  <2> HIDE DEF p, n
  <2>7. QED
    BY <1>1, <1>3, <1>13, <2>1, <2>3, <2>4, <2>5, <2>6, WantOrdered
<1>14. QED
  BY <1>7, <1>10, <1>11, <1>12, <1>13

LEMMA NextOrder ==
    ASSUME OrderInv, End \in 1..Wrap, [Next]_vars
    PROVE  OrderInv'
<1> DEFINE Goal == next' \in 1..End /\ AllOrdered(job', results', held', next')
<1>1. Inv'
  BY NextInv DEF OrderInv
<1>2. ASSUME next' = next, AllOrdered(job', results', held', next) PROVE Goal
  BY <1>2 DEF OrderInv
<1>3. ASSUME SetCallbackReceive PROVE Goal
  BY <1>2, <1>3, StillOrder DEF SetCallbackReceive
<1>4. ASSUME NEW req \in Requests, LuaReceive(req) PROVE Goal
  <2>1. req \in Request /\ next' = next
    BY <1>4, ReaderAssumption DEF LuaReceive
  <2>2. CASE UNCHANGED <<job, results, held>>
    BY <1>2, <2>1, <2>2, StillOrder
  <2>3. CASE Receive(LuaThread, req)
    BY <1>2, <2>1, <2>3, LuaIsThread, ReceiveOrder
  <2>4. QED
    BY <1>4, <2>2, <2>3 DEF LuaReceive
<1>5. ASSUME Think PROVE Goal
  <2>1. next' = next
    BY <1>5 DEF Think
  <2>2. QED
    BY <1>2, <1>5, <2>1, ThinkOrder
<1>6. ASSUME CreatePacket \/ Clear PROVE Goal
  <2>1. held' = NewPacket /\ UNCHANGED <<next, job, results>>
    BY <1>6 DEF CreatePacket, Clear
  <2>2. Ordered(NewPacket, next)
    BY OrderParts, NewOrdered
  <2>3. QED
    BY <1>2, <2>1, <2>2, HeldOrder
<1>7. ASSUME NEW n \in ReadSizes, Read(n) \/ Seek(n) PROVE Goal
  <2>1. next' = next
    BY <1>7 DEF Read, Seek, Script
  <2>2. QED
    BY <1>2, <1>7, <2>1, ReadOrder, SeekOrder
<1>8. ASSUME ReadStringAll PROVE Goal
  <2>1. next' = next
    BY <1>8 DEF ReadStringAll, Script
  <2>2. QED
    BY <1>2, <1>8, <2>1, ReadStringAllOrder
<1>9. ASSUME SeekTurn PROVE Goal
  <2>1. next' = next
    BY <1>9 DEF SeekTurn, Script
  <2>2. QED
    BY <1>2, <1>9, <2>1, SeekTurnOrder
<1>10. ASSUME NEW w \in Workers, WorkerTake(w) PROVE Goal
  <2>1. Head(todo) \in Request
    BY <1>10, HeadTailProperties DEF OrderInv, Inv, WorkerTake
  <2>2. w \in Threads /\ next' = next /\ Receive(w, Head(todo))
    BY <1>10 DEF Threads, WorkerTake
  <2>3. QED
    BY <1>2, <2>1, <2>2, ReceiveOrder
<1>11. ASSUME NEW t \in Threads, Thread(t) PROVE Goal
  <2>1. 1..job[t].n \subseteq Nat
    BY JobGood DEF OrderInv, Inv
  <2>2. ASSUME RecvEnd(t) PROVE Goal
    <3>1. next' = next
      BY <2>2 DEF RecvEnd
    <3>2. QED
      BY <1>2, <2>2, <3>1, RecvEndOrder
  <2>3. ASSUME UntilEnd(t) PROVE Goal
    <3>1. next' = next /\ GiveUp(t)
      BY <2>3 DEF UntilEnd
    <3>2. QED
      BY <1>2, <3>1, OrderParts, GiveUpOrdered
  <2> HIDE DEF Goal
  <2>4. ASSUME NEW k \in Nat, Recv(t, k) PROVE Goal
    BY <2>4, RecvOrder DEF Goal
  <2>5. ASSUME NEW found, RecvByte(t, found) PROVE Goal
    BY <2>5, RecvByteOrder DEF Goal
  <2>6. QED
    BY <1>11, <2>1, <2>2, <2>3, <2>4, <2>5 DEF Thread
<1>12. ASSUME UNCHANGED vars PROVE Goal
  BY <1>2, <1>12, StillOrder DEF vars
<1> HIDE DEF Goal
<1>13. Goal
  BY <1>3, <1>4, <1>5, <1>6, <1>7, <1>8, <1>9, <1>10, <1>11, <1>12
     DEF Next, Lua
<1>14. QED
  BY <1>1, <1>13 DEF OrderInv, Goal

LEMMA InitOrder ==
    ASSUME Init, End \in 1..Wrap
    PROVE  OrderInv
<1>1. Inv
  BY InitInv
<1>2. next \in 1..End
  BY StreamAssumption DEF Init
<1>3. \A t \in Threads : OrderedJob(job[t], next)
  BY NoJobOrdered DEF Init
<1>4. OrderedRest(results, held, next)
  BY EmptySeq DEF Init, OrderedRest
<1>5. QED
  BY <1>1, <1>2, <1>3, <1>4 DEF OrderInv, AllOrdered

\* A packet holds bytes of the stream in the order in which they came, each
\* once, unless a recv for it ended early, as long as the stream is shorter
\* than what an unsigned size can count.
THEOREM PacketInOrder ==
    ASSUME End <= Wrap
    PROVE  Spec => []InStreamOrder
<1>1. End \in 1..Wrap
  BY EndPositive, StreamAssumption
<1>2. Init => OrderInv
  BY <1>1, InitOrder
<1>3. OrderInv /\ [Next]_vars => OrderInv'
  BY <1>1, NextOrder
<1>4. OrderInv => InStreamOrder
  BY OrderGives
<1>5. QED
  BY <1>2, <1>3, <1>4, PTL DEF Spec

-----------------------------------------------------------------------------
(* The bytes of frames.                                                     *)

LEMMA BytesJoin ==
    ASSUME NEW a \in Nat, NEW b \in Nat, NEW s \in Nat
    PROVE  Bytes(a, s) \o Bytes(b, s + a) = Bytes(a + b, s)
<1> DEFINE x == Bytes(a, s)
           y == Bytes(b, s + a)
           z == Bytes(a + b, s)
           c == x \o y
<1>1. /\ x \in Seq(Nat) /\ Len(x) = a
      /\ \A i \in 1..a : x[i] = s + i - 1
  BY BytesSeq
<1>2. /\ y \in Seq(Nat) /\ Len(y) = b
      /\ \A i \in 1..b : y[i] = s + a + i - 1
  <2>1. s + a \in Nat
    OBVIOUS
  <2>2. QED
    BY <2>1, BytesSeq
<1>3. /\ z \in Seq(Nat) /\ Len(z) = a + b
      /\ \A i \in 1 .. a + b : z[i] = s + i - 1
  <2>1. a + b \in Nat
    OBVIOUS
  <2>2. QED
    BY <2>1, BytesSeq
<1> HIDE DEF x, y, z
<1>4. /\ c \in Seq(Nat) /\ Len(c) = Len(x) + Len(y)
      /\ \A i \in 1 .. Len(x) + Len(y) :
           c[i] = IF i <= Len(x) THEN x[i] ELSE y[i - Len(x)]
  BY <1>1, <1>2, ConcatProperties
<1> HIDE DEF c
<1>5. ASSUME NEW i \in 1..Len(c)
      PROVE  c[i] = z[i]
  <2>1. i \in 1 .. Len(x) + Len(y) /\ i \in 1 .. a + b
    BY <1>1, <1>2, <1>4
  <2>2. z[i] = s + i - 1
    BY <1>3, <2>1
  <2>3. CASE i <= a
    <3>1. i \in 1..a
      BY <2>1, <2>3
    <3>2. c[i] = x[i]
      BY <1>1, <1>4, <2>1, <2>3
    <3>3. QED
      BY <1>1, <2>2, <3>1, <3>2
  <2>4. CASE ~(i <= a)
    <3>1. i - a \in 1..b
      BY <2>1, <2>4
    <3>2. c[i] = y[i - a]
      BY <1>1, <1>4, <2>1, <2>4
    <3>3. y[i - a] = s + a + (i - a) - 1
      BY <1>2, <3>1
    <3>4. QED
      BY <2>1, <2>2, <3>2, <3>3
  <2>5. QED
    BY <2>3, <2>4
<1>6. Len(c) = Len(z)
  BY <1>1, <1>2, <1>3, <1>4
<1>7. c = z
  BY <1>3, <1>4, <1>5, <1>6, SeqEqual
<1>8. QED
  BY <1>7 DEF c, x, y, z

LEMMA FirstByte ==
    ASSUME NEW k \in Nat \ {0}, NEW s \in Nat
    PROVE  /\ Bytes(k, s) \in Seq(Nat) /\ Len(Bytes(k, s)) = k
           /\ Bytes(k, s)[1] = s
<1> DEFINE b == Bytes(k, s)
<1>1. /\ b \in Seq(Nat) /\ Len(b) = k
      /\ \A i \in 1..k : b[i] = s + i - 1
  BY BytesSeq
<1> HIDE DEF b
<1>2. 1 \in 1..k /\ s + 1 - 1 = s
  OBVIOUS
<1>3. b \in Seq(Nat) /\ Len(b) = k /\ b[1] = s
  BY <1>1, <1>2
<1>4. QED
  BY <1>3 DEF b

LEMMA NoBytes ==
    ASSUME NEW s \in Nat
    PROVE  Bytes(0, s) = <<>>
<1>1. Bytes(0, s) \in Seq(Nat) /\ Len(Bytes(0, s)) = 0
  BY BytesSeq
<1>2. QED
  BY <1>1, EmptySeq

\* The sizes and the start of a frame.
LEMMA FrameParts ==
    ASSUME NEW f \in 1..Len(Frames)
    PROVE  /\ Start[f] \in Nat /\ Frames[f] \in Nat
           /\ PrefixSize \in Nat \ {0}
           /\ FrameBytes(f) = Bytes(PrefixSize + Frames[f], Start[f])
<1>1. f \in 1..Len(Frames) + 1
  BY StreamAssumption
<1>2. Start[f] \in Nat /\ Frames[f] \in Nat /\ PrefixSize \in Nat \ {0}
  BY <1>1, StartNat, StreamAssumption, ElementOfSeq
<1>3. QED
  BY <1>2 DEF FrameBytes, Bytes

\* The length in front of a frame is found in its own bytes only: the bytes
\* are numbered, so where a frame starts tells which one it is.
LEMMA LengthFound ==
    ASSUME NEW f \in 1..Len(Frames), NEW p,
           p.buf = Bytes(PrefixSize, Start[f]), NEW n \in Lengths(p)
    PROVE  n = Frames[f]
<1> DEFINE front(g) == SubSeq(FrameBytes(g), 1, PrefixSize)
           found == {g \in 1..Len(Frames) : IsPrefix(front(g), p.buf)}
<1>1. ASSUME NEW g \in 1..Len(Frames)
      PROVE  front(g) = Bytes(PrefixSize, Start[g])
  <2> DEFINE b == Bytes(PrefixSize + Frames[g], Start[g])
             c == Bytes(PrefixSize, Start[g])
             d == SubSeq(b, 1, PrefixSize)
  <2>1. Start[g] \in Nat /\ Frames[g] \in Nat /\ PrefixSize \in Nat \ {0}
        /\ front(g) = d
    BY FrameParts
  <2>2. /\ b \in Seq(Nat) /\ Len(b) = PrefixSize + Frames[g]
        /\ \A i \in 1 .. PrefixSize + Frames[g] : b[i] = Start[g] + i - 1
    <3>1. PrefixSize + Frames[g] \in Nat
      BY <2>1
    <3>2. QED
      BY <2>1, <3>1, BytesSeq
  <2>3. /\ c \in Seq(Nat) /\ Len(c) = PrefixSize
        /\ \A i \in 1..PrefixSize : c[i] = Start[g] + i - 1
    BY <2>1, BytesSeq
  <2> HIDE DEF b, c
  <2>4. \A i \in 1..PrefixSize : i \in 1 .. PrefixSize + Frames[g]
    BY <2>1
  <2>5. \A i \in 1..PrefixSize : b[i] \in Nat
    BY <2>2, <2>4, ElementOfSeq
  <2>6. /\ d \in Seq(Nat) /\ Len(d) = PrefixSize
        /\ \A i \in 1..PrefixSize : d[i] = b[i]
    <3>1. /\ d \in Seq(Nat)
          /\ Len(d) = IF 1 <= PrefixSize THEN PrefixSize - 1 + 1 ELSE 0
          /\ \A i \in 1 .. PrefixSize - 1 + 1 : d[i] = b[1 + i - 1]
      BY <2>1, <2>5, SubSeqProperties
    <3> HIDE DEF d
    <3>2. QED
      BY <2>1, <3>1
  <2> HIDE DEF d
  <2>7. \A i \in 1..Len(d) : d[i] = c[i]
    BY <2>2, <2>3, <2>4, <2>6
  <2>8. d = c
    BY <2>3, <2>6, <2>7, SeqEqual
  <2>9. QED
    BY <2>1, <2>8 DEF c
<1>2. p.buf = front(f)
  BY <1>1
<1>3. Start[f] \in Nat /\ PrefixSize \in Nat \ {0}
  BY FrameParts
<1>4. p.buf \in Seq(Nat) /\ Len(p.buf) = PrefixSize /\ p.buf[1] = Start[f]
  <2> DEFINE c == Bytes(PrefixSize, Start[f])
  <2>1. c \in Seq(Nat) /\ Len(c) = PrefixSize /\ c[1] = Start[f]
    BY <1>3, FirstByte
  <2>2. p.buf = c
    OBVIOUS
  <2> HIDE DEF c
  <2>3. QED
    BY <2>1, <2>2
<1>5. ASSUME NEW g \in 1..Len(Frames), IsPrefix(front(g), p.buf)
      PROVE  g = f
  <2> DEFINE s == front(g)
             b == p.buf
  <2>1. Start[g] \in Nat /\ s = Bytes(PrefixSize, Start[g])
    BY <1>1, FrameParts
  <2>2. s \in Seq(Nat) /\ Len(s) = PrefixSize /\ s[1] = Start[g]
    <3> DEFINE c == Bytes(PrefixSize, Start[g])
    <3>1. c \in Seq(Nat) /\ Len(c) = PrefixSize /\ c[1] = Start[g]
      BY <1>3, <2>1, FirstByte
    <3>2. s = c
      BY <2>1
    <3> HIDE DEF c, s
    <3>3. QED
      BY <3>1, <3>2
  <2>3. SubSeq(s, 1, Len(s)) = SubSeq(b, 1, Len(s))
    BY <1>5 DEF IsPrefix
  <2> HIDE DEF s, b
  <2>4. b \in Seq(Nat) /\ Len(b) = PrefixSize /\ b[1] = Start[f]
    BY <1>4 DEF b
  <2>5. SubSeq(s, 1, PrefixSize)[1] = s[1] /\ SubSeq(b, 1, PrefixSize)[1] = b[1]
    BY <1>3, <2>2, <2>4
  <2>6. Start[f] = Start[g]
    BY <2>2, <2>3, <2>4, <2>5
  <2>7. QED
    BY <2>6, StartOnce
<1>6. IsPrefix(front(f), p.buf)
  BY <1>2 DEF IsPrefix
<1>7. found = {f}
  BY <1>5, <1>6
<1>8. Lengths(p) = {Frames[g] : g \in found}
  BY <1>7 DEF Lengths
<1>9. QED
  BY <1>7, <1>8

-----------------------------------------------------------------------------
(* Packets that hold a frame, and jobs on the way to one.                   *)

Whole(p) == ~p.short => IsFrame(p)

\* A frame is to come into packet p, by a receive that began at its start and
\* to which no recv ended early.
Framed(p) == ~p.short /\ p.frame # 0

\* The length in front of its frame has come into the packet, as the bytes of
\* the stream before byte m.
HasLength(p, m) ==
    /\ p.frame \in 1..Len(Frames)
    /\ p.buf = Bytes(PrefixSize, Start[p.frame])
    /\ m = Start[p.frame] + PrefixSize

\* tmp holds the bytes of the stream from s on, and byte m is the next.
Incoming(tmp, s, m) == tmp = Bytes(Len(tmp), s) /\ m = s + Len(tmp)

WholePrefix(j, m) ==
    /\ j.pkt.frame \in 1..Len(Frames)
    /\ j.pkt.buf = <<>> /\ j.pkt.pos = 0
    /\ Incoming(j.tmp, Start[j.pkt.frame], m)

WholeBody(j, m) ==
    LET f == j.pkt.frame IN
    /\ f \in 1..Len(Frames) /\ j.n = Frames[f]
    /\ j.pkt.buf = Bytes(PrefixSize, Start[f]) /\ j.pkt.pos = PrefixSize
    /\ Incoming(j.tmp, Start[f] + PrefixSize, m)

WholeJob(j, m) ==
    /\ j.stage = "seek" => Whole(j.pkt)
    /\ j.stage \in {"until", "read", "scan"} => j.pkt.frame = 0
    /\ j.stage = "prefix" /\ Framed(j.pkt) => WholePrefix(j, m)
    /\ j.stage = "body" /\ Framed(j.pkt) => WholeBody(j, m)

WholeRest(r, h) ==
    /\ \A i \in 1..Len(r) : r[i] # NoPacket => Whole(r[i])
    /\ h # NoPacket => Whole(h)

\* One thread at most is in a CanRead.
Alone(jobs, some) ==
    \A t, u \in some : jobs[t].stage \in Wanting /\ jobs[u].stage \in Wanting
                         => t = u

AllWhole(jobs, r, h, m) ==
    /\ \A t \in Threads : WholeJob(jobs[t], m)
    /\ Alone(jobs, Threads)
    /\ WholeRest(r, h)

\* All but the job of thread t, and that no other thread is in a CanRead.
WholeBut(t, m) ==
    /\ \A u \in Threads \ {t} : WholeJob(job[u], m)
    /\ Alone(job, Threads \ {t})
    /\ WholeRest(results, held)

AloneWith(t) == \A u \in Threads \ {t} : job[u].stage \notin Wanting

WholeInv ==
    /\ Inv
    /\ ~overlap => AllWhole(job, results, held, next)

LEMMA WholeGives == WholeInv => FrameReceived
<1> SUFFICES ASSUME WholeInv, ~overlap, NEW p \in Delivered, ~p.short
             PROVE  IsFrame(p)
  BY DEF FrameReceived
<1>1. WholeRest(results, held)
  BY DEF WholeInv, AllWhole
<1>2. Whole(p)
  BY <1>1 DEF Delivered, WholeRest
<1>3. QED
  BY <1>2 DEF Whole

\* A packet that is to hold no frame, or that a recv for it ended early.
LEMMA UnframedIsWhole ==
    ASSUME NEW p, ~Framed(p)
    PROVE  Whole(p)
BY DEF Framed, Whole, IsFrame

\* A packet that is another one but for its position.
LEMMA MovedIsWhole ==
    ASSUME NEW p, NEW q, Whole(p), q.buf = p.buf, q.frame = p.frame,
           q.short = p.short
    PROVE  Whole(q)
BY DEF Whole, IsFrame

LEMMA WholeButLater ==
    ASSUME NEW t, NEW m, NEW k, AloneWith(t), WholeBut(t, m)
    PROVE  WholeBut(t, k)
<1>1. ASSUME NEW u \in Threads \ {t} PROVE WholeJob(job[u], k)
  <2>1. WholeJob(job[u], m) /\ job[u].stage \notin Wanting
    BY <1>1 DEF WholeBut, AloneWith
  <2>2. QED
    BY <2>1 DEF WholeJob, Wanting
<1>2. QED
  BY <1>1 DEF WholeBut

-----------------------------------------------------------------------------
(* How a thread goes on, and frames.                                        *)

LEMMA JobWhole ==
    ASSUME Sound, NEW t \in Threads, NEW m, WholeBut(t, m),
           NEW j, WholeJob(j, m), j.stage \in Wanting => AloneWith(t),
           job' = [job EXCEPT ![t] = j], WholeRest(results', held')
    PROVE  AllWhole(job', results', held', m)
<1>1. \A u \in Threads : job'[u] = IF u = t THEN j ELSE job[u]
  BY DEF Sound
<1>2. \A u \in Threads : WholeJob(job'[u], m)
  BY <1>1 DEF WholeBut
<1>3. ASSUME NEW u \in Threads, NEW v \in Threads,
             job'[u].stage \in Wanting, job'[v].stage \in Wanting
      PROVE  u = v
  <2>1. CASE u # t /\ v # t
    BY <1>1, <1>3, <2>1 DEF WholeBut, Alone
  <2>2. CASE u = t
    BY <1>1, <1>3, <2>2 DEF AloneWith
  <2>3. CASE v = t
    BY <1>1, <1>3, <2>3 DEF AloneWith
  <2>4. QED
    BY <2>1, <2>2, <2>3
<1>4. Alone(job', Threads)
  BY <1>3 DEF Alone
<1>5. QED
  BY <1>2, <1>4 DEF AllWhole

\* Who enters a CanRead without an overlap is alone in one.
LEMMA WantAlone ==
    ASSUME Sound, NEW t, NEW stage, NEW p, NEW n, Want(t, stage, p, n), ~overlap'
    PROVE  AloneWith(t)
<1>1. Receiving \ {t} = {}
  BY DEF Want
<1>2. QED
  BY <1>1 DEF AloneWith, Receiving, Wanting

LEMMA WantWhole ==
    ASSUME Sound, NEW t \in Threads, NEW m, WholeBut(t, m),
           NEW p, NEW n, NEW stage,
           WholeJob([stage |-> stage, pkt |-> p, n |-> n, tmp |-> <<>>], m),
           Want(t, stage, p, n), ~overlap', UNCHANGED <<results, held>>
    PROVE  AllWhole(job', results', held', m)
<1> DEFINE j == [stage |-> stage, pkt |-> p, n |-> n, tmp |-> <<>>]
<1>1. job' = [job EXCEPT ![t] = j] /\ WholeJob(j, m)
  BY DEF Want
<1> HIDE DEF j
<1>2. WholeRest(results', held') /\ AloneWith(t)
  BY WantAlone DEF WholeBut
<1>3. QED
  BY <1>1, <1>2, JobWhole

LEMMA NoJobWhole ==
    ASSUME NEW m
    PROVE  WholeJob(NoJob, m) /\ NoJob.stage \notin Wanting
BY DEF NoJob, WholeJob, Wanting

\* One more result.
LEMMA AppendWhole ==
    ASSUME Sound, WholeRest(results, held), NEW p,
           p # NoPacket => Whole(p), results' = Append(results, p)
    PROVE  \A i \in 1..Len(results') : results'[i] # NoPacket =>
             Whole(results'[i])
<1> TAKE i \in 1..Len(results')
<1>1. Len(results) \in Nat
  BY DEF Sound
<1>2. i \in 1..Len(results) \/ i = Len(results) + 1
  BY <1>1 DEF Sound
<1>3. i \in 1..Len(results) => results'[i] = results[i]
  BY DEF Sound
<1>4. i = Len(results) + 1 => results'[i] = p
  BY DEF Sound
<1>5. QED
  BY <1>2, <1>3, <1>4 DEF WholeRest

LEMMA DeliverWhole ==
    ASSUME Sound, NEW t \in Threads, NEW m, WholeBut(t, m),
           NEW p, Whole(p), Deliver(t, p)
    PROVE  AllWhole(job', results', held', m)
<1>1. job' = [job EXCEPT ![t] = NoJob] /\ WholeJob(NoJob, m)
      /\ NoJob.stage \notin Wanting
  BY NoJobWhole DEF Deliver, Leave
<1>2. held' # NoPacket => Whole(held')
  BY DEF Deliver, WholeBut, WholeRest
<1>3. \A i \in 1..Len(results') : results'[i] # NoPacket => Whole(results'[i])
  <2>1. CASE results' = results
    BY <2>1 DEF WholeBut, WholeRest
  <2>2. CASE results' = Append(results, p)
    BY <2>2, AppendWhole DEF WholeBut
  <2>3. QED
    BY <2>1, <2>2 DEF Deliver
<1>4. WholeRest(results', held')
  BY <1>2, <1>3 DEF WholeRest
<1>5. QED
  BY <1>1, <1>4, JobWhole

LEMMA FailWhole ==
    ASSUME Sound, NEW t \in Threads, NEW m, WholeBut(t, m), Fail(t)
    PROVE  AllWhole(job', results', held', m)
<1>1. job' = [job EXCEPT ![t] = NoJob] /\ WholeJob(NoJob, m)
      /\ NoJob.stage \notin Wanting
  BY NoJobWhole DEF Fail, Leave
<1>2. held' # NoPacket => Whole(held')
  BY DEF Fail, WholeBut, WholeRest
<1>3. \A i \in 1..Len(results') : results'[i] # NoPacket => Whole(results'[i])
  <2>1. CASE results' = results
    BY <2>1 DEF WholeBut, WholeRest
  <2>2. CASE results' = Append(results, NoPacket)
    BY <2>2, AppendWhole DEF WholeBut
  <2>3. QED
    BY <2>1, <2>2 DEF Fail
<1>4. WholeRest(results', held')
  BY <1>2, <1>3 DEF WholeRest
<1>5. QED
  BY <1>1, <1>4, JobWhole

\* Behind the length of a frame there is nothing yet, so a body is waited for.
LEMMA NothingBehind ==
    ASSUME NEW p, NEW n \in 1..MaxReceiveSize, p.pos = Len(p.buf),
           p.pos \in Nat
    PROVE  ~Enough(p, n)
<1>1. n \in Nat /\ n < Wrap /\ n # 0 /\ Wrap \in Nat \ {0}
  BY StreamAssumption
<1>2. n % Wrap = n
  BY <1>1
<1>3. Len(p.buf) - p.pos = 0 /\ 0 % Wrap = 0
  BY <1>1
<1>4. (Len(p.buf) - p.pos) % Wrap = 0
  BY <1>3
<1>5. QED
  BY <1>1, <1>2, <1>4 DEF Enough

LEMMA ReceiveBodyWhole ==
    ASSUME Sound, NEW t \in Threads, NEW m, WholeBut(t, m),
           NEW p, NEW n \in Int, ReceiveBody(t, p, n), ~overlap',
           Framed(p) => /\ HasLength(p, m) /\ p.pos = PrefixSize
                        /\ n = Frames[p.frame]
    PROVE  AllWhole(job', results', held', m)
<1> DEFINE f == p.frame
<1>1. ASSUME Framed(p)
      PROVE  /\ f \in 1..Len(Frames) /\ Start[f] \in Nat
             /\ PrefixSize \in Nat \ {0}
             /\ p.buf = Bytes(PrefixSize, Start[f]) /\ p.pos = PrefixSize
             /\ Len(p.buf) = PrefixSize
             /\ n = Frames[f] /\ m = Start[f] + PrefixSize
             /\ FrameBytes(f) = Bytes(PrefixSize + n, Start[f])
  <2>1. /\ f \in 1..Len(Frames) /\ p.buf = Bytes(PrefixSize, Start[f])
        /\ n = Frames[f] /\ m = Start[f] + PrefixSize /\ p.pos = PrefixSize
    BY <1>1 DEF HasLength
  <2>2. /\ Start[f] \in Nat /\ PrefixSize \in Nat \ {0}
        /\ FrameBytes(f) = Bytes(PrefixSize + n, Start[f])
    BY <2>1, FrameParts
  <2>3. Len(p.buf) = PrefixSize
    <3>1. Len(Bytes(PrefixSize, Start[f])) = PrefixSize
      BY <2>2, BytesSeq
    <3>2. QED
      BY <2>1, <3>1
  <2>4. QED
    BY <2>1, <2>2, <2>3
<1> HIDE DEF f
<1>2. CASE Fail(t)
  BY <1>2, FailWhole
<1>3. CASE n = 0 /\ Deliver(t, p)
  <2>1. ASSUME Framed(p) PROVE p.buf = FrameBytes(p.frame)
    <3>1. PrefixSize + n = PrefixSize
      BY <1>1, <1>3, <2>1
    <3>2. QED
      BY <1>1, <2>1, <3>1 DEF f
  <2>2. Whole(p)
    BY <2>1 DEF Framed, Whole, IsFrame
  <2>3. QED
    BY <1>3, <2>2, DeliverWhole
<1>4. CASE n \in 1..MaxReceiveSize /\ Enough(p, n) /\ Deliver(t, p)
  <2>1. ~Framed(p)
    BY <1>1, <1>4, NothingBehind
  <2>2. QED
    BY <1>4, <2>1, UnframedIsWhole, DeliverWhole
<1>5. CASE Want(t, "body", p, n) /\ UNCHANGED <<results, held>>
  <2> DEFINE j == [stage |-> "body", pkt |-> p, n |-> n, tmp |-> <<>>]
  <2>1. j.stage = "body" /\ j.pkt = p /\ j.n = n /\ j.tmp = <<>>
    OBVIOUS
  <2> HIDE DEF j
  <2>2. ASSUME Framed(p) PROVE WholeBody(j, m)
    <3>1. m \in Nat /\ Len(<<>>) = 0 /\ m + 0 = m
      BY <1>1, <2>2
    <3>2. Incoming(<<>>, m, m)
      BY <3>1, NoBytes DEF Incoming
    <3>3. QED
      BY <1>1, <2>1, <2>2, <3>2 DEF WholeBody, f
  <2>3. WholeJob(j, m)
    BY <2>1, <2>2 DEF WholeJob
  <2>4. QED
    BY <1>5, <2>3, WantWhole DEF j
<1>6. QED
  BY <1>2, <1>3, <1>4, <1>5 DEF ReceiveBody

LEMMA ReceiveLengthWhole ==
    ASSUME Sound, NEW t \in Threads, NEW m, WholeBut(t, m),
           NEW p \in Packet, ReceiveLength(t, p), ~overlap',
           Framed(p) => HasLength(p, m) /\ p.pos = 0
    PROVE  AllWhole(job', results', held', m)
<1> DEFINE q == [p EXCEPT !.pos = @ + PrefixSize]
<1>1. Lengths(p) \subseteq Int
  <2>1. \A f \in 1..Len(Frames) : Frames[f] \in Int
    BY ElementOfSeq, StreamAssumption
  <2>2. QED
    BY <2>1, StreamAssumption DEF Lengths
<1>2. PICK n \in Lengths(p) : ReceiveBody(t, q, n)
  BY DEF ReceiveLength
<1>3. /\ q.buf = p.buf /\ q.short = p.short /\ q.frame = p.frame
      /\ q.pos = p.pos + PrefixSize
  BY DEF Packet
<1> HIDE DEF q
<1>4. ASSUME Framed(q)
      PROVE  HasLength(q, m) /\ q.pos = PrefixSize /\ n = Frames[q.frame]
  <2>1. HasLength(p, m) /\ p.pos = 0
    BY <1>3, <1>4 DEF Framed
  <2>2. p.frame \in 1..Len(Frames) /\ p.buf = Bytes(PrefixSize, Start[p.frame])
    BY <2>1 DEF HasLength
  <2>3. n = Frames[p.frame]
    BY <1>2, <2>2, LengthFound
  <2>4. 0 + PrefixSize = PrefixSize
    BY StreamAssumption
  <2>5. HasLength(q, m)
    BY <1>3, <2>1 DEF HasLength
  <2>6. QED
    BY <1>3, <2>1, <2>3, <2>4, <2>5
<1>5. n \in Int
  BY <1>1, <1>2
<1>6. QED
  BY <1>2, <1>4, <1>5, ReceiveBodyWhole

\* What the packet of a CanRead that returns true is to be.
LEMMA SucceedWhole ==
    ASSUME Sound, NEW t \in Threads, NEW m, WholeBut(t, m),
           NEW p \in Packet, Succeed(t, p), ~overlap',
           job[t].stage = "prefix" /\ Framed(p) => HasLength(p, m) /\ p.pos = 0,
           job[t].stage # "prefix" => Whole(p)
    PROVE  AllWhole(job', results', held', m)
<1>1. CASE job[t].stage = "prefix" /\ ReceiveLength(t, p)
  BY <1>1, ReceiveLengthWhole
<1>2. CASE job[t].stage = "body" /\ Deliver(t, p)
  BY <1>2, DeliverWhole
<1>3. CASE /\ job[t].stage = "read"
           /\ Deliver(t, [p EXCEPT !.pos = @ + job[t].n])
  <2> DEFINE q == [p EXCEPT !.pos = @ + job[t].n]
  <2>1. q.buf = p.buf /\ q.short = p.short /\ q.frame = p.frame
    BY DEF Packet
  <2>2. Deliver(t, q) /\ Whole(p)
    BY <1>3
  <2> HIDE DEF q
  <2>3. Whole(q)
    BY <2>1, <2>2, MovedIsWhole
  <2>4. QED
    BY <2>2, <2>3, DeliverWhole
<1>4. CASE /\ job[t].stage = "scan"
           /\ job' = [job EXCEPT ![t] = [stage |-> "seek", pkt |-> p, n |-> @.n,
                                         tmp |-> <<>>]]
           /\ UNCHANGED <<results, held, overlap>>
  <2> DEFINE j == [stage |-> "seek", pkt |-> p, n |-> job[t].n, tmp |-> <<>>]
  <2>1. j.stage = "seek" /\ j.pkt = p /\ Whole(p)
    BY <1>4
  <2>2. job' = [job EXCEPT ![t] = j]
    BY <1>4 DEF Sound
  <2> HIDE DEF j
  <2>3. WholeJob(j, m) /\ j.stage \notin Wanting
    BY <2>1 DEF WholeJob, Wanting
  <2>4. WholeRest(results', held')
    BY <1>4 DEF WholeBut
  <2>5. QED
    BY <2>2, <2>3, <2>4, JobWhole
<1>5. QED
  BY <1>1, <1>2, <1>3, <1>4 DEF Succeed

LEMMA GiveUpWhole ==
    ASSUME Sound, NEW t \in Threads, NEW m, WholeBut(t, m),
           WholeJob(job[t], m), GiveUp(t), ~overlap'
    PROVE  AllWhole(job', results', held', m)
<1> DEFINE p == job[t].pkt
           q == [p EXCEPT !.short = TRUE]
<1>1. job[t].stage # "idle"
  BY DEF GiveUp
<1>2. p \in Packet
  BY <1>1, JobGood DEF Good
<1>3. CASE ReceiveBody(t, q, 0)
  <2>1. ~Framed(q) /\ 0 \in Int
    BY <1>2 DEF Packet, Framed
  <2> HIDE DEF q
  <2>2. QED
    BY <1>3, <2>1, ReceiveBodyWhole
<1>4. CASE Fail(t)
  BY <1>4, FailWhole
<1>5. CASE job[t].stage \in {"read", "scan"} /\ Deliver(t, p)
  <2>1. Whole(p)
    BY <1>5, UnframedIsWhole DEF WholeJob, Framed
  <2>2. QED
    BY <1>5, <2>1, DeliverWhole
<1>6. QED
  BY <1>3, <1>4, <1>5 DEF GiveUp

-----------------------------------------------------------------------------
(* The steps, and frames.                                                   *)

\* What a step begins with.
LEMMA WholeParts ==
    ASSUME WholeInv, ~overlap, NEW t \in Threads
    PROVE  /\ Sound /\ next \in Nat
           /\ WholeBut(t, next) /\ WholeJob(job[t], next)
           /\ job[t].stage \in Wanting => AloneWith(t)
<1>1. Sound /\ next \in Nat /\ AllWhole(job, results, held, next)
  BY DEF WholeInv, Inv
<1>2. WholeBut(t, next) /\ WholeJob(job[t], next)
  BY <1>1 DEF AllWhole, WholeBut, Alone
<1>3. job[t].stage \in Wanting => AloneWith(t)
  BY <1>1 DEF AllWhole, Alone, AloneWith
<1>4. QED
  BY <1>1, <1>2, <1>3

\* More bytes of a frame.
LEMMA IncomingMore ==
    ASSUME NEW tmp \in Seq(Nat), NEW s \in Nat, NEW m, Incoming(tmp, s, m),
           NEW k \in Nat
    PROVE  Incoming(tmp \o Bytes(k, m), s, m + k)
<1> DEFINE a == Len(tmp)
           c == Bytes(a + k, s)
<1>1. a \in Nat /\ m = s + a /\ tmp = Bytes(a, s)
  BY DEF Incoming
<1> HIDE DEF a
<1>2. tmp \o Bytes(k, m) = c
  BY <1>1, BytesJoin
<1>3. Len(c) = a + k
  <2>1. a + k \in Nat
    BY <1>1
  <2>2. QED
    BY <1>1, <2>1, BytesSeq
<1> HIDE DEF c
<1>4. c = Bytes(Len(c), s) /\ m + k = s + Len(c)
  BY <1>1, <1>3 DEF c
<1>5. QED
  BY <1>2, <1>4 DEF Incoming

\* What the packet of a thread holds when all it waited for has come.
LEMMA PrefixComes ==
    ASSUME NEW j \in Job, NEW m, WholePrefix(j, m), j.pkt \in Packet,
           j.tmp \in Seq(Nat), Len(j.tmp) = PrefixSize
    PROVE  HasLength(Fill(j.pkt, j.tmp), m) /\ Fill(j.pkt, j.tmp).pos = 0
<1> DEFINE p == j.pkt
           got == j.tmp
           q == Fill(p, got)
           f == p.frame
<1>1. /\ f \in 1..Len(Frames) /\ p.buf = <<>> /\ p.pos = 0
      /\ got = Bytes(PrefixSize, Start[f]) /\ m = Start[f] + PrefixSize
  BY DEF WholePrefix, Incoming
<1>2. p \in Packet /\ got \in Seq(Nat) /\ Len(<<>>) = 0 /\ Len(got) \in Nat
  OBVIOUS
<1>3. q.frame = p.frame /\ q.pos = p.pos
  BY <1>2 DEF Fill, Packet
<1> HIDE DEF p, got, f
<1>4. q.buf = SubSeq(p.buf, 1, p.pos) \o got
  <2>1. Len(p.buf) = 0 /\ p.pos = 0
    BY <1>1, <1>2
  <2>2. p.pos <= Len(p.buf) /\ Len(p.buf) <= p.pos + Len(got)
    BY <1>2, <2>1
  <2>3. QED
    BY <1>2, <2>2, FillJoins
<1>5. SubSeq(<<>>, 1, 0) = <<>>
  OBVIOUS
<1>6. <<>> \o got = got
  BY <1>2, ConcatEmptySeq
<1>7. q.buf = got
  BY <1>1, <1>4, <1>5, <1>6
<1> HIDE DEF q
<1>8. HasLength(q, m)
  BY <1>1, <1>3, <1>7 DEF HasLength, f
<1>9. QED
  BY <1>1, <1>3, <1>8 DEF q, p, got

LEMMA BodyComes ==
    ASSUME NEW j \in Job, NEW m, WholeBody(j, m), j.pkt \in Packet,
           j.tmp \in Seq(Nat), Len(j.tmp) = j.n
    PROVE  Whole(Fill(j.pkt, j.tmp))
<1> DEFINE p == j.pkt
           got == j.tmp
           q == Fill(p, got)
           f == p.frame
           s == Start[f]
           k == Frames[f]
<1>1. /\ f \in 1..Len(Frames) /\ p.pos = PrefixSize
      /\ p.buf = Bytes(PrefixSize, s)
      /\ got = Bytes(k, s + PrefixSize) /\ Len(got) = k
  BY DEF WholeBody, Incoming
<1>2. p \in Packet /\ got \in Seq(Nat) /\ p.buf \in Seq(Nat)
  BY DEF Packet
<1>3. q.frame = f
  BY <1>2 DEF Fill, Packet
<1>4. /\ s \in Nat /\ k \in Nat /\ PrefixSize \in Nat
      /\ FrameBytes(f) = Bytes(PrefixSize + k, s)
  BY <1>1, FrameParts
<1> HIDE DEF p, got, f, s, k
<1>5. Len(p.buf) = PrefixSize
  <2>1. Len(Bytes(PrefixSize, s)) = PrefixSize
    BY <1>4, BytesSeq
  <2>2. QED
    BY <1>1, <2>1
<1>6. q.buf = SubSeq(p.buf, 1, p.pos) \o got
  <2>1. p.pos <= Len(p.buf) /\ Len(p.buf) <= p.pos + Len(got)
    BY <1>1, <1>4, <1>5
  <2>2. QED
    BY <1>2, <2>1, FillJoins
<1>7. SubSeq(p.buf, 1, p.pos) = p.buf
  BY <1>1, <1>2, <1>5
<1>8. q.buf = Bytes(PrefixSize, s) \o Bytes(k, s + PrefixSize)
  BY <1>1, <1>6, <1>7
<1>9. q.buf = FrameBytes(f)
  BY <1>4, <1>8, BytesJoin
<1> HIDE DEF q
<1>10. Whole(q)
  BY <1>3, <1>9 DEF Whole, IsFrame
<1>11. QED
  BY <1>10 DEF q, p, got

\* k bytes of the stream come to the thread that is alone in a CanRead.
LEMMA MoreWhole ==
    ASSUME Sound, NEW t \in Threads, NEW m \in Nat, WholeJob(job[t], m),
           job[t].stage \in Wanting, NEW k \in Nat,
           NEW got, got = job[t].tmp \o Bytes(k, m)
    PROVE  WholeJob([job[t] EXCEPT !.tmp = got], m + k)
<1> DEFINE j == [job[t] EXCEPT !.tmp = got]
           p == job[t].pkt
           tmp == job[t].tmp
<1>1. job[t] \in Job /\ tmp \in Seq(Nat)
  BY JobGood
<1>2. j.stage = job[t].stage /\ j.pkt = p /\ j.n = job[t].n /\ j.tmp = got
  BY <1>1 DEF Job
<1>3. got = tmp \o Bytes(k, m)
  OBVIOUS
<1> HIDE DEF j, tmp
<1>4. ASSUME NEW s \in Nat, Incoming(tmp, s, m) PROVE Incoming(got, s, m + k)
  BY <1>1, <1>3, <1>4, IncomingMore
<1>5. ASSUME job[t].stage = "prefix", Framed(p) PROVE WholePrefix(j, m + k)
  <2>1. WholePrefix(job[t], m)
    BY <1>5 DEF WholeJob
  <2>2. Incoming(tmp, Start[p.frame], m) /\ p.frame \in 1..Len(Frames)
    BY <2>1 DEF WholePrefix, tmp
  <2>3. Start[p.frame] \in Nat
    BY <2>2, FrameParts
  <2>4. Incoming(got, Start[p.frame], m + k)
    BY <1>4, <2>2, <2>3
  <2>5. QED
    BY <1>2, <2>1, <2>4 DEF WholePrefix
<1>6. ASSUME job[t].stage = "body", Framed(p) PROVE WholeBody(j, m + k)
  <2>1. WholeBody(job[t], m)
    BY <1>6 DEF WholeJob
  <2>2. Incoming(tmp, Start[p.frame] + PrefixSize, m)
        /\ p.frame \in 1..Len(Frames)
    BY <2>1 DEF WholeBody, tmp
  <2>3. Start[p.frame] \in Nat /\ PrefixSize \in Nat
    BY <2>2, FrameParts
  <2>4. Start[p.frame] + PrefixSize \in Nat
    BY <2>3
  <2>5. Incoming(got, Start[p.frame] + PrefixSize, m + k)
    BY <1>4, <2>2, <2>4
  <2>6. QED
    BY <1>2, <2>1, <2>5 DEF WholeBody
<1>7. WholeJob(j, m + k)
  BY <1>2, <1>5, <1>6 DEF WholeJob, Wanting
<1>8. QED
  BY <1>7 DEF j

LEMMA TmpWhole ==
    ASSUME Sound, NEW t \in Threads, NEW m, WholeBut(t, m), AloneWith(t),
           NEW got, WholeJob([job[t] EXCEPT !.tmp = got], m),
           job' = [job EXCEPT ![t].tmp = got], UNCHANGED <<results, held>>
    PROVE  AllWhole(job', results', held', m)
<1> DEFINE j == [job[t] EXCEPT !.tmp = got]
<1>1. job' = [job EXCEPT ![t] = j]
  BY DEF Sound
<1>2. WholeJob(j, m)
  OBVIOUS
<1> HIDE DEF j
<1>3. WholeRest(results', held')
  BY DEF WholeBut
<1>4. QED
  BY <1>1, <1>2, <1>3, JobWhole

LEMMA RecvWhole ==
    ASSUME WholeInv, ~overlap, ~overlap', NEW t \in Threads, NEW k \in Nat,
           Recv(t, k)
    PROVE  AllWhole(job', results', held', next')
<1> DEFINE got == job[t].tmp \o Bytes(k, next)
           m == next + k
           j == [job[t] EXCEPT !.tmp = got]
           p == job[t].pkt
           q == Fill(p, got)
<1>1. /\ job[t].stage \in {"prefix", "body", "read", "scan"}
      /\ next' = m
      /\ \/ Len(got) = job[t].n /\ Succeed(t, q)
         \/ /\ job' = [job EXCEPT ![t].tmp = got]
            /\ UNCHANGED <<results, held, overlap>>
  BY DEF Recv, Bytes
<1>2. job[t].stage \in Wanting
  BY <1>1 DEF Wanting
<1>3. /\ Sound /\ next \in Nat
      /\ WholeBut(t, next) /\ WholeJob(job[t], next) /\ AloneWith(t)
  BY <1>2, WholeParts
<1>4. WholeBut(t, m)
  BY <1>3, WholeButLater
<1>5. WholeJob(j, m)
  BY <1>2, <1>3, MoreWhole
<1>6. /\ job[t] \in Job /\ job[t].tmp \in Seq(Nat) /\ p \in Packet
      /\ job[t].stage = "prefix" => job[t].n = PrefixSize
  BY <1>1, <1>3, JobGood DEF Good
<1>7. got \in Seq(Nat)
  <2> DEFINE tmp == job[t].tmp
             s == Bytes(k, next)
  <2>1. tmp \in Seq(Nat) /\ s \in Seq(Nat)
    BY <1>3, <1>6, BytesSeq
  <2> HIDE DEF tmp, s
  <2>2. tmp \o s \in Seq(Nat)
    BY <2>1, ConcatProperties
  <2>3. QED
    BY <2>2 DEF tmp, s
<1> HIDE DEF got
<1>8. /\ j \in Job /\ j.stage = job[t].stage /\ j.pkt = p /\ j.n = job[t].n
      /\ j.tmp = got
  BY <1>6, <1>7 DEF Job
<1>9. q \in Packet /\ q.frame = p.frame /\ q.short = p.short
  <2>1. q \in Packet
    BY <1>6, <1>7, FillGoesAhead DEF Ahead
  <2>2. QED
    BY <1>6, <2>1 DEF Fill, Packet
<1> HIDE DEF m, j
<1>10. ASSUME Len(got) = job[t].n, Succeed(t, q)
       PROVE  AllWhole(job', results', held', m)
  <2>1. ASSUME job[t].stage = "prefix", Framed(q)
        PROVE  HasLength(q, m) /\ q.pos = 0
    <3>1. Framed(p)
      BY <1>9, <2>1 DEF Framed
    <3>2. WholePrefix(j, m)
      BY <1>5, <1>8, <2>1, <3>1 DEF WholeJob
    <3> HIDE DEF q, p
    <3>3. HasLength(Fill(p, got), m) /\ Fill(p, got).pos = 0
      <4>1. j.pkt \in Packet /\ j.tmp \in Seq(Nat) /\ Len(j.tmp) = PrefixSize
        BY <1>6, <1>7, <1>8, <1>10, <2>1
      <4>2. HasLength(Fill(j.pkt, j.tmp), m) /\ Fill(j.pkt, j.tmp).pos = 0
        BY <1>8, <3>2, <4>1, PrefixComes
      <4>3. QED
        BY <1>8, <4>2
    <3>4. QED
      BY <3>3 DEF q
  <2>2. ASSUME job[t].stage # "prefix"
        PROVE  Whole(q)
    <3>1. CASE ~Framed(q)
      BY <3>1, UnframedIsWhole
    <3>2. CASE Framed(q)
      <4>1. Framed(p)
        BY <1>9, <3>2 DEF Framed
      <4>2. job[t].stage = "body"
        BY <1>1, <1>3, <2>2, <4>1 DEF WholeJob, Framed
      <4>3. WholeBody(j, m)
        BY <1>5, <1>8, <4>1, <4>2 DEF WholeJob
      <4> HIDE DEF q, p
      <4>4. j.pkt \in Packet /\ j.tmp \in Seq(Nat) /\ Len(j.tmp) = j.n
        BY <1>6, <1>7, <1>8, <1>10
      <4>5. Whole(Fill(j.pkt, j.tmp))
        BY <1>8, <4>3, <4>4, BodyComes
      <4>6. QED
        BY <1>8, <4>5 DEF q
    <3>3. QED
      BY <3>1, <3>2
  <2> HIDE DEF q
  <2>3. QED
    BY <1>3, <1>4, <1>9, <1>10, <2>1, <2>2, SucceedWhole
<1>11. ASSUME job' = [job EXCEPT ![t].tmp = got], UNCHANGED <<results, held>>
       PROVE  AllWhole(job', results', held', m)
  BY <1>3, <1>4, <1>5, <1>11, TmpWhole DEF j
<1>12. QED
  BY <1>1, <1>10, <1>11

LEMMA RecvByteWhole ==
    ASSUME WholeInv, ~overlap, ~overlap', NEW t \in Threads, NEW found,
           RecvByte(t, found)
    PROVE  AllWhole(job', results', held', next')
<1> DEFINE got == Append(job[t].tmp, next)
           m == next + 1
           j == [job[t] EXCEPT !.tmp = got]
           p == job[t].pkt
           q == Fill(p, got)
<1>1. /\ job[t].stage = "until" /\ next' = m
      /\ \/ Deliver(t, q)
         \/ /\ job' = [job EXCEPT ![t].tmp = got]
            /\ UNCHANGED <<results, held, overlap>>
  BY DEF RecvByte
<1>2. job[t].stage \in Wanting
  BY <1>1 DEF Wanting
<1>3. /\ Sound /\ WholeBut(t, next) /\ WholeJob(job[t], next) /\ AloneWith(t)
  BY <1>2, WholeParts
<1>4. WholeBut(t, m)
  BY <1>3, WholeButLater
<1>5. job[t] \in Job /\ p \in Packet /\ p.frame = 0
  BY <1>1, <1>3, JobGood DEF Good, WholeJob
<1> HIDE DEF got, m
<1>6. q.frame = 0
  BY <1>5 DEF Fill, Packet
<1>7. Whole(q)
  BY <1>6, UnframedIsWhole DEF Framed
<1>8. j.stage = "until" /\ j.pkt = p
  BY <1>1, <1>5 DEF Job
<1>9. WholeJob(j, m)
  BY <1>5, <1>8 DEF WholeJob
<1> HIDE DEF q
<1>10. CASE Deliver(t, q)
  BY <1>1, <1>3, <1>4, <1>7, <1>10, DeliverWhole
<1>11. CASE job' = [job EXCEPT ![t].tmp = got] /\ UNCHANGED <<results, held>>
  BY <1>1, <1>3, <1>4, <1>9, <1>11, TmpWhole
<1>12. QED
  BY <1>1, <1>10, <1>11

LEMMA RecvEndWhole ==
    ASSUME WholeInv, ~overlap, ~overlap', NEW t \in Threads, RecvEnd(t)
    PROVE  AllWhole(job', results', held', next)
<1> DEFINE p == job[t].pkt
           q == [Fill(p, job[t].tmp) EXCEPT !.short = TRUE]
<1>1. Sound /\ WholeBut(t, next) /\ WholeJob(job[t], next)
  BY WholeParts
<1>2. /\ job[t].stage \in {"prefix", "body", "read", "scan"}
      /\ GiveUp(t) \/ Succeed(t, q)
  BY DEF RecvEnd
<1>3. p \in Packet /\ job[t].tmp \in Seq(Nat)
  BY <1>1, <1>2, JobGood DEF Good
<1>4. q \in Packet /\ q.short
  <2>1. Fill(p, job[t].tmp) \in Packet
    BY <1>3, FillGoesAhead DEF Ahead
  <2>2. QED
    BY <2>1 DEF Packet
<1> HIDE DEF q
<1>5. ~Framed(q) /\ Whole(q)
  BY <1>4, UnframedIsWhole DEF Framed
<1>6. CASE GiveUp(t)
  BY <1>1, <1>6, GiveUpWhole
<1>7. CASE Succeed(t, q)
  BY <1>1, <1>4, <1>5, <1>7, SucceedWhole
<1>8. QED
  BY <1>2, <1>6, <1>7

LEMMA NewIsWhole ==
    NewPacket.frame = 0 /\ Whole(NewPacket) /\ ~Framed(NewPacket)
<1>1. NewPacket.frame = 0
  BY DEF NewPacket
<1>2. QED
  BY <1>1, UnframedIsWhole DEF Framed

LEMMA ReceiveWhole ==
    ASSUME WholeInv, ~overlap, ~overlap', NEW t \in Threads,
           NEW req \in Request, Receive(t, req)
    PROVE  AllWhole(job', results', held', next)
<1>1. Sound /\ next \in Nat /\ WholeBut(t, next)
  BY WholeParts
<1> DEFINE p == [NewPacket EXCEPT !.frame = NextFrame]
<1>2. CASE Want(t, "prefix", p, PrefixSize) /\ UNCHANGED <<results, held>>
  <2> DEFINE j == [stage |-> "prefix", pkt |-> p, n |-> PrefixSize,
                   tmp |-> <<>>]
  <2>1. p.frame = NextFrame /\ p.buf = <<>> /\ p.pos = 0
    BY DEF NewPacket
  <2> HIDE DEF p
  <2>2. j.stage = "prefix" /\ j.pkt = p /\ j.tmp = <<>>
    OBVIOUS
  <2> HIDE DEF j
  <2>3. ASSUME Framed(p) PROVE WholePrefix(j, next)
    <3>1. NextFrame # 0
      BY <2>1, <2>3 DEF Framed
    <3>2. NextFrame \in 1..Len(Frames) /\ Start[NextFrame] = next
      BY <3>1 DEF NextFrame
    <3>3. Len(<<>>) = 0 /\ next + 0 = next
      BY <1>1
    <3>4. Incoming(<<>>, next, next)
      BY <1>1, <3>3, NoBytes DEF Incoming
    <3>5. QED
      BY <2>1, <2>2, <3>2, <3>4 DEF WholePrefix
  <2>4. WholeJob(j, next)
    BY <2>2, <2>3 DEF WholeJob
  <2>5. QED
    BY <1>1, <1>2, <2>4, WantWhole DEF j
<1>3. CASE ReceiveBody(t, NewPacket, req.n)
  <2>1. req.n \in Int
    BY DEF Request
  <2>2. QED
    BY <1>1, <1>3, <2>1, NewIsWhole, ReceiveBodyWhole
<1>4. CASE Want(t, "until", NewPacket, req.n) /\ UNCHANGED <<results, held>>
  <2> DEFINE j == [stage |-> "until", pkt |-> NewPacket, n |-> req.n,
                   tmp |-> <<>>]
  <2>1. j.stage = "until" /\ j.pkt = NewPacket
    OBVIOUS
  <2> HIDE DEF j
  <2>2. WholeJob(j, next)
    BY <2>1, NewIsWhole DEF WholeJob
  <2>3. QED
    BY <1>1, <1>4, <2>2, WantWhole DEF j
<1> HIDE DEF p
<1>5. QED
  BY <1>2, <1>3, <1>4 DEF Receive, p

LEMMA StillWhole ==
    ASSUME WholeInv, ~overlap, UNCHANGED <<job, results, held>>
    PROVE  AllWhole(job', results', held', next)
BY DEF WholeInv

LEMMA HeldWhole ==
    ASSUME WholeInv, ~overlap, Whole(held'), UNCHANGED <<job, results>>
    PROVE  AllWhole(job', results', held', next)
BY DEF WholeInv, AllWhole, WholeRest

LEMMA ThinkWhole ==
    ASSUME WholeInv, ~overlap, Think
    PROVE  AllWhole(job', results', held', next)
<1>1. /\ results # <<>> /\ results' = Tail(results) /\ job' = job
      /\ held' = IF Head(results) = NoPacket THEN held ELSE Head(results)
  BY DEF Think
<1>2. results \in Seq(Good \union {NoPacket})
  BY DEF WholeInv, Inv, Sound
<1>3. /\ Head(results) = results[1] /\ 1 \in 1..Len(results)
      /\ \A i \in 1..Len(results') : results'[i] = results[i + 1]
                                     /\ i + 1 \in 1..Len(results)
  <2>1. Len(results) \in Nat \ {0}
    BY <1>1, <1>2, EmptySeq
  <2>2. Head(results) = results[1] /\ 1 \in 1..Len(results)
    BY <1>1, <1>2, <2>1
  <2>3. Len(Tail(results)) = Len(results) - 1
        /\ \A i \in 1..Len(Tail(results)) : Tail(results)[i] = results[i + 1]
    BY <1>1, <1>2, HeadTailProperties
  <2>4. QED
    BY <1>1, <2>1, <2>2, <2>3
<1>4. WholeRest(results, held)
  BY DEF WholeInv, AllWhole
<1>5. \A i \in 1..Len(results') : results'[i] # NoPacket => Whole(results'[i])
  BY <1>3, <1>4 DEF WholeRest
<1>6. held' # NoPacket => Whole(held')
  BY <1>1, <1>3, <1>4 DEF WholeRest
<1>7. WholeRest(results', held')
  BY <1>5, <1>6 DEF WholeRest
<1>8. QED
  BY <1>1, <1>7 DEF WholeInv, AllWhole

\* The Lua thread goes on to wait for bytes to read: no frame any more.
LEMMA LuaWantWhole ==
    ASSUME WholeInv, ~overlap, ~overlap', NEW stage \in {"read", "scan"},
           NEW p \in Packet, NEW n,
           Want(LuaThread, stage, [p EXCEPT !.frame = 0], n),
           UNCHANGED <<results, held>>
    PROVE  AllWhole(job', results', held', next)
<1> DEFINE q == [p EXCEPT !.frame = 0]
           j == [stage |-> stage, pkt |-> q, n |-> n, tmp |-> <<>>]
<1>1. Sound /\ LuaThread \in Threads /\ WholeBut(LuaThread, next)
  BY WholeParts, LuaIsThread
<1>2. q.frame = 0
  BY DEF Packet
<1>3. Want(LuaThread, stage, q, n)
  OBVIOUS
<1> HIDE DEF q
<1>4. j.stage = stage /\ j.pkt = q
  OBVIOUS
<1> HIDE DEF j
<1>5. WholeJob(j, next)
  BY <1>2, <1>4 DEF WholeJob
<1>6. QED
  BY <1>1, <1>3, <1>5, WantWhole DEF j

\* It returns with the packet, at another position.
LEMMA LuaDeliverWhole ==
    ASSUME WholeInv, ~overlap, NEW p \in Packet, Whole(p), NEW n,
           Deliver(LuaThread, [p EXCEPT !.pos = n])
    PROVE  AllWhole(job', results', held', next)
<1> DEFINE q == [p EXCEPT !.pos = n]
<1>1. Sound /\ LuaThread \in Threads /\ WholeBut(LuaThread, next)
  BY WholeParts, LuaIsThread
<1>2. q.buf = p.buf /\ q.short = p.short /\ q.frame = p.frame
  BY DEF Packet
<1>3. Deliver(LuaThread, q)
  OBVIOUS
<1> HIDE DEF q
<1>4. Whole(q)
  BY <1>2, MovedIsWhole
<1>5. QED
  BY <1>1, <1>3, <1>4, DeliverWhole

\* What the script reads.
LEMMA HeldIsWhole ==
    ASSUME WholeInv, ~overlap, Reading
    PROVE  held \in Packet /\ Whole(held)
BY DEF WholeInv, Inv, Sound, Good, Reading, AllWhole, WholeRest

LEMMA ReadWhole ==
    ASSUME WholeInv, ~overlap, ~overlap', NEW n \in ReadSizes, Read(n)
    PROVE  AllWhole(job', results', held', next)
<1>1. held \in Packet /\ Whole(held)
  BY HeldIsWhole DEF Read
<1>2. CASE Deliver(LuaThread, [held EXCEPT !.pos = @ + n])
  <2>1. Deliver(LuaThread, [held EXCEPT !.pos = held.pos + n])
    BY <1>2
  <2>2. QED
    BY <1>1, <2>1, LuaDeliverWhole
<1>3. CASE /\ Want(LuaThread, "read", [held EXCEPT !.frame = 0], n)
           /\ UNCHANGED <<results, held>>
  BY <1>1, <1>3, LuaWantWhole
<1>4. QED
  BY <1>2, <1>3 DEF Read

LEMMA ReadStringAllWhole ==
    ASSUME WholeInv, ~overlap, ReadStringAll
    PROVE  AllWhole(job', results', held', next)
BY HeldIsWhole, LuaDeliverWhole DEF ReadStringAll

\* A job that looks for an end only has its packet.
LEMMA SeekJobWhole ==
    ASSUME WholeInv, ~overlap, NEW j, j.stage = "seek", Whole(j.pkt),
           job' = [job EXCEPT ![LuaThread] = j], UNCHANGED <<results, held>>
    PROVE  AllWhole(job', results', held', next)
<1>1. Sound /\ LuaThread \in Threads /\ WholeBut(LuaThread, next)
  BY WholeParts, LuaIsThread
<1>2. WholeJob(j, next) /\ j.stage \notin Wanting
  BY DEF WholeJob, Wanting
<1>3. WholeRest(results', held')
  BY <1>1 DEF WholeBut
<1>4. QED
  BY <1>1, <1>2, <1>3, JobWhole

LEMMA SeekWhole ==
    ASSUME WholeInv, ~overlap, NEW n \in ReadSizes, Seek(n)
    PROVE  AllWhole(job', results', held', next)
<1> DEFINE j == [stage |-> "seek", pkt |-> held, n |-> n, tmp |-> <<>>]
<1>1. Whole(held)
  BY HeldIsWhole DEF Seek
<1>2. job' = [job EXCEPT ![LuaThread] = j] /\ UNCHANGED <<results, held>>
  BY DEF Seek
<1>3. j.stage = "seek" /\ j.pkt = held
  OBVIOUS
<1> HIDE DEF j
<1>4. QED
  BY <1>1, <1>2, <1>3, SeekJobWhole

LEMMA SeekTurnWhole ==
    ASSUME WholeInv, ~overlap, ~overlap', SeekTurn
    PROVE  AllWhole(job', results', held', next)
<1> DEFINE p == job[LuaThread].pkt
           n == job[LuaThread].n
           past == [p EXCEPT !.pos = @ + 1]
           j == [job[LuaThread] EXCEPT !.pkt = past]
<1>1. /\ Sound /\ LuaThread \in Threads /\ WholeBut(LuaThread, next)
      /\ WholeJob(job[LuaThread], next)
  BY WholeParts, LuaIsThread
<1>2. job[LuaThread].stage = "seek"
  BY DEF SeekTurn
<1>3. p \in Packet /\ job[LuaThread] \in Job /\ Whole(p)
  BY <1>1, <1>2, JobGood DEF Good, WholeJob
<1>4. past = [p EXCEPT !.pos = p.pos + 1]
  BY <1>3 DEF Packet
<1>5. /\ past.buf = p.buf /\ past.short = p.short /\ past.frame = p.frame
      /\ j.stage = "seek" /\ j.pkt = past
  BY <1>2, <1>3 DEF Packet, Job
<1>6. \/ Deliver(LuaThread, p)
      \/ Deliver(LuaThread, past)
      \/ /\ job' = [job EXCEPT ![LuaThread].pkt = past]
         /\ UNCHANGED <<results, held>>
      \/ /\ Want(LuaThread, "scan", [p EXCEPT !.frame = 0], n)
         /\ UNCHANGED <<results, held>>
  BY DEF SeekTurn
<1>7. ASSUME job' = [job EXCEPT ![LuaThread].pkt = past]
      PROVE  job' = [job EXCEPT ![LuaThread] = j]
  BY <1>1, <1>7 DEF Sound
<1> HIDE DEF p, n, past, j
<1>8. Whole(past)
  BY <1>3, <1>5, MovedIsWhole
<1>9. CASE Deliver(LuaThread, p)
  BY <1>1, <1>3, <1>9, DeliverWhole
<1>10. CASE Deliver(LuaThread, past)
  BY <1>1, <1>8, <1>10, DeliverWhole
<1>11. CASE /\ job' = [job EXCEPT ![LuaThread].pkt = past]
            /\ UNCHANGED <<results, held>>
  BY <1>5, <1>7, <1>8, <1>11, SeekJobWhole
<1>12. CASE /\ Want(LuaThread, "scan", [p EXCEPT !.frame = 0], n)
            /\ UNCHANGED <<results, held>>
  BY <1>3, <1>12, LuaWantWhole
<1>13. QED
  BY <1>6, <1>9, <1>10, <1>11, <1>12

\* Two threads in a CanRead at the same time are never forgotten.
LEMMA OverlapStays ==
    ASSUME overlap \in BOOLEAN, overlap, [Next]_vars
    PROVE  overlap'
<1>1. ASSUME NEW t, NEW p, NEW n, ReceiveBody(t, p, n) PROVE overlap'
  BY <1>1 DEF ReceiveBody, Fail, Deliver, Leave, Want
<1>2. ASSUME NEW t, NEW p, Succeed(t, p) PROVE overlap'
  BY <1>1, <1>2 DEF Succeed, ReceiveLength, Deliver, Leave
<1>3. ASSUME NEW t, GiveUp(t) PROVE overlap'
  BY <1>1, <1>3 DEF GiveUp, Fail, Deliver, Leave
<1>4. ASSUME NEW t, NEW req, Receive(t, req) PROVE overlap'
  BY <1>1, <1>4 DEF Receive, Want
<1>5. ASSUME NEW t, Thread(t) PROVE overlap'
  <2>1. ASSUME NEW k, Recv(t, k) PROVE overlap'
    BY <1>2, <2>1 DEF Recv
  <2>2. ASSUME RecvEnd(t) PROVE overlap'
    BY <1>2, <1>3, <2>2 DEF RecvEnd
  <2>3. ASSUME NEW found, RecvByte(t, found) PROVE overlap'
    BY <2>3 DEF RecvByte, Deliver, Leave
  <2>4. ASSUME UntilEnd(t) PROVE overlap'
    BY <1>3, <2>4 DEF UntilEnd
  <2>5. QED
    BY <1>5, <2>1, <2>2, <2>3, <2>4 DEF Thread
<1>6. ASSUME NEW w, WorkerTake(w) PROVE overlap'
  BY <1>4, <1>6 DEF WorkerTake
<1>7. ASSUME Lua PROVE overlap'
  <2>1. ASSUME NEW req, LuaReceive(req) PROVE overlap'
    BY <1>4, <2>1 DEF LuaReceive
  <2>2. ASSUME NEW n, Read(n) \/ Seek(n) PROVE overlap'
    BY <2>2 DEF Read, Seek, Deliver, Leave, Want
  <2>3. ASSUME ReadStringAll \/ SeekTurn PROVE overlap'
    BY <2>3 DEF ReadStringAll, SeekTurn, Deliver, Leave, Want
  <2>4. ASSUME SetCallbackReceive \/ Think \/ CreatePacket \/ Clear
        PROVE  overlap'
    BY <2>4 DEF SetCallbackReceive, Think, CreatePacket, Clear
  <2>5. QED
    BY <1>7, <2>1, <2>2, <2>3, <2>4 DEF Lua
<1>8. CASE UNCHANGED vars
  BY <1>8 DEF vars
<1>9. QED
  BY <1>5, <1>6, <1>7, <1>8 DEF Next

LEMMA NextWhole ==
    ASSUME WholeInv, [Next]_vars
    PROVE  WholeInv'
<1>1. Inv' /\ overlap \in BOOLEAN
  BY NextInv DEF WholeInv, Inv, Sound
<1> DEFINE Goal == AllWhole(job', results', held', next')
<1> SUFFICES ASSUME ~overlap' PROVE Goal
  BY <1>1 DEF WholeInv
<1>2. ~overlap
  BY <1>1, OverlapStays
<1>3. ASSUME next' = next, AllWhole(job', results', held', next) PROVE Goal
  BY <1>3
<1>4. ASSUME SetCallbackReceive PROVE Goal
  BY <1>2, <1>3, <1>4, StillWhole DEF SetCallbackReceive
<1>5. ASSUME NEW req \in Requests, LuaReceive(req) PROVE Goal
  <2>1. req \in Request /\ next' = next
    BY <1>5, ReaderAssumption DEF LuaReceive
  <2>2. CASE UNCHANGED <<job, results, held>>
    BY <1>2, <1>3, <2>1, <2>2, StillWhole
  <2>3. CASE Receive(LuaThread, req)
    BY <1>2, <1>3, <2>1, <2>3, LuaIsThread, ReceiveWhole
  <2>4. QED
    BY <1>5, <2>2, <2>3 DEF LuaReceive
<1>6. ASSUME Think PROVE Goal
  <2>1. next' = next
    BY <1>6 DEF Think
  <2>2. QED
    BY <1>2, <1>3, <1>6, <2>1, ThinkWhole
<1>7. ASSUME CreatePacket \/ Clear PROVE Goal
  <2>1. held' = NewPacket /\ UNCHANGED <<next, job, results>>
    BY <1>7 DEF CreatePacket, Clear
  <2>2. QED
    BY <1>2, <1>3, <2>1, NewIsWhole, HeldWhole
<1>8. ASSUME NEW n \in ReadSizes, Read(n) \/ Seek(n) PROVE Goal
  <2>1. next' = next
    BY <1>8 DEF Read, Seek, Script
  <2>2. QED
    BY <1>2, <1>3, <1>8, <2>1, ReadWhole, SeekWhole
<1>9. ASSUME ReadStringAll \/ SeekTurn PROVE Goal
  <2>1. next' = next
    BY <1>9 DEF ReadStringAll, SeekTurn, Script
  <2>2. QED
    BY <1>2, <1>3, <1>9, <2>1, ReadStringAllWhole, SeekTurnWhole
<1>10. ASSUME NEW w \in Workers, WorkerTake(w) PROVE Goal
  <2>1. Head(todo) \in Request
    BY <1>10, HeadTailProperties DEF WholeInv, Inv, WorkerTake
  <2>2. w \in Threads /\ next' = next /\ Receive(w, Head(todo))
    BY <1>10 DEF Threads, WorkerTake
  <2>3. QED
    BY <1>2, <1>3, <2>1, <2>2, ReceiveWhole
<1>11. ASSUME NEW t \in Threads, Thread(t) PROVE Goal
  <2>1. 1..job[t].n \subseteq Nat
    BY JobGood DEF WholeInv, Inv
  <2>2. ASSUME RecvEnd(t) PROVE Goal
    <3>1. next' = next
      BY <2>2 DEF RecvEnd
    <3>2. QED
      BY <1>2, <1>3, <2>2, <3>1, RecvEndWhole
  <2>3. ASSUME UntilEnd(t) PROVE Goal
    <3>1. next' = next /\ GiveUp(t)
      BY <2>3 DEF UntilEnd
    <3>2. QED
      BY <1>2, <1>3, <3>1, WholeParts, GiveUpWhole
  <2> HIDE DEF Goal
  <2>4. ASSUME NEW k \in Nat, Recv(t, k) PROVE Goal
    BY <1>2, <2>4, RecvWhole DEF Goal
  <2>5. ASSUME NEW found, RecvByte(t, found) PROVE Goal
    BY <1>2, <2>5, RecvByteWhole DEF Goal
  <2>6. QED
    BY <1>11, <2>1, <2>2, <2>3, <2>4, <2>5 DEF Thread
<1>12. ASSUME UNCHANGED vars PROVE Goal
  BY <1>2, <1>3, <1>12, StillWhole DEF vars
<1> HIDE DEF Goal
<1>13. QED
  BY <1>4, <1>5, <1>6, <1>7, <1>8, <1>9, <1>10, <1>11, <1>12
     DEF Next, Lua

LEMMA InitWhole == Init => WholeInv
<1> SUFFICES ASSUME Init PROVE WholeInv
  OBVIOUS
<1>1. Inv
  BY InitInv
<1>2. \A t \in Threads : WholeJob(job[t], next) /\ job[t].stage \notin Wanting
  BY NoJobWhole DEF Init
<1>3. WholeRest(results, held)
  BY EmptySeq DEF Init, WholeRest
<1>4. QED
  BY <1>1, <1>2, <1>3 DEF WholeInv, AllWhole, Alone

\* A Receive without a length that starts where a frame starts returns that
\* frame, all of it and nothing else, however recv cuts the stream, unless
\* another thread was receiving too or recv ended early.
THEOREM PacketInFrames == Spec => []FrameReceived
<1>1. Init => WholeInv
  BY InitWhole
<1>2. WholeInv /\ [Next]_vars => WholeInv'
  BY NextWhole
<1>3. WholeInv => FrameReceived
  BY WholeGives
<1>4. QED
  BY <1>1, <1>2, <1>3, PTL DEF Spec
=============================================================================
