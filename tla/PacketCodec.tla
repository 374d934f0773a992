---------------------------- MODULE PacketCodec ----------------------------
(***************************************************************************)
(* What the bytes of a gm_bromsock packet say: a script writes numbers and  *)
(* strings, packs packets into each other and sends one, and the script at  *)
(* the other end reads the same formats in the same order.                  *)
(*                                                                         *)
(* How the buffers grow is PacketOut, how the bytes travel is PacketIn;     *)
(* here they arrive, and nothing comes after them.  A value is a sequence:  *)
(* the bytes of a string, or the one number.                                *)
(***************************************************************************)
EXTENDS Integers, Sequences, SequencesExt, FiniteSetsExt

CONSTANTS
    Packets,        \* the packets of the script that writes
    Base,           \* the values of a byte (256)
    CR, LF,         \* the bytes that end a line
    Size,           \* the bytes of a number of each format (1, 2, 4 or 8)
    Signed,         \* the formats whose numbers may be negative
    LocalOut,       \* the byte order of the machine that writes: 1 or 2,
    LocalIn,        \* and of the one that reads
    EndianTypes,    \* what is given to SetEndian: 0 system, 1 big, 2 little
    Numbers,        \* the numbers the script writes
    Strings,        \* the strings it writes
    MaxValues       \* bound: values in the packets of the writer

ASSUME ByteAssumption ==
    /\ Base \in Nat /\ Base % 2 = 0 /\ {CR, LF} \subseteq 1..Base - 1
    /\ CR # LF
ASSUME FormatAssumption ==
    /\ Size \in [DOMAIN Size -> Nat \ {0}]
    /\ DOMAIN Size \intersect {"string", "ntstring", "raw", "line"} = {}
    /\ {"sbyte", "short"} \subseteq DOMAIN Size
    /\ Size["sbyte"] = 1 /\ "sbyte" \notin Signed /\ "short" \in Signed
ASSUME EndianAssumption ==
    {LocalOut, LocalIn} \subseteq {1, 2} /\ EndianTypes \subseteq 0..2
ASSUME ScriptAssumption ==
    /\ Numbers \subseteq Int /\ Strings \subseteq Seq(0..Base - 1)
    /\ MaxValues \in Nat

VARIABLES
    endian,     \* of each packet: EndianType
    bytes,      \* of each packet: the out buffer up to OutPos
    wrote,      \* history: the values in it, how and in what byte order
    in,         \* the packet that was received: InBuffer, InPos, EndianType
    sent,       \* history: the values in that packet
    got,        \* history: what the reader got for them, and how
    stage       \* the script writes, reads, or does what C++ leaves undefined

vars == <<endian, bytes, wrote, in, sent, got, stage>>

NumberFormats == DOMAIN Size
Value == Seq(Int)
Item == [format : NumberFormats \union {"string", "ntstring", "raw", "line"},
         value : Value, order : {1, 2}]
Got == [value : Value, order : {1, 2}]

Init ==
    /\ endian = [p \in Packets |-> 0]
    /\ bytes = [p \in Packets |-> <<>>]
    /\ wrote = [p \in Packets |-> <<>>]
    /\ in = [buf |-> <<>>, pos |-> 0, endian |-> 0]
    /\ sent = <<>> /\ got = <<>>
    /\ stage = "write"

-----------------------------------------------------------------------------
(* Numbers.                                                                 *)

\* Mutant: every number is swapped that has an EndianType.
OrderAlwaysSwaps(type, local) == IF type = 0 THEN local ELSE 3 - local

\* The order in which a number is in the buffer: 1 for the highest byte first.
Order(type, local) == IF type \in {0, local} THEN local ELSE 3 - local

\* The order that an EndianType stands for.
Meant(type, local) == IF type = 0 THEN local ELSE type

InOrder(s, order) == IF order = 1 THEN Reverse(s) ELSE s

\* How many numbers n bytes have.
Power[n \in Nat] == IF n = 0 THEN 1 ELSE Base * Power[n - 1]

\* The n bytes of a number.
Encode(v, n, order) ==
    InOrder([i \in 1..n |-> (v \div Power[i - 1]) % Base], order)

\* The numbers of the highest bytes of b, which has the lowest first.
High(b) ==
    LET high[i \in 0..Len(b)] ==
          IF i = 0 THEN 0 ELSE b[Len(b) + 1 - i] + Base * high[i - 1]
    IN  high

\* The number of the bytes s.
Unsigned(s, order) == High(InOrder(s, order))[Len(s)]

\* Mutant: the bytes are taken for an unsigned number.
DecodeUnsigned(f, s, order) == Unsigned(s, order)

Decode(f, s, order) ==
    LET u == Unsigned(s, order)
        range == Power[Size[f]] IN
    IF f \in Signed /\ u >= range \div 2 THEN u - range ELSE u

\* WriteSByte and ReadSByte move the range, they do not convert.
Offset(f) == IF f = "sbyte" THEN Base \div 2 ELSE 0

\* The numbers a script may write: C++ leaves the conversion of others open.
Fits(f, v) ==
    LET range == Power[Size[f]] IN
    IF f \in Signed THEN v \in -(range \div 2)..range \div 2 - 1
                    ELSE v + Offset(f) \in 0..range - 1

-----------------------------------------------------------------------------
(* Writing.                                                                 *)

OutOrder(p) == Order(endian[p], LocalOut)

\* A C string ends at its first zero.
CString(s) == LET zeros == {i \in 1..Len(s) : s[i] = 0}
              IN  IF zeros = {} THEN s ELSE SubSeq(s, 1, Min(zeros) - 1)

Put(p, s, items) ==
    /\ stage = "write"
    /\ MapThenSumSet(LAMBDA q : Len(wrote[q]), Packets) + Len(items)
          <= MaxValues
    /\ bytes' = [bytes EXCEPT ![p] = @ \o s]
    /\ wrote' = [wrote EXCEPT ![p] = @ \o items]
    /\ UNCHANGED <<endian, in, sent, got, stage>>

New(p, f, v) ==
    <<[format |-> f, value |-> v, order |-> Meant(endian[p], LocalOut)]>>

SetEndian(p, type) ==
    /\ stage = "write"
    /\ endian' = [endian EXCEPT ![p] = type]
    /\ UNCHANGED <<bytes, wrote, in, sent, got, stage>>

WriteNumber(p, f, v) ==
    /\ Fits(f, v)
    /\ Put(p, Encode(v + Offset(f), Size[f], OutOrder(p)), New(p, f, <<v>>))

\* The length of the string as a short, whatever fits of it.
WriteString(p, s) ==
    LET c == CString(s) IN
    Put(p, Encode(Len(c), Size["short"], OutOrder(p)) \o c, New(p, "string", s))

WriteStringNT(p, s) == Put(p, Append(CString(s), 0), New(p, "ntstring", s))

WriteStringRaw(p, s) == Put(p, s, New(p, "raw", s))

\* What ReadLine leaves of a line is read as bytes of their own.
WriteLine(p, s) ==
    Put(p, CString(s) \o <<CR, LF>>,
        New(p, "line", s) \o New(p, "raw", <<CR, LF>>))

\* WritePacket(q): nothing is done when q has no out buffer.
WritePacket(p, q) ==
    /\ p # q
    /\ wrote[q] # <<>>
    /\ Put(p, bytes[q], wrote[q])

\* The packet arrives as a new one, with the EndianType of the constructor.
\* The writer is done, and its packets are dropped.
Send(p) ==
    /\ stage = "write"
    /\ in' = [buf |-> bytes[p], pos |-> 0, endian |-> 0]
    /\ sent' = wrote[p]
    /\ stage' = "read"
    /\ endian' = [q \in Packets |-> 0]
    /\ bytes' = [q \in Packets |-> <<>>]
    /\ wrote' = [q \in Packets |-> <<>>]
    /\ UNCHANGED got

-----------------------------------------------------------------------------
(* Reading: the next value, by the function for its format.                 *)

Expected == sent[Len(got) + 1]
Expects(f) == stage = "read" /\ Len(got) < Len(sent) /\ Expected.format = f

Ahead == Len(in.buf) - in.pos
Coming(n) == SubSeq(in.buf, in.pos + 1, in.pos + n)
InNow == Order(in.endian, LocalIn)

\* The function returns v and has gone n bytes on.
Return(v, n) ==
    /\ got' = Append(got, [value |-> v, order |-> Meant(in.endian, LocalIn)])
    /\ in' = [in EXCEPT !.pos = @ + n]
    /\ UNCHANGED <<endian, bytes, wrote, sent, stage>>

\* A negative length is given to new, or a length to PushString that the array
\* does not have.
Undefined ==
    /\ stage' = "undefined"
    /\ UNCHANGED <<endian, bytes, wrote, in, sent, got>>

SetEndianIn(type) ==
    /\ stage = "read"
    /\ in' = [in EXCEPT !.endian = type]
    /\ UNCHANGED <<endian, bytes, wrote, sent, got, stage>>

\* A number that is not there is 0.
ReadNumber(f) ==
    LET n == Size[f] IN
    /\ Expects(f)
    /\ IF Ahead >= n
       THEN Return(<<Decode(f, Coming(n), InNow) - Offset(f)>>, n)
       ELSE Return(<<-Offset(f)>>, 0)

\* ReadString without a length reads one first.
ReadString ==
    LET short == Size["short"]
        n == IF Ahead >= short THEN short ELSE 0
        length == IF n = 0 THEN 0 ELSE Decode("short", Coming(n), InNow) IN
    /\ Expects("string")
    /\ \/ length < 0 /\ Undefined
       \/ length \in 0..Ahead - n /\ Return(CString(SubSeq(Coming(n + length),
                                              n + 1, n + length)), n + length)
       \/ length > Ahead - n /\ Return(<<>>, n)

\* ReadString(len), by a reader who knows how many bytes were written.
ReadBytes ==
    LET n == Len(Expected.value) IN
    /\ Expects("raw")
    /\ IF Ahead >= n THEN Return(Coming(n), n) ELSE Undefined

ReadStringAll ==
    /\ Expects("raw")
    /\ Len(got) + 1 = Len(sent)
    /\ Return(Coming(Ahead), Ahead)

\* Up to the zero and with it, or all there is.
ReadStringNT ==
    LET zeros == {i \in 1..Ahead : in.buf[in.pos + i] = 0}
        n == IF zeros = {} THEN Ahead ELSE Min(zeros) IN
    /\ Expects("ntstring")
    /\ Return(Coming(n), n)

\* Up to the end of the line and without it, or as far as two bytes are there.
ReadLine ==
    LET ends == {i \in 0..Ahead - 2 :
                   SubSeq(in.buf, in.pos + i + 1, in.pos + i + 2) = <<CR, LF>>}
        n == IF ends # {} THEN Min(ends) ELSE IF Ahead < 2 THEN 0 ELSE Ahead - 1 IN
    /\ Expects("line")
    /\ Return(Coming(n), n)

-----------------------------------------------------------------------------
Write(p) ==
    \/ \E type \in EndianTypes : SetEndian(p, type)
    \/ \E f \in NumberFormats, v \in Numbers : WriteNumber(p, f, v)
    \/ \E s \in Strings :
         \/ WriteString(p, s) \/ WriteStringNT(p, s)
         \/ WriteStringRaw(p, s) \/ WriteLine(p, s)
    \/ \E q \in Packets : WritePacket(p, q)

Read ==
    \/ \E type \in EndianTypes : SetEndianIn(type)
    \/ \E f \in NumberFormats : ReadNumber(f)
    \/ ReadString \/ ReadBytes \/ ReadStringAll \/ ReadStringNT \/ ReadLine

Next ==
    \/ \E p \in Packets : Write(p) \/ Send(p)
    \/ Read

Spec == Init /\ [][Next]_vars

-----------------------------------------------------------------------------
(* Properties.                                                              *)

\* Every variable has its type; whatever bytes a reader finds, a number that
\* it gets is one that its format has, and the position stays in the buffer.
TypeOK ==
    /\ endian \in [Packets -> EndianTypes \union {0}]
    /\ bytes \in [Packets -> Seq(0..Base - 1)]
    /\ wrote \in [Packets -> Seq(Item)]
    /\ in \in [buf : Seq(0..Base - 1), pos : Nat,
              endian : EndianTypes \union {0}]
    /\ in.pos <= Len(in.buf)
    /\ sent \in Seq(Item) /\ got \in Seq(Got)
    /\ Len(got) <= Len(sent)
    /\ \A i \in 1..Len(got) :
         sent[i].format \in NumberFormats => Fits(sent[i].format, got[i].value[1])
    /\ stage \in {"write", "read", "undefined"}

\* What a format can carry: more than one byte only in the order of the writer,
\* C strings without a zero, 15 bits of length, and lines without a line end.
Carries(item, order) ==
    LET s == item.value IN
    /\ \/ item.order = order
       \/ item.format \in NumberFormats /\ Size[item.format] = 1
       \/ item.format \in {"raw", "ntstring", "line"}
    /\ item.format \in {"string", "ntstring", "line"} => ~Contains(s, 0)
    /\ item.format = "string" => Len(s) < Power[Size["short"]] \div 2
    /\ item.format = "line" =>
         \A i \in 1..Len(s) - 1 : SubSeq(s, i, i + 1) # <<CR, LF>>

\* ReadStringNT returns the zero with the string.
AsRead(item) == IF item.format = "ntstring" THEN Append(item.value, 0)
                                            ELSE item.value

\* What the Read functions return is what the Write functions were given, value
\* by value, through packets packed into packets and changes of the byte order
\* between machines of either kind, up to the first value that its format does
\* not carry; and only after such a one does a reader get into what C++ leaves
\* undefined.
RoundTrip ==
    LET orders == Append([i \in 1..Len(got) |-> got[i].order],
                        Meant(in.endian, LocalIn))
        carried(n) == \A i \in 1..n : Carries(sent[i], orders[i]) IN
    /\ \A i \in 1..Len(got) : carried(i) => got[i].value = AsRead(sent[i])
    /\ stage = "undefined" => ~carried(Len(got) + 1)
=============================================================================
